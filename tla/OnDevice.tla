------------------------------- MODULE OnDevice -------------------------------
(***************************************************************************)
(* Agents on a device: the composition of ReAct, LocalCache and LlamaCpp   *)
(* that the executor stacks of genc/cc/examples/executors set up, run by   *)
(* the chain of genc/python/examples/math_tool_agent.py. The agents of a   *)
(* process share the context under default_key and the model; each run of  *)
(* an agent evicts the context, adds its question to it, and then at most  *)
(* num_steps times reads the context, asks the model, adds what the model  *)
(* thought, solves the math question and adds the observation.             *)
(*                                                                         *)
(* A message is one token of a prompt and a line one token of an answer.   *)
(* The tool (WolframAlpha) is external: it answers or it fails.            *)
(***************************************************************************)
EXTENDS ReAct, LocalCache, LlamaCpp

CONSTANTS
  num_steps,    \* num_iteration of the loop
  ConfigOf,     \* the model config in the chain of each agent
  MaxRuns       \* bound: runs of all agents together

ASSUME OnDeviceAssumption ==
  /\ Tokens \subseteq Lines
  /\ num_steps \in Nat \ {0}
  /\ ConfigOf \in [Callers -> Configs]
  /\ MaxRuns \in Nat

VARIABLES
  at,        \* of each agent: the operation of the chain that comes next
  state,     \* the value that goes down the chain
  i,         \* iterations of the loop so far
  alone,     \* history: no other agent ran since this one evicted
  runs       \* runs so far

agentVars == <<at, state, i, alone, runs>>
vars == <<agentVars, cacheVars, llamaVars>>

Places == {"idle", "evict", "question", "read", "model", "parse", "tool",
           "observation"}

Init ==
  /\ CacheInit
  /\ LlamaInit
  /\ at = [a \in Callers |-> "idle"]
  /\ state = [a \in Callers |-> <<>>]
  /\ i = [a \in Callers |-> 0]
  /\ alone = [a \in Callers |-> FALSE]
  /\ runs = 0

Running(a) == at[a] # "idle"
Others(a) == Callers \ {a}
Message(a, text) == [by |-> a, text |-> text]

Go(a, place, text) ==
  /\ at' = [at EXCEPT ![a] = place]
  /\ state' = [state EXCEPT ![a] = text]

Return(a) ==
  /\ Go(a, "idle", <<>>)
  /\ i' = [i EXCEPT ![a] = 0]
  /\ alone' = [alone EXCEPT ![a] = FALSE]

Run(a) ==
  /\ at[a] = "idle"
  /\ runs < MaxRuns
  /\ runs' = runs + 1
  /\ Go(a, "evict", <<"question">>)
  /\ alone' = [b \in Callers |-> b = a /\ \A c \in Others(a) : ~Running(c)]
  /\ UNCHANGED <<i, cacheVars, llamaVars>>

\* Plausible mistake: the context of an earlier run is left in place, as in
\* genc/cc/examples/math_tool_agent.cc, which has no evict_context.
KeepContext == UNCHANGED cacheVars

evict_context == LocalCacheRemove

Evict(a) ==
  /\ at[a] = "evict"
  /\ evict_context
  /\ Go(a, "question", state[a])
  /\ UNCHANGED <<i, alone, runs, llamaVars>>

AddQuestion(a) ==
  /\ at[a] = "question"
  /\ LocalCacheWrite(Message(a, state[a]))
  /\ Go(a, "read", state[a])
  /\ UNCHANGED <<i, alone, runs, llamaVars>>

\* The next iteration, unless it was the last one. What is read is the prompt.
ReadContext(a) ==
  /\ at[a] = "read"
  /\ i[a] < num_steps
  /\ i' = [i EXCEPT ![a] = @ + 1]
  /\ LlamaCall(a, ConfigOf[a], Len(LocalCacheRead))
  /\ Go(a, "model", state[a])
  /\ UNCHANGED <<alone, runs, cacheVars>>

LoopEnds(a) ==
  /\ at[a] = "read"
  /\ i[a] = num_steps
  /\ Return(a)
  /\ UNCHANGED <<runs, cacheVars, llamaVars>>

ModelStep(a) ==
  /\ at[a] = "model"
  /\ LlamaStep(a)
  /\ UNCHANGED <<agentVars, cacheVars>>

\* An error of the model fails the run.
ModelReturns(a) ==
  /\ at[a] = "model"
  /\ LlamaReturn(a)
  /\ IF answer[a].ok
     THEN /\ Go(a, "parse", ParseThoughtAction(answer[a].tokens))
          /\ UNCHANGED <<i, alone>>
     ELSE Return(a)
  /\ UNCHANGED <<runs, cacheVars>>

\* The regex that ends the loop comes before the text is added to the context.
Finish(a) ==
  /\ at[a] = "parse"
  /\ RegexPartialMatchFinish(state[a])
  /\ Return(a)
  /\ UNCHANGED <<runs, cacheVars, llamaVars>>

AddThought(a) ==
  /\ at[a] = "parse"
  /\ ~RegexPartialMatchFinish(state[a])
  /\ LocalCacheWrite(Message(a, state[a]))
  /\ Go(a, "tool", ExtractMathQuestion(state[a]))
  /\ UNCHANGED <<i, alone, runs, llamaVars>>

\* solve_math fails, which fails the run, or answers.
UseTool(a) ==
  /\ at[a] = "tool"
  /\ \/ Return(a)
     \/ /\ Go(a, "observation", FormatObservation(state[a]))
        /\ UNCHANGED <<i, alone>>
  /\ UNCHANGED <<runs, cacheVars, llamaVars>>

AddObservation(a) ==
  /\ at[a] = "observation"
  /\ LocalCacheWrite(Message(a, state[a]))
  /\ Go(a, "read", state[a])
  /\ UNCHANGED <<i, alone, runs, llamaVars>>

AgentStep(a) ==
  \/ Evict(a) \/ AddQuestion(a) \/ ReadContext(a) \/ LoopEnds(a)
  \/ ModelStep(a) \/ ModelReturns(a) \/ Finish(a) \/ AddThought(a)
  \/ UseTool(a) \/ AddObservation(a)

Next == \E a \in Callers : Run(a) \/ AgentStep(a)

Spec == Init /\ [][Next]_vars

\* Every run has a thread of its own, and the mutex is granted in the end (the
\* runs are finitely many, so weak fairness is enough).
FairSpec == Spec /\ \A a \in Callers : WF_vars(AgentStep(a))
-------------------------------------------------------------------------------
(***************************************************************************)
(* Properties.                                                             *)
(***************************************************************************)
\* The text of the n-th message of a run, as the agent means it.
AsMeant(n, text) ==
  CASE n = 1 -> text = <<"question">>
    [] n > 1 /\ n % 2 = 0 -> ~Has(text, {"observation", "finish", "bare"})
    [] n > 1 /\ n % 2 = 1 -> text = <<"observation">>

\* The context of a run that no other agent's run overlapped holds its own
\* question, then in turn what the model thought and what the tool observed,
\* and never an observation that the model made up or a message of an earlier
\* run (math_tool_agent.py:91-121, react.cc ParseThoughtAction).
ContextIsOfTheRun ==
  \A a \in Callers :
    Running(a) /\ alone[a] /\ at[a] \notin {"evict", "question"} =>
      /\ written[default_key] # <<>>
      /\ \A n \in 1 .. Len(written[default_key]) :
           /\ written[default_key][n].by = a
           /\ AsMeant(n, written[default_key][n].text)

\* A run that waits for the mutex waits for a call that is under way, whose
\* agent does not wait itself: no error path leaves it locked (CallLlamaCpp),
\* and every other run can make its next step, the loop being within its limit.
RunsGoOn ==
  \A a \in Callers :
    Running(a) =>
      IF at[a] = "model"
      THEN /\ ~At(a, "idle")
           /\ At(a, "called") /\ client_mutex # NoCaller =>
                /\ client_mutex \in Others(a)
                /\ at[client_mutex] = "model"
                /\ stage[client_mutex] \notin {"idle", "called"}
      ELSE At(a, "idle") /\ i[a] <= num_steps

\* Every run of an agent returns, whatever the model and the tool answer and
\* whoever else asks the model (llamacpp.cc CallLlamaCpp).
RunsReturn == \A a \in Callers : Running(a) ~> ~Running(a)
===============================================================================
