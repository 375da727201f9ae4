---------------------------- MODULE InlineExecutor ----------------------------
(***************************************************************************)
(* The inline executor (genc/cc/runtime/inline_executor.cc) on top of      *)
(* RunAsync (concurrency.h) and the detached threads of threading.cc.      *)
(* Every value is a task: a thread that waits for the futures it captured, *)
(* one after the other, and then computes. The client creates values,      *)
(* disposes of them, materializes them and finally drops the executor,     *)
(* while the threads run on.                                               *)
(*                                                                         *)
(* The table of ids is modelled in ExecutorBase; here a value is named by  *)
(* its task. What an intrinsic does is left open: outcome says whether     *)
(* GetHandler, CheckWellFormed, GetInlineInterface and ExecuteCall succeed *)
(* for a call.                                                             *)
(***************************************************************************)
EXTENDS Integers, Sequences, FiniteSets

CONSTANTS
  MaxTasks,    \* bound: how many values are created
  MaxMembers   \* bound: members of a CreateStruct

ASSUME InlineAssumption == MaxTasks \in Nat /\ MaxMembers \in Nat

Tasks == 1 .. MaxTasks
NoTask == 0

\* v0::Value, by what CreateCall and CreateSelection tell apart. The field by
\* is the task that made the value: two values are equal only if they are one.
Str(t) == [case |-> "str", by |-> t, element |-> <<>>]
Intrinsic(t) == [case |-> "intrinsic", by |-> t, element |-> <<>>]
Struct(elements) == [case |-> "struct", by |-> NoTask, element |-> elements]
\* A status that is not OK, by the task that raised it.
Error(t) == [case |-> "error", by |-> t, element |-> <<>>]
\* The content of result_ before Run() has assigned it.
Nothing == [case |-> "nothing", by |-> NoTask, element |-> <<>>]

IsError(v) == v.case = "error"

VARIABLES
  alive,      \* the executor has not been destroyed
  tracked,    \* tasks in tracked_values_
  pc,         \* where each task's thread is
  kind,       \* which method created the task; refused if not scheduled
  ops,        \* the futures its lambda captured
  input,      \* the v0::Value it captured (CreateValue)
  index,      \* the index it captured (CreateSelection)
  outcome,    \* whether the handler of the intrinsic does its job
  at,         \* how many of ops it has waited for
  result,     \* result_, or the error of the waitable
  client,     \* the task the client waits for in Materialize, or NoTask
  answer,     \* the last task that was materialized with success
  dangling    \* calls that used the executor after it was destroyed

taskVars == <<kind, ops, input, index, outcome>>
vars == <<alive, tracked, pc, taskVars, at, result, client, answer, dangling>>

Created == {t \in Tasks : pc[t] # "none"}
Done(t) == pc[t] = "done"

TypeOK ==
  /\ alive \in BOOLEAN
  /\ tracked \subseteq Tasks
  /\ pc \in [Tasks -> {"none", "waiting", "compute", "done"}]
  /\ kind \in [Tasks -> {"none", "value", "call", "struct", "selection",
                      "refused"}]
  /\ ops \in [Tasks -> Seq(Tasks)]
  /\ outcome \in [Tasks -> BOOLEAN]
  /\ index \in [Tasks -> 0 .. MaxMembers]
  /\ client \in Tasks \cup {NoTask}
  /\ answer \in Tasks \cup {NoTask}
  /\ dangling \subseteq Tasks
  /\ \A t \in Tasks : /\ at[t] \in 0 .. Len(ops[t])
                      /\ Done(t) <=> result[t] # Nothing

Init ==
  /\ alive = TRUE
  /\ tracked = {}
  /\ pc = [t \in Tasks |-> "none"]
  /\ kind = [t \in Tasks |-> "none"]
  /\ ops = [t \in Tasks |-> <<>>]
  /\ input = [t \in Tasks |-> Nothing]
  /\ index = [t \in Tasks |-> 0]
  /\ outcome = [t \in Tasks |-> TRUE]
  /\ at = [t \in Tasks |-> 0]
  /\ result = [t \in Tasks |-> Nothing]
  /\ client = NoTask
  /\ answer = NoTask
  /\ dangling = {}

-----------------------------------------------------------------------------
(* The client's calls *)

\* Tasks are named in creation order.
Fresh(t) == /\ alive /\ client = NoTask
            /\ Created = 1 .. (t - 1)

\* RunAsync: the new task is scheduled and tracked. Schedule may return an
\* error instead of a waitable; Get() then returns that error for ever.
RunAsync(t, k, futures) ==
  /\ Fresh(t)
  /\ ops' = [ops EXCEPT ![t] = futures]
  /\ tracked' = tracked \cup {t}
  /\ \/ /\ kind' = [kind EXCEPT ![t] = k]
        /\ pc' = [pc EXCEPT ![t] = IF futures = <<>> THEN "compute" ELSE "waiting"]
        /\ UNCHANGED result
     \/ /\ kind' = [kind EXCEPT ![t] = "refused"]
        /\ pc' = [pc EXCEPT ![t] = "done"]
        /\ result' = [result EXCEPT ![t] = Error(t)]
  /\ UNCHANGED <<alive, at, client, answer, dangling>>

CreateValue(t) ==
  /\ RunAsync(t, "value", <<>>)
  /\ \E v \in {Str(t), Intrinsic(t)} :
       input' = [input EXCEPT ![t] = v]
  /\ UNCHANGED <<index, outcome>>

\* Without an argument CreateCall returns InvalidArgument and creates nothing.
CreateCall(t) ==
  /\ \E func, arg \in tracked : RunAsync(t, "call", <<func, arg>>)
  /\ \E ok \in BOOLEAN : outcome' = [outcome EXCEPT ![t] = ok]
  /\ UNCHANGED <<input, index>>

CreateStruct(t) ==
  /\ \E n \in 0 .. MaxMembers : \E members \in [1 .. n -> tracked] :
       RunAsync(t, "struct", members)
  /\ UNCHANGED <<input, index, outcome>>

CreateSelection(t) ==
  /\ \E source \in tracked : RunAsync(t, "selection", <<source>>)
  /\ \E i \in 0 .. MaxMembers : index' = [index EXCEPT ![t] = i]
  /\ UNCHANGED <<input, outcome>>

\* Plausible mistake: work whose value is disposed of is given up.
Dispose_StopsTheThread(t) ==
  /\ alive /\ client = NoTask
  /\ t \in tracked
  /\ tracked' = tracked \ {t}
  /\ pc' = [pc EXCEPT ![t] = IF @ = "done" THEN @ ELSE "none"]
  /\ UNCHANGED <<alive, taskVars, at, result, client, answer, dangling>>

\* The table's reference goes; the copies in the lambdas stay.
Dispose(t) ==
  /\ alive /\ client = NoTask
  /\ t \in tracked
  /\ tracked' = tracked \ {t}
  /\ UNCHANGED <<alive, pc, taskVars, at, result, client, answer, dangling>>

\* Materialize copies the future out of the table and waits for it.
BeginMaterialize(t) ==
  /\ alive /\ client = NoTask
  /\ t \in tracked
  /\ client' = t
  /\ UNCHANGED <<alive, tracked, pc, taskVars, at, result, answer, dangling>>

Materialize ==
  /\ client # NoTask
  /\ Done(client)
  /\ answer' = IF IsError(result[client]) THEN answer ELSE client
  /\ client' = NoTask
  /\ UNCHANGED <<alive, tracked, pc, taskVars, at, result, dangling>>

\* The client's last shared_ptr goes: ~InlineExecutor calls ClearTracked and
\* waits for nothing.
Destroy ==
  /\ alive /\ client = NoTask
  /\ alive' = FALSE
  /\ tracked' = {}
  /\ UNCHANGED <<pc, taskVars, at, result, client, answer, dangling>>

-----------------------------------------------------------------------------
(* The threads *)

Finish(t, v) ==
  /\ pc' = [pc EXCEPT ![t] = "done"]
  /\ result' = [result EXCEPT ![t] = v]

\* Plausible mistake: whichever captured future is ready first is taken.
WaitOperand_AnyOrder(t) ==
  /\ pc[t] = "waiting"
  /\ \E n \in DOMAIN ops[t] :
       /\ Done(ops[t][n])
       /\ \/ /\ IsError(result[ops[t][n]])
             /\ Finish(t, result[ops[t][n]])
             /\ UNCHANGED at
          \/ /\ \A m \in DOMAIN ops[t] :
                  Done(ops[t][m]) /\ ~IsError(result[ops[t][m]])
             /\ at' = [at EXCEPT ![t] = Len(ops[t])]
             /\ pc' = [pc EXCEPT ![t] = "compute"]
             /\ UNCHANGED result
  /\ UNCHANGED <<alive, tracked, taskVars, client, answer, dangling>>

\* Plausible mistake: the status of the future is not looked at.
WaitOperand_NoTry(t) ==
  /\ pc[t] = "waiting"
  /\ LET future == ops[t][at[t] + 1] IN
     /\ Done(future)
     /\ at' = [at EXCEPT ![t] = @ + 1]
     /\ pc' = [pc EXCEPT ![t] = IF at[t] + 1 = Len(ops[t])
                                THEN "compute" ELSE "waiting"]
  /\ UNCHANGED <<alive, tracked, taskVars, result, client, answer, dangling>>

\* Plausible mistake: the loop stops short of the last future.
WaitOperand_OneTooFew(t) ==
  /\ pc[t] = "waiting"
  /\ LET future == ops[t][at[t] + 1] IN
     /\ at[t] + 1 < Len(ops[t]) => Done(future)
     /\ \/ /\ Done(future) /\ IsError(result[future])
           /\ Finish(t, result[future])
           /\ UNCHANGED at
        \/ /\ ~(Done(future) /\ IsError(result[future]))
           /\ at' = [at EXCEPT ![t] = @ + 1]
           /\ pc' = [pc EXCEPT ![t] = IF at[t] + 1 = Len(ops[t])
                                      THEN "compute" ELSE "waiting"]
           /\ UNCHANGED result
  /\ UNCHANGED <<alive, tracked, taskVars, client, answer, dangling>>

\* Wait() on the next captured future: GENC_TRY returns its error at once,
\* without waiting for the futures that follow.
WaitOperand(t) ==
  /\ pc[t] = "waiting"
  /\ LET future == ops[t][at[t] + 1] IN
     /\ Done(future)
     /\ \/ /\ IsError(result[future])
           /\ Finish(t, result[future])
           /\ UNCHANGED at
        \/ /\ ~IsError(result[future])
           /\ at' = [at EXCEPT ![t] = @ + 1]
           /\ pc' = [pc EXCEPT ![t] = IF at[t] + 1 = Len(ops[t])
                                      THEN "compute" ELSE "waiting"]
           /\ UNCHANGED result
  /\ UNCHANGED <<alive, tracked, taskVars, client, answer, dangling>>

\* What CreateCall's lambda returns for a function value that is no usable
\* intrinsic, and otherwise.
CallResult(t, fn) ==
  IF fn.case = "intrinsic" /\ outcome[t] THEN Str(t) ELSE Error(t)

SelectionResult(t, v) ==
  IF v.case = "struct" /\ index[t] < Len(v.element)
  THEN v.element[index[t] + 1] ELSE Error(t)

\* The rest of the lambda, the operands being the values vs.
Computed(t, vs) ==
  CASE kind[t] = "value" -> input[t]
    [] kind[t] = "call" -> CallResult(t, vs[1])
    [] kind[t] = "struct" -> Struct(vs)
    [] kind[t] = "selection" -> SelectionResult(t, vs[1])

\* A call reads intrinsic_handlers_ through the captured this, unless the
\* function is no intrinsic. With the executor destroyed that is undefined:
\* any handler, or none, may be found.
UsesExecutor(t) ==
  kind[t] = "call" /\ result[ops[t][1]].case = "intrinsic"

Compute(t) ==
  /\ pc[t] = "compute"
  /\ LET vs == [n \in DOMAIN ops[t] |-> result[ops[t][n]]] IN
     \/ /\ alive \/ ~UsesExecutor(t)
        /\ Finish(t, Computed(t, vs))
        /\ UNCHANGED dangling
     \/ /\ ~alive /\ UsesExecutor(t)
        /\ \E v \in {Str(t), Error(t)} : Finish(t, v)
        /\ dangling' = dangling \cup {t}
  /\ UNCHANGED <<alive, tracked, taskVars, at, client, answer>>

Thread(t) == WaitOperand(t) \/ Compute(t)

-----------------------------------------------------------------------------
Create(t) ==
  CreateValue(t) \/ CreateCall(t) \/ CreateStruct(t) \/ CreateSelection(t)

\* The executor is gone and its threads have ended.
Ended ==
  /\ ~alive
  /\ \A t \in Created : Done(t)
  /\ UNCHANGED vars

Next ==
  \/ \E t \in Tasks : Create(t) \/ Dispose(t) \/ BeginMaterialize(t) \/ Thread(t)
  \/ Materialize
  \/ Destroy
  \/ Ended

\* Detached threads run; a blocked Materialize returns once it can.
Fairness == WF_vars(Materialize) /\ \A t \in Tasks : WF_vars(Thread(t))

Spec == Init /\ [][Next]_vars

FairSpec == Spec /\ Fairness

-----------------------------------------------------------------------------
(* Properties *)

\* The reference semantics: what each value is, as a function of how it was
\* created and of nothing else. The error of a value is that of its first
\* operand, in argument order, that has one.
Meaning(t, vs) ==
  LET bad == {n \in DOMAIN vs : IsError(vs[n])}
  IN IF kind[t] = "refused" THEN Error(t)
     ELSE IF bad # {} THEN vs[CHOOSE n \in bad : \A m \in bad : n <= m]
     ELSE Computed(t, vs)

Denotation[t \in Tasks] ==
  Meaning(t, [n \in DOMAIN ops[t] |-> Denotation[ops[t][n]]])

\* A set of tasks with everything that they were computed from.
HasOperands(tasks) ==
  \A t \in tasks : \A n \in DOMAIN ops[t] : ops[t][n] \in tasks

\* Everything a value was computed from, itself included: the least such set
\* that it belongs to.
Ancestry(t) ==
  {u \in Tasks : \A tasks \in SUBSET Tasks :
                   t \in tasks /\ HasOperands(tasks) => u \in tasks}

\* However the threads interleave and whatever is disposed of meanwhile, a
\* finished task that nothing undefined has touched has the value the
\* sequential reading of the program gives it, the choice among several
\* errors included.
ResultsDetermined ==
  \A t \in Tasks :
    Done(t) /\ Ancestry(t) \cap dangling = {} => result[t] = Denotation[t]

\* Once a value was materialized successfully no thread it depends on is
\* still running, so none can use the raw this of CreateCall after the client
\* has dropped the executor. (After an error some may: a struct with a failed
\* member does not wait for the members after it.)
MaterializedIsQuiescent ==
  answer # NoTask => \A u \in Ancestry(answer) : Done(u)

\* Nothing keeps the thread of t: it computes, or the future it waits for next
\* is ready.
CanGo(t) ==
  \/ pc[t] = "compute"
  \/ pc[t] = "waiting" /\ Done(ops[t][at[t] + 1])

\* Whatever a thread or the client waits for is done or was made from a value
\* whose thread can go on: futures never wait in a circle, and none waits for
\* one that nobody computes, whatever was disposed of and although nothing is
\* left of the executor that started the threads (RunAsync, Dispose).
NobodyWaitsInVain ==
  \A t \in Created \cup ({client} \ {NoTask}) :
    ~Done(t) => \E u \in Ancestry(t) : CanGo(u)

-----------------------------------------------------------------------------
(* The inline executor implements the interface *)

StatusOf(t) ==
  CASE pc[t] = "none" -> "none"
    [] pc[t] \in {"waiting", "compute"} -> "pending"
    [] Done(t) -> IF IsError(result[t]) THEN "error" ELSE "ok"

Interface == INSTANCE Executor WITH
  Vals <- Tasks,
  NoVal <- NoTask,
  status <- [t \in Tasks |-> StatusOf(t)],
  operands <- ops,
  held <- tracked

\* inline_executor.cc implements ExecutorInterface: a value is resolved once
\* and succeeds only if its operands did, disposing of an operand does not
\* disturb it, a successful Materialize speaks of a computed value, and every
\* future becomes ready, the executor being destroyed meanwhile or not.
ImplementsExecutor == Interface!Spec

===============================================================================
