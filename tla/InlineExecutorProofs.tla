------------------------- MODULE InlineExecutorProofs -------------------------
(***************************************************************************)
(* Proofs about module InlineExecutor: every step of the inline executor   *)
(* and its threads is a step that the interface allows, or none; a result  *)
(* does not depend on the schedule; and what a materialized value was made *)
(* from is done. All hold for any number of values and any length of       *)
(* structs. Values are made from earlier ones, so what is computed from    *)
(* a value's operands is reasoned about by induction over ids.             *)
(***************************************************************************)
EXTENDS InlineExecutor, SequenceTheorems, WellFoundedInduction, TLAPS

States == {"none", "waiting", "compute", "done"}
Kinds == {"value", "call", "struct", "selection"}

TypeInv ==
  /\ tracked \subseteq Tasks
  /\ pc \in [Tasks -> States]
  /\ ops \in [Tasks -> Seq(Tasks)]
  /\ at \in [Tasks -> Nat]
  /\ result = [t \in Tasks |-> result[t]]

Succeeded(u) == Done(u) /\ ~IsError(result[u])

\* A task has waited for what it has passed, and found no error there; it
\* computes when it has passed everything.
WaitedInv ==
  \A t \in Tasks :
    /\ pc[t] = "none" => at[t] = 0
    /\ pc[t] = "waiting" => at[t] < Len(ops[t])
    /\ pc[t] = "compute" => at[t] = Len(ops[t])
    /\ pc[t] \in {"waiting", "compute"} =>
         \A n \in 1 .. at[t] : Succeeded(ops[t][n])

\* What the client waits for it holds a handle of.
ClientInv == client # NoTask => client \in tracked

IInv == TypeInv /\ WaitedInv /\ ClientInv

status == [t \in Tasks |-> StatusOf(t)]

-------------------------------------------------------------------------------
\* The status of a task, case by case.
LEMMA StatusCases ==
  ASSUME TypeInv, NEW t \in Tasks
  PROVE  /\ pc[t] = "none" => status[t] = "none"
         /\ pc[t] \in {"waiting", "compute"} => status[t] = "pending"
         /\ Done(t) /\ IsError(result[t]) => status[t] = "error"
         /\ Succeeded(t) => status[t] = "ok"
  BY DEF TypeInv, States, status, StatusOf, Done, Succeeded

\* A task that has finished is never touched again.
LEMMA DoneStays ==
  ASSUME TypeInv, [Next]_vars, NEW t \in Tasks, Done(t)
  PROVE  Done(t)' /\ result'[t] = result[t]
<1>1. ASSUME NEW u \in Tasks, Create(u)
      PROVE  Done(t)' /\ result'[t] = result[t]
  <2>1. pc[u] = "none"
    BY <1>1 DEF Create, CreateValue, CreateCall, CreateStruct, CreateSelection,
                RunAsync, Fresh, Created, Tasks
  <2> QED BY <1>1, <2>1 DEF Create, CreateValue, CreateCall, CreateStruct,
             CreateSelection, RunAsync, TypeInv, Done
<1>2. ASSUME NEW u \in Tasks, Thread(u)
      PROVE  Done(t)' /\ result'[t] = result[t]
  BY <1>2 DEF Thread, WaitOperand, Compute, Finish, TypeInv, Done
<1>3. CASE \/ \E u \in Tasks : Dispose(u) \/ BeginMaterialize(u)
           \/ Materialize \/ Destroy \/ Ended \/ UNCHANGED vars
  BY <1>3 DEF Dispose, BeginMaterialize, Materialize, Destroy, Ended, vars, Done
<1> QED BY <1>1, <1>2, <1>3 DEF Next

\* The statuses after a step that changes one task.
LEMMA StatusChange ==
  ASSUME TypeInv, TypeInv', NEW t \in Tasks,
         \A u \in Tasks \ {t} : pc'[u] = pc[u] /\ result'[u] = result[u]
  PROVE  status' = [status EXCEPT ![t] = status'[t]]
<1>1. ASSUME NEW u \in Tasks \ {t}
      PROVE  status'[u] = status[u]
  <2>1. pc'[u] = pc[u] /\ result'[u] = result[u]
    OBVIOUS
  <2>2. pc[u] \in States
    BY DEF TypeInv
  <2>3. StatusOf(u)' = StatusOf(u)
    BY <2>1, <2>2 DEF States, StatusOf, Done
  <2> QED BY <2>3 DEF status
<1> QED BY <1>1 DEF status

\* Initially nothing is created, in the interface either.
LEMMA InitInv == Init => IInv /\ Interface!Init
<1> SUFFICES ASSUME Init PROVE IInv /\ Interface!Init
  OBVIOUS
<1>1. IInv
  BY EmptySeq DEF Init, IInv, TypeInv, States, WaitedInv, ClientInv
<1>2. ASSUME NEW t \in Tasks
      PROVE  StatusOf(t) = "none"
  <2>1. pc[t] = "none"
    BY DEF Init
  <2> QED BY <2>1 DEF StatusOf, Done
<1>3. Interface!Init
  BY <1>2 DEF Init, Interface!Init
<1> QED BY <1>1, <1>3

\* RunAsync creates a value from values the client holds.
LEMMA RunAsyncStep ==
  ASSUME IInv, NEW t \in Tasks, NEW k, NEW futures \in Seq(tracked),
         RunAsync(t, k, futures)
  PROVE  IInv' /\ Interface!Create(t)
<1> USE DEF IInv
<1>1. /\ pc[t] = "none" /\ client = NoTask
      /\ UNCHANGED <<at, client, answer>>
      /\ ops' = [ops EXCEPT ![t] = futures] /\ tracked' = tracked \cup {t}
  BY DEF RunAsync, Fresh, Created, Tasks
<1>2. futures \in Seq(Tasks)
  BY SeqMonotonic DEF TypeInv
<1>3. \/ /\ pc' = [pc EXCEPT ![t] = IF futures = <<>> THEN "compute" ELSE "waiting"]
         /\ UNCHANGED result
      \/ /\ pc' = [pc EXCEPT ![t] = "done"]
         /\ result' = [result EXCEPT ![t] = Error(t)]
  BY DEF RunAsync
<1>4. TypeInv'
  BY <1>1, <1>2, <1>3 DEF TypeInv, States
<1>5. \A u \in Tasks \ {t} : pc'[u] = pc[u] /\ result'[u] = result[u]
  BY <1>3 DEF TypeInv
<1>6. \A u \in Tasks : Succeeded(u) => Succeeded(u)'
  BY <1>1, <1>5 DEF Succeeded, Done
<1>7. /\ at'[t] = 0 /\ ops'[t] = futures
      /\ futures = <<>> => Len(futures) = 0
      /\ futures # <<>> => 0 < Len(futures)
  BY <1>1, <1>2, EmptySeq DEF TypeInv, WaitedInv
<1>8. WaitedInv'
  <2>1. ASSUME NEW u \in Tasks
        PROVE  WaitedInv!(u)'
    <3>1. CASE u = t
      BY <1>3, <1>7, <3>1 DEF TypeInv
    <3>2. CASE u # t
      <4>1. /\ pc'[u] = pc[u] /\ at'[u] = at[u] /\ ops'[u] = ops[u]
        BY <1>1, <1>5, <3>2 DEF TypeInv
      <4>2. \A n \in 1 .. at[u] : pc[u] \in {"waiting", "compute"} =>
              ops[u][n] \in Tasks /\ Succeeded(ops[u][n])
        BY DEF TypeInv, WaitedInv
      <4> QED BY <1>6, <4>1, <4>2 DEF WaitedInv
    <3> QED BY <3>1, <3>2
  <2> QED BY <2>1 DEF WaitedInv
<1>9. Interface!Create(t)
  <2>1. status[t] = "none"
    BY <1>1, StatusCases
  <2>2. status'[t] \in {"pending", "error"}
    BY <1>3, <1>4 DEF TypeInv, status, StatusOf, Done, IsError, Error
  <2>3. status' = [status EXCEPT ![t] = status'[t]]
    BY <1>4, <1>5, StatusChange
  <2>4. ops'[t] \in Seq(tracked) /\ ops' = [ops EXCEPT ![t] = ops'[t]]
    BY <1>1 DEF TypeInv
  <2> QED BY <1>1, <2>1, <2>2, <2>3, <2>4 DEF Interface!Create, status
<1> QED BY <1>1, <1>4, <1>8, <1>9 DEF ClientInv

\* A step of a thread resolves its value, or has waited for one more operand.
LEMMA ThreadStep ==
  ASSUME IInv, NEW t \in Tasks, Thread(t)
  PROVE  IInv' /\ (Interface!Resolve(t) \/ UNCHANGED <<status, ops, tracked, answer>>)
<1> USE DEF IInv
<1>0. /\ pc[t] \in {"waiting", "compute"}
      /\ UNCHANGED <<tracked, ops, client, answer>>
  BY DEF Thread, WaitOperand, Compute, taskVars
<1>1. /\ \A u \in Tasks \ {t} :
           pc'[u] = pc[u] /\ result'[u] = result[u] /\ at'[u] = at[u]
      /\ TypeInv'
  <2>1. CASE WaitOperand(t)
    <3>1. CASE Finish(t, result[ops[t][at[t] + 1]]) /\ UNCHANGED at
      BY <1>0, <3>1 DEF Finish, TypeInv, States
    <3>2. CASE /\ at' = [at EXCEPT ![t] = @ + 1]
               /\ pc' = [pc EXCEPT ![t] = IF at[t] + 1 = Len(ops[t])
                                          THEN "compute" ELSE "waiting"]
               /\ UNCHANGED result
      BY <1>0, <3>2 DEF TypeInv, States
    <3> QED BY <2>1, <3>1, <3>2 DEF WaitOperand
  <2>2. CASE Compute(t)
    BY <2>2 DEF Compute, Finish, TypeInv, States, taskVars
  <2> QED BY <2>1, <2>2 DEF Thread
<1>2. \A u \in Tasks : Succeeded(u) => Succeeded(u)'
  BY <1>0, <1>1 DEF Succeeded, Done
<1>3. \A u \in Tasks \ {t} : WaitedInv!(u)'
  <2> SUFFICES ASSUME NEW u \in Tasks \ {t} PROVE WaitedInv!(u)'
    OBVIOUS
  <2>1. pc'[u] = pc[u] /\ at'[u] = at[u] /\ ops'[u] = ops[u]
    BY <1>0, <1>1
  <2>2. \A n \in 1 .. at[u] : pc[u] \in {"waiting", "compute"} =>
          ops[u][n] \in Tasks /\ Succeeded(ops[u][n])
    BY DEF TypeInv, WaitedInv
  <2> QED BY <1>2, <2>1, <2>2 DEF WaitedInv
<1>4. status[t] = "pending" /\ status' = [status EXCEPT ![t] = status'[t]]
  BY <1>0, <1>1, StatusCases, StatusChange
<1>5. CASE \E v : Finish(t, v)
  <2>1. Done(t)'
    BY <1>5 DEF Finish, Done, TypeInv
  <2>2. WaitedInv'
    BY <1>3, <2>1 DEF WaitedInv, Done
  <2>3. status'[t] \in {"ok", "error"}
    BY <2>1 DEF status, StatusOf, Done
  <2>4. status'[t] = "ok" => \A n \in 1 .. Len(ops[t]) : status[ops[t][n]] = "ok"
    <3>1. CASE pc[t] = "compute"
      <4>1. \A n \in 1 .. Len(ops[t]) :
              ops[t][n] \in Tasks /\ Succeeded(ops[t][n])
        BY <3>1 DEF WaitedInv, TypeInv
      <4> QED BY <4>1, StatusCases
    <3>2. CASE pc[t] = "waiting"
      <4>1. Thread(t) => WaitOperand(t)
        BY <3>2 DEF Thread, Compute
      <4>2. IsError(result'[t])
        BY <2>1, <3>2, <4>1 DEF WaitOperand, Finish, TypeInv, Done
      <4>3. status'[t] = "error"
        BY <2>1, <4>2 DEF status, StatusOf, Done
      <4> QED BY <4>3
    <3> QED BY <1>0, <3>1, <3>2
  <2>5. Interface!Resolve(t)
    BY <1>0, <1>4, <2>3, <2>4
       DEF Interface!Resolve, Interface!OperandsOk, status
  <2> QED BY <1>0, <1>1, <2>2, <2>5 DEF ClientInv
<1>6. CASE ~\E v : Finish(t, v)
  <2> DEFINE future == ops[t][at[t] + 1]
  <2>1. /\ pc[t] = "waiting" /\ Succeeded(future)
        /\ at' = [at EXCEPT ![t] = @ + 1] /\ UNCHANGED result
        /\ pc' = [pc EXCEPT ![t] = IF at[t] + 1 = Len(ops[t])
                                   THEN "compute" ELSE "waiting"]
    BY <1>6 DEF Thread, WaitOperand, Compute, Succeeded
  <2>2. /\ at'[t] = at[t] + 1 /\ at[t] \in Nat /\ at[t] < Len(ops[t])
        /\ pc'[t] = IF at[t] + 1 = Len(ops[t]) THEN "compute" ELSE "waiting"
    BY <2>1 DEF TypeInv, WaitedInv
  <2>3. \A n \in 1 .. at[t] + 1 : ops[t][n] \in Tasks /\ Succeeded(ops[t][n])
    <3>1. \A n \in 1 .. at[t] : Succeeded(ops[t][n])
      BY <2>1 DEF WaitedInv
    <3>2. ASSUME NEW n \in 1 .. at[t] + 1
          PROVE  ops[t][n] \in Tasks /\ Succeeded(ops[t][n])
      <4>1. n \in 1 .. Len(ops[t]) /\ (n = at[t] + 1 \/ n \in 1 .. at[t])
        <5>1. Len(ops[t]) \in Nat
          BY DEF TypeInv
        <5> QED BY <2>2, <5>1
      <4>2. ops[t][n] \in Tasks
        BY <4>1, ElementOfSeq DEF TypeInv
      <4> QED BY <2>1, <3>1, <4>1, <4>2
    <3> QED BY <3>2
  <2>4. WaitedInv!(t)'
    <3>1. Len(ops[t]) \in Nat /\ ops'[t] = ops[t]
      BY <1>0 DEF TypeInv
    <3>2. \A n \in 1 .. at'[t] : Succeeded(ops[t][n])'
      BY <1>0, <1>2, <2>2, <2>3 DEF Succeeded
    <3>3. pc'[t] = "waiting" => at'[t] < Len(ops'[t])
      BY <2>2, <3>1
    <3> QED BY <1>0, <2>2, <3>1, <3>2, <3>3
  <2>5. WaitedInv'
    BY <1>3, <2>4 DEF WaitedInv
  <2>6. status'[t] = "pending"
    BY <2>2 DEF status, StatusOf, Done
  <2> QED BY <1>0, <1>1, <1>4, <2>5, <2>6 DEF ClientInv, status
<1> QED BY <1>5, <1>6

\* Each method that creates a value is RunAsync of values the client holds.
LEMMA CreateRuns ==
  ASSUME NEW t \in Tasks, Create(t)
  PROVE  \E k \in Kinds : \E futures \in Seq(tracked) : RunAsync(t, k, futures)
<1> USE DEF Kinds
<1>1. CASE CreateValue(t)
  BY <1>1, EmptySeq DEF CreateValue
<1>2. CASE CreateCall(t)
  <2>1. PICK func \in tracked, arg \in tracked :
          RunAsync(t, "call", <<func, arg>>)
    BY <1>2 DEF CreateCall
  <2>2. <<func, arg>> \in Seq(tracked)
    OBVIOUS
  <2> QED BY <2>1, <2>2
<1>3. CASE CreateStruct(t)
  <2>1. PICK n \in 0 .. MaxMembers :
          \E members \in [1 .. n -> tracked] : RunAsync(t, "struct", members)
    BY <1>3 DEF CreateStruct
  <2>2. n \in Nat
    BY InlineAssumption DEF InlineAssumption
  <2>3. [1 .. n -> tracked] \subseteq Seq(tracked)
    BY <2>2, SeqDef
  <2> QED BY <2>1, <2>3
<1>4. CASE CreateSelection(t)
  <2>1. PICK source \in tracked : RunAsync(t, "selection", <<source>>)
    BY <1>4 DEF CreateSelection
  <2>2. <<source>> \in Seq(tracked)
    OBVIOUS
  <2> QED BY <2>1, <2>2
<1> QED BY <1>1, <1>2, <1>3, <1>4 DEF Create

LEMMA CreateStep ==
  ASSUME IInv, NEW t \in Tasks, Create(t)
  PROVE  IInv' /\ Interface!Create(t)
BY CreateRuns, RunAsyncStep

\* The other calls of the client change no task.
LEMMA ClientStep ==
  ASSUME IInv,
         \/ \E t \in Tasks : Dispose(t) \/ BeginMaterialize(t)
         \/ Materialize \/ Destroy \/ Ended \/ UNCHANGED vars
  PROVE  /\ IInv'
         /\ \/ \E t \in Tasks : Interface!Materialize(t)
            \/ Interface!Release
            \/ UNCHANGED <<status, ops, tracked, answer>>
<1> USE DEF IInv
<1>1. UNCHANGED <<pc, ops, at, result>>
  BY DEF Dispose, BeginMaterialize, Materialize, Destroy, Ended, vars, taskVars
<1>2. tracked' \subseteq tracked
  BY DEF Dispose, BeginMaterialize, Materialize, Destroy, Ended, vars
<1>3. TypeInv' /\ WaitedInv'
  BY <1>1, <1>2 DEF TypeInv, WaitedInv, Succeeded, Done
<1>4. ClientInv'
  BY DEF ClientInv, Dispose, BeginMaterialize, Materialize, Destroy, Ended, vars
<1>5. status' = status
  BY <1>1 DEF status, StatusOf, Done
<1>6. CASE UNCHANGED answer
  <2>1. Interface!Release
    BY <1>1, <1>2, <1>5, <1>6 DEF Interface!Release, status
  <2> QED BY <1>3, <1>4, <2>1
<1>7. CASE Materialize /\ ~UNCHANGED answer
  <2>1. /\ client \in tracked /\ Succeeded(client)
        /\ answer' = client /\ tracked' = tracked
    BY <1>7 DEF Materialize, ClientInv, Succeeded
  <2>2. client \in Tasks /\ status[client] = "ok"
    BY <2>1, StatusCases DEF TypeInv
  <2>3. Interface!Materialize(client)
    BY <1>1, <1>5, <2>1, <2>2 DEF Interface!Materialize, status
  <2> QED BY <1>3, <1>4, <2>2, <2>3
<1> QED BY <1>6, <1>7 DEF Dispose, BeginMaterialize, Destroy, Ended, vars

\* Every step is a step of the interface or changes nothing of it.
LEMMA NextStep ==
  ASSUME IInv, [Next]_vars
  PROVE  IInv' /\ [Interface!Next]_(Interface!vars)
<1>1. ASSUME NEW t \in Tasks, Create(t)
      PROVE  IInv' /\ Interface!Next
  BY <1>1, CreateStep DEF Interface!Next
<1>2. ASSUME NEW t \in Tasks, Thread(t)
      PROVE  IInv' /\ [Interface!Next]_(Interface!vars)
  BY <1>2, ThreadStep DEF Interface!Next, Interface!vars, status
<1>3. CASE \/ \E t \in Tasks : Dispose(t) \/ BeginMaterialize(t)
           \/ Materialize \/ Destroy \/ Ended \/ UNCHANGED vars
  BY <1>3, ClientStep DEF Interface!Next, Interface!vars, status
<1> QED BY <1>1, <1>2, <1>3 DEF Next
-------------------------------------------------------------------------------
(***************************************************************************)
(* What a finished task holds.                                             *)
(***************************************************************************)
\* How a finished task came by its result: it was not scheduled; or it took
\* the error of the first operand that had one; or it computed.
Explained(t) ==
  \/ kind[t] = "refused" /\ result[t] = Error(t)
  \/ /\ kind[t] # "refused"
     /\ \E k \in 1 .. Len(ops[t]) :
          /\ \A m \in 1 .. k - 1 : Succeeded(ops[t][m])
          /\ Done(ops[t][k]) /\ IsError(result[ops[t][k]])
          /\ result[t] = result[ops[t][k]]
  \/ /\ kind[t] # "refused"
     /\ \A m \in 1 .. Len(ops[t]) : Succeeded(ops[t][m])
     /\ \/ t \in dangling
        \/ result[t] = Computed(t, [n \in DOMAIN ops[t] |-> result[ops[t][n]]])

\* Operands were created earlier, and every result is accounted for.
ResultInv ==
  /\ kind = [t \in Tasks |-> kind[t]]
  /\ input = [t \in Tasks |-> input[t]]
  /\ index = [t \in Tasks |-> index[t]]
  /\ outcome = [t \in Tasks |-> outcome[t]]
  /\ tracked \subseteq Created
  /\ \A t \in Tasks :
       /\ \A n \in 1 .. Len(ops[t]) : ops[t][n] < t
       /\ pc[t] \in {"waiting", "compute"} => kind[t] # "refused"
       /\ Done(t) => Explained(t)
  /\ answer # NoTask => answer \in Tasks /\ Succeeded(answer)

\* An explanation stays true while nothing of the task and nothing that is
\* done changes.
LEMMA ExplanationStays ==
  ASSUME TypeInv, NEW t \in Tasks, Explained(t),
         \A u \in Tasks : Done(u) => Done(u)' /\ result'[u] = result[u],
         dangling \subseteq dangling', Done(t),
         ops'[t] = ops[t], kind'[t] = kind[t], input'[t] = input[t],
         index'[t] = index[t], outcome'[t] = outcome[t]
  PROVE  Explained(t)'
<1>1. \A n \in 1 .. Len(ops[t]) : ops[t][n] \in Tasks
  BY DEF TypeInv
<1>2. \A n \in 1 .. Len(ops[t]) : Succeeded(ops[t][n]) => Succeeded(ops[t][n])'
  BY <1>1 DEF Succeeded, Done
<1>3. CASE kind[t] = "refused" /\ result[t] = Error(t)
  BY <1>3 DEF Explained
<1>4. CASE /\ kind[t] # "refused"
           /\ \E k \in 1 .. Len(ops[t]) :
                /\ \A m \in 1 .. k - 1 : Succeeded(ops[t][m])
                /\ Done(ops[t][k]) /\ IsError(result[ops[t][k]])
                /\ result[t] = result[ops[t][k]]
  <2> PICK k \in 1 .. Len(ops[t]) :
                /\ \A m \in 1 .. k - 1 : Succeeded(ops[t][m])
                /\ Done(ops[t][k]) /\ IsError(result[ops[t][k]])
                /\ result[t] = result[ops[t][k]]
    BY <1>4
  <2>1. Len(ops[t]) \in Nat
    BY DEF TypeInv
  <2>2. \A m \in 1 .. k - 1 : Succeeded(ops[t][m])'
    BY <1>2, <2>1
  <2>3. /\ Done(ops[t][k])' /\ IsError(result'[ops'[t][k]])
        /\ result'[t] = result'[ops'[t][k]]
    BY <1>1 DEF Done
  <2> QED BY <1>4, <2>2, <2>3 DEF Explained
<1>5. CASE /\ kind[t] # "refused"
           /\ \A m \in 1 .. Len(ops[t]) : Succeeded(ops[t][m])
           /\ \/ t \in dangling
              \/ result[t] = Computed(t, [n \in DOMAIN ops[t] |-> result[ops[t][n]]])
  <2>1. DOMAIN ops[t] = 1 .. Len(ops[t])
    BY DEF TypeInv
  <2>2. [n \in DOMAIN ops[t] |-> result[ops[t][n]]]' =
          [n \in DOMAIN ops[t] |-> result[ops[t][n]]]
    BY <1>1, <1>5, <2>1 DEF Succeeded
  <2>3. Computed(t, [n \in DOMAIN ops[t] |-> result[ops[t][n]]])' =
          Computed(t, [n \in DOMAIN ops[t] |-> result[ops[t][n]]])
    BY <2>2 DEF Computed, CallResult, SelectionResult
  <2>4. result'[t] = result[t]
    OBVIOUS
  <2>5. t \in dangling' \/ result'[t] = Computed(t, [n \in DOMAIN ops[t] |-> result[ops[t][n]]])'
    BY <1>5, <2>3, <2>4
  <2>6. \A m \in 1 .. Len(ops'[t]) : Succeeded(ops[t][m])'
    BY <1>2, <1>5
  <2> QED BY <1>5, <2>5, <2>6 DEF Explained
<1> QED BY <1>3, <1>4, <1>5 DEF Explained

\* RunAsync of a value: its operands are there already; if it was not
\* scheduled its error is its result.
LEMMA CreateResult ==
  ASSUME IInv, ResultInv, [Next]_vars, NEW t \in Tasks, Create(t)
  PROVE  ResultInv'
<1> USE DEF IInv
<1> USE DEF Kinds
<1>1. PICK k \in Kinds, futures \in Seq(tracked) : RunAsync(t, k, futures)
  BY CreateRuns
<1>2. /\ Created = 1 .. (t - 1) /\ pc[t] = "none"
      /\ UNCHANGED <<answer, dangling>>
      /\ ops' = [ops EXCEPT ![t] = futures] /\ tracked' = tracked \cup {t}
  BY <1>1 DEF RunAsync, Fresh, Created, Tasks
<1>3. \/ /\ kind' = [kind EXCEPT ![t] = k]
         /\ pc'[t] \in {"compute", "waiting"}
      \/ /\ kind' = [kind EXCEPT ![t] = "refused"]
         /\ result'[t] = Error(t)
  BY <1>1 DEF RunAsync, TypeInv
<1>4. /\ input' = [u \in Tasks |-> input'[u]] /\ kind' = [u \in Tasks |-> kind'[u]]
      /\ index' = [u \in Tasks |-> index'[u]]
      /\ outcome' = [u \in Tasks |-> outcome'[u]]
      /\ \A u \in Tasks \ {t} :
           /\ ops'[u] = ops[u] /\ kind'[u] = kind[u] /\ input'[u] = input[u]
           /\ index'[u] = index[u] /\ outcome'[u] = outcome[u]
  <2>1. \A u \in Tasks \ {t} : ops'[u] = ops[u] /\ kind'[u] = kind[u]
    BY <1>2, <1>3 DEF TypeInv, ResultInv
  <2>2. /\ \/ input' = input \/ \E v : input' = [input EXCEPT ![t] = v]
        /\ \/ index' = index \/ \E v : index' = [index EXCEPT ![t] = v]
        /\ \/ outcome' = outcome \/ \E v : outcome' = [outcome EXCEPT ![t] = v]
    BY DEF Create, CreateValue, CreateCall, CreateStruct, CreateSelection
  <2>3. input' = [u \in Tasks |-> input'[u]] /\ \A u \in Tasks \ {t} : input'[u] = input[u]
    BY <2>2 DEF ResultInv
  <2>4. index' = [u \in Tasks |-> index'[u]] /\ \A u \in Tasks \ {t} : index'[u] = index[u]
    BY <2>2 DEF ResultInv
  <2>5. /\ outcome' = [u \in Tasks |-> outcome'[u]]
        /\ \A u \in Tasks \ {t} : outcome'[u] = outcome[u]
    BY <2>2 DEF ResultInv
  <2>6. kind' = [u \in Tasks |-> kind'[u]]
    BY <1>3 DEF ResultInv
  <2> QED BY <2>1, <2>3, <2>4, <2>5, <2>6
<1>5. \A u \in Tasks : Done(u) => Done(u)' /\ result'[u] = result[u]
  BY DoneStays
<1>6. \A u \in Tasks \ {t} : pc'[u] = pc[u]
  BY <1>1 DEF RunAsync, TypeInv
<1>7. tracked' \subseteq Created'
  BY <1>1, <1>2, <1>3, <1>6 DEF ResultInv, Created, RunAsync, TypeInv
<1>8. \A n \in 1 .. Len(ops'[t]) : ops'[t][n] < t
  <2>1. ops'[t] = futures
    BY <1>2 DEF TypeInv
  <2>2. \A n \in 1 .. Len(futures) : futures[n] \in tracked
    OBVIOUS
  <2>3. \A u \in tracked : u \in 1 .. (t - 1)
    BY <1>2 DEF ResultInv
  <2>4. t \in Nat
    BY DEF Tasks
  <2> QED BY <2>1, <2>2, <2>3, <2>4
<1>9. ASSUME NEW u \in Tasks PROVE ResultInv!6!(u)'
  <2>1. CASE u = t
    <3>1. Done(t)' => kind'[t] = "refused" /\ result'[t] = Error(t)
      BY <1>3 DEF Done, ResultInv
    <3>2. pc'[t] \in {"waiting", "compute"} => kind'[t] # "refused"
      BY <1>1, <1>3 DEF RunAsync, ResultInv, TypeInv
    <3> QED BY <1>8, <2>1, <3>1, <3>2 DEF Explained
  <2>2. CASE u # t
    <3>1. Done(u)' => Done(u)
      BY <1>6, <2>2 DEF Done
    <3>2. Done(u) => Explained(u)'
      BY <1>2, <1>4, <1>5, <2>2, ExplanationStays DEF ResultInv
    <3> QED BY <1>4, <1>6, <2>2, <3>1, <3>2 DEF ResultInv
  <2> QED BY <2>1, <2>2
<1>10. answer' # NoTask => answer' \in Tasks /\ Succeeded(answer)'
  BY <1>2, <1>5 DEF ResultInv, Succeeded, Done
<1>11. \A u \in Tasks : ResultInv!6!(u)'
  BY <1>9
<1> QED BY <1>4, <1>7, <1>10, <1>11 DEF ResultInv

\* A thread that ends leaves the error it met or what it computed.
LEMMA ThreadResult ==
  ASSUME IInv, ResultInv, [Next]_vars, NEW t \in Tasks, Thread(t)
  PROVE  ResultInv'
<1> USE DEF IInv
<1>1. /\ pc[t] \in {"waiting", "compute"} /\ kind[t] # "refused"
      /\ UNCHANGED <<tracked, ops, kind, input, index, outcome, answer>>
      /\ dangling \subseteq dangling'
  BY DEF Thread, WaitOperand, Compute, taskVars, ResultInv
<1>2. \A u \in Tasks : Done(u) => Done(u)' /\ result'[u] = result[u]
  BY DoneStays
<1>3. /\ \A u \in Tasks \ {t} : pc'[u] = pc[u]
      /\ pc'[t] \in {"waiting", "compute", "done"}
  <2>1. CASE WaitOperand(t)
    BY <2>1 DEF WaitOperand, Finish, TypeInv
  <2>2. CASE Compute(t)
    BY <2>2 DEF Compute, Finish, TypeInv
  <2> QED BY <2>1, <2>2 DEF Thread
<1>4. tracked' \subseteq Created'
  BY <1>1, <1>3 DEF ResultInv, Created
<1>5. Done(t)' => Explained(t)'
  <2>1. CASE WaitOperand(t) /\ Done(t)'
    <3>0. PICK k : k = at[t] + 1
      OBVIOUS
    <3>1. /\ pc[t] = "waiting" /\ Done(ops[t][k]) /\ IsError(result[ops[t][k]])
          /\ Finish(t, result[ops[t][k]])
      BY <2>1, <3>0 DEF WaitOperand, TypeInv, Done
    <3>2. /\ k \in 1 .. Len(ops[t]) /\ ops[t][k] \in Tasks
          /\ \A m \in 1 .. k - 1 : ops[t][m] \in Tasks /\ Succeeded(ops[t][m])
      BY <3>0, <3>1, SMTT(20) DEF WaitedInv, TypeInv
    <3>3. result'[t] = result'[ops[t][k]]
      BY <1>2, <3>1, <3>2 DEF Finish, TypeInv
    <3>4. /\ \A m \in 1 .. k - 1 : Succeeded(ops[t][m])'
          /\ Done(ops[t][k])' /\ IsError(result[ops[t][k]])'
      BY <1>1, <1>2, <3>1, <3>2 DEF Succeeded, Done
    <3> QED BY <1>1, <3>2, <3>3, <3>4 DEF Explained
  <2>2. CASE Compute(t)
    <3>1. \A m \in 1 .. Len(ops[t]) : ops[t][m] \in Tasks /\ Succeeded(ops[t][m])
      BY <2>2 DEF Compute, WaitedInv, TypeInv
    <3>2. \A m \in 1 .. Len(ops[t]) : Succeeded(ops[t][m])'
      BY <1>1, <1>2, <3>1 DEF Succeeded, Done
    <3>3. DOMAIN ops[t] = 1 .. Len(ops[t])
      BY DEF TypeInv
    <3>4. [n \in DOMAIN ops[t] |-> result[ops[t][n]]]' =
            [n \in DOMAIN ops[t] |-> result[ops[t][n]]]
      BY <1>1, <1>2, <3>1, <3>3 DEF Succeeded
    <3>5. Computed(t, [n \in DOMAIN ops[t] |-> result[ops[t][n]]])' =
            Computed(t, [n \in DOMAIN ops[t] |-> result[ops[t][n]]])
      BY <1>1, <3>4 DEF Computed, CallResult, SelectionResult
    <3>6. \/ t \in dangling'
          \/ result'[t] = Computed(t, [n \in DOMAIN ops[t] |-> result[ops[t][n]]])
      BY <2>2 DEF Compute, Finish, TypeInv
    <3>7. kind'[t] # "refused"
      BY <1>1
    <3> QED BY <1>1, <3>2, <3>5, <3>6, <3>7 DEF Explained
  <2> QED BY <2>1, <2>2 DEF Thread
<1>6. ASSUME NEW u \in Tasks PROVE ResultInv!6!(u)'
  <2>1. CASE u = t
    BY <1>1, <1>5, <2>1 DEF ResultInv
  <2>2. CASE u # t
    <3>1. Done(u) => Explained(u)'
      BY <1>1, <1>2, ExplanationStays DEF ResultInv
    <3>2. Done(u)' => Done(u)
      BY <1>3, <2>2 DEF Done
    <3> QED BY <1>1, <1>3, <2>2, <3>1, <3>2 DEF ResultInv
  <2> QED BY <2>1, <2>2
<1>7. answer' # NoTask => answer' \in Tasks /\ Succeeded(answer)'
  BY <1>1, <1>2 DEF ResultInv, Succeeded, Done
<1>8. \A u \in Tasks : ResultInv!6!(u)'
  BY <1>6
<1> QED BY <1>1, <1>4, <1>7, <1>8 DEF ResultInv

\* The other calls of the client: what is materialized has succeeded.
LEMMA ClientResult ==
  ASSUME IInv, ResultInv,
         \/ \E t \in Tasks : Dispose(t) \/ BeginMaterialize(t)
         \/ Materialize \/ Destroy \/ Ended \/ UNCHANGED vars
  PROVE  ResultInv'
<1> USE DEF IInv
<1>1. /\ UNCHANGED <<pc, ops, kind, input, index, outcome, result, dangling>>
      /\ tracked' \subseteq tracked
  BY DEF Dispose, BeginMaterialize, Materialize, Destroy, Ended, vars, taskVars
<1>2. answer' # NoTask => answer' \in Tasks /\ Succeeded(answer)'
  <2>1. CASE UNCHANGED answer
    BY <1>1, <2>1 DEF ResultInv, Succeeded, Done
  <2>2. CASE Materialize /\ ~UNCHANGED answer
    <3>1. answer' = client /\ client \in Tasks /\ Succeeded(client)
      BY <2>2 DEF Materialize, ClientInv, Succeeded, TypeInv
    <3> QED BY <1>1, <3>1 DEF Succeeded, Done
  <2> QED BY <2>1, <2>2 DEF Dispose, BeginMaterialize, Destroy, Ended, vars
<1>3. ASSUME NEW u \in Tasks PROVE ResultInv!6!(u)'
  <2>1. Done(u) => Explained(u)'
    BY <1>1, ExplanationStays DEF ResultInv, Done
  <2> QED BY <1>1, <2>1 DEF ResultInv, Done
<1>4. \A u \in Tasks : ResultInv!6!(u)'
  BY <1>3
<1> QED BY <1>1, <1>2, <1>4 DEF ResultInv, Created

LEMMA Results == Spec => [](IInv /\ ResultInv)
<1>1. Init => IInv /\ ResultInv
  BY InitInv DEF Init, ResultInv, Done, Created
<1>2. IInv /\ ResultInv /\ [Next]_vars => IInv' /\ ResultInv'
  <2> SUFFICES ASSUME IInv, ResultInv, [Next]_vars PROVE ResultInv'
    BY NextStep
  <2> QED BY CreateResult, ThreadResult, ClientResult DEF Next
<1> QED BY <1>1, <1>2, PTL DEF Spec
-------------------------------------------------------------------------------
(***************************************************************************)
(* Recursion over the operands of a value. A value is created after its    *)
(* operands, so everything follows by induction on the number of a task.   *)
(***************************************************************************)
\* A set of numbers that is not empty has a least one.
LEMMA Least ==
  ASSUME NEW T \in SUBSET Nat, T # {}
  PROVE  \E x \in T : \A y \in T : x <= y
<1>1. \E R : /\ \E x \in T : \A y \in T : ~ (<<y, x>> \in R)
             /\ \A x, y \in Nat : y < x => <<y, x>> \in R
  <2>1. \E x \in T : \A y \in T : ~ (<<y, x>> \in OpToRel(<, Nat))
    BY NatLessThanWellFounded, WFMin
  <2>2. \A x, y \in Nat : y < x => <<y, x>> \in OpToRel(<, Nat)
    BY DEF OpToRel
  <2> QED BY <2>1, <2>2, Zenon
<1>2. PICK x \in T : \A y \in T : ~(y < x)
  BY <1>1
<1> QED BY <1>2

\* Induction, for a set in place of a predicate.
LEMMA SetInduction ==
  ASSUME NEW S \in SUBSET Nat, 0 \in S, \A n \in S : n + 1 \in S
  PROVE  S = Nat
<1> SUFFICES ASSUME Nat \ S # {} PROVE FALSE
  OBVIOUS
<1>1. PICK x \in Nat \ S : \A y \in Nat \ S : x <= y
  BY Least
<1>2. x # 0 /\ x - 1 \in Nat /\ x - 1 \notin Nat \ S
  BY <1>1
<1>3. (x - 1) + 1 \in S
  BY <1>2
<1> QED BY <1>1, <1>3

Ordered == \A t \in Tasks : \A n \in 1 .. Len(ops[t]) : ops[t][n] < t

\* The value that the operands' values, given by f, give a task.
From(f, t) == Meaning(t, [n \in DOMAIN ops[t] |-> f[ops[t][n]]])

\* Denotation is the function its recursive definition speaks of.
LEMMA DenotationIsDefined ==
  ASSUME TypeInv, Ordered, NEW t \in Tasks
  PROVE  Denotation[t] = From(Denotation, t)
<1>0. \A u \in Tasks : /\ DOMAIN ops[u] = 1 .. Len(ops[u])
                       /\ \A n \in DOMAIN ops[u] : /\ ops[u][n] \in Tasks
                                                   /\ ops[u][n] < u
  <2> SUFFICES ASSUME NEW u \in Tasks PROVE <1>0!(u)
    OBVIOUS
  <2>1. ops[u] \in Seq(Tasks)
    BY DEF TypeInv
  <2>2. DOMAIN ops[u] = 1 .. Len(ops[u])
    BY <2>1
  <2> QED BY <2>1, <2>2, ElementOfSeq DEF Ordered
<1> DEFINE S == {n \in Nat : \E f : \A u \in Tasks : u <= n => f[u] = From(f, u)}
<1>1. 0 \in S
  BY DEF Tasks
<1>2. ASSUME NEW n \in S PROVE n + 1 \in S
  <2>1. PICK f : \A u \in Tasks : u <= n => f[u] = From(f, u)
    OBVIOUS
  <2> DEFINE g == [u \in Tasks |-> IF u <= n THEN f[u] ELSE From(f, u)]
  <2>2. ASSUME NEW u \in Tasks, u <= n + 1 PROVE g[u] = From(g, u)
    <3>1. \A k \in DOMAIN ops[u] : g[ops[u][k]] = f[ops[u][k]]
      <4> SUFFICES ASSUME NEW k \in DOMAIN ops[u] PROVE g[ops[u][k]] = f[ops[u][k]]
        OBVIOUS
      <4>1. ops[u][k] \in Tasks /\ ops[u][k] < u
        BY <1>0
      <4>2. ops[u][k] <= n
        BY <2>2, <4>1 DEF Tasks
      <4> QED BY <4>1, <4>2
    <3>2. [k \in DOMAIN ops[u] |-> g[ops[u][k]]] = [k \in DOMAIN ops[u] |-> f[ops[u][k]]]
      BY <3>1
    <3>3. From(g, u) = From(f, u)
      BY <3>2 DEF From
    <3>4. g[u] = From(f, u)
      BY <2>1
    <3> QED BY <3>3, <3>4
  <2> HIDE DEF g
  <2> QED BY <2>2
<1> HIDE DEF S
<1>3. S = Nat
  BY <1>1, <1>2, SetInduction DEF S
<1>4. PICK f : \A u \in Tasks : u <= MaxTasks => f[u] = From(f, u)
  BY <1>3, InlineAssumption DEF S, InlineAssumption
<1> DEFINE h == [u \in Tasks |-> f[u]]
<1>5. h = [u \in Tasks |-> From(h, u)]
  <2>1. ASSUME NEW u \in Tasks PROVE h[u] = From(h, u)
    <3>1. [k \in DOMAIN ops[u] |-> h[ops[u][k]]] = [k \in DOMAIN ops[u] |-> f[ops[u][k]]]
      BY <1>0
    <3>2. From(h, u) = From(f, u)
      BY <3>1 DEF From
    <3>3. u <= MaxTasks
      BY InlineAssumption DEF InlineAssumption, Tasks
    <3> QED BY <1>4, <3>2, <3>3
  <2> QED BY <2>1
<1> HIDE DEF h
<1>6. Denotation = [u \in Tasks |-> From(Denotation, u)]
  BY <1>5 DEF Denotation, From
<1> QED BY <1>6

\* What a task was computed from includes itself and the ancestry of each of its
\* operands, and nothing outside a set that has both.
LEMMA AncestryIsLeast ==
  ASSUME TypeInv, NEW t \in Tasks
  PROVE  /\ t \in Ancestry(t) /\ Ancestry(t) \subseteq Tasks
         /\ \A n \in 1 .. Len(ops[t]) : Ancestry(ops[t][n]) \subseteq Ancestry(t)
         /\ \A all \in SUBSET Tasks :
              t \in all /\ HasOperands(all) => Ancestry(t) \subseteq all
<1>1. DOMAIN ops[t] = 1 .. Len(ops[t])
  BY DEF TypeInv
<1>2. ASSUME NEW n \in 1 .. Len(ops[t]), NEW u \in Ancestry(ops[t][n])
      PROVE  u \in Ancestry(t)
  <2> SUFFICES ASSUME NEW all \in SUBSET Tasks, t \in all, HasOperands(all)
               PROVE  u \in all
    BY DEF Ancestry
  <2>1. ops[t][n] \in all
    BY <1>1 DEF HasOperands
  <2> QED BY <2>1 DEF Ancestry
<1>3. \A n \in 1 .. Len(ops[t]) : Ancestry(ops[t][n]) \subseteq Ancestry(t)
  BY <1>2
<1>4. \A all \in SUBSET Tasks :
        t \in all /\ HasOperands(all) => Ancestry(t) \subseteq all
  BY DEF Ancestry
<1> QED BY <1>3, <1>4 DEF Ancestry

\* An explanation by the operands' results is the meaning given their meanings.
LEMMA ExplainedIsMeant ==
  ASSUME TypeInv, NEW t \in Tasks, Explained(t), t \notin dangling, NEW f,
         \A n \in 1 .. Len(ops[t]) :
           Done(ops[t][n]) => f[ops[t][n]] = result[ops[t][n]]
  PROVE  result[t] = From(f, t)
<1> DEFINE vs == [n \in DOMAIN ops[t] |-> f[ops[t][n]]]
           bad == {n \in DOMAIN vs : IsError(vs[n])}
<1>0. /\ DOMAIN ops[t] = 1 .. Len(ops[t]) /\ DOMAIN vs = 1 .. Len(ops[t])
      /\ Len(ops[t]) \in Nat
  BY DEF TypeInv
<1>a. bad \subseteq Nat
  BY <1>0
<1>1. CASE kind[t] = "refused"
  BY <1>1 DEF Explained, From, Meaning
<1>2. CASE /\ kind[t] # "refused"
           /\ \E k \in 1 .. Len(ops[t]) :
                /\ \A m \in 1 .. k - 1 : Succeeded(ops[t][m])
                /\ Done(ops[t][k]) /\ IsError(result[ops[t][k]])
                /\ result[t] = result[ops[t][k]]
  <2> PICK k \in 1 .. Len(ops[t]) :
                /\ \A m \in 1 .. k - 1 : Succeeded(ops[t][m])
                /\ Done(ops[t][k]) /\ IsError(result[ops[t][k]])
                /\ result[t] = result[ops[t][k]]
    BY <1>2
  <2>1. vs[k] = result[ops[t][k]] /\ k \in bad
    BY <1>0
  <2>2. \A m \in bad : k <= m
    <3> SUFFICES ASSUME NEW m \in bad, m < k PROVE FALSE
      <4>1. \A m \in bad : m \in Nat /\ k \in Nat /\ (k <= m \/ m < k)
        BY <1>a
      <4> QED BY <4>1
    <3>1. m \in 1 .. k - 1 /\ m \in 1 .. Len(ops[t])
      BY <1>0
    <3>2. Succeeded(ops[t][m]) /\ vs[m] = result[ops[t][m]]
      BY <1>0, <3>1 DEF Succeeded
    <3> QED BY <3>2 DEF Succeeded
  <2>3. \A n \in bad : (\A m \in bad : n <= m) => n = k
    <3> HIDE DEF bad
    <3>1. ASSUME NEW n \in bad, \A m \in bad : n <= m PROVE n = k
      <4>1. n \in Nat /\ k \in Nat /\ n <= k /\ k <= n
        BY <1>a, <2>1, <2>2, <3>1
      <4> QED BY <4>1
    <3> QED BY <3>1
  <2>4. (CHOOSE n \in bad : \A m \in bad : n <= m) = k
    BY <2>1, <2>2, <2>3
  <2>5. bad # {}
    BY <2>1
  <2>6. From(f, t) = vs[CHOOSE n \in bad : \A m \in bad : n <= m]
    BY <1>2, <2>5 DEF From, Meaning
  <2> QED BY <2>1, <2>4, <2>6
<1>3. CASE /\ kind[t] # "refused"
           /\ \A m \in 1 .. Len(ops[t]) : Succeeded(ops[t][m])
           /\ result[t] = Computed(t, [n \in DOMAIN ops[t] |-> result[ops[t][n]]])
  <2>1. vs = [n \in DOMAIN ops[t] |-> result[ops[t][n]]]
    BY <1>0, <1>3 DEF Succeeded
  <2>2. bad = {}
    BY <1>0, <1>3, <2>1 DEF Succeeded
  <2>3. From(f, t) = Computed(t, vs)
    BY <1>3, <2>2 DEF From, Meaning
  <2> QED BY <1>3, <2>1, <2>3
<1> QED BY <1>1, <1>2, <1>3 DEF Explained

\* Along the creation order every finished task has the value it should.
LEMMA ResultsAreMeant == IInv /\ ResultInv => ResultsDetermined
<1> SUFFICES ASSUME IInv, ResultInv PROVE ResultsDetermined
  OBVIOUS
<1> USE DEF IInv
<1> DEFINE S == {n \in Nat :
                   \A t \in Tasks : t <= n /\ Done(t) /\ Ancestry(t) \cap dangling = {} =>
                                      result[t] = Denotation[t]}
<1>1. 0 \in S
  BY DEF Tasks
<1>2. ASSUME NEW n \in S PROVE n + 1 \in S
  <2> SUFFICES ASSUME NEW t \in Tasks, t <= n + 1, Done(t),
                      Ancestry(t) \cap dangling = {}
               PROVE  result[t] = Denotation[t]
    OBVIOUS
  <2>1. ASSUME NEW k \in 1 .. Len(ops[t]), Done(ops[t][k])
        PROVE  Denotation[ops[t][k]] = result[ops[t][k]]
    <3>1. ops[t][k] \in Tasks /\ ops[t][k] < t
      <4>1. ops[t] \in Seq(Tasks)
        BY DEF TypeInv
      <4> QED BY <4>1, ElementOfSeq DEF ResultInv
    <3>2. ops[t][k] <= n
      BY <3>1 DEF Tasks
    <3>3. Ancestry(ops[t][k]) \cap dangling = {}
      BY AncestryIsLeast
    <3> QED BY <2>1, <3>1, <3>2, <3>3
  <2>2. t \notin dangling /\ Explained(t)
    BY AncestryIsLeast DEF ResultInv
  <2>3. result[t] = From(Denotation, t)
    BY <2>1, <2>2, ExplainedIsMeant
  <2>4. Ordered
    BY DEF ResultInv, Ordered
  <2> QED BY <2>3, <2>4, DenotationIsDefined
<1> HIDE DEF S
<1>3. S = Nat
  BY <1>1, <1>2, SetInduction DEF S
<1>4. \A t \in Tasks : t \in S
  BY <1>3 DEF Tasks
<1> QED BY <1>4 DEF ResultsDetermined, S, Tasks

\* Everything that a value that succeeded was computed from has succeeded.
LEMMA SuccessIsQuiet == IInv /\ ResultInv => MaterializedIsQuiescent
<1> SUFFICES ASSUME IInv, ResultInv, answer # NoTask, NEW u \in Ancestry(answer)
             PROVE  Done(u)
  BY DEF MaterializedIsQuiescent
<1> USE DEF IInv
<1> DEFINE all == {t \in Tasks : Succeeded(t)}
<1>1. HasOperands(all)
  <2> SUFFICES ASSUME NEW t \in all, NEW n \in DOMAIN ops[t] PROVE ops[t][n] \in all
    BY DEF HasOperands
  <2>1. /\ DOMAIN ops[t] = 1 .. Len(ops[t]) /\ ops[t][n] \in Tasks
    BY DEF TypeInv
  <2>2. Explained(t)
    BY DEF ResultInv, Succeeded
  <2>3. \A m \in 1 .. Len(ops[t]) : Succeeded(ops[t][m])
    BY <2>2 DEF Explained, Succeeded, IsError, Error
  <2> QED BY <2>1, <2>3
<1>2. answer \in all
  BY DEF ResultInv
<1>3. Ancestry(answer) \subseteq all
  BY <1>1, <1>2, AncestryIsLeast
<1> QED BY <1>3 DEF Succeeded
-------------------------------------------------------------------------------
(***************************************************************************)
(* That somebody can always go on.                                         *)
(***************************************************************************)
\* What a value is made from is there, and stays when it is disposed of.
MadeInv == \A t \in Tasks : \A n \in 1 .. Len(ops[t]) : ops[t][n] \in Created

LEMMA MadeStep ==
  ASSUME IInv, ResultInv, MadeInv, [Next]_vars
  PROVE  MadeInv'
<1> USE DEF IInv
<1>1. /\ Created \subseteq Created'
      /\ \A t \in Tasks : ops'[t] = ops[t] \/ ops'[t] \in Seq(tracked)
  <2>1. ASSUME NEW t \in Tasks, Create(t) PROVE <1>1
    <3>1. PICK k \in Kinds, futures \in Seq(tracked) : RunAsync(t, k, futures)
      BY <2>1, CreateRuns
    <3>2. /\ pc[t] = "none" /\ ops' = [ops EXCEPT ![t] = futures]
      BY <3>1 DEF RunAsync, Fresh, Created, Tasks
    <3>3. Created \subseteq Created'
      <4>1. \A u \in Tasks \ {t} : pc'[u] = pc[u]
        BY <3>1 DEF RunAsync, TypeInv
      <4> QED BY <3>2, <4>1 DEF Created
    <3>4. \A u \in Tasks : ops'[u] = ops[u] \/ ops'[u] \in Seq(tracked)
      BY <3>2 DEF TypeInv
    <3> QED BY <3>3, <3>4
  <2>2. ASSUME NEW t \in Tasks, Thread(t) PROVE <1>1
    <3>1. UNCHANGED ops
      BY <2>2 DEF Thread, WaitOperand, Compute, taskVars
    <3>2. \A u \in Tasks : pc[u] # "none" => pc'[u] # "none"
      BY <2>2 DEF Thread, WaitOperand, Compute, Finish, TypeInv
    <3> QED BY <3>1, <3>2 DEF Created
  <2>3. CASE \/ \E t \in Tasks : Dispose(t) \/ BeginMaterialize(t)
             \/ Materialize \/ Destroy \/ Ended \/ UNCHANGED vars
    <3>1. UNCHANGED <<pc, ops>>
      BY <2>3 DEF Dispose, BeginMaterialize, Materialize, Destroy, Ended, vars, taskVars
    <3> QED BY <3>1 DEF Created
  <2> QED BY <2>1, <2>2, <2>3 DEF Next
<1>2. tracked \subseteq Created
  BY DEF ResultInv
<1> SUFFICES ASSUME NEW t \in Tasks, NEW n \in 1 .. Len(ops'[t])
             PROVE  ops'[t][n] \in Created'
  BY DEF MadeInv
<1>3. CASE ops'[t] = ops[t]
  BY <1>1, <1>3 DEF MadeInv
<1>4. CASE ops'[t] \in Seq(tracked)
  BY <1>1, <1>2, <1>4, ElementOfSeq
<1> QED BY <1>1, <1>3, <1>4

\* The earliest unfinished value among what a value was made from can go on:
\* what its thread waits for is earlier, hence done.
LEMMA SomebodyGoes == IInv /\ ResultInv /\ MadeInv => NobodyWaitsInVain
<1> SUFFICES ASSUME IInv, ResultInv, MadeInv,
                    NEW t \in Created \cup ({client} \ {NoTask}), ~Done(t)
             PROVE  \E u \in Ancestry(t) : CanGo(u)
  BY DEF NobodyWaitsInVain
<1> USE DEF IInv
<1>1. t \in Created /\ t \in Tasks
  BY DEF ClientInv, ResultInv, Created
<1> DEFINE T == {u \in Ancestry(t) : ~Done(u)}
<1>2. t \in T /\ T \subseteq Nat
  BY <1>1, AncestryIsLeast DEF Tasks
<1>3. PICK u \in T : \A v \in T : u <= v
  BY <1>2, Least
<1>4. u \in Tasks /\ u \in Ancestry(t) /\ u \in Nat
  BY <1>1, <1>2, AncestryIsLeast
<1>5. HasOperands({v \in Created : v \in Tasks})
  <2> SUFFICES ASSUME NEW v \in Created, v \in Tasks, NEW n \in DOMAIN ops[v]
               PROVE  ops[v][n] \in Created /\ ops[v][n] \in Tasks
    BY DEF HasOperands
  <2>1. DOMAIN ops[v] = 1 .. Len(ops[v])
    BY DEF TypeInv
  <2> QED BY <2>1 DEF MadeInv, Created
<1>6. u \in Created
  BY <1>1, <1>4, <1>5, AncestryIsLeast
<1>7. CASE pc[u] = "compute"
  BY <1>4, <1>7 DEF CanGo
<1>8. CASE pc[u] = "waiting"
  <2>1. /\ ops[u] \in Seq(Tasks) /\ at[u] \in Nat /\ at[u] < Len(ops[u])
    BY <1>4, <1>8 DEF WaitedInv, TypeInv
  <2>2. PICK k \in 1 .. Len(ops[u]) : k = at[u] + 1
    <3>1. Len(ops[u]) \in Nat
      BY <2>1
    <3> QED BY <2>1, <3>1
  <2>3. ops[u][k] \in Tasks /\ ops[u][k] < u
    BY <1>4, <2>1, ElementOfSeq DEF ResultInv
  <2>4. ops[u][k] \in Ancestry(t)
    <3> SUFFICES ASSUME NEW tasks \in SUBSET Tasks, t \in tasks, HasOperands(tasks)
                 PROVE  ops[u][k] \in tasks
      BY <2>3 DEF Ancestry
    <3>1. u \in tasks
      BY <1>4 DEF Ancestry
    <3>2. k \in DOMAIN ops[u]
      BY <2>1
    <3> QED BY <3>1, <3>2 DEF HasOperands
  <2>5. ops[u][k] \notin T
    BY <1>3, <1>4, <2>3 DEF Tasks
  <2> QED BY <1>4, <1>8, <2>2, <2>4, <2>5 DEF CanGo
<1> QED BY <1>3, <1>4, <1>6, <1>7, <1>8 DEF Created, TypeInv, States, Done

-------------------------------------------------------------------------------
\* inline_executor.cc does only what executor.h allows: a value is resolved
\* once, and with success only if its operands were; a handle given up, or the
\* executor destroyed, disturbs no value made from it; a successful Materialize
\* speaks of a value that succeeded. (That every future becomes ready is
\* liveness and left to the run.)
THEOREM StepsImplement ==
  Spec => Interface!Init /\ [][Interface!Next]_(Interface!vars)
<1>1. IInv /\ [Next]_vars => IInv' /\ [Interface!Next]_(Interface!vars)
  BY NextStep
<1> QED BY InitInv, <1>1, PTL DEF Spec

\* Whatever the order in which the detached threads of RunAsync get to run, and
\* whatever is disposed of meanwhile, a value is what the sequential reading of
\* the program says, the choice among several errors included, unless a call it
\* was computed from used the executor after its destruction.
THEOREM Deterministic == Spec => []ResultsDetermined
<1>1. IInv /\ ResultInv => ResultsDetermined
  BY ResultsAreMeant
<1> QED BY <1>1, Results, PTL

\* Once Materialize has returned a value no thread it depends on is running: a
\* client that then drops the executor takes it from none of them.
THEOREM Quiescent == Spec => []MaterializedIsQuiescent
<1>1. IInv /\ ResultInv => MaterializedIsQuiescent
  BY SuccessIsQuiet
<1> QED BY <1>1, Results, PTL

\* Whatever a thread or the client waits for is done, or some thread that it
\* was made from can take a step, after Dispose and after the executor is gone
\* as before: what fairness of the threads turns into "every future becomes
\* ready".
THEOREM SomebodyCanGo == Spec => []NobodyWaitsInVain
<1>1. Init => MadeInv
  BY DEF Init, MadeInv
<1>2. IInv /\ ResultInv /\ MadeInv /\ [Next]_vars => MadeInv'
  BY MadeStep
<1>3. IInv /\ ResultInv /\ MadeInv => NobodyWaitsInVain
  BY SomebodyGoes
<1> QED BY <1>1, <1>2, <1>3, Results, PTL DEF Spec
===============================================================================
