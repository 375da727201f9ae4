------------------------- MODULE RemoteExecutorProofs -------------------------
(***************************************************************************)
(* Proofs about module RemoteExecutor: every step of the client, of its    *)
(* threads, of the channel and of the server is a step that the interface  *)
(* allows, or none; requests name values the server still has, no id is    *)
(* disposed of twice, and only the channel leaves a value on the server that*)
(* nobody will dispose of. All hold for any number of values, operands and *)
(* failures and for either library.                                        *)
(***************************************************************************)
EXTENDS RemoteExecutor, SequenceTheorems, FiniteSetTheorems,
        WellFoundedInduction, TLAPS

TypeInv ==
  /\ tracked \subseteq Tasks
  /\ pc \in [Tasks -> {"none", "waiting", "call", "ok", "error"}]
  /\ ops \in [Tasks -> Seq(Tasks)]
  /\ at \in [Tasks -> Nat]
  /\ ref \in [Tasks -> Nat]
  /\ call \in [Tasks -> {"none", "sent", "served", "late", "over"}]
  /\ reply \in [Tasks -> Nat]
  /\ dispose \in [Ids -> {"none", "sent", "over"}]
  /\ next_value_id_ \in Nat
  /\ tracked_values_ \in [Ids -> Tasks \cup {NoTask}]

\* A task has waited for what it has passed, and calls when that is everything;
\* a call that is not over is one its thread waits for.
WaitedInv ==
  \A t \in Tasks :
    /\ pc[t] = "none" => at[t] = 0 /\ call[t] = "none"
    /\ pc[t] = "waiting" => at[t] < Len(ops[t]) /\ call[t] = "none"
    /\ pc[t] = "waiting" => \A n \in 1 .. at[t] : pc[ops[t][n]] = "ok"
    /\ pc[t] = "call" => \A n \in 1 .. Len(ops[t]) : pc[ops[t][n]] = "ok"
    /\ call[t] \in {"sent", "served"} => pc[t] = "call"

\* What is materialized is a value the client has a handle of.
MaterializeInv ==
  /\ materialize = [task |-> materialize.task, step |-> materialize.step]
  /\ materialize.step \in {"none", "waiting", "sent", "ok", "error"}
  /\ materialize.step # "none" => materialize.task \in tracked
  /\ materialize.task = NoTask <=> materialize.step = "none"
  /\ materialize.step \in {"sent", "ok", "error"} => pc[materialize.task] = "ok"

\* An id names the value it was issued for until it is disposed of, on the way
\* to the client and after. Ids that were not issued name nothing.
IdInv ==
  /\ \A t \in Tasks :
       /\ ref[t] # NoId => pc[t] = "ok"
       /\ ref[t] \in Ids => ref[t] < next_value_id_
       /\ ref[t] \in Ids /\ dispose[ref[t]] = "none" =>
            tracked_values_[ref[t]] = t
       /\ call[t] = "served" /\ reply[t] \in Ids =>
            /\ reply[t] < next_value_id_
            /\ dispose[reply[t]] = "none"
            /\ tracked_values_[reply[t]] = t
  /\ \A i \in Ids : dispose[i] # "none" => i < next_value_id_
  /\ DisposedOnce

\* A request that was not handled has no response.
ReplyInv ==
  \A t \in Tasks : call[t] \in {"none", "sent"} => reply[t] = NoId

IInv == TypeInv /\ WaitedInv /\ MaterializeInv /\ IdInv /\ ReplyInv

status == [t \in Tasks |-> IF Running(t) THEN "pending" ELSE pc[t]]
abstract == <<status, ops, tracked, answer>>

-------------------------------------------------------------------------------
\* Initially nothing is created, in the interface either.
LEMMA InitInv == Init => IInv /\ Interface!Init
<1> SUFFICES ASSUME Init PROVE IInv /\ Interface!Init
  OBVIOUS
<1>0. NoId \in Nat
  BY RemoteAssumption DEF RemoteAssumption, NoId
<1>1. IInv
  BY <1>0, EmptySeq
     DEF Init, IInv, TypeInv, WaitedInv, MaterializeInv, NoMaterialize, NoTask,
         IdInv, DisposedOnce, ReplyInv, Ids, NoId
<1>2. Interface!Init
  BY DEF Init, Interface!Init, Running
<1> QED BY <1>1, <1>2

\* Whatever is destroyed, an id that is disposed of names a value, and one that
\* is still on its way to the client is not among them.
LEMMA DestroyKeeps ==
  ASSUME TypeInv, TypeInv', serverVars' = serverVars, IdInv,
         dispose' = dispose \/ DestroyValues,
         \A t \in Tasks :
           /\ call'[t] = "served" => call[t] = "served" /\ ref'[t] = NoId
           /\ \/ ref'[t] = ref[t]
              \/ call[t] = "served" /\ call'[t] # "served" /\ ref'[t] = reply[t]
           /\ ref'[t] # NoId => pc'[t] = "ok",
         UNCHANGED reply
  PROVE  IdInv'
<1> USE DEF serverVars
<1>1. \A i \in Ids : dispose'[i] # dispose[i] =>
        /\ dispose[i] = "none" /\ dispose'[i] = "sent"
        /\ \E t \in Tasks : ref'[t] = i
  <2> SUFFICES ASSUME NEW i \in Ids, dispose'[i] # dispose[i], DestroyValues
               PROVE  /\ dispose[i] = "none" /\ dispose'[i] = "sent"
                      /\ \E t \in Tasks : ref'[t] = i
    OBVIOUS
  <2>1. dispose'[i] = IF /\ dispose[i] = "none"
                         /\ \E t \in Tasks : ref'[t] = i /\ t \notin Alive'
                      THEN "sent" ELSE dispose[i]
    BY DEF DestroyValues
  <2> QED BY <2>1
<1>2. \A t \in Tasks : ref'[t] \in Ids /\ dispose[ref'[t]] = "none" =>
        /\ tracked_values_[ref'[t]] = t
        /\ ref'[t] < next_value_id_
  BY DEF IdInv
<1>3. \A t \in Tasks : t # NoTask
  BY DEF Tasks, NoTask
<1>4. DisposedOnce'
  BY <1>1, <1>2, <1>3 DEF IdInv, DisposedOnce
<1>5. \A i \in Ids : dispose'[i] # "none" => i < next_value_id_'
  BY <1>1, <1>2 DEF IdInv
<1>6. ASSUME NEW t \in Tasks
      PROVE  /\ ref'[t] \in Ids => ref'[t] < next_value_id_'
             /\ ref'[t] \in Ids /\ dispose'[ref'[t]] = "none" =>
                  tracked_values_'[ref'[t]] = t
  BY <1>1, <1>2 DEF IdInv
<1>7. ASSUME NEW t \in Tasks, call'[t] = "served", reply'[t] \in Ids
      PROVE  /\ reply'[t] < next_value_id_'
             /\ dispose'[reply'[t]] = "none"
             /\ tracked_values_'[reply'[t]] = t
  <2>1. /\ call[t] = "served" /\ ref'[t] = NoId /\ reply'[t] = reply[t]
        /\ reply[t] < next_value_id_ /\ dispose[reply[t]] = "none"
        /\ tracked_values_[reply[t]] = t
    BY <1>7 DEF IdInv
  <2>2. ~\E u \in Tasks : ref'[u] = reply[t]
    <3> SUFFICES ASSUME NEW u \in Tasks, ref'[u] = reply[t] PROVE FALSE
      OBVIOUS
    <3>1. u = t
      BY <1>2, <1>7, <2>1
    <3> QED BY <1>7, <2>1, <3>1 DEF Ids, NoId
  <2> QED BY <1>1, <1>7, <2>1, <2>2
<1> QED BY <1>4, <1>5, <1>6, <1>7 DEF IdInv

\* What remains of WaitedInv when only some tasks change: success is for ever.
LEMMA WaitedKeeps ==
  ASSUME TypeInv, WaitedInv, NEW t \in Tasks, UNCHANGED ops,
         \A u \in Tasks : pc[u] = "ok" => pc'[u] = "ok",
         \A u \in Tasks \ {t} :
           pc'[u] = pc[u] /\ at'[u] = at[u] /\ call'[u] = call[u],
         WaitedInv!(t)'
  PROVE  WaitedInv'
<1> SUFFICES ASSUME NEW u \in Tasks PROVE WaitedInv!(u)'
  BY DEF WaitedInv
<1>1. CASE u = t
  BY <1>1
<1>2. CASE u # t
  <2>1. pc'[u] = pc[u] /\ at'[u] = at[u] /\ call'[u] = call[u] /\ ops'[u] = ops[u]
    BY <1>2
  <2>2. \A n \in 1 .. Len(ops[u]) : ops[u][n] \in Tasks
    BY DEF TypeInv
  <2>3. pc[u] = "waiting" => \A n \in 1 .. at[u] : ops[u][n] \in Tasks
    BY <2>2 DEF TypeInv, WaitedInv
  <2> QED BY <2>1, <2>2, <2>3 DEF WaitedInv
<1> QED BY <1>1, <1>2
-------------------------------------------------------------------------------
(***************************************************************************)
(* The client.                                                             *)
(***************************************************************************)
\* A value is created from values the client holds.
LEMMA CreateStep ==
  ASSUME IInv, NEW t \in Tasks, Create(t)
  PROVE  IInv' /\ Interface!Create(t)
<1> USE DEF IInv
<1>0. pc[t] = "none" /\ materialize.task = NoTask
  BY DEF Create, Idle, Created, Tasks
<1>1. PICK futures \in Seq(tracked) :
        /\ ops' = [ops EXCEPT ![t] = futures]
        /\ \/ Len(futures) = 0 /\ pc' = [pc EXCEPT ![t] = "call"]
              /\ call' = [call EXCEPT ![t] = "sent"]
           \/ 0 < Len(futures) /\ pc' = [pc EXCEPT ![t] = "waiting"]
              /\ call' = [call EXCEPT ![t] = "none"]
  <2>1. PICK n \in 0 .. MaxOperands :
          \E futures \in [1 .. n -> tracked] :
            /\ ops' = [ops EXCEPT ![t] = futures]
            /\ pc' = [pc EXCEPT ![t] = IF n = 0 THEN "call" ELSE "waiting"]
            /\ call' = [call EXCEPT ![t] = IF n = 0 THEN "sent" ELSE "none"]
    BY DEF Create
  <2>2. n \in Nat
    BY RemoteAssumption DEF RemoteAssumption
  <2>3. \A futures \in [1 .. n -> tracked] :
          futures \in Seq(tracked) /\ Len(futures) = n
    BY <2>2, SeqDef
  <2>4. PICK futures \in [1 .. n -> tracked] :
          /\ ops' = [ops EXCEPT ![t] = futures]
          /\ pc' = [pc EXCEPT ![t] = IF n = 0 THEN "call" ELSE "waiting"]
          /\ call' = [call EXCEPT ![t] = IF n = 0 THEN "sent" ELSE "none"]
    BY <2>1
  <2>5. futures \in Seq(tracked) /\ Len(futures) = n
    BY <2>3
  <2>6. CASE n = 0
    BY <2>4, <2>5, <2>6
  <2>7. CASE n # 0
    <3>1. 0 < n
      BY <2>2, <2>7
    <3> QED BY <2>4, <2>5, <2>7, <3>1
  <2> QED BY <2>6, <2>7
<1>2. /\ tracked' = tracked \cup {t}
      /\ UNCHANGED <<at, ref, materialize, answer, reply, dispose, serverVars>>
  BY DEF Create
<1>3. futures \in Seq(Tasks)
  BY SeqMonotonic DEF TypeInv
<1>4. TypeInv'
  BY <1>1, <1>2, <1>3 DEF TypeInv, serverVars
<1>5. /\ \A u \in Tasks \ {t} : /\ pc'[u] = pc[u] /\ at'[u] = at[u]
                                /\ call'[u] = call[u] /\ ops'[u] = ops[u]
      /\ \A u \in Tasks : pc[u] = "ok" => pc'[u] = "ok"
      /\ at'[t] = 0 /\ ops'[t] = futures
  BY <1>0, <1>1, <1>2 DEF TypeInv, WaitedInv
<1>6. WaitedInv'
  <2> SUFFICES ASSUME NEW u \in Tasks PROVE WaitedInv!(u)'
    BY DEF WaitedInv
  <2>1. CASE u = t
    BY <1>1, <1>5, <2>1, SMTT(20) DEF TypeInv
  <2>2. CASE u # t
    <3>1. \A n \in 1 .. Len(ops[u]) : ops[u][n] \in Tasks
      BY DEF TypeInv
    <3>2. pc[u] = "waiting" => \A n \in 1 .. at[u] : ops[u][n] \in Tasks
      BY <3>1 DEF TypeInv, WaitedInv
    <3> QED BY <1>5, <2>2, <3>1, <3>2 DEF WaitedInv
  <2> QED BY <2>1, <2>2
<1>7. MaterializeInv'
  BY <1>0, <1>2 DEF MaterializeInv
<1>8. IdInv'
  BY <1>0, <1>1, <1>2, <1>5 DEF TypeInv, IdInv, DisposedOnce, serverVars
<1>9. ReplyInv'
  BY <1>0, <1>2, <1>5 DEF ReplyInv, WaitedInv
<1>10. Interface!Create(t)
  <2>1. status[t] = "none" /\ status'[t] = "pending"
    BY <1>0, <1>1, <1>4 DEF TypeInv, status, Running
  <2>2. status' = [status EXCEPT ![t] = status'[t]]
    BY <1>5 DEF status, Running
  <2>3. ops'[t] \in Seq(tracked) /\ ops' = [ops EXCEPT ![t] = ops'[t]]
    BY <1>1, <1>5
  <2> QED BY <1>2, <2>1, <2>2, <2>3 DEF Interface!Create, status
<1> QED BY <1>4, <1>6, <1>7, <1>8, <1>9, <1>10

\* Giving up a handle and materializing.
LEMMA ClientStep ==
  ASSUME IInv,
         \/ \E t \in Tasks : Release(t) \/ BeginMaterialize(t)
         \/ Close \/ MaterializeWait \/ MaterializeReturn
         \/ MaterializeFails \/ ServeMaterialize
  PROVE  /\ IInv'
         /\ \/ \E t \in Tasks : Interface!Materialize(t)
            \/ Interface!Release
<1> USE DEF IInv
<1>0. /\ UNCHANGED <<pc, ops, at, ref, call, reply, serverVars>>
      /\ tracked' \subseteq tracked
      /\ dispose' = dispose \/ DestroyValues
  BY DEF Release, BeginMaterialize, Close, MaterializeWait, MaterializeReturn,
         MaterializeFails, ServeMaterialize
<1>1. TypeInv'
  <2>1. dispose' \in [Ids -> {"none", "sent", "over"}]
    BY <1>0 DEF TypeInv, DestroyValues
  <2> QED BY <1>0, <2>1 DEF TypeInv, serverVars
<1>2. WaitedInv'
  BY <1>0 DEF WaitedInv
<1>3. IdInv'
  <2>1. \A t \in Tasks : call[t] = "served" => ref[t] = NoId
    BY DEF IdInv, WaitedInv
  <2> QED BY <1>0, <1>1, <2>1, DestroyKeeps DEF IdInv
<1>4. MaterializeInv'
  <2>1. CASE \E t \in Tasks : Release(t)
    BY <2>1 DEF Release, Idle, MaterializeInv
  <2>2. CASE \E t \in Tasks : BeginMaterialize(t)
    BY <2>2 DEF BeginMaterialize, MaterializeInv, TypeInv, Tasks, NoTask
  <2>3. CASE Close \/ MaterializeWait \/ MaterializeReturn
    BY <2>3 DEF Close, MaterializeWait, MaterializeReturn, MaterializeInv,
                NoMaterialize, NoTask
  <2>4. CASE MaterializeFails \/ ServeMaterialize
    BY <2>4 DEF MaterializeFails, ServeMaterialize, MaterializeInv
  <2> QED BY <2>1, <2>2, <2>3, <2>4
<1>5. status' = status /\ ReplyInv'
  BY <1>0 DEF status, Running, ReplyInv
<1>6. CASE UNCHANGED answer
  <2>1. Interface!Release
    BY <1>0, <1>5, <1>6 DEF Interface!Release, status
  <2> QED BY <1>1, <1>2, <1>3, <1>4, <1>5, <2>1
<1>7. CASE MaterializeReturn /\ materialize.step = "ok"
  <2>1. /\ materialize.task \in tracked /\ pc[materialize.task] = "ok"
        /\ answer' = materialize.task /\ tracked' = tracked
    BY <1>7 DEF MaterializeReturn, MaterializeInv
  <2>2. materialize.task \in Tasks /\ status[materialize.task] = "ok"
    BY <2>1 DEF TypeInv, status, Running
  <2>3. Interface!Materialize(materialize.task)
    BY <1>0, <1>5, <2>1, <2>2 DEF Interface!Materialize, status
  <2> QED BY <1>1, <1>2, <1>3, <1>4, <1>5, <2>2, <2>3
<1> QED BY <1>6, <1>7
        DEF Release, BeginMaterialize, Close, MaterializeWait, MaterializeReturn,
            MaterializeFails, ServeMaterialize
-------------------------------------------------------------------------------
(***************************************************************************)
(* The threads and the channel.                                            *)
(***************************************************************************)
\* When the thread of a task ends, the value is resolved.
LEMMA ThreadEnds ==
  ASSUME IInv, NEW t \in Tasks, Running(t), NEW s \in {"ok", "error"},
         pc' = [pc EXCEPT ![t] = s],
         s = "ok" => \A n \in 1 .. Len(ops[t]) : pc[ops[t][n]] = "ok",
         UNCHANGED <<ops, tracked, answer>>
  PROVE  Interface!Resolve(t)
<1>1. status[t] = "pending" /\ status'[t] = s
  BY DEF IInv, TypeInv, status, Running
<1>2. status' = [status EXCEPT ![t] = s]
  BY DEF IInv, TypeInv, status, Running
<1>3. s = "ok" => \A n \in 1 .. Len(ops[t]) : status[ops[t][n]] = "ok"
  BY SMTT(20) DEF IInv, TypeInv, status, Running
<1> QED BY <1>1, <1>2, <1>3
        DEF Interface!Resolve, Interface!OperandsOk, status

\* Wait() has one more operand, or its error.
LEMMA WaitStep ==
  ASSUME IInv, NEW t \in Tasks, WaitOperand(t)
  PROVE  IInv' /\ (Interface!Resolve(t) \/ UNCHANGED abstract)
<1> USE DEF IInv
<1>0. /\ pc[t] = "waiting" /\ call[t] = "none"
      /\ at[t] < Len(ops[t]) /\ at[t] \in Nat /\ Len(ops[t]) \in Nat
      /\ UNCHANGED <<tracked, ops, ref, materialize, answer, reply, serverVars>>
      /\ DestroyValues
  BY DEF WaitOperand, WaitedInv, TypeInv
<1>1. \/ /\ pc[ops[t][at[t] + 1]] = "ok"
         /\ at' = [at EXCEPT ![t] = @ + 1]
         /\ \/ /\ at[t] + 1 = Len(ops[t])
               /\ pc' = [pc EXCEPT ![t] = "call"]
               /\ call' = [call EXCEPT ![t] = "sent"]
            \/ at[t] + 1 # Len(ops[t]) /\ UNCHANGED <<pc, call>>
      \/ /\ pc' = [pc EXCEPT ![t] = "error"]
         /\ UNCHANGED <<at, call>>
  BY DEF WaitOperand
<1>2. dispose' \in [Ids -> {"none", "sent", "over"}]
  BY <1>0 DEF TypeInv, DestroyValues
<1>3. TypeInv'
  <2>1. at' \in [Tasks -> Nat]
    <3>1. CASE at' = [at EXCEPT ![t] = @ + 1]
      BY <1>0, <3>1, SMTT(20) DEF TypeInv
    <3>2. CASE UNCHANGED at
      BY <3>2 DEF TypeInv
    <3> QED BY <1>1, <3>1, <3>2
  <2>2. /\ pc' \in [Tasks -> {"none", "waiting", "call", "ok", "error"}]
        /\ call' \in [Tasks -> {"none", "sent", "served", "late", "over"}]
    <3>1. CASE UNCHANGED <<pc, call>>
      BY <3>1 DEF TypeInv
    <3>2. CASE /\ pc' = [pc EXCEPT ![t] = "call"]
               /\ call' = [call EXCEPT ![t] = "sent"]
      BY <3>2 DEF TypeInv
    <3>3. CASE pc' = [pc EXCEPT ![t] = "error"] /\ UNCHANGED call
      BY <3>3 DEF TypeInv
    <3> QED BY <1>1, <3>1, <3>2, <3>3
  <2> QED BY <1>0, <1>2, <2>1, <2>2 DEF TypeInv, serverVars
<1>4. /\ \A u \in Tasks \ {t} :
           pc'[u] = pc[u] /\ at'[u] = at[u] /\ call'[u] = call[u]
      /\ \A u \in Tasks : pc[u] = "ok" => pc'[u] = "ok"
  BY <1>0, <1>1 DEF TypeInv
<1>5. WaitedInv!(t)'
  <2>1. CASE pc'[t] = "error" /\ UNCHANGED call
    BY <1>0, <2>1
  <2>2. CASE /\ pc[ops[t][at[t] + 1]] = "ok" /\ at'[t] = at[t] + 1
             /\ \/ /\ at[t] + 1 = Len(ops[t])
                   /\ pc'[t] = "call" /\ call'[t] = "sent"
                \/ at[t] + 1 # Len(ops[t]) /\ UNCHANGED <<pc, call>>
    <3>1. \A n \in 1 .. at[t] + 1 : pc[ops[t][n]] = "ok" /\ ops[t][n] \in Tasks
      <4> SUFFICES ASSUME NEW n \in 1 .. at[t] + 1
                   PROVE  pc[ops[t][n]] = "ok" /\ ops[t][n] \in Tasks
        OBVIOUS
      <4>1. n \in 1 .. Len(ops[t]) /\ (n = at[t] + 1 \/ n \in 1 .. at[t])
        BY <1>0
      <4>2. ops[t][n] \in Tasks
        BY <4>1, ElementOfSeq DEF TypeInv
      <4> QED BY <1>0, <2>2, <4>1, <4>2 DEF WaitedInv
    <3>2. \A n \in 1 .. at[t] + 1 : pc'[ops'[t][n]] = "ok"
      BY <1>0, <1>4, <3>1
    <3> QED BY <1>0, <2>2, <3>2
  <2> QED BY <1>1, <2>1, <2>2 DEF TypeInv
<1>6. WaitedInv'
  BY <1>0, <1>4, <1>5, WaitedKeeps
<1>7. MaterializeInv'
  BY <1>0, <1>4 DEF MaterializeInv, TypeInv
<1>8. IdInv'
  <2>1. \A u \in Tasks : /\ call'[u] = "served" => call[u] = "served"
                         /\ call[u] = "served" => ref[u] = NoId
    BY <1>1, <1>4 DEF IdInv, WaitedInv, TypeInv
  <2>2. \A u \in Tasks : ref'[u] # NoId => pc'[u] = "ok"
    BY <1>0, <1>4 DEF IdInv
  <2> QED BY <1>0, <1>3, <2>1, <2>2, DestroyKeeps
<1>9. ReplyInv'
  <2>1. \A u \in Tasks :
          call'[u] \in {"none", "sent"} => call[u] \in {"none", "sent"}
    BY <1>0, <1>4
  <2> QED BY <1>0, <2>1 DEF ReplyInv
<1>10. CASE pc' = [pc EXCEPT ![t] = "error"]
  BY <1>0, <1>3, <1>6, <1>7, <1>8, <1>9, <1>10, ThreadEnds DEF Running
<1>11. CASE pc' # [pc EXCEPT ![t] = "error"]
  <2>1. pc'[t] \in {"waiting", "call"}
    BY <1>0, <1>1, <1>11 DEF TypeInv
  <2>2. \A u \in Tasks : (IF Running(u) THEN "pending" ELSE pc[u])'
                            = IF Running(u) THEN "pending" ELSE pc[u]
    <3> SUFFICES ASSUME NEW u \in Tasks PROVE <2>2!(u)
      OBVIOUS
    <3>1. CASE u = t
      BY <1>0, <2>1, <3>1 DEF Running
    <3>2. CASE u # t
      BY <1>4, <3>2 DEF Running
    <3> QED BY <3>1, <3>2
  <2> QED BY <1>0, <1>3, <1>6, <1>7, <1>8, <1>9, <2>2 DEF abstract, status
<1> QED BY <1>10, <1>11

\* The call of a task ends, with the id of its value or without.
LEMMA CallStep ==
  ASSUME IInv, NEW t \in Tasks, CallReturns(t) \/ CallFails(t)
  PROVE  IInv' /\ Interface!Resolve(t)
<1> USE DEF IInv
<1>0. /\ call[t] \in {"sent", "served"} /\ pc[t] = "call"
      /\ UNCHANGED <<tracked, ops, at, materialize, answer, reply, serverVars>>
      /\ DestroyValues
  BY DEF CallReturns, CallFails, WaitedInv
<1>1. PICK s \in {"ok", "error"} :
        /\ pc' = [pc EXCEPT ![t] = s]
        /\ \/ call[t] = "served" /\ ref' = [ref EXCEPT ![t] = reply[t]]
           \/ UNCHANGED ref
        /\ s = "error" => ref'[t] = NoId
  <2>1. ref[t] = NoId
    BY <1>0 DEF IdInv
  <2>2. CASE CallReturns(t) /\ reply[t] = NoId
    BY <2>2 DEF CallReturns, TypeInv
  <2>3. CASE CallReturns(t) /\ reply[t] # NoId
    BY <2>3 DEF CallReturns, TypeInv
  <2>4. CASE CallFails(t)
    BY <2>1, <2>4 DEF CallFails, TypeInv
  <2> QED BY <2>2, <2>3, <2>4
<1>2. \E c \in {"late", "over"} : call' = [call EXCEPT ![t] = c]
  BY DEF CallReturns, CallFails
<1>3. dispose' \in [Ids -> {"none", "sent", "over"}]
  BY <1>0 DEF TypeInv, DestroyValues
<1>4. TypeInv'
  BY <1>0, <1>1, <1>2, <1>3 DEF TypeInv, serverVars
<1>5. /\ \A u \in Tasks \ {t} :
           /\ pc'[u] = pc[u] /\ at'[u] = at[u] /\ call'[u] = call[u]
           /\ ref'[u] = ref[u]
      /\ \A u \in Tasks : pc[u] = "ok" => pc'[u] = "ok"
      /\ pc'[t] = s /\ call'[t] \in {"late", "over"}
  BY <1>0, <1>1, <1>2 DEF TypeInv
<1>6. WaitedInv'
  BY <1>0, <1>5, WaitedKeeps
<1>7. MaterializeInv'
  BY <1>0, <1>5 DEF MaterializeInv, TypeInv
<1>8. IdInv'
  <2>1. \A u \in Tasks :
          /\ call'[u] = "served" => call[u] = "served" /\ ref'[u] = NoId
          /\ \/ ref'[u] = ref[u]
             \/ call[u] = "served" /\ call'[u] # "served" /\ ref'[u] = reply[u]
          /\ ref'[u] # NoId => pc'[u] = "ok"
    <3> SUFFICES ASSUME NEW u \in Tasks PROVE <2>1!(u)
      OBVIOUS
    <3>1. CASE u = t
      BY <1>1, <1>5, <3>1 DEF TypeInv
    <3>2. CASE u # t
      BY <1>5, <3>2 DEF IdInv, WaitedInv
    <3> QED BY <3>1, <3>2
  <2> QED BY <1>0, <1>4, <2>1, DestroyKeeps
<1>9. Interface!Resolve(t)
  BY <1>0, <1>1, ThreadEnds DEF WaitedInv, Running
<1>10. ReplyInv'
  <2>1. \A u \in Tasks :
          call'[u] \in {"none", "sent"} => call[u] \in {"none", "sent"}
    BY <1>5
  <2> QED BY <1>0, <2>1 DEF ReplyInv
<1> QED BY <1>4, <1>6, <1>7, <1>8, <1>9, <1>10
-------------------------------------------------------------------------------
(***************************************************************************)
(* The server and the end of Dispose.                                      *)
(***************************************************************************)
\* The server answers a request, with an error or with an id that is new.
LEMMA ServeStep ==
  ASSUME IInv, NEW t \in Tasks, Serve(t)
  PROVE  IInv' /\ UNCHANGED abstract
<1> USE DEF IInv
<1>0. /\ UNCHANGED <<clientVars, dispose, failures>>
      /\ UNCHANGED <<tracked, pc, ops, at, ref, materialize, answer>>
      /\ \/ call[t] = "sent" /\ call' = [call EXCEPT ![t] = "served"]
         \/ call[t] = "late" /\ call' = [call EXCEPT ![t] = "over"]
  BY DEF Serve, clientVars
<1>1. \/ UNCHANGED <<reply, serverVars>>
      \/ /\ next_value_id_' = next_value_id_ + 1
         /\ tracked_values_' = [tracked_values_ EXCEPT ![next_value_id_] = t]
         /\ reply' = [reply EXCEPT ![t] = next_value_id_]
  BY DEF Serve
<1>2. call' \in [Tasks -> {"none", "sent", "served", "late", "over"}]
  BY <1>0 DEF TypeInv
<1>3. TypeInv'
  <2>1. CASE UNCHANGED <<reply, serverVars>>
    BY <1>0, <1>2, <2>1 DEF TypeInv, serverVars
  <2>2. CASE /\ next_value_id_' = next_value_id_ + 1
             /\ tracked_values_' = [tracked_values_ EXCEPT ![next_value_id_] = t]
             /\ reply' = [reply EXCEPT ![t] = next_value_id_]
    <3>1. next_value_id_' \in Nat /\ reply' \in [Tasks -> Nat]
      BY <2>2 DEF TypeInv
    <3>2. tracked_values_' \in [Ids -> Tasks \cup {NoTask}]
      BY <2>2 DEF TypeInv
    <3> QED BY <1>0, <1>2, <3>1, <3>2 DEF TypeInv
  <2> QED BY <1>1, <2>1, <2>2
<1>4. /\ \A u \in Tasks \ {t} : call'[u] = call[u] /\ reply'[u] = reply[u]
      /\ call'[t] = IF call[t] = "sent" THEN "served" ELSE "over"
  BY <1>0, <1>1 DEF TypeInv
<1>5. WaitedInv'
  <2>1. WaitedInv!(t)'
    BY <1>0, <1>4 DEF WaitedInv
  <2> QED BY <1>0, <1>4, <2>1, WaitedKeeps
<1>6. MaterializeInv'
  BY <1>0 DEF MaterializeInv
<1>7. ReplyInv'
  BY <1>4 DEF ReplyInv
<1>8. IdInv'
  <2>1. CASE UNCHANGED <<reply, serverVars>>
    <3>1. call[t] = "sent" => reply'[t] = NoId
      BY <2>1 DEF ReplyInv
    <3>2. NoId \notin Ids
      BY RemoteAssumption DEF RemoteAssumption, NoId, Ids
    <3> QED BY <1>0, <1>4, <2>1, <3>1, <3>2 DEF IdInv, DisposedOnce, serverVars
  <2>2. CASE /\ next_value_id_' = next_value_id_ + 1
             /\ tracked_values_' = [tracked_values_ EXCEPT ![next_value_id_] = t]
             /\ reply' = [reply EXCEPT ![t] = next_value_id_]
    <3>1. \A i \in Ids : /\ i \in Nat
                         /\ i < next_value_id_ =>
                              /\ tracked_values_'[i] = tracked_values_[i]
                              /\ i < next_value_id_'
      BY <2>2 DEF TypeInv, Ids
    <3>2. next_value_id_ \in Ids =>
            /\ tracked_values_'[next_value_id_] = t
            /\ dispose[next_value_id_] = "none"
            /\ next_value_id_ < next_value_id_'
      BY <2>2 DEF TypeInv, IdInv
    <3>3. \A i \in Ids : dispose'[i] # "none" =>
            i < next_value_id_' /\ tracked_values_'[i] = tracked_values_[i]
      BY <1>0, <3>1 DEF IdInv
    <3>4. DisposedOnce'
      BY <1>0, <3>3 DEF IdInv, DisposedOnce
    <3>5. ASSUME NEW u \in Tasks PROVE IdInv!1!(u)'
      <4>1. CASE u = t
        <5>1. reply'[t] = next_value_id_
          BY <2>2 DEF TypeInv
        <5> QED BY <1>0, <3>1, <3>2, <4>1, <5>1 DEF IdInv
      <4>2. CASE u # t
        BY <1>0, <1>4, <3>1, <4>2 DEF IdInv
      <4> QED BY <4>1, <4>2
    <3> QED BY <3>3, <3>4, <3>5 DEF IdInv
  <2> QED BY <1>1, <2>1, <2>2
<1>9. UNCHANGED abstract
  BY <1>0 DEF abstract, status, Running
<1> QED BY <1>3, <1>5, <1>6, <1>7, <1>8, <1>9

\* A Dispose request is handled, or lost.
LEMMA DisposeStep ==
  ASSUME IInv, NEW i \in Ids, DisposeFails(i) \/ ServeDispose(i)
  PROVE  IInv' /\ UNCHANGED abstract
<1> USE DEF IInv
<1>0. /\ dispose[i] = "sent" /\ dispose' = [dispose EXCEPT ![i] = "over"]
      /\ UNCHANGED <<tracked, pc, ops, at, ref, materialize, answer>>
      /\ UNCHANGED <<call, reply, next_value_id_>>
      /\ \/ UNCHANGED tracked_values_
         \/ tracked_values_' = [tracked_values_ EXCEPT ![i] = NoTask]
  BY DEF DisposeFails, ServeDispose, clientVars, serverVars
<1>1. TypeInv'
  BY <1>0 DEF TypeInv
<1>2. WaitedInv' /\ MaterializeInv' /\ ReplyInv'
  BY <1>0 DEF WaitedInv, MaterializeInv, ReplyInv
<1>3. /\ \A j \in Ids \ {i} : /\ dispose'[j] = dispose[j]
                              /\ tracked_values_'[j] = tracked_values_[j]
      /\ dispose'[i] = "over"
  BY <1>0 DEF TypeInv
<1>4. DisposedOnce'
  BY <1>3 DEF IdInv, DisposedOnce
<1>5. IdInv'
  BY <1>0, <1>3, <1>4 DEF IdInv
<1>6. UNCHANGED abstract
  BY <1>0 DEF abstract, status, Running
<1> QED BY <1>1, <1>2, <1>5, <1>6

LEMMA NextStep ==
  ASSUME IInv, [Next]_vars
  PROVE  IInv' /\ [Interface!Next]_(Interface!vars)
<1>1. CASE \E t \in Tasks : Create(t)
  BY <1>1, CreateStep DEF Interface!Next
<1>2. CASE \/ \E t \in Tasks : Release(t) \/ BeginMaterialize(t)
           \/ Close \/ MaterializeWait \/ MaterializeReturn
           \/ MaterializeFails \/ ServeMaterialize
  BY <1>2, ClientStep DEF Interface!Next
<1>3. CASE \E t \in Tasks : WaitOperand(t)
  BY <1>3, WaitStep DEF Interface!Next, Interface!vars, abstract, status
<1>4. CASE \E t \in Tasks : CallReturns(t) \/ CallFails(t)
  BY <1>4, CallStep DEF Interface!Next
<1>5. CASE \E t \in Tasks : Serve(t)
  BY <1>5, ServeStep DEF Interface!vars, abstract, status
<1>6. CASE \E i \in Ids : DisposeFails(i) \/ ServeDispose(i)
  BY <1>6, DisposeStep DEF Interface!vars, abstract, status
<1>7. CASE UNCHANGED vars
  <2>1. UNCHANGED <<tracked, pc, ops, at, ref, materialize, answer, call, reply,
                    dispose, next_value_id_, tracked_values_>>
    BY <1>7 DEF vars, clientVars, serverVars
  <2> QED BY <2>1 DEF IInv, TypeInv, WaitedInv, MaterializeInv, IdInv,
                      DisposedOnce, ReplyInv, Interface!vars, Running
<1> QED BY <1>1, <1>2, <1>3, <1>4, <1>5, <1>6, <1>7 DEF Next, Ended

-------------------------------------------------------------------------------
(***************************************************************************)
(* Which values exist, on both sides.                                      *)
(***************************************************************************)
\* The service hands out one id per request that it answers, so it never
\* hands out more ids than there are values.
ServedOnce ==
  /\ \A t \in Tasks : call[t] = "late" => reply[t] = NoId
  /\ Cardinality({t \in Tasks : reply[t] # NoId}) = next_value_id_

\* What the client has a handle of was created; a task keeps itself and its
\* operands; and the id of a task that exists was not disposed of.
AliveInv ==
  /\ tracked \subseteq Created
  /\ \A t \in Created :
       /\ t \in keeps[t]
       /\ \A n \in 1 .. Len(ops[t]) : ops[t][n] \in keeps[t]
  /\ \A t \in Alive : ref[t] \in Ids => dispose[ref[t]] = "none"

LInv == IInv /\ TypeOK /\ ServedOnce /\ AliveInv /\ ServerValuesAccounted

\* What no step but the creation of a value changes.
LEMMA Frame ==
  ASSUME IInv, [Next]_vars, ~\E t \in Tasks : Create(t)
  PROVE  /\ UNCHANGED <<ops, keeps>>
         /\ tracked' \subseteq tracked
         /\ materialize'.task \in tracked \cup {materialize.task, NoTask}
         /\ \A t \in Tasks : /\ pc'[t] = "none" <=> pc[t] = "none"
                             /\ Running(t)' => Running(t)
<1> USE DEF IInv
<1>1. CASE \E t \in Tasks : WaitOperand(t)
  <2> PICK t \in Tasks : WaitOperand(t)
    BY <1>1
  <2>1. /\ pc[t] = "waiting"
        /\ UNCHANGED <<ops, keeps, tracked, materialize>>
        /\ \/ pc' = pc
           \/ pc' = [pc EXCEPT ![t] = "call"]
           \/ pc' = [pc EXCEPT ![t] = "error"]
    BY DEF WaitOperand
  <2> QED BY <2>1 DEF TypeInv, Running
<1>2. CASE \E t \in Tasks : CallReturns(t) \/ CallFails(t)
  <2> PICK t \in Tasks : CallReturns(t) \/ CallFails(t)
    BY <1>2
  <2>1. /\ pc[t] = "call"
        /\ UNCHANGED <<ops, keeps, tracked, materialize>>
        /\ \E s \in {"ok", "error"} : pc' = [pc EXCEPT ![t] = s]
    BY DEF CallReturns, CallFails, WaitedInv
  <2> QED BY <2>1 DEF TypeInv, Running
<1>3. CASE \/ \E t \in Tasks : Release(t) \/ BeginMaterialize(t)
           \/ Close \/ MaterializeWait \/ MaterializeReturn
           \/ MaterializeFails \/ ServeMaterialize
  <2>1. /\ UNCHANGED <<ops, keeps, pc>>
        /\ tracked' \subseteq tracked
    BY <1>3 DEF Release, BeginMaterialize, Close, MaterializeWait,
                MaterializeReturn, MaterializeFails, ServeMaterialize
  <2>2. materialize'.task \in tracked \cup {materialize.task, NoTask}
    BY <1>3 DEF Release, BeginMaterialize, Close, MaterializeWait,
                MaterializeReturn, MaterializeFails, ServeMaterialize,
                NoMaterialize, MaterializeInv
  <2> QED BY <2>1, <2>2 DEF Running
<1>4. CASE \/ \E t \in Tasks : Serve(t)
           \/ \E i \in Ids : DisposeFails(i) \/ ServeDispose(i)
           \/ UNCHANGED vars
  BY <1>4 DEF Serve, DisposeFails, ServeDispose, vars, clientVars, Running
<1> QED BY <1>1, <1>2, <1>3, <1>4 DEF Next, Ended

\* A step that creates nothing makes no task exist that did not.
LEMMA AliveShrinks ==
  ASSUME IInv, AliveInv, [Next]_vars, ~\E t \in Tasks : Create(t)
  PROVE  Created' = Created /\ Roots' \subseteq Roots /\ Alive' \subseteq Alive
<1>1. Created' = Created
  BY Frame DEF Created
<1>2. Roots' \subseteq Roots
  BY <1>1, Frame DEF Roots, AliveInv, Created, Tasks, NoTask
<1> QED BY <1>1, <1>2, Frame DEF Alive

\* A value that is created exists from then on, with everything that did.
LEMMA AliveGrows ==
  ASSUME IInv, TypeOK, AliveInv, NEW t \in Tasks, Create(t)
  PROVE  /\ Alive \subseteq Alive' /\ Alive' \subseteq Alive \cup {t}
         /\ tracked' \subseteq Created' /\ Created' = Created \cup {t}
         /\ \A u \in Tasks \ {t} : keeps'[u] = keeps[u] /\ ops'[u] = ops[u]
         /\ t \in keeps'[t] /\ keeps'[t] \subseteq Tasks
         /\ \A k \in 1 .. Len(ops'[t]) : ops'[t][k] \in keeps'[t]
<1>1. PICK n \in 0 .. MaxOperands : \E futures \in [1 .. n -> tracked] :
        /\ ops' = [ops EXCEPT ![t] = futures]
        /\ keeps' = [keeps EXCEPT ![t] =
                       {t} \cup UNION {keeps[futures[k]] : k \in 1 .. n}]
        /\ pc' = [pc EXCEPT ![t] = IF n = 0 THEN "call" ELSE "waiting"]
  BY DEF Create
<1>2. PICK futures \in [1 .. n -> tracked] :
        /\ ops' = [ops EXCEPT ![t] = futures]
        /\ keeps' = [keeps EXCEPT ![t] =
                       {t} \cup UNION {keeps[futures[k]] : k \in 1 .. n}]
        /\ pc' = [pc EXCEPT ![t] = IF n = 0 THEN "call" ELSE "waiting"]
  BY <1>1
<1>3. /\ pc[t] = "none"
      /\ tracked' = tracked \cup {t} /\ materialize' = materialize
  BY DEF Create, Created, Tasks
<1>4. /\ \A u \in Tasks \ {t} : /\ keeps'[u] = keeps[u]
                                /\ pc'[u] = pc[u]
      /\ pc'[t] \in {"call", "waiting"}
      /\ keeps'[t] = {t} \cup UNION {keeps[futures[k]] : k \in 1 .. n}
  BY <1>2 DEF IInv, TypeInv, TypeOK
<1>5. t \notin Roots /\ Roots \subseteq Roots' /\ Roots' \subseteq Roots \cup {t}
      /\ t \in Roots'
  BY <1>3, <1>4 DEF Roots, Created, Running
<1>6. \A k \in 1 .. n : futures[k] \in Roots
  BY <1>2 DEF AliveInv, Roots, Created
<1>7. Roots \subseteq Tasks
  BY DEF Roots, Created
<1>8. Alive \subseteq Alive'
  BY <1>4, <1>5, <1>7 DEF Alive
<1>9. Alive' \subseteq Alive \cup {t}
  <2> SUFFICES ASSUME NEW u \in Roots', NEW x \in keeps'[u], x # t
               PROVE  x \in Alive
    BY DEF Alive
  <2>1. CASE u = t
    <3>1. PICK k \in 1 .. n : x \in keeps[futures[k]]
      BY <1>4, <2>1
    <3> QED BY <1>6, <3>1 DEF Alive
  <2>2. CASE u # t
    BY <1>4, <1>5, <1>7, <2>2 DEF Alive
  <2> QED BY <2>1, <2>2
<1>10. \A u \in Tasks \ {t} : keeps'[u] = keeps[u] /\ ops'[u] = ops[u]
  BY <1>2, <1>4 DEF IInv, TypeInv
<1>11. /\ t \in keeps'[t] /\ keeps'[t] \subseteq Tasks
       /\ \A k \in 1 .. Len(ops'[t]) : ops'[t][k] \in keeps'[t]
  <2>1. ops'[t] = futures /\ Len(futures) = n
    <3>1. n \in Nat
      BY RemoteAssumption DEF RemoteAssumption
    <3>2. futures \in Seq(tracked) /\ Len(futures) = n
      BY <3>1, SeqDef
    <3> QED BY <1>2, <3>2 DEF IInv, TypeInv
  <2>2. \A k \in 1 .. n : /\ futures[k] \in keeps[futures[k]]
                          /\ keeps[futures[k]] \subseteq Tasks
    BY <1>2 DEF AliveInv, TypeOK
  <2> QED BY <1>4, <2>1, <2>2
<1>12. tracked' \subseteq Created' /\ Created' = Created \cup {t}
  BY <1>3, <1>4 DEF AliveInv, Created
<1> QED BY <1>8, <1>9, <1>10, <1>11, <1>12

\* The service answers a request once: there is an id left for it.
LEMMA ServedStep ==
  ASSUME IInv, TypeOK, ServedOnce, [Next]_vars
  PROVE  ServedOnce' /\ next_value_id_' \in 0 .. MaxTasks
<1> DEFINE Answered == {t \in Tasks : reply[t] # NoId}
<1> USE DEF IInv
<1>0. IsFiniteSet(Tasks) /\ Cardinality(Tasks) = MaxTasks /\ MaxTasks \in Nat
  BY RemoteAssumption, FS_Interval DEF RemoteAssumption, Tasks
<1>1. CASE UNCHANGED <<reply, next_value_id_>>
  <2>1. \A t \in Tasks : call'[t] = "late" => call[t] \in {"late", "sent"}
    <3>1. CASE \E t \in Tasks : Create(t)
      BY <3>1 DEF Create, TypeInv
    <3>2. CASE \E t \in Tasks : WaitOperand(t) \/ CallReturns(t)
      BY <3>2 DEF WaitOperand, CallReturns, TypeInv
    <3>3. CASE \E t \in Tasks : CallFails(t) \/ Serve(t)
      BY <3>3 DEF CallFails, Serve, TypeInv
    <3>4. CASE UNCHANGED call
      BY <3>4
    <3> QED BY <3>1, <3>2, <3>3, <3>4
            DEF Next, vars, Ended, Release, BeginMaterialize, Close, clientVars,
                MaterializeWait, MaterializeReturn, MaterializeFails,
                ServeMaterialize, DisposeFails, ServeDispose
  <2> QED BY <1>1, <2>1 DEF ServedOnce, ReplyInv, TypeOK
<1>2. CASE \E t \in Tasks : Serve(t) /\ ~UNCHANGED <<reply, next_value_id_>>
  <2> PICK t \in Tasks : Serve(t) /\ ~UNCHANGED <<reply, next_value_id_>>
    BY <1>2
  <2>1. /\ call[t] \in {"sent", "late"}
        /\ next_value_id_' = next_value_id_ + 1
        /\ reply' = [reply EXCEPT ![t] = next_value_id_]
        /\ call' = [call EXCEPT ![t] =
                      IF call[t] = "sent" THEN "served" ELSE "over"]
    BY DEF Serve, serverVars
  <2>2. Answered \subseteq Tasks \ {t}
    BY <2>1 DEF ServedOnce, ReplyInv
  <2>3. IsFiniteSet(Answered)
    BY <1>0, <2>2, FS_Subset
  <2>4. next_value_id_ < MaxTasks
    <3>1. Cardinality(Tasks \ {t}) = MaxTasks - 1 /\ IsFiniteSet(Tasks \ {t})
      BY <1>0, FS_RemoveElement
    <3>2. Cardinality(Answered) <= MaxTasks - 1
      BY <2>2, <3>1, FS_Subset
    <3> QED BY <1>0, <3>2 DEF ServedOnce, TypeOK
  <2>5. {u \in Tasks : reply'[u] # NoId} = Answered \cup {t}
    BY <2>1, <2>4 DEF NoId, TypeInv
  <2>6. Cardinality(Answered \cup {t}) = Cardinality(Answered) + 1
    BY <2>2, <2>3, FS_AddElement
  <2>7. \A u \in Tasks : call'[u] = "late" => reply'[u] = NoId
    BY <2>1 DEF ServedOnce, TypeInv
  <2>8. Cardinality(Answered) = next_value_id_ /\ next_value_id_ \in Nat
    BY DEF ServedOnce, TypeInv
  <2>9. Cardinality({u \in Tasks : reply'[u] # NoId}) = next_value_id_'
    BY <2>1, <2>5, <2>6, <2>8
  <2> QED BY <1>0, <2>1, <2>4, <2>7, <2>8, <2>9 DEF ServedOnce
<1> QED BY <1>1, <1>2
        DEF Next, vars, Ended, Create, Release, BeginMaterialize, Close,
            MaterializeWait, MaterializeReturn, MaterializeFails, WaitOperand,
            CallReturns, CallFails, Serve, ServeMaterialize, DisposeFails,
            ServeDispose, serverVars, clientVars

LEMMA TypeStep ==
  ASSUME IInv, IInv', TypeOK, ServedOnce, AliveInv, [Next]_vars
  PROVE  TypeOK'
<1> USE DEF IInv
<1>0. NoId \notin Ids /\ MaxTasks \in Nat /\ MaxFailures \in Nat
  BY RemoteAssumption DEF RemoteAssumption, NoId, Ids
<1>1. next_value_id_' \in 0 .. MaxTasks
  BY ServedStep
<1>2. reply' \in [Tasks -> Ids \cup {NoId}]
  <2>1. CASE \E t \in Tasks : Serve(t) /\ next_value_id_' # next_value_id_
    <3>1. next_value_id_ \in Ids
      BY <1>0, <1>1, <2>1 DEF Serve, TypeOK, Ids, serverVars
    <3> QED BY <2>1, <3>1, ZenonT(30) DEF Serve, TypeOK, serverVars
  <2>2. CASE UNCHANGED reply
    BY <2>2 DEF TypeOK
  <2>3. next_value_id_ + 1 # next_value_id_
    BY DEF TypeInv
  <2> QED BY <2>1, <2>2, <2>3
          DEF Next, vars, Ended, Create, Release, BeginMaterialize, Close,
              MaterializeWait, MaterializeReturn, MaterializeFails, WaitOperand,
              CallReturns, CallFails, Serve, ServeMaterialize, DisposeFails,
              ServeDispose, serverVars, clientVars
<1>3. /\ ref' \in [Tasks -> Ids \cup {NoId}]
      /\ \A t \in Tasks : pc'[t] = "ok" <=> ref'[t] # NoId
  <2>1. CASE \E t \in Tasks : CallReturns(t)
    BY <1>0, <2>1 DEF CallReturns, TypeOK, WaitedInv
  <2>2. CASE \E t \in Tasks : CallFails(t)
    BY <2>2 DEF CallFails, TypeOK, WaitedInv
  <2>3. CASE \E t \in Tasks : WaitOperand(t)
    BY <2>3 DEF WaitOperand, TypeOK
  <2>4. CASE \E t \in Tasks : Create(t)
    BY <2>4 DEF Create, Created, Tasks, TypeOK
  <2>5. CASE UNCHANGED <<ref, pc>>
    BY <2>5 DEF TypeOK
  <2> QED BY <2>1, <2>2, <2>3, <2>4, <2>5
          DEF Next, vars, Ended, Release, BeginMaterialize, Close, clientVars,
              MaterializeWait, MaterializeReturn, MaterializeFails, Serve,
              ServeMaterialize, DisposeFails, ServeDispose
<1>4. /\ keeps' \in [Tasks -> SUBSET Tasks]
      /\ \A t \in Tasks : at'[t] \in 0 .. Len(ops'[t])
  <2>0. /\ \A t \in Tasks : at[t] \in 0 .. Len(ops[t])
        /\ keeps \in [Tasks -> SUBSET Tasks]
    BY DEF TypeOK
  <2>1. CASE \E t \in Tasks : Create(t)
    <3> PICK t \in Tasks : Create(t)
      BY <2>1
    <3>1. keeps'[t] \subseteq Tasks /\ \A u \in Tasks \ {t} : ops'[u] = ops[u]
      BY AliveGrows
    <3>2. keeps' = [keeps EXCEPT ![t] = keeps'[t]]
      BY DEF Create, TypeOK
    <3>3. at' = at /\ at[t] = 0
      BY DEF Create, WaitedInv, Created, Tasks
    <3>4. Len(ops'[t]) \in Nat
      BY DEF TypeInv
    <3>5. \A u \in Tasks : at'[u] \in 0 .. Len(ops'[u])
      BY <2>0, <3>1, <3>3, <3>4
    <3> QED BY <2>0, <3>1, <3>2, <3>5
  <2>2. CASE \E t \in Tasks : WaitOperand(t)
    <3> PICK t \in Tasks : WaitOperand(t)
      BY <2>2
    <3>1. /\ at[t] < Len(ops[t]) /\ UNCHANGED <<ops, keeps>>
          /\ Len(ops[t]) \in Nat
          /\ at' = at \/ at' = [at EXCEPT ![t] = @ + 1]
      <4>1. pc[t] = "waiting" /\ UNCHANGED <<ops, keeps>>
        BY DEF WaitOperand
      <4>2. at' = at \/ at' = [at EXCEPT ![t] = @ + 1]
        <5>1. CASE UNCHANGED at
          BY <5>1
        <5>2. CASE at' = [at EXCEPT ![t] = @ + 1]
          BY <5>2, Zenon
        <5> QED BY <5>1, <5>2, Zenon DEF WaitOperand
      <4>3. at[t] < Len(ops[t]) /\ ops[t] \in Seq(Tasks)
        BY <4>1 DEF WaitedInv, TypeInv
      <4>4. Len(ops[t]) \in Nat
        BY <4>3
      <4> QED BY <4>1, <4>2, <4>3, <4>4, Zenon
    <3>2. CASE at' = at
      BY <2>0, <3>1, <3>2
    <3>3. CASE at' = [at EXCEPT ![t] = @ + 1]
      <4>1. at'[t] = at[t] + 1 /\ \A u \in Tasks \ {t} : at'[u] = at[u]
        BY <3>3 DEF TypeInv
      <4>2. at'[t] \in 0 .. Len(ops[t])
        BY <3>1, <4>1 DEF TypeInv
      <4> QED BY <2>0, <3>1, <4>1, <4>2
    <3> QED BY <3>1, <3>2, <3>3
  <2>3. CASE UNCHANGED <<keeps, at, ops>>
    BY <2>3 DEF TypeOK
  <2> QED BY <2>1, <2>2, <2>3
          DEF Next, vars, Ended, Release, BeginMaterialize, Close, clientVars,
              MaterializeWait, MaterializeReturn, MaterializeFails, Serve,
              CallReturns, CallFails, ServeMaterialize, DisposeFails,
              ServeDispose
<1>5. materialize'.task \in Tasks \cup {NoTask}
  <2>1. CASE \E t \in Tasks : Create(t)
    BY <2>1 DEF Create, TypeOK
  <2>2. CASE ~\E t \in Tasks : Create(t)
    BY <2>2, Frame DEF TypeOK
  <2> QED BY <2>1, <2>2
<1>6. /\ answer' \in Tasks \cup {NoTask} /\ closed' \in BOOLEAN
      /\ failures' \in 0 .. MaxFailures /\ orphans' \subseteq Ids
  <2>1. answer' \in Tasks \cup {NoTask} /\ closed' \in BOOLEAN
    BY DEF Next, vars, Ended, Create, Release, BeginMaterialize, Close,
           MaterializeWait, MaterializeReturn, MaterializeFails, WaitOperand,
           CallReturns, CallFails, Serve, ServeMaterialize, DisposeFails,
           ServeDispose, clientVars, TypeOK
  <2>2. failures' \in 0 .. MaxFailures
    BY <1>0
       DEF Next, vars, Ended, Create, Release, BeginMaterialize, Close,
           MaterializeWait, MaterializeReturn, MaterializeFails, WaitOperand,
           CallReturns, CallFails, Serve, ServeMaterialize, DisposeFails,
           ServeDispose, clientVars, TypeOK
  <2>3. orphans' \subseteq Ids
    <3>1. CASE \E t \in Tasks : Serve(t)
      <4>1. next_value_id_' = next_value_id_ + 1 => next_value_id_ \in Ids
        BY <1>0, <1>1 DEF TypeOK, Ids
      <4> QED BY <3>1, <4>1 DEF Serve, TypeOK
    <3>2. CASE \E t \in Tasks : CallFails(t)
      BY <3>2 DEF CallFails, TypeOK
    <3>3. CASE \E i \in Ids : DisposeFails(i)
      BY <3>3 DEF DisposeFails, TypeOK
    <3>4. CASE UNCHANGED orphans
      BY <3>4 DEF TypeOK
    <3> QED BY <3>1, <3>2, <3>3, <3>4
            DEF Next, vars, Ended, Create, Release, BeginMaterialize, Close,
                MaterializeWait, MaterializeReturn, MaterializeFails,
                WaitOperand, CallReturns, ServeMaterialize, ServeDispose
  <2> QED BY <2>1, <2>2, <2>3
<1> QED BY <1>1, <1>2, <1>3, <1>4, <1>5, <1>6
        DEF TypeOK, TypeInv, MaterializeInv

\* The id of a task that still exists is not disposed of by any step.
LEMMA AliveStep ==
  ASSUME IInv, TypeOK, TypeOK', AliveInv, [Next]_vars
  PROVE  AliveInv'
<1> USE DEF IInv
<1>1. CASE \E t \in Tasks : Create(t)
  <2> PICK t \in Tasks : Create(t)
    BY <1>1
  <2>1. ref[t] \notin Ids /\ ref' = ref /\ dispose' = dispose
    <3>1. NoId \notin Ids
      BY RemoteAssumption DEF RemoteAssumption, NoId, Ids
    <3> QED BY <3>1 DEF Create, Created, Tasks, IdInv
  <2>2. \A u \in Alive' : ref'[u] \in Ids => dispose'[ref'[u]] = "none"
    BY <2>1, AliveGrows DEF AliveInv
  <2>3. \A u \in Created' : /\ u \in keeps'[u]
                            /\ \A n \in 1 .. Len(ops'[u]) : ops'[u][n] \in keeps'[u]
    <3> SUFFICES ASSUME NEW u \in Created' PROVE <2>3!(u)
      OBVIOUS
    <3>1. CASE u = t
      BY <3>1, AliveGrows
    <3>2. CASE u # t
      <4>1. u \in Created /\ u \in Tasks
        BY <3>2, AliveGrows DEF Created
      <4>2. keeps'[u] = keeps[u] /\ ops'[u] = ops[u]
        BY <3>2, <4>1, AliveGrows
      <4> QED BY <4>1, <4>2 DEF AliveInv
    <3> QED BY <3>1, <3>2
  <2> QED BY <2>2, <2>3, AliveGrows DEF AliveInv
<1>2. CASE ~\E t \in Tasks : Create(t)
  <2>1. /\ Created' = Created /\ Alive' \subseteq Alive /\ Alive \subseteq Tasks
        /\ UNCHANGED <<ops, keeps>> /\ tracked' \subseteq tracked
    <3>1. Alive \subseteq Tasks
      BY DEF Alive, Roots, Created, TypeOK
    <3> QED BY <1>2, <3>1, AliveShrinks, Frame
  <2>2. \A u \in Alive' : ref'[u] \in Ids => dispose'[ref'[u]] = "none"
    <3> SUFFICES ASSUME NEW u \in Alive', ref'[u] \in Ids
                 PROVE  dispose'[ref'[u]] = "none"
      OBVIOUS
    <3>1. u \in Alive /\ u \in Tasks
      BY <2>1
    <3>2. CASE \E i \in Ids : DisposeFails(i) \/ ServeDispose(i)
      BY <3>1, <3>2
         DEF DisposeFails, ServeDispose, clientVars, AliveInv, TypeInv
    <3>3. CASE UNCHANGED <<ref, dispose>>
      BY <3>1, <3>3 DEF AliveInv
    <3>4. CASE DestroyValues /\ \A x \in Tasks :
                 \/ ref'[x] = ref[x]
                 \/ call[x] = "served" /\ ref'[x] = reply[x]
      <4>1. \A x \in Tasks :
              ref'[x] \in Ids /\ dispose[ref'[x]] = "none" =>
                tracked_values_[ref'[x]] = x
        BY <3>4 DEF IdInv
      <4>2. dispose[ref'[u]] = "none"
        BY <3>1, <3>4 DEF IdInv, AliveInv
      <4>3. ~\E x \in Tasks : ref'[x] = ref'[u] /\ x \notin Alive'
        BY <3>1, <4>1, <4>2
      <4> QED BY <3>4, <4>2, <4>3 DEF DestroyValues
    <3>5. CASE \E t \in Tasks : CallReturns(t)
      BY <3>4, <3>5 DEF CallReturns, TypeInv
    <3> QED BY <1>2, <3>2, <3>3, <3>4, <3>5
            DEF Next, vars, Ended, Release, BeginMaterialize, Close, clientVars,
                MaterializeWait, MaterializeReturn, MaterializeFails, Serve,
                WaitOperand, CallFails, ServeMaterialize
  <2> QED BY <2>1, <2>2 DEF AliveInv
<1> QED BY <1>1, <1>2

\* Everything the service holds has somebody who will dispose of it, unless the
\* channel lost the only message that said so.
LEMMA AccountedStep ==
  ASSUME IInv, TypeOK, AliveInv, ServerValuesAccounted, [Next]_vars
  PROVE  ServerValuesAccounted'
<1> USE DEF IInv
<1> SUFFICES ASSUME NEW i \in Ids, tracked_values_'[i] # NoTask
             PROVE  \/ \E t \in Alive' : ref'[t] = i
                    \/ dispose'[i] = "sent"
                    \/ \E t \in Tasks : call'[t] = "served" /\ reply'[t] = i
                    \/ i \in orphans'
  BY DEF ServerValuesAccounted
<1> DEFINE Held ==
             tracked_values_[i] # NoTask =>
               \/ \E t \in Alive : ref[t] = i
               \/ dispose[i] = "sent"
               \/ \E t \in Tasks : call[t] = "served" /\ reply[t] = i
               \/ i \in orphans
<1>1. Held
  BY DEF ServerValuesAccounted
<1>2. Alive \subseteq Tasks
  BY DEF Alive, Roots, Created, TypeOK
<1>3. CASE \E t \in Tasks : Create(t)
  <2> PICK t \in Tasks : Create(t)
    BY <1>3
  <2>1. /\ UNCHANGED <<tracked_values_, dispose, reply, orphans, ref>>
        /\ call[t] = "none"
        /\ \A u \in Tasks \ {t} : call'[u] = call[u]
    BY DEF Create, serverVars, WaitedInv, Created, Tasks, TypeInv
  <2> QED BY <1>1, <2>1, AliveGrows
<1>4. CASE \E t \in Tasks : Serve(t)
  <2> PICK t \in Tasks : Serve(t)
    BY <1>4
  <2>1. /\ call[t] \in {"sent", "late"}
        /\ call' = [call EXCEPT ![t] = IF call[t] = "sent" THEN "served" ELSE "over"]
        /\ UNCHANGED <<dispose, ref>>
        /\ Alive' = Alive
    BY DEF Serve, clientVars, Alive, Roots, Created, Running
  <2>2. CASE UNCHANGED <<reply, serverVars, orphans>>
    BY <1>1, <2>1, <2>2 DEF serverVars, TypeInv
  <2>3. CASE /\ tracked_values_' = [tracked_values_ EXCEPT ![next_value_id_] = t]
             /\ reply' = [reply EXCEPT ![t] = next_value_id_]
             /\ orphans' = IF call[t] = "late" THEN orphans \cup {next_value_id_}
                                               ELSE orphans
    <3>1. CASE i = next_value_id_
      BY <2>1, <2>3, <3>1 DEF TypeInv
    <3>2. CASE i # next_value_id_
      <4>1. tracked_values_[i] # NoTask
        BY <2>3, <3>2 DEF TypeInv
      <4>2. \A u \in Tasks : call[u] = "served" =>
              call'[u] = "served" /\ reply'[u] = reply[u]
        BY <2>1, <2>3 DEF TypeInv
      <4> QED BY <1>1, <2>1, <2>3, <4>1, <4>2
    <3> QED BY <3>1, <3>2
  <2> QED BY <2>2, <2>3 DEF Serve
<1>5. CASE \E j \in Ids : DisposeFails(j) \/ ServeDispose(j)
  <2> PICK j \in Ids : DisposeFails(j) \/ ServeDispose(j)
    BY <1>5
  <2>1. /\ UNCHANGED <<ref, call, reply>> /\ Alive' = Alive
        /\ dispose' = [dispose EXCEPT ![j] = "over"]
        /\ tracked_values_[i] # NoTask /\ orphans \subseteq orphans'
        /\ i = j => i \in orphans'
    BY DEF DisposeFails, ServeDispose, clientVars, serverVars, Alive, Roots,
           Created, Running, TypeInv
  <2> QED BY <1>1, <2>1 DEF TypeInv
<1>6. CASE UNCHANGED <<tracked_values_, ref, call, reply, dispose, orphans>>
             /\ Alive \subseteq Alive'
  BY <1>1, <1>6
<1>7. CASE /\ DestroyValues /\ UNCHANGED <<tracked_values_, reply>>
           /\ orphans \subseteq orphans'
           /\ \A t \in Tasks :
                /\ ref'[t] = ref[t] \/ ref[t] = NoId
                /\ call[t] = "served" /\ reply[t] = i =>
                     \/ call'[t] = "served" \/ ref'[t] = i \/ i \in orphans'
  <2>1. \A t \in Tasks : ref'[t] = i /\ dispose[i] = "none" =>
          t \in Alive' \/ dispose'[i] = "sent"
    BY <1>7 DEF DestroyValues
  <2>2. \A t \in Alive : ref[t] = i => ref'[t] = i /\ dispose[i] = "none"
    <3>1. NoId \notin Ids
      BY RemoteAssumption DEF RemoteAssumption, NoId, Ids
    <3> QED BY <1>2, <1>7, <3>1 DEF AliveInv
  <2>3. dispose[i] = "sent" => dispose'[i] = "sent"
    BY <1>7 DEF DestroyValues
  <2>4. \A t \in Tasks : call[t] = "served" /\ reply[t] = i => dispose[i] = "none"
    BY DEF IdInv
  <2> QED BY <1>1, <1>2, <1>7, <2>1, <2>2, <2>3, <2>4
<1>8. CASE \E t \in Tasks : CallReturns(t) \/ CallFails(t)
  <2> PICK t \in Tasks : CallReturns(t) \/ CallFails(t)
    BY <1>8
  <2>1. /\ ref[t] = NoId /\ DestroyValues
        /\ UNCHANGED <<tracked_values_, reply>> /\ orphans \subseteq orphans'
    BY DEF CallReturns, CallFails, serverVars, WaitedInv, IdInv
  <2>2. \A u \in Tasks \ {t} : call'[u] = call[u] /\ ref'[u] = ref[u]
    BY DEF CallReturns, CallFails, TypeInv
  <2>3. call[t] = "served" /\ reply[t] = i => ref'[t] = i \/ i \in orphans'
    <3>1. NoId \notin Ids
      BY RemoteAssumption DEF RemoteAssumption, NoId, Ids
    <3> QED BY <3>1 DEF CallReturns, CallFails, TypeInv
  <2> QED BY <1>7, <2>1, <2>2, <2>3
<1>9. CASE \E t \in Tasks : WaitOperand(t)
  <2> PICK t \in Tasks : WaitOperand(t)
    BY <1>9
  <2>1. /\ UNCHANGED <<ref, reply, orphans, tracked_values_>> /\ DestroyValues
        /\ call' = call \/ call' = [call EXCEPT ![t] = "sent"]
    BY DEF WaitOperand, serverVars
  <2>2. call[t] = "none"
    BY DEF WaitOperand, WaitedInv
  <2>3. DOMAIN call = Tasks
    BY DEF TypeInv
  <2>4. \A u \in Tasks \ {t} : call'[u] = call[u]
    BY <2>1, <2>3
  <2> QED BY <1>7, <2>1, <2>2, <2>4
<1>10. CASE MaterializeWait \/ MaterializeReturn \/ \E t \in Tasks : Release(t)
  BY <1>7, <1>10 DEF MaterializeWait, MaterializeReturn, Release, serverVars
<1>11. CASE \E t \in Tasks : BeginMaterialize(t)
  BY <1>6, <1>11 DEF BeginMaterialize, Idle, Alive, Roots, Created, Running,
                     serverVars, Tasks, NoTask
<1>12. CASE Close \/ MaterializeFails \/ ServeMaterialize \/ UNCHANGED vars
  <2>1. UNCHANGED <<pc, keeps, tracked, ref, call, reply, dispose, orphans,
                    tracked_values_>> /\ materialize'.task = materialize.task
    BY <1>12 DEF Close, MaterializeFails, ServeMaterialize, vars, clientVars,
                 serverVars, MaterializeInv
  <2>2. Alive' = Alive
    BY <2>1 DEF Alive, Roots, Created, Running
  <2> QED BY <1>6, <2>1, <2>2
<1> QED BY <1>3, <1>4, <1>5, <1>8, <1>9, <1>10, <1>11, <1>12 DEF Next, Ended

LEMMA LiveStep ==
  ASSUME LInv, [Next]_vars
  PROVE  LInv'
<1>1. IInv'
  BY NextStep DEF LInv
<1>2. TypeOK'
  BY <1>1, TypeStep DEF LInv
<1> QED BY <1>1, <1>2, ServedStep, AliveStep, AccountedStep DEF LInv

LEMMA LiveInit == Init => LInv
<1> SUFFICES ASSUME Init PROVE LInv
  OBVIOUS
<1>0. /\ MaxTasks \in Nat /\ MaxFailures \in Nat
  BY RemoteAssumption DEF RemoteAssumption
<1>1. IInv
  BY InitInv
<1>2. TypeOK
  <2>1. /\ ops \in [Tasks -> Seq(Tasks)]
        /\ \A t \in Tasks : Len(ops[t]) = 0
    BY EmptySeq DEF Init
  <2>2. \A t \in Tasks : at[t] \in 0 .. Len(ops[t])
    BY <2>1 DEF Init
  <2>3. NoId \in Ids \cup {NoId} /\ 0 \in 0 .. MaxTasks /\ 0 \in 0 .. MaxFailures
    BY <1>0
  <2> QED BY <2>1, <2>2, <2>3 DEF Init, TypeOK, NoMaterialize, NoTask
<1>3. ServedOnce
  <2>1. {t \in Tasks : reply[t] # NoId} = {}
    BY DEF Init
  <2> QED BY <2>1, FS_EmptySet DEF ServedOnce, Init
<1>4. Created = {} /\ Alive = {}
  BY DEF Init, Created, Alive, Roots
<1>5. AliveInv /\ ServerValuesAccounted
  BY <1>4 DEF Init, AliveInv, ServerValuesAccounted
<1> QED BY <1>1, <1>2, <1>3, <1>5 DEF LInv

LEMMA Live == Spec => []LInv
<1>1. LInv /\ [Next]_vars => LInv'
  BY LiveStep
<1> QED BY <1>1, LiveInit, PTL DEF Spec
-------------------------------------------------------------------------------
(***************************************************************************)
(* That somebody can always go on.                                         *)
(***************************************************************************)
\* What a task keeps was created, with all that it keeps in turn; operands are
\* earlier than what is made from them; and a thread that is in its call has
\* one with the channel, the service or back.
ChainInv ==
  \A t \in Created :
    /\ keeps[t] \subseteq Created
    /\ \A u \in keeps[t] : keeps[u] \subseteq keeps[t]
    /\ \A n \in 1 .. Len(ops[t]) : ops[t][n] < t
    /\ pc[t] = "call" => call[t] \in {"sent", "served"}

\* No thread is left in a call that is over.
LEMMA CallsGoOn ==
  ASSUME IInv, ChainInv, [Next]_vars, ~\E t \in Tasks : Create(t),
         NEW t \in Created, t \in Tasks, pc'[t] = "call"
  PROVE  call'[t] \in {"sent", "served"}
<1> USE DEF IInv
<1>1. CASE \E u \in Tasks : WaitOperand(u)
  <2> PICK u \in Tasks : WaitOperand(u)
    BY <1>1
  <2>1. \/ pc' = [pc EXCEPT ![u] = "call"] /\ call' = [call EXCEPT ![u] = "sent"]
        \/ UNCHANGED <<pc, call>>
        \/ pc' = [pc EXCEPT ![u] = "error"] /\ UNCHANGED call
    BY DEF WaitOperand
  <2> QED BY <2>1 DEF TypeInv, ChainInv
<1>2. CASE \E u \in Tasks : CallReturns(u) \/ CallFails(u)
  <2> PICK u \in Tasks : CallReturns(u) \/ CallFails(u)
    BY <1>2
  <2>1. /\ \E s \in {"ok", "error"} : pc' = [pc EXCEPT ![u] = s]
        /\ \E s : call' = [call EXCEPT ![u] = s]
    BY DEF CallReturns, CallFails
  <2> QED BY <2>1 DEF TypeInv, ChainInv
<1>3. CASE \E u \in Tasks : Serve(u)
  <2> PICK u \in Tasks : Serve(u)
    BY <1>3
  <2>1. /\ pc' = pc
        /\ call' = [call EXCEPT ![u] = IF call[u] = "sent" THEN "served" ELSE "over"]
        /\ call[u] \in {"sent", "late"}
    BY DEF Serve, clientVars
  <2> QED BY <2>1 DEF TypeInv, ChainInv
<1>4. CASE UNCHANGED <<pc, call>>
  BY <1>4 DEF ChainInv
<1> QED BY <1>1, <1>2, <1>3, <1>4
        DEF Next, vars, Ended, Release, BeginMaterialize, Close, clientVars,
            MaterializeWait, MaterializeReturn, MaterializeFails,
            ServeMaterialize, DisposeFails, ServeDispose

LEMMA ChainStep ==
  ASSUME LInv, ChainInv, [Next]_vars
  PROVE  ChainInv'
<1> USE DEF LInv
<1>1. CASE \E t \in Tasks : Create(t)
  <2> PICK t \in Tasks : Create(t)
    BY <1>1
  <2>1. PICK n \in 0 .. MaxOperands : \E futures \in [1 .. n -> tracked] :
          /\ ops' = [ops EXCEPT ![t] = futures]
          /\ keeps' = [keeps EXCEPT ![t] =
                         {t} \cup UNION {keeps[futures[k]] : k \in 1 .. n}]
          /\ pc' = [pc EXCEPT ![t] = IF n = 0 THEN "call" ELSE "waiting"]
          /\ call' = [call EXCEPT ![t] = IF n = 0 THEN "sent" ELSE "none"]
    BY DEF Create
  <2>2. PICK futures \in [1 .. n -> tracked] :
          /\ ops' = [ops EXCEPT ![t] = futures]
          /\ keeps' = [keeps EXCEPT ![t] =
                         {t} \cup UNION {keeps[futures[k]] : k \in 1 .. n}]
          /\ pc' = [pc EXCEPT ![t] = IF n = 0 THEN "call" ELSE "waiting"]
          /\ call' = [call EXCEPT ![t] = IF n = 0 THEN "sent" ELSE "none"]
    BY <2>1
  <2>3. Created = 1 .. (t - 1) /\ t \in Nat
    BY DEF Create, Tasks
  <2>4. /\ \A u \in Tasks \ {t} : /\ keeps'[u] = keeps[u] /\ ops'[u] = ops[u]
                                  /\ pc'[u] = pc[u] /\ call'[u] = call[u]
        /\ ops'[t] = futures
        /\ keeps'[t] = {t} \cup UNION {keeps[futures[k]] : k \in 1 .. n}
        /\ pc'[t] = "call" => call'[t] = "sent"
    BY <2>2 DEF IInv, TypeInv, TypeOK
  <2>5. Created' = Created \cup {t} /\ Created \subseteq Tasks \ {t}
    BY <2>3, AliveGrows DEF Created
  <2>6. \A k \in 1 .. n : futures[k] \in Created
    BY DEF AliveInv
  <2>7. Len(ops'[t]) = n
    <3>1. n \in Nat
      BY RemoteAssumption DEF RemoteAssumption
    <3> QED BY <2>4, <3>1
  <2> SUFFICES ASSUME NEW u \in Created' PROVE ChainInv!(u)'
    BY DEF ChainInv
  <2>8. CASE u # t
    <3>1. u \in Created /\ keeps[u] \subseteq Created
      BY <2>5, <2>8 DEF ChainInv
    <3>2. \A x \in keeps'[u] : keeps'[x] \subseteq keeps'[u]
      BY <2>4, <2>5, <2>8, <3>1 DEF ChainInv
    <3> QED BY <2>4, <2>5, <3>1, <3>2 DEF ChainInv
  <2>9. CASE u = t
    <3>1. keeps'[t] \subseteq Created'
      BY <2>4, <2>5, <2>6 DEF ChainInv
    <3>2. \A x \in keeps'[t] : keeps'[x] \subseteq keeps'[t]
      <4> SUFFICES ASSUME NEW k \in 1 .. n, NEW x \in keeps[futures[k]]
                   PROVE  keeps'[x] \subseteq keeps'[t]
        BY <2>4
      <4>1. x \in Created /\ keeps[x] \subseteq keeps[futures[k]]
        BY <2>6 DEF ChainInv
      <4> QED BY <2>4, <2>5, <4>1
    <3>3. \A k \in 1 .. Len(ops'[t]) : ops'[t][k] < t
      <4>1. \A k \in 1 .. n : ops'[t][k] \in 1 .. (t - 1)
        BY <2>3, <2>4, <2>6
      <4> QED BY <2>3, <2>7, <4>1
    <3> QED BY <2>4, <2>9, <3>1, <3>2, <3>3
  <2> QED BY <2>8, <2>9
<1>2. CASE ~\E t \in Tasks : Create(t)
  <2>1. Created' = Created /\ UNCHANGED <<ops, keeps>> /\ Created \subseteq Tasks
    BY <1>2, AliveShrinks, Frame DEF Created
  <2>2. \A t \in Created : pc'[t] = "call" => call'[t] \in {"sent", "served"}
    BY <1>2, <2>1, CallsGoOn
  <2> QED BY <2>1, <2>2 DEF ChainInv
<1> QED BY <1>1, <1>2

\* A set of numbers that is not empty has a least one.
LEMMA Least ==
  ASSUME NEW T \in SUBSET Nat, T # {}
  PROVE  \E x \in T : \A y \in T : x <= y
<1>1. \E R : /\ \E x \in T : \A y \in T : ~ (<<y, x>> \in R)
             /\ \A x, y \in Nat : y < x => <<y, x>> \in R
  <2>1. \E x \in T : \A y \in T : ~ (<<y, x>> \in OpToRel(<, Nat))
    BY NatLessThanWellFounded, WFMin
  <2>2. \A x, y \in Nat : y < x => <<y, x>> \in OpToRel(<, Nat)
    BY DEF OpToRel
  <2> QED BY <2>1, <2>2, Zenon
<1>2. PICK x \in T : \A y \in T : ~(y < x)
  BY <1>1
<1> QED BY <1>2

\* The earliest of the tasks that t keeps and that still run can go on: what it
\* waits for is earlier.
LEMMA SomebodyGoes == LInv /\ ChainInv => NobodyWaitsInVain
<1> SUFFICES ASSUME LInv, ChainInv,
                    NEW t \in Created \cup ({materialize.task} \ {NoTask}),
                    pc[t] \notin {"ok", "error"}
             PROVE  \E u \in keeps[t] : CanGo(u)
  BY DEF NobodyWaitsInVain
<1> USE DEF LInv
<1>0. Tasks \subseteq Nat
  BY DEF Tasks
<1>1. t \in Created
  BY DEF IInv, MaterializeInv, AliveInv
<1>2. Created \subseteq Tasks /\ \A u \in Created : pc[u] \in {"ok", "error"} \/ Running(u)
  BY DEF Created, TypeOK, Running
<1> DEFINE T == {u \in keeps[t] : Running(u)}
<1>3. t \in T /\ T \subseteq Nat /\ keeps[t] \subseteq Created
  <2>1. t \in keeps[t] /\ keeps[t] \subseteq Created
    BY <1>1 DEF AliveInv, ChainInv
  <2>2. Running(t)
    BY <1>1, <1>2
  <2>3. T \subseteq Nat
    BY <1>0, <1>2, <2>1
  <2> QED BY <2>1, <2>2, <2>3
<1>4. PICK u \in T : \A v \in T : u <= v
  BY <1>3, Least
<1>5. u \in Created /\ u \in Tasks /\ u \in keeps[t] /\ u \in Nat
  BY <1>2, <1>3
<1>6. CASE pc[u] = "call"
  BY <1>5, <1>6 DEF ChainInv, CanGo
<1>7. CASE pc[u] = "waiting"
  <2>1. ops[u] \in Seq(Tasks) /\ at[u] \in Nat /\ at[u] < Len(ops[u])
    BY <1>5, <1>7 DEF IInv, TypeInv, WaitedInv
  <2>2. PICK k \in 1 .. Len(ops[u]) : k = at[u] + 1
    <3>1. Len(ops[u]) \in Nat
      BY <2>1
    <3> QED BY <2>1, <3>1
  <2>3. ops[u][k] \in keeps[t] /\ ops[u][k] < u
    BY <1>1, <1>5 DEF AliveInv, ChainInv
  <2>4. ops[u][k] \in Created /\ ops[u][k] \in Nat
    BY <1>0, <1>2, <1>3, <2>3
  <2>5. ops[u][k] \notin T
    BY <1>4, <1>5, <2>3, <2>4
  <2>6. pc[ops[u][k]] \in {"ok", "error"}
    BY <1>2, <2>3, <2>4, <2>5
  <2> QED BY <1>5, <1>7, <2>2, <2>6 DEF CanGo
<1> QED BY <1>4, <1>6, <1>7 DEF Running

-------------------------------------------------------------------------------
(***************************************************************************)
(* The theorems.                                                           *)
(***************************************************************************)
\* remote_executor.cc and executor_service.cc do only what ExecutorInterface
\* promises, over a channel that may lose a request, its response, or deliver
\* it after the client gave up: a value succeeds only after its operands, each
\* is resolved once, and what Materialize answers for has succeeded.
THEOREM StepsImplement ==
  Spec => Interface!Init /\ [][Interface!Next]_(Interface!vars)
<1>1. Init => IInv /\ Interface!Init
  BY InitInv
<1>2. IInv /\ [Next]_vars => IInv' /\ [Interface!Next]_(Interface!vars)
  BY NextStep
<1> QED BY <1>1, <1>2, PTL DEF Spec

\* The destructor of ExecutorValue disposes of an id at most once, and while the
\* service still has it.
THEOREM OnceDisposed == Spec => []DisposedOnce
<1>1. Init => IInv
  BY InitInv
<1>2. IInv /\ [Next]_vars => IInv'
  BY NextStep
<1>3. IInv => DisposedOnce
  BY DEF IInv, IdInv
<1> QED BY <1>1, <1>2, <1>3, PTL DEF Spec

\* Every table of the client, the channel and the service keeps its type, and
\* a value has an id exactly when its task ended well.
THEOREM RemoteTyping == Spec => []TypeOK
<1>1. LInv => TypeOK
  BY DEF LInv
<1> QED BY <1>1, Live, PTL

\* The lambdas of remote_executor.cc capture the futures of their operands, so
\* ids in a request that waits for its answer are known to executor_service.cc,
\* as the values that were meant, whatever the client released meanwhile.
THEOREM RequestsFindTheirValues == Spec => []RequestsNameLiveValues
<1>1. LInv => RequestsNameLiveValues
  <2> SUFFICES ASSUME LInv, NEW t \in InUse
               PROVE  dispose[ref[t]] = "none" /\ tracked_values_[ref[t]] = t
    BY DEF RequestsNameLiveValues
  <2> USE DEF LInv, IInv
  <2>1. t \in Alive /\ pc[t] = "ok"
    <3>1. CASE materialize.step = "sent" /\ materialize.task = t
      <4>1. t \in tracked /\ pc[t] = "ok" /\ t \in Created
        BY <3>1 DEF MaterializeInv, AliveInv
      <4> QED BY <4>1 DEF Alive, Roots, AliveInv
    <3>2. CASE \E u \in Tasks : /\ call[u] = "sent"
                               /\ \E n \in DOMAIN ops[u] : ops[u][n] = t
      <4> PICK u \in Tasks : /\ call[u] = "sent"
                             /\ \E n \in DOMAIN ops[u] : ops[u][n] = t
        BY <3>2
      <4>0. PICK n \in 1 .. Len(ops[u]) : ops[u][n] = t
        BY DEF TypeInv
      <4>1. pc[u] = "call" /\ pc[t] = "ok"
        BY <4>0 DEF WaitedInv
      <4>2. u \in Roots /\ t \in keeps[u]
        BY <4>0, <4>1 DEF Roots, Created, Running, AliveInv
      <4> QED BY <4>1, <4>2 DEF Alive
    <3> QED BY <3>1, <3>2 DEF InUse
  <2>2. t \in Tasks /\ ref[t] \in Ids
    BY <2>1 DEF TypeOK, Alive, Roots, Created
  <2> QED BY <2>1, <2>2 DEF AliveInv, IdInv
<1> QED BY <1>1, Live, PTL

\* What executor_service.cc tracks is what some task of remote_executor.cc will
\* dispose of, or has, or will be told of: only the channel makes orphans.
THEOREM ServiceLeaksNothing == Spec => []ServerValuesAccounted
<1>1. LInv => ServerValuesAccounted
  BY DEF LInv
<1> QED BY <1>1, Live, PTL

\* No error path of remote_executor.cc leaves a future that others wait for
\* without anybody to set it: behind every wait is a thread that can take its
\* next step or a call that is answered, whatever was released or lost.
THEOREM SomebodyCanGo == Spec => []NobodyWaitsInVain
<1>1. Init => ChainInv
  BY DEF Init, ChainInv, Created
<1>2. LInv /\ ChainInv /\ [Next]_vars => ChainInv'
  BY ChainStep
<1>3. LInv /\ ChainInv => NobodyWaitsInVain
  BY SomebodyGoes
<1> QED BY <1>1, <1>2, <1>3, Live, PTL DEF Spec
===============================================================================
