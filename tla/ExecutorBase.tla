----------------------------- MODULE ExecutorBase -----------------------------
(***************************************************************************)
(* ExecutorBase and OwnedValueId of genc/cc/runtime/executor.h: the table  *)
(* of values behind the ids an executor hands out, and the handles that    *)
(* own the ids.                                                            *)
(*                                                                         *)
(* An operation copies its operands out of the table one lock acquisition  *)
(* at a time, runs the virtual function of the concrete executor without   *)
(* the lock and takes the lock again to track the result; each of these is *)
(* an action. The concrete executor is any function on values: it fails or *)
(* returns some member of Values. Handles live in slots (the C++ variables *)
(* of type OwnedValueId), and the executor lives as long as a shared_ptr   *)
(* to it does: those of the clients and the one that release() obtains     *)
(* from its weak_ptr.                                                      *)
(***************************************************************************)
EXTENDS Integers, Sequences, FiniteSets

CONSTANTS
  Threads,      \* client threads
  Slots,        \* variables of type OwnedValueId
  Values,       \* what an ExecutorValue may be
  MaxIds,       \* bound: how many values are ever tracked
  MaxOperands,  \* bound: members of a CreateStruct
  NoSlot,       \* no OwnedValueId
  NoValue       \* no ExecutorValue

ASSUME ExecutorAssumption ==
  /\ Threads # {}
  /\ MaxIds \in Nat
  /\ MaxOperands \in Nat
  /\ NoSlot \notin Slots
  /\ NoValue \notin Values

Ids == 0 .. (MaxIds - 1)
\* OwnedValueId::INVALID_ID, the largest uint64_t.
INVALID_ID == MaxIds

VARIABLES
  next_value_id_,
  tracked_values_,  \* NoValue: the id is not in the table
  destroyed,        \* the last shared_ptr to the executor is gone
  slot,             \* id_ of each OwnedValueId
  holds,            \* the client thread has a shared_ptr to the executor
  pc,               \* where the thread is in a method of one of the classes
  kind,             \* the operation it executes
  operands,         \* the ids it was called with
  got,              \* copies of the values of the first of them
  result,           \* what the virtual function returned
  dst, src,         \* the OwnedValueIds it assigns to and from
  made,             \* history: the value an id was issued for
  forgotten         \* history: the ids whose owner called forget()

tableVars == <<next_value_id_, tracked_values_, made>>
ownerVars == <<slot, forgotten>>
execVars == <<destroyed, holds>>
opVars == <<pc, kind, operands, got, result, dst, src>>
vars == <<tableVars, ownerVars, execVars, opVars>>

PcStates == {"idle", "get", "virtual", "track", "release", "drop",
             "invalidate"}
Kinds == {"CreateValue", "CreateCall", "CreateStruct", "CreateSelection",
          "Materialize", "release", "none"}

TypeOK ==
  /\ next_value_id_ \in 0 .. MaxIds
  /\ tracked_values_ \in [Ids -> Values \cup {NoValue}]
  /\ destroyed \in BOOLEAN
  /\ slot \in [Slots -> Ids \cup {INVALID_ID}]
  /\ holds \in [Threads -> BOOLEAN]
  /\ pc \in [Threads -> PcStates]
  /\ kind \in [Threads -> Kinds]
  /\ operands \in [Threads -> Seq(Ids)]
  /\ got \in [Threads -> Seq(Values)]
  /\ result \in [Threads -> Values \cup {NoValue}]
  /\ dst \in [Threads -> Slots \cup {NoSlot}]
  /\ src \in [Threads -> Slots \cup {NoSlot}]
  /\ made \in [Ids -> Values \cup {NoValue}]
  /\ forgotten \subseteq Ids

Init ==
  /\ next_value_id_ = 0
  /\ tracked_values_ = [i \in Ids |-> NoValue]
  /\ destroyed = FALSE
  /\ slot = [s \in Slots |-> INVALID_ID]
  /\ holds = [t \in Threads |-> TRUE]
  /\ pc = [t \in Threads |-> "idle"]
  /\ kind = [t \in Threads |-> "none"]
  /\ operands = [t \in Threads |-> <<>>]
  /\ got = [t \in Threads |-> <<>>]
  /\ result = [t \in Threads |-> NoValue]
  /\ dst = [t \in Threads |-> NoSlot]
  /\ src = [t \in Threads |-> NoSlot]
  /\ made = [i \in Ids |-> NoValue]
  /\ forgotten = {}

-----------------------------------------------------------------------------
Tracked(i) == tracked_values_[i] # NoValue

\* An OwnedValueId is used by one thread at a time.
Busy(s) == \E t \in Threads : pc[t] # "idle" /\ s \in {dst[t], src[t]}

\* Plausible mistake: release() tests the weak_ptr but does not lock it.
Strong_NoLock == {t \in Threads : holds[t]}

\* The threads whose shared_ptr keeps the executor alive: a client's own, and
\* the one release() gets from exec_.lock().
Strong == {t \in Threads : holds[t] \/ pc[t] \in {"release", "drop"}}

\* The ids a client can name: the ones it was given, live or not.
Known == {i \in Ids : i < next_value_id_}

-----------------------------------------------------------------------------
(* The operations of ExecutorInterface *)

Begin(t, k, ids, d) ==
  /\ pc[t] = "idle" /\ holds[t]
  /\ pc' = [pc EXCEPT ![t] = IF ids = <<>> THEN "virtual" ELSE "get"]
  /\ kind' = [kind EXCEPT ![t] = k]
  /\ operands' = [operands EXCEPT ![t] = ids]
  /\ got' = [got EXCEPT ![t] = <<>>]
  /\ dst' = [dst EXCEPT ![t] = d]
  /\ src' = [src EXCEPT ![t] = NoSlot]
  /\ UNCHANGED <<tableVars, ownerVars, execVars, result>>

\* The bound MaxIds, for the range of uint64_t: every operation in progress
\* that creates a value will find an id for it.
Creating == {t \in Threads : pc[t] \in {"get", "virtual", "track"}
                              /\ kind[t] # "Materialize"}
Room == next_value_id_ + Cardinality(Creating) < MaxIds

\* A variable that an OwnedValueId can be constructed in.
Empty(d) == slot[d] = INVALID_ID /\ ~Busy(d)
Fresh(d) == Empty(d) /\ Room

CreateValue(t) == \E d \in Slots : Fresh(d) /\ Begin(t, "CreateValue", <<>>, d)

CreateCall(t) ==
  \E d \in Slots, function \in Known :
    /\ Fresh(d)
    /\ \/ Begin(t, "CreateCall", <<function>>, d)
       \/ \E argument \in Known :
            Begin(t, "CreateCall", <<function, argument>>, d)

CreateStruct(t) ==
  \E d \in Slots, n \in 0 .. MaxOperands :
    \E members \in [1 .. n -> Known] :
      Fresh(d) /\ Begin(t, "CreateStruct", members, d)

CreateSelection(t) ==
  \E d \in Slots, source \in Known :
    Fresh(d) /\ Begin(t, "CreateSelection", <<source>>, d)

Materialize(t) ==
  \E value_id \in Known : Begin(t, "Materialize", <<value_id>>, NoSlot)

\* The method returns.
Leave(t) ==
  /\ pc' = [pc EXCEPT ![t] = "idle"]
  /\ kind' = [kind EXCEPT ![t] = "none"]
  /\ operands' = [operands EXCEPT ![t] = <<>>]
  /\ got' = [got EXCEPT ![t] = <<>>]
  /\ result' = [result EXCEPT ![t] = NoValue]
  /\ dst' = [dst EXCEPT ![t] = NoSlot]
  /\ src' = [src EXCEPT ![t] = NoSlot]

\* The operation returns an error, or the status of Materialize.
Return(t) == Leave(t) /\ UNCHANGED <<tableVars, ownerVars, execVars>>

\* One lookup: a copy of the value, or NotFound, which GENC_TRY returns.
GetTracked(t) ==
  /\ pc[t] = "get"
  /\ LET value_id == operands[t][Len(got[t]) + 1] IN
     \/ /\ ~Tracked(value_id)
        /\ Return(t)
     \/ /\ Tracked(value_id)
        /\ got' = [got EXCEPT ![t] = Append(@, tracked_values_[value_id])]
        /\ pc' = [pc EXCEPT ![t] = IF Len(got'[t]) = Len(operands[t])
                                   THEN "virtual" ELSE "get"]
        /\ UNCHANGED <<tableVars, ownerVars, execVars, kind, operands, result,
                       dst, src>>

\* CreateExecutorValue, CreateCall, CreateStruct, CreateSelection or
\* Materialize of the concrete executor, on copies and without the lock.
Virtual(t) ==
  /\ pc[t] = "virtual"
  /\ \/ Return(t)
     \/ /\ kind[t] # "Materialize"
        /\ \E v \in Values : result' = [result EXCEPT ![t] = v]
        /\ pc' = [pc EXCEPT ![t] = "track"]
        /\ UNCHANGED <<tableVars, ownerVars, execVars, kind, operands, got,
                       dst, src>>

\* Plausible mistake: the id is the size of the table, which shrinks.
TrackValue_IdIsSize(t) ==
  /\ pc[t] = "track"
  /\ next_value_id_ < MaxIds
  /\ LET id == Cardinality({i \in Ids : Tracked(i)}) IN
     /\ next_value_id_' = next_value_id_ + 1
     /\ tracked_values_' = [tracked_values_ EXCEPT ![id] = result[t]]
     /\ made' = [made EXCEPT ![id] = result[t]]
     /\ slot' = [slot EXCEPT ![dst[t]] = id]
  /\ Leave(t)
  /\ UNCHANGED <<forgotten, execVars>>

TrackValue(t) ==
  /\ pc[t] = "track"
  /\ next_value_id_ < MaxIds
  /\ LET id == next_value_id_ IN
     /\ next_value_id_' = id + 1
     /\ tracked_values_' = [tracked_values_ EXCEPT ![id] = result[t]]
     /\ made' = [made EXCEPT ![id] = result[t]]
     /\ slot' = [slot EXCEPT ![dst[t]] = id]
  /\ Leave(t)
  /\ UNCHANGED <<forgotten, execVars>>

\* Erases the value, if the id is in the table; NotFound otherwise.
Erase(i) == tracked_values_' = [tracked_values_ EXCEPT ![i] = NoValue]

\* Dispose called with a bare id, by whoever is responsible for its cleanup
\* after forget(); the call may come twice.
Dispose(t) ==
  /\ pc[t] = "idle" /\ holds[t]
  /\ \E i \in forgotten : Erase(i)
  /\ UNCHANGED <<next_value_id_, made, ownerVars, execVars, opVars>>

-----------------------------------------------------------------------------
(* OwnedValueId *)

MoveConstruct(t) ==
  /\ pc[t] = "idle"
  /\ \E s, d \in Slots :
       /\ ~Busy(s) /\ slot[s] # INVALID_ID
       /\ Empty(d)
       /\ slot' = [slot EXCEPT ![d] = slot[s], ![s] = INVALID_ID]
  /\ UNCHANGED <<tableVars, forgotten, execVars, opVars>>

forget(t) ==
  /\ pc[t] = "idle"
  /\ \E s \in Slots :
       /\ ~Busy(s) /\ slot[s] # INVALID_ID
       /\ forgotten' = forgotten \cup {slot[s]}
       /\ slot' = [slot EXCEPT ![s] = INVALID_ID]
  /\ UNCHANGED <<tableVars, execVars, opVars>>

\* release() up to exec_.lock(): on its own or from the destructor (s is
\* NoSlot), or as the first half of a move assignment from s, which may be d.
Release(t, d, s) ==
  /\ pc[t] = "idle"
  /\ ~Busy(d)
  /\ IF s = NoSlot THEN slot[d] # INVALID_ID ELSE ~Busy(s)
  /\ pc' = [pc EXCEPT ![t] = IF slot[d] # INVALID_ID /\ ~destroyed
                             THEN "release" ELSE "invalidate"]
  /\ kind' = [kind EXCEPT ![t] = "release"]
  /\ dst' = [dst EXCEPT ![t] = d]
  /\ src' = [src EXCEPT ![t] = s]
  /\ UNCHANGED <<tableVars, ownerVars, execVars, operands, got, result>>

ReleaseDispose(t) ==
  /\ pc[t] = "release"
  /\ Erase(slot[dst[t]])
  /\ pc' = [pc EXCEPT ![t] = "drop"]
  /\ UNCHANGED <<next_value_id_, made, ownerVars, execVars, kind, operands,
                 got, result, dst, src>>

\* The shared_ptr of thread t goes away. The last one destroys the executor,
\* whose destructor calls ClearTracked.
DropStrong(t) ==
  IF Strong = {t}
  THEN destroyed' = TRUE /\ tracked_values_' = [i \in Ids |-> NoValue]
  ELSE UNCHANGED <<destroyed, tracked_values_>>

\* Plausible mistake: the reference release() took is never given back.
ReleaseDrop_Leaks(t) ==
  /\ pc[t] = "drop"
  /\ pc' = [pc EXCEPT ![t] = "invalidate"]
  /\ UNCHANGED <<tableVars, ownerVars, execVars, kind, operands, got, result,
                 dst, src>>

\* exec_strong goes out of scope (the client's own shared_ptr may remain).
ReleaseDrop(t) ==
  /\ pc[t] = "drop"
  /\ IF holds[t] THEN UNCHANGED <<destroyed, tracked_values_>> ELSE DropStrong(t)
  /\ pc' = [pc EXCEPT ![t] = "invalidate"]
  /\ UNCHANGED <<next_value_id_, made, ownerVars, holds, kind, operands, got,
                 result, dst, src>>

\* Plausible mistake: the source of the move keeps its id.
Invalidate_NoForget(t) ==
  /\ pc[t] = "invalidate"
  /\ slot' = [slot EXCEPT ![dst[t]] = IF src[t] \in Slots \ {dst[t]}
                                     THEN slot[src[t]] ELSE INVALID_ID]
  /\ Leave(t)
  /\ UNCHANGED <<tableVars, forgotten, execVars>>

\* The end of release(): id_ = INVALID_ID; and then, in operator=, the target
\* takes over the id of the source, which forgets it.
Invalidate(t) ==
  /\ pc[t] = "invalidate"
  /\ slot' = [s \in Slots |->
               IF s = dst[t] /\ src[t] \in Slots \ {s} THEN slot[src[t]]
               ELSE IF s \in {dst[t], src[t]} THEN INVALID_ID
               ELSE slot[s]]
  /\ Leave(t)
  /\ UNCHANGED <<tableVars, forgotten, execVars>>

-----------------------------------------------------------------------------
\* A client gives up its shared_ptr to the executor between two operations.
DropExecutor(t) ==
  /\ pc[t] = "idle" /\ holds[t]
  /\ holds' = [holds EXCEPT ![t] = FALSE]
  /\ DropStrong(t)
  /\ UNCHANGED <<next_value_id_, made, ownerVars, opVars>>

\* Nothing is left to do: no executor and no handle.
Finished ==
  /\ destroyed
  /\ \A s \in Slots : slot[s] = INVALID_ID
  /\ \A t \in Threads : pc[t] = "idle"
  /\ UNCHANGED vars

Operation(t) ==
  \/ CreateValue(t) \/ CreateCall(t) \/ CreateStruct(t)
  \/ CreateSelection(t) \/ Materialize(t)
  \/ Dispose(t)

Step(t) ==
  \/ GetTracked(t) \/ Virtual(t) \/ TrackValue(t)
  \/ ReleaseDispose(t) \/ ReleaseDrop(t) \/ Invalidate(t)

Ownership(t) ==
  \/ MoveConstruct(t)
  \/ forget(t)
  \/ \E d \in Slots, s \in Slots \cup {NoSlot} : Release(t, d, s)
  \/ DropExecutor(t)

Next == (\E t \in Threads : Operation(t) \/ Step(t) \/ Ownership(t)) \/ Finished

\* A thread inside a method goes on; nobody has to start one.
Fairness == \A t \in Threads : WF_vars(Step(t))

Spec == Init /\ [][Next]_vars

FairSpec == Spec /\ Fairness

-----------------------------------------------------------------------------
(* Properties *)

\* As long as an OwnedValueId is neither released nor moved from, its id is in
\* the table, under the value the id was issued for, whatever other threads
\* create, move, forget and dispose: GetTracked cannot answer NotFound for it.
OwnedIsTracked ==
  \A s \in Slots :
    slot[s] # INVALID_ID /\ ~destroyed /\ ~Busy(s)
      => Tracked(slot[s]) /\ tracked_values_[slot[s]] = made[slot[s]]

\* No value leaks and no value has two owners: every id in the table is owned
\* by exactly one OwnedValueId, or was forgotten and has none; a destroyed
\* executor has an empty table.
TrackedHasOneOwner ==
  \A i \in Ids :
    Tracked(i) =>
      LET owners == {s \in Slots : slot[s] = i} IN
      /\ ~destroyed
      /\ IF i \in forgotten THEN owners = {} ELSE \E s \in Slots : owners = {s}

\* Handles and table say the same, whatever the threads of the application do
\* with the handles: what is owned is there, and what is there is owned once.
HandlesMatchTable == OwnedIsTracked /\ TrackedHasOneOwner

\* The operands a virtual function gets are, in order, the values the ids were
\* issued for, even when an id is disposed of or used after its release while
\* the operation runs: a stale id is NotFound or still means its old value,
\* never another one.
OperandsFaithful ==
  \A t \in Threads : \A n \in 1 .. Len(got[t]) :
    got[t][n] = made[operands[t][n]]

\* The executor lives exactly as long as somebody has a shared_ptr to it: it is
\* not destroyed under a thread that is inside one of its methods, release() of
\* a client that has no shared_ptr of its own included, and whoever of several
\* threads gives up the last one destroys it.
LivesWhileReferenced ==
  /\ destroyed <=> Strong = {}
  /\ destroyed => \A t \in Threads : pc[t] \in {"idle", "invalidate"}

\* An id that has left the table does not come back: ids are not reused.
IdsNotReused ==
  [][\A i \in Ids : i < next_value_id_ /\ ~Tracked(i)
                       => tracked_values_'[i] = NoValue]_vars

\* Once no client holds the executor it is destroyed, although calls of
\* release() may still be in progress.
DroppedIsDestroyed == (\A t \in Threads : ~holds[t]) ~> destroyed

-----------------------------------------------------------------------------
(* The inductive invariant of the proofs in ExecutorBaseProofs *)

\* Where a thread is, and what it has in its hands there.
ThreadInv ==
  \A t \in Threads :
    /\ pc[t] = "idle" => /\ dst[t] = NoSlot /\ src[t] = NoSlot
                         /\ operands[t] = <<>> /\ got[t] = <<>>
    /\ pc[t] \in {"get", "virtual", "track"} =>
         /\ holds[t]
         /\ src[t] = NoSlot
         /\ kind[t] # "Materialize" =>
              dst[t] \in Slots /\ slot[dst[t]] = INVALID_ID
         /\ kind[t] = "Materialize" => dst[t] = NoSlot
    /\ pc[t] = "get" => Len(got[t]) < Len(operands[t])
    /\ pc[t] = "track" => kind[t] # "Materialize" /\ result[t] \in Values
    /\ pc[t] \in {"release", "drop", "invalidate"} => dst[t] \in Slots
    /\ pc[t] = "release" => slot[dst[t]] # INVALID_ID
    /\ pc[t] \in {"drop", "invalidate"} /\ slot[dst[t]] # INVALID_ID =>
         ~Tracked(slot[dst[t]])

\* Two threads never work on the same OwnedValueId.
Disjoint ==
  \A t, u \in Threads, s \in Slots :
    s \in {dst[t], src[t]} /\ s \in {dst[u], src[u]} => t = u

\* Only ids that were issued occur anywhere.
IssuedInv ==
  /\ \A i \in Ids :
       Tracked(i) \/ i \in forgotten \/ (\E s \in Slots : slot[s] = i)
         => i < next_value_id_
  /\ \A t \in Threads : \A n \in 1 .. Len(operands[t]) :
       operands[t][n] < next_value_id_
  /\ \A t \in Threads : Len(got[t]) <= Len(operands[t])

\* A value has one owner, or was forgotten and has none.
OwnerInv ==
  /\ \A r, s \in Slots : slot[r] = slot[s] /\ slot[r] # INVALID_ID => r = s
  /\ \A s \in Slots : slot[s] \notin forgotten
  /\ \A i \in Ids : Tracked(i) =>
       /\ tracked_values_[i] = made[i]
       /\ i \in forgotten \/ \E s \in Slots : slot[s] = i

\* A handle is valid until the thread that releases it has disposed of it.
ValidInv ==
  \A s \in Slots :
    slot[s] # INVALID_ID /\ ~destroyed =>
      \/ Tracked(slot[s])
      \/ \E t \in Threads : pc[t] \in {"drop", "invalidate"} /\ dst[t] = s

\* The executor is destroyed with its last shared_ptr, and its table with it.
LifeInv ==
  destroyed => /\ \A t \in Threads : ~holds[t] /\ pc[t] \notin {"release", "drop"}
               /\ \A i \in Ids : ~Tracked(i)

IInv ==
  /\ TypeOK
  /\ ThreadInv
  /\ Disjoint
  /\ IssuedInv
  /\ OwnerInv
  /\ ValidInv
  /\ LifeInv
  /\ OperandsFaithful

=============================================================================
