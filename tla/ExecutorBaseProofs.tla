-------------------------- MODULE ExecutorBaseProofs --------------------------
(* Proofs about ExecutorBase, for any numbers of threads, handles, values    *)
(* and ids.                                                                  *)
EXTENDS ExecutorBase, TLAPS

\* The id of a handle that owns nothing is not an id of the table.
LEMMA InvalidIsNoId == INVALID_ID \notin Ids
  BY ExecutorAssumption DEF INVALID_ID, Ids

\* The initial states satisfy the invariant.
LEMMA InitInv == Init => IInv
<1> SUFFICES ASSUME Init PROVE IInv
  OBVIOUS
<1> USE ExecutorAssumption DEF Init, Ids, INVALID_ID, PcStates, Kinds
<1>1. TypeOK
  <2>1. next_value_id_ \in 0 .. MaxIds
    OBVIOUS
  <2>2. operands \in [Threads -> Seq(Ids)] /\ got \in [Threads -> Seq(Values)]
    OBVIOUS
  <2>3. /\ tracked_values_ \in [Ids -> Values \cup {NoValue}]
        /\ made \in [Ids -> Values \cup {NoValue}]
        /\ slot \in [Slots -> Ids \cup {INVALID_ID}]
    OBVIOUS
  <2>4. destroyed \in BOOLEAN /\ holds \in [Threads -> BOOLEAN]
    OBVIOUS
  <2>5. /\ pc \in [Threads -> PcStates]
        /\ kind \in [Threads -> Kinds]
        /\ result \in [Threads -> Values \cup {NoValue}]
        /\ dst \in [Threads -> Slots \cup {NoSlot}]
        /\ src \in [Threads -> Slots \cup {NoSlot}]
        /\ forgotten \subseteq Ids
    OBVIOUS
  <2> QED
    BY <2>1, <2>2, <2>3, <2>4, <2>5 DEF TypeOK
<1>2. ThreadInv /\ Disjoint
  BY DEF ThreadInv, Disjoint
<1>3. IssuedInv
  BY DEF IssuedInv, Tracked
<1>4. OwnerInv /\ ValidInv /\ LifeInv
  BY DEF OwnerInv, ValidInv, LifeInv, Tracked
<1>5. OperandsFaithful
  BY DEF OperandsFaithful
<1> QED
  BY <1>1, <1>2, <1>3, <1>4, <1>5 DEF IInv

\* The first step of an operation on ids that were issued.
LEMMA BeginInv ==
  ASSUME IInv, NEW t \in Threads,
         NEW k \in {"CreateValue", "CreateCall", "CreateStruct",
                    "CreateSelection", "Materialize"},
         NEW ids \in Seq(Ids), NEW d \in Slots \cup {NoSlot},
         \A n \in 1 .. Len(ids) : ids[n] < next_value_id_,
         k = "Materialize" => d = NoSlot,
         k # "Materialize" => d \in Slots /\ Empty(d),
         Begin(t, k, ids, d)
  PROVE  IInv'
<1> USE ExecutorAssumption DEF IInv, Begin, tableVars, ownerVars, execVars
<1>1. TypeOK'
  BY DEF TypeOK, PcStates, Kinds
<1>2. ThreadInv'
  BY DEF TypeOK, ThreadInv, Tracked, Empty
<1>3. Disjoint'
  BY DEF TypeOK, ThreadInv, Disjoint, Empty, Busy
<1>4. IssuedInv'
  BY DEF TypeOK, IssuedInv, Tracked
<1>5. OwnerInv' /\ ValidInv' /\ LifeInv'
  BY DEF TypeOK, OwnerInv, ValidInv, LifeInv, Tracked
<1>6. OperandsFaithful'
  BY DEF TypeOK, OperandsFaithful
<1> QED
  BY <1>1, <1>2, <1>3, <1>4, <1>5, <1>6

\* An operation that fails returns, without an effect on the table.
LEMMA ReturnInv ==
  ASSUME IInv, NEW t \in Threads, pc[t] \in {"get", "virtual"},
         Return(t)
  PROVE  IInv'
<1> USE ExecutorAssumption DEF IInv, TypeOK, Return, Leave, tableVars,
    ownerVars, execVars
<1>1. TypeOK'
  BY DEF PcStates, Kinds
<1>2. ThreadInv'
  BY DEF ThreadInv, Tracked
<1>3. Disjoint'
  BY DEF ThreadInv, Disjoint
<1>4. IssuedInv'
  BY DEF IssuedInv, Tracked
<1>5. OwnerInv'
  BY DEF OwnerInv, Tracked
<1>6. ValidInv'
  BY DEF ValidInv, Tracked
<1>7. LifeInv'
  BY DEF LifeInv, Tracked
<1>8. OperandsFaithful'
  BY DEF OperandsFaithful
<1> QED
  BY <1>1, <1>2, <1>3, <1>4, <1>5, <1>6, <1>7, <1>8

\* A lookup: the copy it takes is the value the id was issued for.
LEMMA LookupInv ==
  ASSUME IInv, NEW t \in Threads, GetTracked(t), ~Return(t)
  PROVE  IInv'
<1> USE ExecutorAssumption DEF IInv, TypeOK, GetTracked, tableVars, ownerVars,
    execVars
<1> DEFINE n == Len(got[t]) + 1
           value_id == operands[t][n]
<1>a. /\ operands[t] \in Seq(Ids) /\ got[t] \in Seq(Values)
      /\ n \in 1 .. Len(operands[t])
      /\ value_id \in Ids
  BY DEF ThreadInv
<1>b. /\ Tracked(value_id)
      /\ tracked_values_[value_id] \in Values
      /\ tracked_values_[value_id] = made[value_id]
  BY <1>a DEF OwnerInv, Tracked
<1>c. /\ got' = [got EXCEPT ![t] = Append(got[t], made[value_id])]
      /\ Append(got[t], made[value_id]) \in Seq(Values)
      /\ got'[t] = Append(got[t], made[value_id])
  BY <1>a, <1>b
<1>1. TypeOK'
  <2>1. got' \in [Threads -> Seq(Values)]
    BY <1>c
  <2>2. pc' \in [Threads -> PcStates]
    BY DEF PcStates
  <2> QED
    BY <2>1, <2>2
<1>2. ThreadInv'
  BY DEF ThreadInv, Tracked
<1>3. Disjoint'
  BY DEF ThreadInv, Disjoint
<1>4. IssuedInv'
  <2>1. \A u \in Threads \ {t} : got'[u] = got[u]
    BY <1>c
  <2>2. Len(got'[t]) <= Len(operands[t])
    <3>1. Len(got'[t]) = n /\ Len(operands[t]) \in Nat
      BY <1>a, <1>c
    <3> QED BY <1>a, <3>1
  <2>3. \A u \in Threads : Len(got'[u]) <= Len(operands[u])
    BY <2>1, <2>2 DEF IssuedInv
  <2> QED BY <2>3 DEF IssuedInv, Tracked
<1>5. OwnerInv'
  BY DEF OwnerInv, Tracked
<1>6. ValidInv'
  <2>1. /\ UNCHANGED <<tracked_values_, slot, destroyed, dst>>
        /\ \A u \in Threads : pc[u] \in {"drop", "invalidate"} => pc'[u] = pc[u]
    OBVIOUS
  <2> QED BY <2>1, Zenon DEF ValidInv, Tracked
<1>7. LifeInv'
  <2>1. ~destroyed
    BY <1>a, <1>b DEF LifeInv
  <2> QED BY <2>1 DEF LifeInv
<1>8. OperandsFaithful'
  <2> SUFFICES ASSUME NEW u \in Threads, NEW m \in 1 .. Len(got'[u])
               PROVE  got'[u][m] = made[operands[u][m]]
    BY DEF OperandsFaithful
  <2>1. CASE u # t
    BY <2>1, <1>c DEF OperandsFaithful
  <2>2. CASE u = t
    BY <2>2, <1>a, <1>c DEF OperandsFaithful
  <2> QED
    BY <2>1, <2>2
<1> QED
  BY <1>1, <1>2, <1>3, <1>4, <1>5, <1>6, <1>7, <1>8

\* The virtual function of the concrete executor.
LEMMA VirtualInv ==
  ASSUME IInv, NEW t \in Threads, Virtual(t), ~Return(t)
  PROVE  IInv'
<1> USE ExecutorAssumption DEF IInv, TypeOK, Virtual, tableVars, ownerVars,
    execVars
<1>1. TypeOK'
  <2>1. pc' \in [Threads -> PcStates]
    BY DEF PcStates
  <2>2. result' \in [Threads -> Values \cup {NoValue}]
    OBVIOUS
  <2> QED BY <2>1, <2>2
<1>2. ThreadInv'
  BY DEF ThreadInv, Tracked
<1>3. Disjoint'
  BY DEF ThreadInv, Disjoint
<1>4. IssuedInv'
  BY DEF IssuedInv, Tracked
<1>5. OwnerInv'
  BY DEF OwnerInv, Tracked
<1>6. ValidInv'
  BY DEF ValidInv, Tracked
<1>7. LifeInv'
  BY ZenonT(30) DEF LifeInv, Tracked
<1>8. OperandsFaithful'
  BY DEF OperandsFaithful
<1> QED
  BY <1>1, <1>2, <1>3, <1>4, <1>5, <1>6, <1>7, <1>8

\* The result gets an id that was never issued before.
LEMMA TrackValueInv ==
  ASSUME IInv, NEW t \in Threads, TrackValue(t)
  PROVE  IInv'
<1> USE ExecutorAssumption DEF IInv, TypeOK, TrackValue, Leave, tableVars,
    ownerVars, execVars, Ids, INVALID_ID
<1>1. TypeOK'
  BY DEF PcStates, Kinds, ThreadInv
<1>2. ThreadInv'
  <2>1. pc'[t] = "idle" /\ dst'[t] = NoSlot /\ src'[t] = NoSlot
        /\ operands'[t] = <<>> /\ got'[t] = <<>>
    OBVIOUS
  <2>2. ASSUME NEW u \in Threads, u # t
        PROVE  /\ pc'[u] = pc[u] /\ kind'[u] = kind[u] /\ result'[u] = result[u]
               /\ dst'[u] = dst[u] /\ src'[u] = src[u] /\ holds'[u] = holds[u]
               /\ operands'[u] = operands[u] /\ got'[u] = got[u]
    BY <2>2
  <2>3. ASSUME NEW u \in Threads, u # t, dst[u] \in Slots
        PROVE  /\ slot'[dst[u]] = slot[dst[u]]
               /\ slot[dst[u]] # INVALID_ID =>
                    tracked_values_'[slot[dst[u]]] = tracked_values_[slot[dst[u]]]
    <3>1. dst[t] \in Slots /\ dst[u] # dst[t]
      BY <2>3 DEF ThreadInv, Disjoint
    <3>2. slot'[dst[u]] = slot[dst[u]]
      BY <2>3, <3>1
    <3>3. slot[dst[u]] # INVALID_ID =>
            slot[dst[u]] \in Ids /\ slot[dst[u]] < next_value_id_
      BY <2>3 DEF IssuedInv
    <3> QED
      BY <3>2, <3>3
  <2> QED
    BY <2>1, <2>2, <2>3 DEF ThreadInv, Tracked
<1>3. Disjoint'
  BY DEF ThreadInv, Disjoint, ThreadInv
<1>4. IssuedInv'
  BY DEF IssuedInv, Tracked, ThreadInv
<1>5. OwnerInv'
  BY DEF OwnerInv, Tracked, ThreadInv, IssuedInv
<1>6. ValidInv'
  BY DEF ValidInv, Tracked, ThreadInv, Disjoint
<1>7. LifeInv'
  BY DEF LifeInv, Tracked, ThreadInv
<1>8. OperandsFaithful'
  <2> SUFFICES ASSUME NEW u \in Threads, NEW m \in 1 .. Len(got'[u])
               PROVE  got'[u][m] = made'[operands'[u][m]]
    BY DEF OperandsFaithful
  <2>1. u # t /\ got'[u] = got[u] /\ operands'[u] = operands[u]
    OBVIOUS
  <2>2. operands[u][m] \in Ids /\ operands[u][m] < next_value_id_
    BY <2>1 DEF IssuedInv
  <2> QED
    BY <2>1, <2>2 DEF OperandsFaithful
<1> QED
  BY <1>1, <1>2, <1>3, <1>4, <1>5, <1>6, <1>7, <1>8

\* Disposing of a forgotten id takes nothing from an owner.
LEMMA DisposeInv ==
  ASSUME IInv, NEW t \in Threads, Dispose(t)
  PROVE  IInv'
<1> USE ExecutorAssumption DEF IInv, TypeOK, Dispose, Erase, tableVars,
    ownerVars, execVars, opVars, INVALID_ID, Ids
<1>1. TypeOK'
  BY DEF PcStates, Kinds
<1>2. ThreadInv'
  BY DEF ThreadInv, Tracked
<1>3. Disjoint'
  BY DEF ThreadInv, Disjoint
<1>4. IssuedInv'
  BY DEF IssuedInv, Tracked
<1>5. OwnerInv'
  BY DEF OwnerInv, Tracked
<1>6. ValidInv'
  BY DEF ValidInv, Tracked, OwnerInv
<1>7. LifeInv'
  BY DEF LifeInv, Tracked
<1>8. OperandsFaithful'
  BY DEF OperandsFaithful
<1> QED
  BY <1>1, <1>2, <1>3, <1>4, <1>5, <1>6, <1>7, <1>8

\* A move: the target is the one owner from now on.
LEMMA MoveConstructInv ==
  ASSUME IInv, NEW t \in Threads, MoveConstruct(t)
  PROVE  IInv'
<1> USE ExecutorAssumption DEF IInv, TypeOK, tableVars, ownerVars, execVars,
    opVars
<1>a. PICK s \in Slots, d \in Slots :
        /\ ~Busy(s) /\ slot[s] # INVALID_ID
        /\ slot[d] = INVALID_ID /\ ~Busy(d)
        /\ slot' = [slot EXCEPT ![d] = slot[s], ![s] = INVALID_ID]
  BY DEF MoveConstruct, Empty
<1>b. UNCHANGED <<tableVars, forgotten, execVars, opVars>>
  BY DEF MoveConstruct
<1>1. TypeOK'
  BY <1>a, <1>b DEF PcStates, Kinds
<1>2. ThreadInv'
  BY <1>a, <1>b DEF ThreadInv, Tracked, Busy
<1>3. Disjoint'
  BY <1>a, <1>b DEF ThreadInv, Disjoint
<1>4. IssuedInv'
  BY <1>a, <1>b DEF IssuedInv, Tracked
<1>5. OwnerInv'
  <2>1. /\ s # d /\ slot'[d] = slot[s] /\ slot'[s] = INVALID_ID
        /\ \A r \in Slots \ {s, d} : slot'[r] = slot[r]
    BY <1>a
  <2>2. ASSUME NEW r \in Slots, NEW q \in Slots,
               slot'[r] = slot'[q], slot'[r] # INVALID_ID
        PROVE  r = q
    <3>1. r # s /\ q # s
      BY <2>1, <2>2
    <3>2. \A x \in Slots \ {s} : slot[x] # slot[s]
      BY <1>a DEF OwnerInv
    <3>3. CASE r = d \/ q = d
      BY <2>1, <2>2, <3>1, <3>2, <3>3
    <3>4. CASE r # d /\ q # d
      BY <2>1, <2>2, <3>1, <3>4 DEF OwnerInv
    <3> QED
      BY <3>3, <3>4
  <2>3. \A r \in Slots : slot'[r] \notin forgotten
    BY <1>a, <2>1, InvalidIsNoId DEF OwnerInv
  <2>4. ASSUME NEW i \in Ids, NEW r \in Slots, slot[r] = i
        PROVE  \E q \in Slots : slot'[q] = i
    BY <1>a, <2>1, <2>4, InvalidIsNoId
  <2> QED
    BY <1>b, <2>2, <2>3, <2>4 DEF OwnerInv, Tracked
<1>6. ValidInv'
  <2>1. /\ s # d /\ slot'[d] = slot[s] /\ slot'[s] = INVALID_ID
        /\ \A r \in Slots \ {s, d} : slot'[r] = slot[r]
    BY <1>a
  <2>2. ~destroyed => Tracked(slot[s])
    BY <1>a DEF ValidInv, Busy
  <2> QED
    BY <1>b, <2>1, <2>2 DEF ValidInv, Tracked
<1>7. LifeInv'
  BY <1>a, <1>b DEF LifeInv, Tracked
<1>8. OperandsFaithful'
  BY <1>a, <1>b DEF OperandsFaithful
<1> QED
  BY <1>1, <1>2, <1>3, <1>4, <1>5, <1>6, <1>7, <1>8

\* A forgotten value has no owner.
LEMMA ForgetInv ==
  ASSUME IInv, NEW t \in Threads, forget(t)
  PROVE  IInv'
<1> USE ExecutorAssumption DEF IInv, TypeOK, tableVars, ownerVars, execVars,
    opVars
<1>a. PICK s \in Slots :
        /\ ~Busy(s) /\ slot[s] # INVALID_ID
        /\ forgotten' = forgotten \cup {slot[s]}
        /\ slot' = [slot EXCEPT ![s] = INVALID_ID]
  BY DEF forget
<1>b. UNCHANGED <<tableVars, execVars, opVars>>
  BY DEF forget
<1>1. TypeOK'
  BY <1>a, <1>b DEF PcStates, Kinds, INVALID_ID
<1>2. ThreadInv'
  BY <1>a, <1>b DEF ThreadInv, Tracked, Busy
<1>3. Disjoint'
  BY <1>a, <1>b DEF ThreadInv, Disjoint
<1>c. /\ slot'[s] = INVALID_ID
      /\ \A r \in Slots \ {s} : slot'[r] = slot[r]
  BY <1>a
<1>4. IssuedInv'
  <2>1. ASSUME NEW i \in Ids,
               Tracked(i)' \/ i \in forgotten' \/ (\E r \in Slots : slot'[r] = i)
        PROVE  i < next_value_id_
    BY <1>a, <1>b, <1>c, <2>1, InvalidIsNoId DEF IssuedInv, Tracked
  <2> QED
    BY <1>b, <2>1 DEF IssuedInv
<1>5. OwnerInv'
  <2>1. ASSUME NEW r \in Slots, NEW q \in Slots,
               slot'[r] = slot'[q], slot'[r] # INVALID_ID
        PROVE  r = q
    <3>1. r # s /\ q # s
      BY <1>c, <2>1
    <3> QED
      BY <1>c, <2>1, <3>1 DEF OwnerInv
  <2>2. \A r \in Slots : slot'[r] \notin forgotten'
    BY <1>a, <1>c, InvalidIsNoId DEF OwnerInv
  <2>3. \A i \in Ids : (i \in forgotten \/ \E r \in Slots : slot[r] = i)
          => (i \in forgotten' \/ \E r \in Slots : slot'[r] = i)
    BY <1>a, <1>c
  <2> QED
    BY <1>b, <2>1, <2>2, <2>3 DEF OwnerInv, Tracked
<1>6. ValidInv'
  BY <1>a, <1>b DEF ValidInv, Tracked, Busy, ThreadInv
<1>7. LifeInv'
  BY <1>a, <1>b DEF LifeInv, Tracked
<1>8. OperandsFaithful'
  BY <1>a, <1>b DEF OperandsFaithful
<1> QED
  BY <1>1, <1>2, <1>3, <1>4, <1>5, <1>6, <1>7, <1>8

\* The start of release(), alone or in a move assignment.
LEMMA ReleaseInv ==
  ASSUME IInv, NEW t \in Threads, NEW d \in Slots,
         NEW s \in Slots \cup {NoSlot}, Release(t, d, s)
  PROVE  IInv'
<1> USE ExecutorAssumption DEF IInv, TypeOK, Release, tableVars, ownerVars,
    execVars
<1>1. TypeOK'
  BY DEF PcStates, Kinds
<1>2. ThreadInv'
  BY DEF ThreadInv, Tracked, LifeInv
<1>3. Disjoint'
  BY DEF ThreadInv, Disjoint, Busy
<1>4. IssuedInv'
  BY DEF IssuedInv, Tracked
<1>5. OwnerInv'
  BY DEF OwnerInv, Tracked
<1>6. ValidInv'
  BY DEF ValidInv, Tracked, ThreadInv
<1>7. LifeInv'
  BY DEF LifeInv, Tracked
<1>8. OperandsFaithful'
  BY DEF OperandsFaithful
<1> QED
  BY <1>1, <1>2, <1>3, <1>4, <1>5, <1>6, <1>7, <1>8

\* Dispose in release().
LEMMA ReleaseDisposeInv ==
  ASSUME IInv, NEW t \in Threads, ReleaseDispose(t)
  PROVE  IInv'
<1> USE ExecutorAssumption DEF IInv, TypeOK, ReleaseDispose, Erase, tableVars,
    ownerVars, execVars
<1>1. TypeOK'
  BY DEF PcStates, Kinds
<1>2. ThreadInv'
  BY DEF ThreadInv, Tracked
<1>3. Disjoint'
  BY DEF ThreadInv, Disjoint
<1>4. IssuedInv'
  BY DEF IssuedInv, Tracked
<1>5. OwnerInv'
  BY DEF OwnerInv, Tracked, ThreadInv
<1>6. ValidInv'
  BY DEF ValidInv, Tracked, ThreadInv, OwnerInv
<1>7. LifeInv'
  BY DEF LifeInv, Tracked
<1>8. OperandsFaithful'
  BY DEF OperandsFaithful
<1> QED
  BY <1>1, <1>2, <1>3, <1>4, <1>5, <1>6, <1>7, <1>8

\* The end of the shared_ptr in release().
LEMMA ReleaseDropInv ==
  ASSUME IInv, NEW t \in Threads, ReleaseDrop(t)
  PROVE  IInv'
<1> USE ExecutorAssumption DEF IInv, TypeOK, ReleaseDrop, DropStrong, Strong,
    tableVars, ownerVars, execVars
<1>1. TypeOK'
  BY DEF PcStates, Kinds
<1>2. ThreadInv'
  BY DEF ThreadInv, Tracked
<1>3. Disjoint'
  BY DEF ThreadInv, Disjoint
<1>4. IssuedInv'
  BY DEF IssuedInv, Tracked
<1>5. OwnerInv'
  BY DEF OwnerInv, Tracked
<1>6. ValidInv'
  BY DEF ValidInv, Tracked
<1>7. LifeInv'
  BY DEF LifeInv, Tracked
<1>8. OperandsFaithful'
  BY DEF OperandsFaithful
<1> QED
  BY <1>1, <1>2, <1>3, <1>4, <1>5, <1>6, <1>7, <1>8

\* The end of release(), and of a move assignment.
LEMMA InvalidateInv ==
  ASSUME IInv, NEW t \in Threads, Invalidate(t)
  PROVE  IInv'
<1> USE ExecutorAssumption DEF IInv, TypeOK, Invalidate, Leave, tableVars,
    ownerVars, execVars
<1>1. TypeOK'
  BY DEF PcStates, Kinds
<1>2. ThreadInv'
  BY DEF ThreadInv, Tracked, Disjoint
<1>3. Disjoint'
  BY DEF ThreadInv, Disjoint
<1>b. dst[t] \in Slots
  BY DEF ThreadInv
<1>c. ASSUME NEW s \in Slots
      PROVE  \/ slot'[s] = INVALID_ID /\ s \in {dst[t], src[t]}
             \/ slot'[s] = slot[s] /\ s \notin {dst[t], src[t]}
             \/ s = dst[t] /\ src[t] \in Slots \ {s} /\ slot'[s] = slot[src[t]]
  <2>1. slot'[s] = IF s = dst[t] /\ src[t] \in Slots \ {s} THEN slot[src[t]]
                   ELSE IF s \in {dst[t], src[t]} THEN INVALID_ID
                   ELSE slot[s]
    OBVIOUS
  <2> QED
    BY <2>1, Zenon
<1>d. src[t] \in Slots \ {dst[t]} => slot'[dst[t]] = slot[src[t]]
  BY <1>b, <1>c
<1>4. IssuedInv'
  <2>1. ASSUME NEW s \in Slots, slot'[s] \in Ids
        PROVE  \E r \in Slots : slot[r] = slot'[s]
    BY <1>b, <1>c, <2>1, InvalidIsNoId
  <2>2. \A i \in Ids : (\E s \in Slots : slot'[s] = i) => i < next_value_id_
    BY <2>1 DEF IssuedInv
  <2> QED
    BY <2>2 DEF IssuedInv, Tracked
<1>5. OwnerInv'
  <2>1. \A r, q \in Slots : slot'[r] = slot'[q] /\ slot'[r] # INVALID_ID => r = q
    BY <1>b, <1>c DEF OwnerInv
  <2>2. \A r \in Slots : slot'[r] \notin forgotten
    BY <1>b, <1>c, InvalidIsNoId DEF OwnerInv
  <2>3. ASSUME NEW i \in Ids, Tracked(i), NEW r \in Slots, slot[r] = i
        PROVE  \E q \in Slots : slot'[q] = i
    <3>1. r # dst[t]
      BY <2>3, InvalidIsNoId DEF ThreadInv
    <3>2. CASE r = src[t]
      BY <2>3, <3>1, <3>2, <1>b, <1>c, <1>d
    <3>3. CASE r # src[t]
      BY <2>3, <3>1, <3>3, <1>b, <1>c
    <3> QED
      BY <3>2, <3>3
  <2> QED
    BY <2>1, <2>2, <2>3 DEF OwnerInv, Tracked
<1>6. ValidInv'
  BY DEF ValidInv, Tracked, ThreadInv, Disjoint
<1>7. LifeInv'
  BY DEF LifeInv, Tracked
<1>8. OperandsFaithful'
  BY DEF OperandsFaithful
<1> QED
  BY <1>1, <1>2, <1>3, <1>4, <1>5, <1>6, <1>7, <1>8

\* A client that drops its shared_ptr.
LEMMA DropExecutorInv ==
  ASSUME IInv, NEW t \in Threads, DropExecutor(t)
  PROVE  IInv'
<1> USE ExecutorAssumption DEF IInv, TypeOK, DropExecutor, DropStrong, Strong,
    tableVars, ownerVars, execVars, opVars
<1>1. TypeOK'
  BY DEF PcStates, Kinds
<1>2. ThreadInv'
  BY DEF ThreadInv, Tracked
<1>3. Disjoint'
  BY DEF ThreadInv, Disjoint
<1>4. IssuedInv'
  BY DEF IssuedInv, Tracked
<1>5. OwnerInv'
  BY DEF OwnerInv, Tracked
<1>6. ValidInv'
  BY DEF ValidInv, Tracked
<1>7. LifeInv'
  <2>1. CASE Strong = {t}
    <3>1. \A u \in Threads : ~holds'[u] /\ pc'[u] \notin {"release", "drop"}
      BY <2>1
    <3>2. \A i \in Ids : tracked_values_'[i] = NoValue
      BY <2>1
    <3> QED BY <3>1, <3>2 DEF LifeInv, Tracked
  <2>2. CASE Strong # {t}
    <3>1. ~destroyed'
      BY <2>2 DEF LifeInv
    <3> QED BY <3>1 DEF LifeInv
  <2> QED BY <2>1, <2>2
<1>8. OperandsFaithful'
  BY DEF OperandsFaithful
<1> QED
  BY <1>1, <1>2, <1>3, <1>4, <1>5, <1>6, <1>7, <1>8

\* Every step preserves the invariant.
LEMMA NextInv ==
  ASSUME IInv, [Next]_vars
  PROVE  IInv'
<1>1. ASSUME NEW t \in Threads, Operation(t) PROVE IInv'
  <2> DEFINE Issued(ids) ==
        ids \in Seq(Ids) /\ \A n \in 1 .. Len(ids) : ids[n] < next_value_id_
  <2>1. CASE CreateValue(t)
    <3>1. PICK d \in Slots : Empty(d) /\ Begin(t, "CreateValue", <<>>, d)
      BY <2>1 DEF CreateValue, Fresh
    <3>2. Issued(<<>>)
      OBVIOUS
    <3> QED
      BY <1>1, <3>1, <3>2, BeginInv
  <2>2. CASE CreateCall(t)
    <3>1. PICK d \in Slots, function \in Known :
            /\ Empty(d)
            /\ \/ Begin(t, "CreateCall", <<function>>, d)
               \/ \E argument \in Known :
                    Begin(t, "CreateCall", <<function, argument>>, d)
      BY <2>2 DEF CreateCall, Fresh
    <3>2. Issued(<<function>>)
          /\ \A argument \in Known : Issued(<<function, argument>>)
      BY DEF Known
    <3> HIDE DEF Issued
    <3>3. CASE Begin(t, "CreateCall", <<function>>, d)
      BY <1>1, <3>1, <3>2, <3>3, BeginInv DEF Issued
    <3>4. ASSUME NEW argument \in Known,
                 Begin(t, "CreateCall", <<function, argument>>, d)
          PROVE  IInv'
      BY <1>1, <3>1, <3>2, <3>4, BeginInv DEF Issued
    <3> QED
      BY <3>1, <3>3, <3>4
  <2>3. CASE CreateStruct(t)
    <3>1. PICK d \in Slots, n \in 0 .. MaxOperands :
            \E members \in [1 .. n -> Known] :
              Fresh(d) /\ Begin(t, "CreateStruct", members, d)
      BY <2>3 DEF CreateStruct
    <3>2. PICK members \in [1 .. n -> Known] :
            Empty(d) /\ Begin(t, "CreateStruct", members, d)
      BY <3>1 DEF Fresh
    <3>3. Issued(members)
      BY ExecutorAssumption DEF Known
    <3> QED
      BY <1>1, <3>2, <3>3, BeginInv
  <2>4. CASE CreateSelection(t)
    <3>1. PICK d \in Slots, source \in Known :
            Empty(d) /\ Begin(t, "CreateSelection", <<source>>, d)
      BY <2>4 DEF CreateSelection, Fresh
    <3>2. Issued(<<source>>)
      BY DEF Known
    <3> QED
      BY <1>1, <3>1, <3>2, BeginInv
  <2>5. CASE Materialize(t)
    <3>1. PICK value_id \in Known : Begin(t, "Materialize", <<value_id>>, NoSlot)
      BY <2>5 DEF Materialize
    <3>2. Issued(<<value_id>>)
      BY DEF Known
    <3> QED
      BY <1>1, <3>1, <3>2, BeginInv
  <2>6. CASE Dispose(t)
    BY <1>1, <2>6, DisposeInv
  <2> QED
    BY <1>1, <2>1, <2>2, <2>3, <2>4, <2>5, <2>6 DEF Operation
<1>2. ASSUME NEW t \in Threads, Step(t) PROVE IInv'
  <2>1. CASE GetTracked(t)
    BY <1>2, <2>1, ReturnInv, LookupInv DEF GetTracked
  <2>2. CASE Virtual(t)
    BY <1>2, <2>2, ReturnInv, VirtualInv DEF Virtual
  <2> QED
    BY <1>2, <2>1, <2>2, TrackValueInv, ReleaseDisposeInv, ReleaseDropInv,
       InvalidateInv DEF Step
<1>3. ASSUME NEW t \in Threads, Ownership(t) PROVE IInv'
  BY <1>3, MoveConstructInv, ForgetInv, ReleaseInv, DropExecutorInv
     DEF Ownership
<1>4. CASE UNCHANGED vars
  BY <1>4 DEF vars, tableVars, ownerVars, execVars, opVars, IInv, TypeOK,
     ThreadInv, Disjoint, IssuedInv, OwnerInv, ValidInv, LifeInv,
     OperandsFaithful, Tracked
<1> QED
  BY <1>1, <1>2, <1>3, <1>4 DEF Next, Finished

\* The invariant holds of every reachable state, for any number of threads,
\* handles, values and ids.
THEOREM Invariance == Spec => []IInv
  BY InitInv, NextInv, PTL DEF Spec

\* Every variable of ExecutorBase keeps its type.
THEOREM TypeCorrect == Spec => []TypeOK
<1>1. IInv => TypeOK
  BY DEF IInv
<1> QED
  BY <1>1, Invariance, PTL

\* The lookup of an id succeeds as long as its OwnedValueId is neither
\* released nor moved from, and finds the value the id was issued for.
THEOREM OwnedSound == Spec => []OwnedIsTracked
<1>1. IInv => OwnedIsTracked
  <2> SUFFICES ASSUME IInv, NEW s \in Slots,
                      slot[s] # INVALID_ID, ~destroyed, ~Busy(s)
               PROVE  Tracked(slot[s]) /\ tracked_values_[slot[s]] = made[slot[s]]
    BY DEF OwnedIsTracked
  <2>1. slot[s] \in Ids
    BY DEF IInv, TypeOK
  <2>2. Tracked(slot[s])
    BY DEF IInv, ValidInv, Busy
  <2> QED
    BY <2>1, <2>2 DEF IInv, OwnerInv
<1> QED
  BY <1>1, Invariance, PTL

\* A value in the table has exactly one OwnedValueId, or was forgotten and
\* has none; a destroyed executor has no values.
THEOREM OneOwner == Spec => []TrackedHasOneOwner
<1>1. IInv => TrackedHasOneOwner
  <2> SUFFICES ASSUME IInv, NEW i \in Ids, Tracked(i)
               PROVE  /\ ~destroyed
                      /\ IF i \in forgotten
                         THEN {s \in Slots : slot[s] = i} = {}
                         ELSE \E r \in Slots : {s \in Slots : slot[s] = i} = {r}
    BY DEF TrackedHasOneOwner
  <2>1. ~destroyed
    BY DEF IInv, LifeInv
  <2>2. i \in forgotten => {s \in Slots : slot[s] = i} = {}
    BY DEF IInv, OwnerInv
  <2>3. ASSUME i \notin forgotten
        PROVE  \E r \in Slots : {s \in Slots : slot[s] = i} = {r}
    <3>1. PICK r \in Slots : slot[r] = i
      BY <2>3 DEF IInv, OwnerInv
    <3>2. \A s \in Slots : slot[s] = i => s = r
      BY <3>1, InvalidIsNoId DEF IInv, OwnerInv
    <3>3. {s \in Slots : slot[s] = i} = {r}
      BY <3>1, <3>2
    <3> QED
      BY <3>3
  <2> QED
    BY <2>1, <2>2, <2>3
<1> QED
  BY <1>1, Invariance, PTL

\* The table holds the values of the handles and no others, under the ids that
\* the handles have, each owned once (executor.h OwnedValueId, Dispose).
THEOREM HandlesSound == Spec => []HandlesMatchTable
<1>1. OwnedIsTracked /\ TrackedHasOneOwner => HandlesMatchTable
  BY DEF HandlesMatchTable
<1> QED
  BY <1>1, OwnedSound, OneOwner, PTL

\* The copies an operation works on are the values its ids were issued for.
THEOREM FaithfulOperands == Spec => []OperandsFaithful
<1>1. IInv => OperandsFaithful
  BY DEF IInv
<1> QED
  BY <1>1, Invariance, PTL

\* An executor that is not destroyed has somebody who will destroy it.
HeldInv == ~destroyed => Strong # {}

\* Who gives up the last shared_ptr destroys the executor; whoever else has
\* one keeps it.
LEMMA HeldStep ==
  ASSUME IInv, HeldInv, [Next]_vars
  PROVE  HeldInv'
<1> SUFFICES ASSUME ~destroyed'
             PROVE  \E u \in Threads : \/ holds'[u]
                                       \/ pc'[u] \in {"release", "drop"}
  BY DEF HeldInv, Strong
<1> USE DEF IInv, TypeOK
<1>1. ~destroyed => \E u \in Threads : u \in Strong
  BY DEF HeldInv, Strong
<1>2. \A u \in Strong : u \in Threads /\ (holds[u] \/ pc[u] \in {"release", "drop"})
  BY DEF Strong
<1>3. CASE /\ UNCHANGED <<destroyed, holds>>
           /\ \/ UNCHANGED pc
              \/ \E t \in Threads :
                   \E v : /\ pc' = [pc EXCEPT ![t] = v]
                          /\ \/ pc[t] \notin {"release", "drop"}
                             \/ v = "drop"
                             \/ holds[t]
  <2>1. PICK u \in Threads : u \in Strong
    BY <1>1, <1>3
  <2>2. holds[u] \/ pc[u] \in {"release", "drop"}
    BY <1>2, <2>1
  <2>3. CASE UNCHANGED pc
    BY <1>3, <2>2, <2>3
  <2>4. ASSUME NEW t \in Threads, NEW v, pc' = [pc EXCEPT ![t] = v],
               \/ pc[t] \notin {"release", "drop"} \/ v = "drop" \/ holds[t]
        PROVE  \E x \in Threads : holds'[x] \/ pc'[x] \in {"release", "drop"}
    BY <1>3, <2>2, <2>4
  <2> QED BY <1>3, <2>3, <2>4
<1>4. ASSUME NEW t \in Threads, ReleaseDrop(t), ~holds[t]
      PROVE  \E x \in Threads : holds'[x] \/ pc'[x] \in {"release", "drop"}
  <2>1. /\ DropStrong(t) /\ holds' = holds /\ t \in Strong
        /\ pc' = [pc EXCEPT ![t] = "invalidate"]
    BY <1>4 DEF ReleaseDrop, Strong
  <2>2. PICK u \in Strong : u # t
    BY <2>1 DEF DropStrong
  <2> QED BY <1>2, <2>1, <2>2
<1>5. ASSUME NEW t \in Threads, DropExecutor(t)
      PROVE  \E x \in Threads : holds'[x] \/ pc'[x] \in {"release", "drop"}
  <2>1. /\ DropStrong(t) /\ holds' = [holds EXCEPT ![t] = FALSE] /\ t \in Strong
        /\ pc' = pc
    BY <1>5 DEF DropExecutor, Strong, opVars
  <2>2. PICK u \in Strong : u # t
    BY <2>1 DEF DropStrong
  <2> QED BY <1>2, <2>1, <2>2
<1>6. CASE \E t \in Threads : Operation(t)
  BY <1>3, <1>6 DEF Operation, CreateValue, CreateCall, CreateStruct,
     CreateSelection, Materialize, Begin, Dispose, execVars, opVars
<1>7. ASSUME NEW t \in Threads, Step(t)
      PROVE  \E x \in Threads : holds'[x] \/ pc'[x] \in {"release", "drop"}
  <2>1. CASE GetTracked(t) \/ Virtual(t)
    BY <1>3, <2>1 DEF GetTracked, Virtual, Return, Leave, execVars
  <2>2. CASE TrackValue(t) \/ Invalidate(t)
    BY <1>3, <2>2 DEF TrackValue, Invalidate, Leave, execVars
  <2>3. CASE ReleaseDispose(t)
    BY <1>3, <2>3 DEF ReleaseDispose, execVars
  <2>4. CASE ReleaseDrop(t) /\ holds[t]
    BY <1>3, <2>4 DEF ReleaseDrop
  <2> QED BY <1>4, <1>7, <2>1, <2>2, <2>3, <2>4 DEF Step
<1>8. ASSUME NEW t \in Threads, Ownership(t)
      PROVE  \E x \in Threads : holds'[x] \/ pc'[x] \in {"release", "drop"}
  <2>1. CASE MoveConstruct(t) \/ forget(t)
    BY <1>3, <2>1 DEF MoveConstruct, forget, execVars, opVars
  <2>2. ASSUME NEW d, NEW s, Release(t, d, s)
        PROVE  \E x \in Threads : holds'[x] \/ pc'[x] \in {"release", "drop"}
    BY <1>3, <2>2 DEF Release, execVars
  <2> QED BY <1>5, <1>8, <2>1, <2>2 DEF Ownership
<1>9. CASE UNCHANGED vars
  BY <1>3, <1>9 DEF vars, execVars, opVars
<1> QED BY <1>6, <1>7, <1>8, <1>9 DEF Next, Finished

\* The executor lives exactly as long as somebody has a shared_ptr to it, the
\* one that release() of an OwnedValueId locks included, so no thread is inside
\* a method of an executor that is destroyed.
THEOREM AliveWhileReferenced == Spec => []LivesWhileReferenced
<1>1. Init => HeldInv
  BY ExecutorAssumption DEF Init, HeldInv, Strong, ExecutorAssumption
<1>2. IInv /\ HeldInv /\ [Next]_vars => HeldInv'
  BY HeldStep
<1>3. IInv /\ HeldInv => LivesWhileReferenced
  <2> SUFFICES ASSUME IInv, HeldInv PROVE LivesWhileReferenced
    OBVIOUS
  <2>1. destroyed => Strong = {}
    BY DEF IInv, LifeInv, Strong
  <2>2. destroyed => \A t \in Threads : pc[t] \in {"idle", "invalidate"}
    BY DEF IInv, TypeOK, PcStates, ThreadInv, LifeInv
  <2>3. destroyed \in BOOLEAN
    BY DEF IInv, TypeOK
  <2> QED BY <2>1, <2>2, <2>3 DEF HeldInv, LivesWhileReferenced
<1> QED
  BY <1>1, <1>2, <1>3, Invariance, PTL DEF Spec

\* No step puts an id back into the table.
THEOREM NoReuse == Spec => IdsNotReused
<1>1. ASSUME IInv, [Next]_vars, NEW i \in Ids, i < next_value_id_, ~Tracked(i)
      PROVE  tracked_values_'[i] = NoValue
  <2> USE DEF IInv, TypeOK, Tracked, tableVars
  <2>1. ASSUME NEW t \in Threads, TrackValue(t)
        PROVE  tracked_values_'[i] = NoValue
    BY <1>1, <2>1 DEF TrackValue, Ids
  <2>2. ASSUME NEW j, Erase(j)
        PROVE  tracked_values_'[i] = NoValue
    BY <1>1, <2>2 DEF Erase
  <2>3. ASSUME NEW t, DropStrong(t)
        PROVE  tracked_values_'[i] = NoValue
    BY <1>1, <2>3 DEF DropStrong
  <2>4. CASE UNCHANGED tracked_values_
    BY <1>1, <2>4
  <2>5. CASE \E t \in Threads : Operation(t)
    BY <2>2, <2>4, <2>5 DEF Operation, CreateValue, CreateCall, CreateStruct,
       CreateSelection, Materialize, Begin, Dispose
  <2>6. CASE \E t \in Threads : Step(t)
    BY <2>1, <2>2, <2>3, <2>4, <2>6 DEF Step, GetTracked, Return, Virtual,
       ReleaseDispose, ReleaseDrop, Invalidate
  <2>7. CASE \E t \in Threads : Ownership(t)
    BY <2>3, <2>4, <2>7 DEF Ownership, MoveConstruct, forget, Release,
       DropExecutor
  <2> QED
    BY <1>1, <2>4, <2>5, <2>6, <2>7 DEF Next, Finished, vars
<1>2. IInv /\ [Next]_vars =>
        [\A i \in Ids : i < next_value_id_ /\ ~Tracked(i)
                          => tracked_values_'[i] = NoValue]_vars
  BY <1>1
<1> QED
  BY <1>2, Invariance, PTL DEF Spec, IdsNotReused

===============================================================================
