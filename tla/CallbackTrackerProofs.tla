------------------------ MODULE CallbackTrackerProofs ------------------------
(* Proofs about CallbackTracker, for any number of Schedule calls and of     *)
(* waiting threads.                                                          *)
EXTENDS CallbackTracker, FiniteSetTheorems, WellFoundedInduction, TLAPS

\* A nonempty set of naturals has a least element.
LEMMA LeastElement ==
  ASSUME NEW T \in SUBSET Nat, T # {}
  PROVE  \E x \in T : \A y \in T : x <= y
<1> DEFINE R == {ss \in Nat \X Nat : ss[1] < ss[2]}
<1>1. OpToRel(<, Nat) = R
  BY DEF OpToRel
<1>2. PICK x \in T : \A y \in T : ~ (<<y, x>> \in R)
  BY <1>1, WFMin, NatLessThanWellFounded
<1>3. ASSUME NEW y \in T PROVE x <= y
  <2>1. <<y, x>> \in Nat \X Nat /\ <<y, x>>[1] = y /\ <<y, x>>[2] = x
    OBVIOUS
  <2>2. ~(y < x)
    BY <1>2, <2>1
  <2> QED
    BY <2>2
<1> QED
  BY <1>3

\* The set of calls counted as completed is a finite set.
LEMMA ClosedFinite == IsFiniteSet(Closed)
<1>1. IsFiniteSet(Calls)
  BY CallsAssumption, FS_Interval DEF Calls
<1> QED
  BY <1>1, FS_Subset DEF Closed

\* The counters agree only when every issued callback has finished: this is
\* what makes the OK answer of the wait trustworthy.
LEMMA NothingPending ==
  ASSUME IInv, NumPending <= 0
  PROVE  \A c \in Calls : ~Unfinished(c) /\ (pc[c] = "returned" => Finished(c))
<1> DEFINE n == total_num_callbacks_scheduled
<1>1. n \in Nat /\ n <= MaxCalls /\ MaxCalls \in Nat
  BY CallsAssumption DEF IInv, CountInv
<1>2. Closed \subseteq 1 .. n
  <2> SUFFICES ASSUME NEW c \in Closed PROVE c \in 1 .. n
    OBVIOUS
  <2>1. c \in Calls /\ pc[c] # "idle"
    BY DEF Closed, IInv, TrackInv, Finished
  <2> QED
    BY <2>1, <1>1 DEF IInv, CountInv, Calls
<1>3. IsFiniteSet(1 .. n) /\ Cardinality(1 .. n) = n
  <2>1. /\ IsFiniteSet(1 .. n)
        /\ Cardinality(1 .. n) = IF 1 > n THEN 0 ELSE n - 1 + 1
    BY <1>1, FS_Interval
  <2> QED
    BY <2>1, <1>1
<1>4. Cardinality(Closed) <= n /\ (n = Cardinality(Closed) => 1 .. n = Closed)
  BY <1>2, <1>3, FS_Subset
<1>5. n <= Cardinality(Closed) /\ Cardinality(Closed) \in Nat
  BY <1>1, ClosedFinite, FS_CardinalityType DEF IInv, CountInv, NumPending
<1>6. 1 .. n = Closed
  BY <1>1, <1>4, <1>5
<1> SUFFICES ASSUME NEW c \in Calls
             PROVE  ~Unfinished(c) /\ (pc[c] = "returned" => Finished(c))
  OBVIOUS
<1>7. CASE c <= n
  <2>1. c \in Closed
    BY <1>6, <1>7, <1>1 DEF Calls
  <2> QED
    BY <2>1 DEF Closed, Finished, IInv, TrackInv, Unfinished
<1>8. CASE ~(c <= n)
  <2>1. pc[c] = "idle"
    BY <1>8 DEF IInv, CountInv
  <2> QED
    BY <2>1 DEF IInv, TrackInv, Unfinished
<1> QED
  BY <1>7, <1>8

\* With callbacks pending but none registered, a Schedule call is in flight.
LEMMA PendingUnregistered ==
  ASSUME IInv, NumPending > 0, callbacks = {}
  PROVE  \E c \in Calls : InFlight(c)
<1> DEFINE n == total_num_callbacks_scheduled
<1>1. n \in Nat /\ n <= MaxCalls /\ MaxCalls \in Nat
  BY CallsAssumption DEF IInv, CountInv
<1>2. IsFiniteSet(1 .. n) /\ Cardinality(1 .. n) = n
  <2>1. /\ IsFiniteSet(1 .. n)
        /\ Cardinality(1 .. n) = IF 1 > n THEN 0 ELSE n - 1 + 1
    BY <1>1, FS_Interval
  <2> QED
    BY <2>1, <1>1
<1>3. Cardinality(Closed) < n /\ Cardinality(Closed) \in Nat
  BY <1>1, ClosedFinite, FS_CardinalityType DEF IInv, CountInv, NumPending
<1>4. PICK c \in 1 .. n : c \notin Closed
  <2>1. SUFFICES ASSUME 1 .. n \subseteq Closed PROVE FALSE
    OBVIOUS
  <2>2. Cardinality(1 .. n) <= Cardinality(Closed)
    BY <2>1, ClosedFinite, FS_Subset
  <2> QED
    BY <2>2, <1>1, <1>2, <1>3
<1>5. c \in Calls /\ pc[c] # "idle"
  BY <1>1, <1>4 DEF Calls, IInv, CountInv
<1>6. ~Finished(c) /\ pc[c] # "error"
  BY <1>4, <1>5 DEF Closed
<1>7. pc[c] # "returned"
  <2> SUFFICES ASSUME pc[c] = "returned" PROVE FALSE
    OBVIOUS
  <2>1. cb[c] \in {"queued", "running", "ran"}
    BY <1>5, <1>6 DEF IInv, TypeOK, TrackInv, CbStates, Finished
  <2> QED
    BY <1>5, <2>1 DEF IInv, TrackInv, Unfinished
<1> QED
  BY <1>5, <1>6, <1>7 DEF IInv, TypeOK, InFlight

\* Once the destructor has started, some callback is registered as long as a
\* Schedule call is in flight: the call of least id has a running parent
\* whose own Schedule call has returned.
LEMMA DestructorSeesParent ==
  ASSUME IInv, wpc[Dtor] # "idle", callbacks = {}
  PROVE  \A c \in Calls : ~InFlight(c)
<1> DEFINE T == {c \in Calls : InFlight(c)}
<1> SUFFICES ASSUME T # {} PROVE FALSE
  OBVIOUS
<1>1. T \in SUBSET Nat
  BY CallsAssumption DEF Calls
<1>2. PICK c \in T : \A d \in T : c <= d
  <2> HIDE DEF T
  <2> QED
    BY <1>1, LeastElement
<1>3. parent[c] # NoCall /\ parent[c] \in Calls /\ parent[c] < c
      /\ cb[parent[c]] = "running"
  BY <1>2 DEF IInv, TypeOK, WaitInv, NestInv
<1>4. pc[parent[c]] = "accepted"
  BY <1>3 DEF IInv, TypeOK, TrackInv, Unfinished, InFlightStates
<1>5. parent[c] \in T
  BY <1>3, <1>4 DEF InFlight, InFlightStates
<1> QED
  BY <1>1, <1>2, <1>3, <1>5

-----------------------------------------------------------------------------

LEMMA InitIInv == Init => IInv
<1> SUFFICES ASSUME Init PROVE IInv
  OBVIOUS
<1>1. TypeOK
  BY CallsAssumption
  DEF Init, TypeOK, InFlightStates, CbStates, WaitThreads, Calls, NoCall
<1>2. Closed = {}
  BY DEF Init, Closed, Finished
<1>3. CountInv
  BY <1>2, FS_EmptySet, CallsAssumption DEF Init, CountInv, Calls
<1>4. TrackInv /\ NestInv
  BY DEF Init, TrackInv, NestInv, Finished, Unfinished, InFlight, InFlightStates
<1>5. WaitInv /\ WaitOkMeansDone /\ DestroyedQuiescent
  BY DEF Init, WaitInv, WaitOkMeansDone, DestroyedQuiescent, Destroyed,
         WaitThreads
<1> QED
  BY <1>1, <1>3, <1>4, <1>5 DEF IInv

\* Schedule, up to the id.
LEMMA GetNewCallbackIdIInv ==
  ASSUME IInv, NEW c \in Calls, NEW p \in Calls \cup {NoCall},
         GetNewCallbackId(c, p)
  PROVE  IInv'
<1> USE DEF IInv
<1>1. c \in Nat /\ c = total_num_callbacks_scheduled + 1 /\ MaxCalls \in Nat
      /\ c <= MaxCalls
  BY CallsAssumption DEF GetNewCallbackId, Calls
<1>2. pc[c] = "idle" /\ cb[c] = "none"
  <2>1. ~(c <= total_num_callbacks_scheduled)
    BY <1>1 DEF CountInv
  <2> QED
    BY <2>1 DEF CountInv, TrackInv
<1>3. TypeOK'
  BY <1>1 DEF GetNewCallbackId, TypeOK, InFlightStates, waitVars
<1>4. CountInv'
  <2>1. Closed' = Closed
    BY <1>2 DEF GetNewCallbackId, Closed, Finished, TypeOK
  <2>2. total_num_callbacks_scheduled' \in 0 .. MaxCalls
    BY <1>1 DEF GetNewCallbackId
  <2>3. ASSUME NEW d \in Calls
        PROVE  pc'[d] # "idle" <=> d <= total_num_callbacks_scheduled'
    BY <1>1, <1>2 DEF GetNewCallbackId, CountInv, TypeOK, Calls
  <2> QED
    BY <2>1, <2>2, <2>3 DEF GetNewCallbackId, CountInv
<1>5. TrackInv'
  BY <1>2 DEF GetNewCallbackId, TrackInv, TypeOK, Finished, Unfinished
<1>6. NestInv'
  <2> SUFFICES ASSUME NEW d \in Calls, InFlight(d)', parent'[d] # NoCall
               PROVE  parent'[d] < d /\ cb'[parent'[d]] = "running"
    BY DEF NestInv
  <2>1. CASE d = c
    <3>1. parent'[d] = p /\ p \in Calls /\ cb[p] = "running" /\ cb' = cb
      BY <2>1 DEF GetNewCallbackId, MayCall, TypeOK, NoCall
    <3>2. pc[p] # "idle"
      BY <3>1 DEF TrackInv
    <3>3. p <= total_num_callbacks_scheduled
      BY <3>1, <3>2 DEF CountInv
    <3> QED
      BY <1>1, <2>1, <3>1, <3>3 DEF Calls, TypeOK
  <2>2. CASE d # c
    BY <2>2 DEF GetNewCallbackId, NestInv, InFlight, TypeOK
  <2> QED
    BY <2>1, <2>2
<1>7. WaitInv'
  <2>1. ASSUME NEW w \in WaitThreads, NEW d \in due[w]
        PROVE  pc'[d] = "returned"
    BY <1>2 DEF GetNewCallbackId, WaitInv, TypeOK
  <2>2. ASSUME wpc[Dtor] # "idle", NEW d \in Calls, InFlight(d)'
        PROVE  parent'[d] # NoCall
    <3>1. p # NoCall
      BY <2>2, CallsAssumption DEF GetNewCallbackId, MayCall, Calls, NoCall
    <3> QED
      BY <2>2, <3>1 DEF GetNewCallbackId, WaitInv, InFlight, TypeOK
  <2> QED
    BY <2>1, <2>2 DEF GetNewCallbackId, WaitInv, waitVars
<1>8. WaitOkMeansDone'
  BY DEF GetNewCallbackId, WaitOkMeansDone, Finished, waitVars
<1>9. DestroyedQuiescent'
  <2>1. ~Destroyed
    BY DEF GetNewCallbackId, MayCall, Destroyed, DestroyedQuiescent, Unfinished
  <2> QED
    BY <2>1 DEF GetNewCallbackId, Destroyed, DestroyedQuiescent, waitVars
<1> QED
  BY <1>3, <1>4, <1>5, <1>6, <1>7, <1>8, <1>9

\* The rest of Schedule: neither step touches the waiting threads.
LEMMA ScheduleInternalIInv ==
  ASSUME IInv, NEW c \in Calls, ScheduleInternal(c)
  PROVE  IInv'
<1> USE DEF IInv
<1>1. pc[c] = "got_id" /\ cb[c] = "none"
  BY DEF ScheduleInternal, TrackInv
<1>2. TypeOK'
  BY DEF ScheduleInternal, TypeOK, InFlightStates, CbStates, trackerVars, waitVars
<1>3. CountInv'
  <2>1. Closed' = Closed
    BY <1>1 DEF ScheduleInternal, Closed, Finished, TypeOK
  <2> QED
    BY <1>1, <2>1 DEF ScheduleInternal, CountInv, TypeOK, trackerVars
<1>4. TrackInv'
  BY <1>1 DEF ScheduleInternal, TrackInv, TypeOK, Finished, Unfinished, trackerVars
<1>5. NestInv'
  BY <1>1 DEF ScheduleInternal, NestInv, TypeOK, InFlight, InFlightStates, NoCall
<1>6. WaitInv'
  BY <1>1 DEF ScheduleInternal, WaitInv, TypeOK, InFlight, InFlightStates, waitVars
<1>7. WaitOkMeansDone'
  BY <1>1 DEF ScheduleInternal, WaitOkMeansDone, WaitInv, TypeOK, Finished, waitVars
<1>8. DestroyedQuiescent'
  BY <1>1 DEF ScheduleInternal, DestroyedQuiescent, Destroyed, InFlight,
              InFlightStates, waitVars
<1> QED
  BY <1>2, <1>3, <1>4, <1>5, <1>6, <1>7, <1>8

LEMMA RegisterCallbackIInv ==
  ASSUME IInv, NEW c \in Calls, RegisterCallback(c)
  PROVE  IInv'
<1> USE DEF IInv
<1>1. TypeOK'
  BY DEF RegisterCallback, TypeOK, waitVars
<1>2. CountInv'
  <2>1. Closed' = Closed
    BY DEF RegisterCallback, Closed, Finished, TypeOK
  <2> QED
    BY <2>1 DEF RegisterCallback, CountInv, TypeOK
<1>3. TrackInv'
  <2> SUFFICES ASSUME NEW d \in Calls
               PROVE
         /\ cb'[d] = "none" <=> pc'[d] \in {"idle", "got_id", "refused", "error"}
         /\ d \in completed_early' <=> pc'[d] = "accepted" /\ Finished(d)'
         /\ d \in callbacks' <=> pc'[d] = "returned" /\ Unfinished(d)'
    BY DEF TrackInv
  <2>1. CASE d # c
    BY <2>1 DEF RegisterCallback, TrackInv, TypeOK, Finished, Unfinished
  <2>2. CASE d = c /\ c \in completed_early
    BY <2>2 DEF RegisterCallback, TrackInv, TypeOK, Finished, Unfinished
  <2>3. CASE d = c /\ c \notin completed_early
    BY <2>3 DEF RegisterCallback, TrackInv, TypeOK, Finished, Unfinished, CbStates
  <2> QED
    BY <2>1, <2>2, <2>3
<1>4. NestInv'
  BY DEF RegisterCallback, NestInv, TypeOK, InFlight, InFlightStates
<1>5. WaitInv'
  BY DEF RegisterCallback, WaitInv, TypeOK, InFlight, InFlightStates, waitVars
<1>6. WaitOkMeansDone'
  BY DEF RegisterCallback, WaitOkMeansDone, Finished, waitVars
<1>7. DestroyedQuiescent'
  BY DEF RegisterCallback, DestroyedQuiescent, Destroyed, InFlight,
         InFlightStates, Unfinished, TypeOK, waitVars
<1> QED
  BY <1>1, <1>2, <1>3, <1>4, <1>5, <1>6, <1>7

LEMMA IgnoreCallbackIInv ==
  ASSUME IInv, NEW c \in Calls, IgnoreCallback(c)
  PROVE  IInv'
<1> USE DEF IInv
<1>1. TypeOK'
  BY DEF IgnoreCallback, TypeOK, waitVars
<1>2. CountInv'
  <2>1. Closed' = Closed \cup {c} /\ c \notin Closed
    BY DEF IgnoreCallback, Closed, Finished, TypeOK, TrackInv
  <2>2. Cardinality(Closed') = Cardinality(Closed) + 1
    BY <2>1, ClosedFinite, FS_AddElement
  <2> QED
    BY <2>2 DEF IgnoreCallback, CountInv, TypeOK
<1>3. TrackInv'
  BY DEF IgnoreCallback, TrackInv, TypeOK, Finished, Unfinished
<1>4. NestInv'
  BY DEF IgnoreCallback, NestInv, TypeOK, InFlight, InFlightStates
<1>5. WaitInv'
  BY DEF IgnoreCallback, WaitInv, TypeOK, InFlight, InFlightStates, waitVars
<1>6. WaitOkMeansDone'
  BY DEF IgnoreCallback, WaitOkMeansDone, Finished, waitVars
<1>7. DestroyedQuiescent'
  BY DEF IgnoreCallback, DestroyedQuiescent, Destroyed, InFlight,
         InFlightStates, Unfinished, TypeOK, waitVars
<1> QED
  BY <1>1, <1>2, <1>3, <1>4, <1>5, <1>6, <1>7

\* The thread of a callback.
LEMMA StartCallbackIInv ==
  ASSUME IInv, NEW c \in Calls, StartCallback(c)
  PROVE  IInv'
<1> USE DEF IInv
<1>1. TypeOK'
  BY DEF StartCallback, TypeOK, CbStates, trackerVars, waitVars
<1>2. CountInv'
  <2>1. Closed' = Closed
    BY DEF StartCallback, Closed, Finished, TypeOK
  <2> QED
    BY <2>1 DEF StartCallback, CountInv, trackerVars
<1>3. TrackInv'
  BY DEF StartCallback, TrackInv, TypeOK, Finished, Unfinished, trackerVars
<1>4. NestInv'
  BY DEF StartCallback, NestInv, TypeOK, InFlight, NoCall
<1>5. WaitInv'
  BY DEF StartCallback, WaitInv, InFlight, waitVars
<1>6. WaitOkMeansDone'
  BY DEF StartCallback, WaitOkMeansDone, Finished, TypeOK, waitVars
<1>7. DestroyedQuiescent'
  BY DEF StartCallback, DestroyedQuiescent, Destroyed, InFlight, Unfinished,
         TypeOK, waitVars
<1> QED
  BY <1>1, <1>2, <1>3, <1>4, <1>5, <1>6, <1>7

LEMMA CallbackReturnsIInv ==
  ASSUME IInv, NEW c \in Calls, CallbackReturns(c)
  PROVE  IInv'
<1> USE DEF IInv
<1>1. TypeOK'
  BY DEF CallbackReturns, TypeOK, CbStates, trackerVars, waitVars
<1>2. CountInv'
  <2>1. Closed' = Closed
    BY DEF CallbackReturns, Closed, Finished, TypeOK
  <2> QED
    BY <2>1 DEF CallbackReturns, CountInv, trackerVars
<1>3. TrackInv'
  BY DEF CallbackReturns, TrackInv, TypeOK, Finished, Unfinished, trackerVars
<1>4. NestInv'
  <2> SUFFICES ASSUME NEW d \in Calls, InFlight(d)', parent'[d] # NoCall
               PROVE  parent'[d] < d /\ cb'[parent'[d]] = "running"
    BY DEF NestInv
  <2>1. parent[d] # c
    BY DEF CallbackReturns, InFlight
  <2> QED
    BY <2>1 DEF CallbackReturns, NestInv, InFlight, TypeOK
<1>5. WaitInv'
  BY DEF CallbackReturns, WaitInv, InFlight, waitVars
<1>6. WaitOkMeansDone'
  BY DEF CallbackReturns, WaitOkMeansDone, Finished, TypeOK, waitVars
<1>7. DestroyedQuiescent'
  BY DEF CallbackReturns, DestroyedQuiescent, Destroyed, InFlight, Unfinished,
         TypeOK, waitVars
<1> QED
  BY <1>1, <1>2, <1>3, <1>4, <1>5, <1>6, <1>7

LEMMA RunCallbackIInv ==
  ASSUME IInv, NEW c \in Calls, RunCallback(c)
  PROVE  IInv'
<1> USE DEF IInv
<1>1. TypeOK'
  BY DEF RunCallback, TypeOK, CbStates, waitVars
<1>2. CountInv'
  <2>1. Closed' = Closed \cup {c} /\ c \notin Closed
    BY DEF RunCallback, Closed, Finished, TypeOK, TrackInv
  <2>2. Cardinality(Closed') = Cardinality(Closed) + 1
    BY <2>1, ClosedFinite, FS_AddElement
  <2> QED
    BY <2>2 DEF RunCallback, CountInv
<1>3. TrackInv'
  <2> SUFFICES ASSUME NEW d \in Calls
               PROVE
         /\ cb'[d] = "none" <=> pc'[d] \in {"idle", "got_id", "refused", "error"}
         /\ d \in completed_early' <=> pc'[d] = "accepted" /\ Finished(d)'
         /\ d \in callbacks' <=> pc'[d] = "returned" /\ Unfinished(d)'
    BY DEF TrackInv
  <2>1. CASE d # c
    BY <2>1 DEF RunCallback, TrackInv, TypeOK, Finished, Unfinished
  <2>2. CASE d = c /\ c \in callbacks
    BY <2>2 DEF RunCallback, TrackInv, TypeOK, Finished, Unfinished
  <2>3. CASE d = c /\ c \notin callbacks
    BY <2>3
    DEF RunCallback, TrackInv, TypeOK, Finished, Unfinished, InFlightStates
  <2> QED
    BY <2>1, <2>2, <2>3
<1>4. NestInv'
  <2> SUFFICES ASSUME NEW d \in Calls, InFlight(d)', parent'[d] # NoCall
               PROVE  parent'[d] < d /\ cb'[parent'[d]] = "running"
    BY DEF NestInv
  <2>1. parent[d] # c
    BY DEF RunCallback, NestInv, InFlight
  <2> QED
    BY <2>1 DEF RunCallback, NestInv, InFlight, TypeOK
<1>5. WaitInv'
  BY DEF RunCallback, WaitInv, InFlight, waitVars
<1>6. WaitOkMeansDone'
  BY DEF RunCallback, WaitOkMeansDone, Finished, TypeOK, waitVars
<1>7. DestroyedQuiescent'
  BY DEF RunCallback, DestroyedQuiescent, Destroyed, InFlight, Unfinished,
         TypeOK, waitVars
<1> QED
  BY <1>1, <1>2, <1>3, <1>4, <1>5, <1>6, <1>7

LEMMA SetReadyIInv ==
  ASSUME IInv, NEW c \in Calls, SetReady(c)
  PROVE  IInv'
<1> USE DEF IInv
<1>1. TypeOK'
  BY DEF SetReady, TypeOK, CbStates, trackerVars, waitVars
<1>2. CountInv'
  <2>1. Closed' = Closed
    BY DEF SetReady, Closed, Finished, TypeOK
  <2> QED
    BY <2>1 DEF SetReady, CountInv, trackerVars
<1>3. TrackInv'
  BY DEF SetReady, TrackInv, TypeOK, Finished, Unfinished, trackerVars
<1>4. NestInv'
  BY DEF SetReady, NestInv, TypeOK, InFlight, NoCall
<1>5. WaitInv'
  BY DEF SetReady, WaitInv, InFlight, waitVars
<1>6. WaitOkMeansDone'
  BY DEF SetReady, WaitOkMeansDone, Finished, TypeOK, waitVars
<1>7. DestroyedQuiescent'
  BY DEF SetReady, DestroyedQuiescent, Destroyed, InFlight, Unfinished,
         TypeOK, waitVars
<1> QED
  BY <1>1, <1>2, <1>3, <1>4, <1>5, <1>6, <1>7

\* The waiting threads: they leave the tracker and the callbacks alone.
LEMMA BeginWaitIInv ==
  ASSUME IInv, NEW w \in WaitThreads, BeginWait(w)
  PROVE  IInv'
<1> USE DEF IInv
<1>1. TypeOK'
  BY DEF BeginWait, TypeOK, trackerVars
<1>2. Closed' = Closed
  BY DEF BeginWait, Closed, Finished
<1>3. CountInv' /\ TrackInv' /\ NestInv'
  BY <1>2 DEF BeginWait, CountInv, TrackInv, NestInv, Finished, Unfinished,
              InFlight, trackerVars
<1>4. w # Dtor
  BY CallsAssumption DEF BeginWait
<1>5. WaitInv'
  BY <1>4 DEF BeginWait, WaitInv, InFlight, TypeOK, WaitThreads
<1>6. WaitOkMeansDone'
  BY DEF BeginWait, WaitOkMeansDone, Finished, TypeOK
<1>7. DestroyedQuiescent'
  BY <1>4 DEF BeginWait, DestroyedQuiescent, Destroyed, TypeOK, WaitThreads
<1> QED
  BY <1>1, <1>3, <1>5, <1>6, <1>7

LEMMA BeginDestroyIInv ==
  ASSUME IInv, BeginDestroy
  PROVE  IInv'
<1> USE DEF IInv
<1>1. TypeOK'
  BY DEF BeginDestroy, TypeOK, trackerVars, WaitThreads
<1>2. Closed' = Closed
  BY DEF BeginDestroy, Closed, Finished
<1>3. CountInv' /\ TrackInv' /\ NestInv'
  BY <1>2 DEF BeginDestroy, CountInv, TrackInv, NestInv, Finished, Unfinished,
              InFlight, trackerVars
<1>4. WaitInv'
  BY DEF BeginDestroy, WaitInv, InFlight, TypeOK, WaitThreads
<1>5. WaitOkMeansDone'
  BY DEF BeginDestroy, WaitOkMeansDone, Finished, TypeOK, WaitThreads
<1>6. DestroyedQuiescent'
  BY DEF BeginDestroy, DestroyedQuiescent, Destroyed, TypeOK, WaitThreads
<1> QED
  BY <1>1, <1>3, <1>4, <1>5, <1>6

LEMMA CheckPendingIInv ==
  ASSUME IInv, NEW w \in WaitThreads, CheckPending(w)
  PROVE  IInv'
<1> USE DEF IInv
<1>1. TypeOK'
  BY DEF CheckPending, TypeOK, trackerVars
<1>2. Closed' = Closed
  BY DEF CheckPending, Closed, Finished
<1>3. CountInv' /\ TrackInv' /\ NestInv'
  BY <1>2 DEF CheckPending, CountInv, TrackInv, NestInv, Finished, Unfinished,
              InFlight, trackerVars
<1>4. WaitInv'
  <2>1. due' = due /\ pc' = pc /\ parent' = parent
    BY DEF CheckPending
  <2>2. wpc'[Dtor] # "idle" => wpc[Dtor] # "idle"
    BY DEF CheckPending, TypeOK, WaitThreads
  <2> QED
    BY <2>1, <2>2 DEF WaitInv, InFlight
<1>5. WaitOkMeansDone'
  <2> SUFFICES ASSUME NEW v \in WaitThreads, wpc'[v] = "ok", NEW c \in due[v]
               PROVE  Finished(c)'
    BY DEF WaitOkMeansDone, CheckPending
  <2>1. c \in Calls /\ pc[c] = "returned" /\ cb' = cb
    BY DEF TypeOK, WaitInv, CheckPending
  <2>2. CASE wpc[v] = "ok"
    BY <2>1, <2>2 DEF WaitOkMeansDone, Finished
  <2>3. CASE wpc[v] # "ok"
    <3>1. NumPending <= 0
      BY <2>3 DEF CheckPending, TypeOK
    <3> QED
      BY <2>1, <3>1, NothingPending DEF Finished
  <2> QED
    BY <2>2, <2>3
<1>6. DestroyedQuiescent'
  <2> SUFFICES ASSUME Destroyed'
               PROVE  /\ wpc'[Dtor] = "ok"
                      /\ \A c \in Calls : ~Unfinished(c) /\ ~InFlight(c)
    BY DEF DestroyedQuiescent, CheckPending, Unfinished, InFlight
  <2>1. CASE Destroyed
    BY <2>1 DEF CheckPending, Destroyed, DestroyedQuiescent, TypeOK, WaitThreads
  <2>2. CASE ~Destroyed
    <3>1. w = Dtor /\ wpc[Dtor] = "check"
      BY <2>2 DEF CheckPending, Destroyed, TypeOK, WaitThreads
    <3>2. ~(NumPending > 0 /\ callbacks = {})
      BY <3>1, PendingUnregistered, DestructorSeesParent
    <3>3. NumPending <= 0 /\ wpc'[Dtor] = "ok"
      BY <3>1, <3>2 DEF CheckPending, Destroyed, TypeOK
    <3>4. \A c \in Calls : ~Unfinished(c)
      BY <3>3, NothingPending
    <3>5. \A c \in Calls : ~InFlight(c)
      BY <3>1, <3>4 DEF WaitInv, NestInv, TypeOK, Unfinished
    <3> QED
      BY <3>3, <3>4, <3>5
  <2> QED
    BY <2>1, <2>2
<1> QED
  BY <1>1, <1>3, <1>4, <1>5, <1>6

LEMMA WaitReturnsIInv ==
  ASSUME IInv, NEW w \in WaitThreads, WaitReturns(w)
  PROVE  IInv'
<1> USE DEF IInv
<1>1. TypeOK'
  BY DEF WaitReturns, TypeOK, trackerVars
<1>2. Closed' = Closed
  BY DEF WaitReturns, Closed, Finished
<1>3. CountInv' /\ TrackInv' /\ NestInv'
  BY <1>2 DEF WaitReturns, CountInv, TrackInv, NestInv, Finished, Unfinished,
              InFlight, trackerVars
<1>4. WaitInv'
  BY DEF WaitReturns, WaitInv, InFlight, TypeOK
<1>5. WaitOkMeansDone'
  BY DEF WaitReturns, WaitOkMeansDone, Finished, TypeOK
<1>6. DestroyedQuiescent'
  BY DEF WaitReturns, DestroyedQuiescent, Destroyed, Unfinished, InFlight,
         TypeOK, WaitThreads
<1> QED
  BY <1>1, <1>3, <1>4, <1>5, <1>6

LEMMA StutterIInv ==
  ASSUME IInv, UNCHANGED vars
  PROVE  IInv'
<1>1. Closed' = Closed
  BY DEF Closed, Finished, vars
<1> QED
  BY <1>1 DEF IInv, vars, trackerVars, waitVars, TypeOK, CountInv, TrackInv,
     NestInv, WaitInv, WaitOkMeansDone, DestroyedQuiescent, Destroyed,
     Finished, Unfinished, InFlight

LEMMA StepIInv == IInv /\ [Next]_vars => IInv'
<1> SUFFICES ASSUME IInv, [Next]_vars PROVE IInv'
  OBVIOUS
<1>1. ASSUME NEW c \in Calls, Schedule(c) PROVE IInv'
  BY <1>1, GetNewCallbackIdIInv, ScheduleInternalIInv, RegisterCallbackIInv,
     IgnoreCallbackIInv DEF Schedule
<1>2. ASSUME NEW c \in Calls, CallbackThread(c) PROVE IInv'
  BY <1>2, StartCallbackIInv, CallbackReturnsIInv, RunCallbackIInv, SetReadyIInv
  DEF CallbackThread
<1>3. ASSUME NEW w \in WaitThreads, BeginWait(w) PROVE IInv'
  BY <1>3, BeginWaitIInv
<1>4. ASSUME NEW w \in WaitThreads, WaitUntilAllCompleted(w) PROVE IInv'
  BY <1>4, CheckPendingIInv, WaitReturnsIInv DEF WaitUntilAllCompleted
<1>5. CASE BeginDestroy
  BY <1>5, BeginDestroyIInv
<1>6. CASE Terminated \/ UNCHANGED vars
  BY <1>6, StutterIInv DEF Terminated
<1> QED
  BY <1>1, <1>2, <1>3, <1>4, <1>5, <1>6 DEF Next

\* The inductive invariant holds in every reachable state.
THEOREM Invariance == Spec => []IInv
BY InitIInv, StepIInv, PTL DEF Spec

\* Every variable keeps its type (the counters stay natural numbers, so the
\* int fields of CallbackTracker never go negative).
THEOREM TypeCorrect == Spec => []TypeOK
<1>1. IInv => TypeOK
  BY DEF IInv
<1> QED
  BY <1>1, Invariance, PTL

\* WaitUntilAllCompleted answers OK only when everything scheduled before it
\* began has completed.
THEOREM WaitSound == Spec => []WaitOkMeansDone
<1>1. IInv => WaitOkMeansDone
  BY DEF IInv
<1> QED
  BY <1>1, Invariance, PTL

\* The destructor's wait always succeeds and leaves no callback behind.
THEOREM DestructorSound == Spec => []DestroyedQuiescent
<1>1. IInv => DestroyedQuiescent
  BY DEF IInv
<1> QED
  BY <1>1, Invariance, PTL

\* What is neither counted as completed nor idle is outstanding.
LEMMA PendingIsOutstanding == IInv => NumPending = Cardinality(Outstanding)
<1> SUFFICES ASSUME IInv PROVE NumPending = Cardinality(Outstanding)
  OBVIOUS
<1> DEFINE n == total_num_callbacks_scheduled
<1>1. n \in Nat /\ n <= MaxCalls /\ MaxCalls \in Nat
  BY CallsAssumption DEF IInv, CountInv
<1>2. ASSUME NEW c \in Calls
      PROVE  /\ c \in 1 .. n <=> c \in Closed \/ c \in Outstanding
             /\ ~(c \in Closed /\ c \in Outstanding)
  <2>1. c \in 1 .. n <=> pc[c] # "idle"
    BY <1>1 DEF IInv, CountInv, Calls
  <2>2. cb[c] = "none" <=> pc[c] \in {"idle", "got_id", "refused", "error"}
    BY DEF IInv, TrackInv
  <2>3. /\ pc[c] \in InFlightStates \cup {"idle", "returned", "error"}
        /\ cb[c] \in CbStates
    BY DEF IInv, TypeOK
  <2> QED BY <2>1, <2>2, <2>3
          DEF Closed, Outstanding, Finished, Unfinished, InFlightStates, CbStates
<1>3. Outstanding = (1 .. n) \ Closed /\ Closed \subseteq 1 .. n
  <2>1. 1 .. n \subseteq Calls
    BY <1>1 DEF Calls
  <2> QED BY <1>2, <2>1 DEF Outstanding, Closed
<1>4. IsFiniteSet(1 .. n) /\ Cardinality(1 .. n) = n
  <2>1. /\ IsFiniteSet(1 .. n)
        /\ Cardinality(1 .. n) = IF 1 > n THEN 0 ELSE n - 1 + 1
    BY <1>1, FS_Interval
  <2> QED BY <1>1, <2>1
<1>5. (1 .. n) \cap Closed = Closed
  BY <1>3
<1>6. Cardinality(Outstanding) = n - Cardinality(Closed)
  <2>1. Cardinality((1 .. n) \ Closed)
          = Cardinality(1 .. n) - Cardinality((1 .. n) \cap Closed)
    BY <1>4, FS_Difference
  <2> QED BY <1>3, <1>4, <1>5, <2>1
<1> QED BY <1>6 DEF IInv, CountInv, NumPending

\* The waitable a thread waits for is that of a call that has returned.
WonInv ==
  \A w \in WaitThreads :
    wpc[w] = "waiting" => won[w] \in Calls /\ pc[won[w]] = "returned"

LEMMA WonStep ==
  ASSUME IInv, WonInv, [Next]_vars
  PROVE  WonInv'
<1> USE DEF IInv, TypeOK
<1>1. \A c \in Calls : pc[c] = "returned" => pc'[c] = "returned"
  <2>1. CASE \E c \in Calls : Schedule(c)
    <3> PICK c \in Calls : Schedule(c)
      BY <2>1
    <3>1. pc[c] \in {"idle", "got_id", "accepted", "refused"}
      BY DEF Schedule, GetNewCallbackId, ScheduleInternal, RegisterCallback,
             IgnoreCallback, CountInv, Calls, InFlightStates
    <3>2. \E v : pc' = [pc EXCEPT ![c] = v]
      BY DEF Schedule, GetNewCallbackId, ScheduleInternal, RegisterCallback,
             IgnoreCallback
    <3> QED BY <3>1, <3>2
  <2>2. CASE UNCHANGED pc
    BY <2>2
  <2> QED BY <2>1, <2>2 DEF Next, CallbackThread, StartCallback, CallbackReturns,
          RunCallback, SetReady, BeginWait, BeginDestroy, WaitUntilAllCompleted,
          CheckPending, WaitReturns, Terminated, vars
<1>2. CASE \E w \in WaitThreads : CheckPending(w)
  <2> PICK w \in WaitThreads : CheckPending(w)
    BY <1>2
  <2>1. \A c \in callbacks : c \in Calls /\ pc[c] = "returned" /\ pc' = pc
    BY DEF CheckPending, TrackInv
  <2> QED BY <1>1, <2>1 DEF CheckPending, WonInv
<1>3. CASE \E w \in WaitThreads : BeginWait(w) \/ WaitReturns(w)
  BY <1>1, <1>3 DEF BeginWait, WaitReturns, WonInv
<1>4. CASE BeginDestroy
  BY <1>1, <1>4 DEF BeginDestroy, WonInv, WaitThreads
<1>5. CASE UNCHANGED waitVars
  BY <1>1, <1>5 DEF WonInv, waitVars
<1> QED BY <1>2, <1>3, <1>4, <1>5
        DEF Next, Schedule, GetNewCallbackId, ScheduleInternal, RegisterCallback,
            IgnoreCallback, CallbackThread, StartCallback, CallbackReturns,
            RunCallback, SetReady, WaitUntilAllCompleted, Terminated, vars

\* The pending count is the number of outstanding calls, a wait is for a
\* callback that was registered, and no bookkeeping of RegisterCallback and
\* RunCallback is left behind.
THEOREM BookkeepingSound == Spec => []BookkeepingExact
<1>1. IInv /\ WonInv => BookkeepingExact
  <2> SUFFICES ASSUME IInv, \A c \in Calls : ~InFlight(c)
               PROVE  /\ completed_early = {}
                      /\ callbacks = {c \in Calls : Unfinished(c)}
    BY PendingIsOutstanding DEF BookkeepingExact, WonInv
  <2>1. completed_early = {}
    BY DEF IInv, TypeOK, TrackInv, InFlight, InFlightStates
  <2>2. ASSUME NEW c \in Calls PROVE c \in callbacks <=> Unfinished(c)
    BY DEF IInv, TypeOK, TrackInv, InFlight, InFlightStates, Unfinished
  <2> QED
    BY <2>1, <2>2 DEF IInv, TypeOK
<1>2. Init => WonInv
  BY DEF Init, WonInv
<1>3. IInv /\ WonInv /\ [Next]_vars => WonInv'
  BY WonStep
<1> QED
  BY <1>1, <1>2, <1>3, Invariance, PTL DEF Spec

\* FailedPrecondition is answered only while a Schedule call is in flight.
THEOREM FailureSound == Spec => FailedOnlyWhileScheduling
<1>1. IInv /\ [Next]_vars =>
        [\A w \in WaitThreads :
           wpc[w] = "check" /\ wpc'[w] = "failed" =>
             \E c \in Calls : InFlight(c)]_vars
  <2> SUFFICES ASSUME IInv, Next, NEW w \in WaitThreads,
                      wpc[w] = "check", wpc'[w] = "failed"
               PROVE  \E c \in Calls : InFlight(c)
    OBVIOUS
  <2>1. CASE \E c \in Calls : Schedule(c) \/ CallbackThread(c)
    BY <2>1 DEF Schedule, CallbackThread, GetNewCallbackId, ScheduleInternal,
       RegisterCallback, IgnoreCallback, StartCallback, CallbackReturns,
       RunCallback, SetReady, waitVars
  <2>2. CASE BeginDestroy \/ Terminated
    BY <2>2 DEF BeginDestroy, Terminated, vars, waitVars, IInv, TypeOK
  <2>3. CASE \E v \in WaitThreads : BeginWait(v) \/ WaitReturns(v)
    BY <2>3 DEF BeginWait, WaitReturns, IInv, TypeOK
  <2>4. CASE \E v \in WaitThreads : CheckPending(v)
    <3>1. NumPending > 0 /\ callbacks = {}
      BY <2>4 DEF CheckPending, IInv, TypeOK
    <3> QED
      BY <3>1, PendingUnregistered
  <2> QED
    BY <2>1, <2>2, <2>3, <2>4 DEF Next, WaitUntilAllCompleted
<1> QED
  BY <1>1, Invariance, PTL DEF Spec, FailedOnlyWhileScheduling
=============================================================================
