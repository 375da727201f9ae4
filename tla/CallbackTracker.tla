--------------------------- MODULE CallbackTracker ---------------------------
(***************************************************************************)
(* CallbackTracker and ConcurrencyManagerWithCallbackTracker of            *)
(* genc/cc/runtime/concurrency_helpers.h: how scheduled callbacks are      *)
(* counted, how WaitUntilAllCompleted waits for them, and what the         *)
(* destructor of the manager may rely on.                                  *)
(*                                                                         *)
(* Every critical section of the mutex is one action; whatever the code    *)
(* does between two critical sections may interleave with other threads.   *)
(* ScheduleInternal is pure virtual, so it is modelled by what Schedule    *)
(* requires of it: it either accepts the callback, which then runs once,   *)
(* at any time (even before ScheduleInternal returns), on some thread, or  *)
(* it returns an error and never runs the callback.                        *)
(***************************************************************************)
EXTENDS Integers, FiniteSets

CONSTANTS
  MaxCalls,   \* bound: how often Schedule is called
  Waiters,    \* client threads that call WaitUntilAllCompleted
  Dtor        \* the thread that runs the manager's destructor

ASSUME CallsAssumption == MaxCalls \in Nat /\ Dtor \notin Waiters

\* A Schedule call is named by the callback id it gets from GetNewCallbackId.
Calls == 1 .. MaxCalls
\* The parent of a Schedule call made outside any callback.
NoCall == 0

VARIABLES
  total_num_callbacks_scheduled,
  total_num_callbacks_completed,
  completed_early,  \* ids of callbacks that finished before they were registered
  callbacks,        \* ids of the registered callbacks that have not finished
  pc,               \* where each Schedule call is
  parent,           \* the callback that made the Schedule call, or NoCall
  cb,               \* the life of the callback a Schedule call was given
  wpc,              \* where each thread is in WaitUntilAllCompleted
  won,              \* the id whose waitable it waits for, 0 for none
  due               \* history: the calls that had returned when the wait began

trackerVars == <<total_num_callbacks_scheduled, total_num_callbacks_completed,
                 completed_early, callbacks>>
waitVars == <<wpc, won, due>>
vars == <<trackerVars, pc, parent, cb, waitVars>>

WaitThreads == Waiters \cup {Dtor}
InFlightStates == {"got_id", "accepted", "refused"}
CbStates == {"none", "queued", "running", "ran", "counted", "ready"}

InFlight(c) == pc[c] \in InFlightStates
Unfinished(c) == cb[c] \in {"queued", "running", "ran"}
Finished(c) == cb[c] \in {"counted", "ready"}
Destroyed == wpc[Dtor] \in {"ok", "failed"}

TypeOK ==
  /\ total_num_callbacks_scheduled \in Nat
  /\ total_num_callbacks_completed \in Nat
  /\ completed_early \subseteq Calls
  /\ callbacks \subseteq Calls
  /\ pc \in [Calls -> InFlightStates \cup {"idle", "returned", "error"}]
  /\ parent \in [Calls -> Calls \cup {NoCall}]
  /\ cb \in [Calls -> CbStates]
  /\ wpc \in [WaitThreads -> {"idle", "check", "waiting", "ok", "failed"}]
  /\ won \in [WaitThreads -> Calls \cup {NoCall}]
  /\ due \in [WaitThreads -> SUBSET Calls]

Init ==
  /\ total_num_callbacks_scheduled = 0
  /\ total_num_callbacks_completed = 0
  /\ completed_early = {}
  /\ callbacks = {}
  /\ pc = [c \in Calls |-> "idle"]
  /\ parent = [c \in Calls |-> NoCall]
  /\ cb = [c \in Calls |-> "none"]
  /\ wpc = [w \in WaitThreads |-> "idle"]
  /\ won = [w \in WaitThreads |-> NoCall]
  /\ due = [w \in WaitThreads |-> {}]

-----------------------------------------------------------------------------
(* Schedule *)

\* A client calls Schedule before the destructor starts; a callback may call
\* it as long as it runs, one call at a time.
MayCall(p) ==
  \/ p = NoCall /\ wpc[Dtor] = "idle"
  \/ /\ p \in Calls
     /\ cb[p] = "running"
     /\ \A d \in Calls : parent[d] = p => ~InFlight(d)

GetNewCallbackId(c, p) ==
  /\ c = total_num_callbacks_scheduled + 1
  /\ MayCall(p)
  /\ total_num_callbacks_scheduled' = total_num_callbacks_scheduled + 1
  /\ pc' = [pc EXCEPT ![c] = "got_id"]
  /\ parent' = [parent EXCEPT ![c] = p]
  /\ UNCHANGED <<total_num_callbacks_completed, completed_early, callbacks,
                 cb, waitVars>>

ScheduleInternal(c) ==
  /\ pc[c] = "got_id"
  /\ \/ /\ pc' = [pc EXCEPT ![c] = "accepted"]
        /\ cb' = [cb EXCEPT ![c] = "queued"]
     \/ /\ pc' = [pc EXCEPT ![c] = "refused"]
        /\ UNCHANGED cb
  /\ UNCHANGED <<trackerVars, parent, waitVars>>

\* Plausible mistake: a callback that finished early is registered anyway.
RegisterCallback_NoEarlyTest(c) ==
  /\ pc[c] = "accepted"
  /\ callbacks' = callbacks \cup {c}
  /\ pc' = [pc EXCEPT ![c] = "returned"]
  /\ UNCHANGED <<total_num_callbacks_scheduled, total_num_callbacks_completed,
                 completed_early, parent, cb, waitVars>>

\* Plausible mistake: the waitable is not kept.
RegisterCallback_NotKept(c) ==
  /\ pc[c] = "accepted"
  /\ completed_early' = completed_early \ {c}
  /\ pc' = [pc EXCEPT ![c] = "returned"]
  /\ UNCHANGED <<total_num_callbacks_scheduled, total_num_callbacks_completed,
                 callbacks, parent, cb, waitVars>>

RegisterCallback(c) ==
  /\ pc[c] = "accepted"
  /\ IF c \in completed_early
     THEN /\ completed_early' = completed_early \ {c}
          /\ UNCHANGED callbacks
     ELSE /\ callbacks' = callbacks \cup {c}
          /\ UNCHANGED completed_early
  /\ pc' = [pc EXCEPT ![c] = "returned"]
  /\ UNCHANGED <<total_num_callbacks_scheduled, total_num_callbacks_completed,
                 parent, cb, waitVars>>

IgnoreCallback(c) ==
  /\ pc[c] = "refused"
  /\ total_num_callbacks_completed' = total_num_callbacks_completed + 1
  /\ pc' = [pc EXCEPT ![c] = "error"]
  /\ UNCHANGED <<total_num_callbacks_scheduled, completed_early, callbacks,
                 parent, cb, waitVars>>

Schedule(c) ==
  \/ \E p \in Calls \cup {NoCall} : GetNewCallbackId(c, p)
  \/ ScheduleInternal(c)
  \/ RegisterCallback(c)
  \/ IgnoreCallback(c)

-----------------------------------------------------------------------------
(* The thread a callback runs on *)

StartCallback(c) ==
  /\ cb[c] = "queued"
  /\ cb' = [cb EXCEPT ![c] = "running"]
  /\ UNCHANGED <<trackerVars, pc, parent, waitVars>>

\* callback() returns once the Schedule calls it made have returned.
CallbackReturns(c) ==
  /\ cb[c] = "running"
  /\ \A d \in Calls : parent[d] = c => ~InFlight(d)
  /\ cb' = [cb EXCEPT ![c] = "ran"]
  /\ UNCHANGED <<trackerVars, pc, parent, waitVars>>

\* Plausible mistake: the completion is not counted.
RunCallback_NoCount(c) ==
  /\ cb[c] = "ran"
  /\ IF c \in callbacks
     THEN /\ callbacks' = callbacks \ {c}
          /\ UNCHANGED completed_early
     ELSE /\ completed_early' = completed_early \cup {c}
          /\ UNCHANGED callbacks
  /\ cb' = [cb EXCEPT ![c] = "counted"]
  /\ UNCHANGED <<total_num_callbacks_scheduled, total_num_callbacks_completed,
                 pc, parent, waitVars>>

\* Plausible mistake: the locked section is skipped.
RunCallback_NoBookkeeping(c) ==
  /\ cb[c] = "ran"
  /\ cb' = [cb EXCEPT ![c] = "counted"]
  /\ UNCHANGED <<trackerVars, pc, parent, waitVars>>

RunCallback(c) ==
  /\ cb[c] = "ran"
  /\ IF c \in callbacks
     THEN /\ callbacks' = callbacks \ {c}
          /\ UNCHANGED completed_early
     ELSE /\ completed_early' = completed_early \cup {c}
          /\ UNCHANGED callbacks
  /\ total_num_callbacks_completed' = total_num_callbacks_completed + 1
  /\ cb' = [cb EXCEPT ![c] = "counted"]
  /\ UNCHANGED <<total_num_callbacks_scheduled, pc, parent, waitVars>>

\* The future behind the waitable is set after RunCallback has returned.
SetReady(c) ==
  /\ cb[c] = "counted"
  /\ cb' = [cb EXCEPT ![c] = "ready"]
  /\ UNCHANGED <<trackerVars, pc, parent, waitVars>>

CallbackThread(c) ==
  StartCallback(c) \/ CallbackReturns(c) \/ RunCallback(c) \/ SetReady(c)

-----------------------------------------------------------------------------
(* WaitUntilAllCompleted and the destructor *)

BeginWait(w) ==
  /\ w \in Waiters
  /\ wpc[w] \in {"idle", "ok", "failed"}
  /\ wpc[Dtor] = "idle"
  /\ wpc' = [wpc EXCEPT ![w] = "check"]
  /\ due' = [due EXCEPT ![w] = {c \in Calls : pc[c] = "returned"}]
  /\ UNCHANGED <<trackerVars, pc, parent, cb, won>>

\* No other thread is inside a method of the object when its destructor
\* starts; callbacks may still be running, and scheduling. Scheduling through
\* ~ConcurrencyManagerWithCallbackTracker would be a pure virtual call of
\* ScheduleInternal, so for callbacks that do, this is the destructor of a
\* subclass, which has to make the same WaitUntilAllCompleted call itself.
BeginDestroy ==
  /\ wpc[Dtor] = "idle"
  /\ \A w \in Waiters : wpc[w] \in {"idle", "ok", "failed"}
  /\ \A c \in Calls : InFlight(c) => parent[c] # NoCall
  /\ wpc' = [wpc EXCEPT ![Dtor] = "check"]
  /\ due' = [due EXCEPT ![Dtor] = {c \in Calls : pc[c] = "returned"}]
  /\ UNCHANGED <<trackerVars, pc, parent, cb, won>>

NumPending == total_num_callbacks_scheduled - total_num_callbacks_completed

\* Plausible mistake: an off-by-one in the test of the pending count.
CheckPending_OffByOne(w) ==
  /\ wpc[w] = "check"
  /\ \/ /\ NumPending <= 1
        /\ wpc' = [wpc EXCEPT ![w] = "ok"]
        /\ UNCHANGED won
     \/ /\ NumPending > 1
        /\ \E i \in callbacks : won' = [won EXCEPT ![w] = i]
        /\ wpc' = [wpc EXCEPT ![w] = "waiting"]
     \/ /\ NumPending > 1
        /\ callbacks = {}
        /\ wpc' = [wpc EXCEPT ![w] = "failed"]
        /\ UNCHANGED won
  /\ UNCHANGED <<trackerVars, pc, parent, cb, due>>

\* One turn of the loop up to the end of its critical section.
CheckPending(w) ==
  /\ wpc[w] = "check"
  /\ \/ /\ NumPending <= 0
        /\ wpc' = [wpc EXCEPT ![w] = "ok"]
        /\ UNCHANGED won
     \/ /\ NumPending > 0
        /\ \E i \in callbacks : won' = [won EXCEPT ![w] = i]
        /\ wpc' = [wpc EXCEPT ![w] = "waiting"]
     \/ /\ NumPending > 0
        /\ callbacks = {}
        /\ wpc' = [wpc EXCEPT ![w] = "failed"]
        /\ UNCHANGED won
  /\ UNCHANGED <<trackerVars, pc, parent, cb, due>>

\* waitable->Wait() returns: the loop starts over.
WaitReturns(w) ==
  /\ wpc[w] = "waiting"
  /\ won[w] \in Calls /\ cb[won[w]] = "ready"
  /\ wpc' = [wpc EXCEPT ![w] = "check"]
  /\ won' = [won EXCEPT ![w] = NoCall]
  /\ UNCHANGED <<trackerVars, pc, parent, cb, due>>

WaitUntilAllCompleted(w) == CheckPending(w) \/ WaitReturns(w)

\* The manager is gone and every thread it had has ended.
Terminated ==
  /\ Destroyed
  /\ \A c \in Calls : cb[c] \in {"none", "ready"}
  /\ UNCHANGED vars

Next ==
  \/ \E c \in Calls : Schedule(c) \/ CallbackThread(c)
  \/ \E w \in WaitThreads : BeginWait(w) \/ WaitUntilAllCompleted(w)
  \/ BeginDestroy
  \/ Terminated

\* Started threads keep running: a Schedule call with an id, a callback's
\* thread and a thread inside the wait. Nobody has to call anything.
Fairness ==
  /\ \A c \in Calls : /\ WF_vars(ScheduleInternal(c))
                      /\ WF_vars(RegisterCallback(c))
                      /\ WF_vars(IgnoreCallback(c))
                      /\ WF_vars(CallbackThread(c))
  /\ \A w \in WaitThreads : WF_vars(WaitUntilAllCompleted(w))

Spec == Init /\ [][Next]_vars

FairSpec == Spec /\ Fairness

-----------------------------------------------------------------------------
(* Properties *)

\* WaitUntilAllCompleted returning OK means that every callback whose
\* Schedule call had returned when the wait began has run to completion
\* (concurrency.h: "Wait until al processing that has been initiated so far
\* is completed").
WaitOkMeansDone ==
  \A w \in WaitThreads : wpc[w] = "ok" => \A c \in due[w] : Finished(c)

\* WaitUntilAllCompleted fails only while some Schedule call is between
\* obtaining its id and returning: a client that respects the REQUIRES
\* comment of concurrency.h never sees FailedPrecondition.
FailedOnlyWhileScheduling ==
  [][\A w \in WaitThreads :
       wpc[w] = "check" /\ wpc'[w] = "failed" => \E c \in Calls : InFlight(c)]_vars

\* The wait of the destructor never fails, so its LOG(ERROR) branch is dead,
\* and when the destructor has run no callback is left that would use the
\* destroyed manager through the captured this; callbacks may go on
\* scheduling other callbacks while the destructor waits.
DestroyedQuiescent ==
  Destroyed => /\ wpc[Dtor] = "ok"
               /\ \A c \in Calls : ~Unfinished(c) /\ ~InFlight(c)

\* The Schedule calls that have an id and neither failed nor had their callback
\* finish, be it before they return.
Outstanding ==
  {c \in Calls : pc[c] \in {"got_id", "refused"} \/ Unfinished(c)}

\* Whatever the order of registration and completion, the pending count is the
\* number of outstanding calls, what a thread waits for is a callback that was
\* registered, and no bookkeeping is left behind: with no Schedule call in
\* progress the early set is empty and the map holds exactly the unfinished
\* callbacks (RegisterCallback, IgnoreCallback, RunCallback).
BookkeepingExact ==
  /\ NumPending = Cardinality(Outstanding)
  /\ \A w \in WaitThreads :
       wpc[w] = "waiting" => won[w] \in Calls /\ pc[won[w]] = "returned"
  /\ (\A c \in Calls : ~InFlight(c)) =>
       /\ completed_early = {}
       /\ callbacks = {c \in Calls : Unfinished(c)}

\* A thread that waits, the destructor included, gets an answer.
WaitTerminates ==
  \A w \in WaitThreads :
    wpc[w] \in {"check", "waiting"} ~> wpc[w] \in {"ok", "failed"}

-----------------------------------------------------------------------------
(* The inductive invariant of the proofs in CallbackTrackerProofs *)

\* The Schedule calls that count as completed.
Closed == {c \in Calls : Finished(c) \/ pc[c] = "error"}

CountInv ==
  /\ total_num_callbacks_scheduled \in 0 .. MaxCalls
  /\ \A c \in Calls : pc[c] # "idle" <=> c <= total_num_callbacks_scheduled
  /\ total_num_callbacks_completed = Cardinality(Closed)

TrackInv ==
  \A c \in Calls :
    /\ cb[c] = "none" <=> pc[c] \in {"idle", "got_id", "refused", "error"}
    /\ c \in completed_early <=> pc[c] = "accepted" /\ Finished(c)
    /\ c \in callbacks <=> pc[c] = "returned" /\ Unfinished(c)

\* A Schedule call made by a callback is in progress only while it runs.
NestInv ==
  \A c \in Calls :
    InFlight(c) /\ parent[c] # NoCall =>
      parent[c] < c /\ cb[parent[c]] = "running"

WaitInv ==
  /\ \A w \in WaitThreads : \A c \in due[w] : pc[c] = "returned"
  /\ wpc[Dtor] # "idle" => \A c \in Calls : InFlight(c) => parent[c] # NoCall

IInv ==
  /\ TypeOK
  /\ CountInv
  /\ TrackInv
  /\ NestInv
  /\ WaitInv
  /\ WaitOkMeansDone
  /\ DestroyedQuiescent

=============================================================================
