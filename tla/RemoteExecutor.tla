---------------------------- MODULE RemoteExecutor ----------------------------
(***************************************************************************)
(* RemoteExecutor (genc/cc/runtime/remote_executor.cc), the gRPC channel,  *)
(* and ExecutorService (executor_service.cc) with the executor behind it.  *)
(*                                                                         *)
(* Every value is a task on a detached thread of the client: it waits for  *)
(* the tasks of its operands, sends one request with the ids they got from *)
(* the server, and holds the id it is answered with. When the last         *)
(* reference to a task goes, its id is disposed of in a request of its     *)
(* own. A task keeps what its lambda captured, its operands among them, as *)
(* long as the task itself exists.                                         *)
(*                                                                         *)
(* No call has a deadline or is retried, but the channel may break: a      *)
(* request may be lost, be handled after the client was told it failed, or *)
(* its response may be lost. A value on the server is named by the task it *)
(* was made for; ValueIdToRef and RefToValueId turn ids into decimal       *)
(* numerals and back, and a client only sends numerals it was given, so a  *)
(* ValueRef is represented by its id.                                      *)
(***************************************************************************)
EXTENDS Integers, Sequences, FiniteSets

CONSTANTS
  MaxTasks,     \* bound: how many values are created
  MaxOperands,  \* bound: operands of one value
  MaxFailures,  \* bound: calls that fail because of the channel
  FunctorKept   \* the shared state of a std::packaged_task owns its functor:
                \* TRUE with libstdc++, FALSE with libc++

ASSUME RemoteAssumption ==
  /\ MaxTasks \in Nat /\ MaxOperands \in Nat /\ MaxFailures \in Nat
  /\ FunctorKept \in BOOLEAN

Tasks == 1 .. MaxTasks
NoTask == 0
Ids == 0 .. (MaxTasks - 1)
NoId == MaxTasks

VARIABLES
  \* the client process
  tracked,        \* tasks in tracked_values_
  pc,             \* where each task's thread is
  ops,            \* the futures its lambda captured
  keeps,          \* what exists as long as it does: itself, what it captured,
                  \* and what that captured
  at,             \* how many of them it has waited for
  ref,            \* id in its ExecutorValue, NoId if it has none
  materialize,    \* the Materialize call in progress: its task and step
  answer,         \* the last task that was materialized with success
  closed,         \* the client has given up all its handles, for good
  \* the channel
  call,           \* the request of each task
  reply,          \* the id in the response to it, NoId for an error
  dispose,        \* the Dispose request of each id
  failures,       \* how many calls the channel has failed
  \* the server
  next_value_id_,
  tracked_values_,
  orphans         \* history: ids the client was never told of, or whose
                  \* Dispose request was lost

clientVars == <<tracked, pc, ops, keeps, at, ref, materialize, answer, closed>>
serverVars == <<next_value_id_, tracked_values_>>
vars == <<clientVars, call, reply, dispose, failures, serverVars, orphans>>

NoMaterialize == [task |-> NoTask, step |-> "none"]

TypeOK ==
  /\ tracked \subseteq Tasks
  /\ pc \in [Tasks -> {"none", "waiting", "call", "ok", "error"}]
  /\ ops \in [Tasks -> Seq(Tasks)]
  /\ keeps \in [Tasks -> SUBSET Tasks]
  /\ \A t \in Tasks : at[t] \in 0 .. Len(ops[t])
  /\ ref \in [Tasks -> Ids \cup {NoId}]
  /\ materialize.task \in Tasks \cup {NoTask}
  /\ materialize.step \in {"none", "waiting", "sent", "ok", "error"}
  /\ answer \in Tasks \cup {NoTask}
  /\ closed \in BOOLEAN
  /\ call \in [Tasks -> {"none", "sent", "served", "late", "over"}]
  /\ reply \in [Tasks -> Ids \cup {NoId}]
  /\ dispose \in [Ids -> {"none", "sent", "over"}]
  /\ failures \in 0 .. MaxFailures
  /\ next_value_id_ \in 0 .. MaxTasks
  /\ tracked_values_ \in [Ids -> Tasks \cup {NoTask}]
  /\ orphans \subseteq Ids
  /\ \A t \in Tasks : pc[t] = "ok" <=> ref[t] # NoId

Init ==
  /\ tracked = {}
  /\ pc = [t \in Tasks |-> "none"]
  /\ ops = [t \in Tasks |-> <<>>]
  /\ keeps = [t \in Tasks |-> {}]
  /\ at = [t \in Tasks |-> 0]
  /\ ref = [t \in Tasks |-> NoId]
  /\ materialize = NoMaterialize
  /\ answer = NoTask
  /\ closed = FALSE
  /\ call = [t \in Tasks |-> "none"]
  /\ reply = [t \in Tasks |-> NoId]
  /\ dispose = [i \in Ids |-> "none"]
  /\ failures = 0
  /\ next_value_id_ = 0
  /\ tracked_values_ = [i \in Ids |-> NoTask]
  /\ orphans = {}

-----------------------------------------------------------------------------
(* References to tasks *)

Created == {t \in Tasks : pc[t] # "none"}
Running(t) == pc[t] \in {"waiting", "call"}

\* Who has a shared_ptr to a task: the table, its own thread until it ends,
\* a Materialize call. With FunctorKept also the task itself: it owns the
\* waitable, whose shared_future keeps the state that owns the functor.
Roots ==
  {t \in Created :
     t \in tracked \/ Running(t) \/ materialize.task = t \/ FunctorKept}

\* Plausible mistake: the captures do not keep the operands.
Alive_NoCaptures == Roots

\* The tasks that exist: captured futures count.
Alive == UNION {keeps[t] : t \in Roots}

\* Plausible mistake: a destructor runs again for a copy of the value.
DestroyValues_Twice ==
  dispose' = [i \in Ids |->
                IF \E t \in Tasks : ref'[t] = i /\ t \notin Alive'
                THEN "sent" ELSE dispose[i]]

\* ~ExecutorValue of every value that no task refers to any more starts the
\* Dispose request of its id.
DestroyValues ==
  dispose' = [i \in Ids |->
                IF /\ dispose[i] = "none"
                   /\ \E t \in Tasks : ref'[t] = i /\ t \notin Alive'
                THEN "sent" ELSE dispose[i]]

-----------------------------------------------------------------------------
(* The client's calls *)

Idle == materialize.task = NoTask /\ ~closed

\* CreateExecutorValue (no operands), CreateCall, CreateStruct or
\* CreateSelection.
Create(t) ==
  /\ Idle
  /\ Created = 1 .. (t - 1)
  /\ \E n \in 0 .. MaxOperands : \E futures \in [1 .. n -> tracked] :
       /\ ops' = [ops EXCEPT ![t] = futures]
       /\ keeps' = [keeps EXCEPT ![t] =
                      {t} \cup UNION {keeps[futures[k]] : k \in 1 .. n}]
       /\ pc' = [pc EXCEPT ![t] = IF n = 0 THEN "call" ELSE "waiting"]
       /\ call' = [call EXCEPT ![t] = IF n = 0 THEN "sent" ELSE "none"]
  /\ tracked' = tracked \cup {t}
  /\ UNCHANGED <<at, ref, materialize, answer, closed, reply, dispose,
                 failures, serverVars, orphans>>

\* An OwnedValueId of the client is released.
Release(t) ==
  /\ Idle
  /\ t \in tracked
  /\ tracked' = tracked \ {t}
  /\ UNCHANGED <<pc, ops, keeps, at, ref, materialize, answer, closed, call,
                 reply, failures, serverVars, orphans>>
  /\ DestroyValues

Close ==
  /\ Idle
  /\ tracked = {}
  /\ closed' = TRUE
  /\ UNCHANGED <<tracked, pc, ops, keeps, at, ref, materialize, answer, call,
                 reply, dispose, failures, serverVars, orphans>>

BeginMaterialize(t) ==
  /\ Idle
  /\ t \in tracked
  /\ materialize' = [task |-> t, step |-> "waiting"]
  /\ UNCHANGED <<tracked, pc, ops, keeps, at, ref, answer, closed, call, reply,
                 dispose, failures, serverVars, orphans>>

\* Wait(value_future) returns: its error, or the value to ask for.
MaterializeWait ==
  /\ materialize.step = "waiting"
  /\ \/ /\ pc[materialize.task] = "ok"
        /\ materialize' = [materialize EXCEPT !.step = "sent"]
     \/ /\ pc[materialize.task] = "error"
        /\ materialize' = NoMaterialize
  /\ UNCHANGED <<tracked, pc, ops, keeps, at, ref, answer, closed, call, reply,
                 failures, serverVars, orphans>>
  /\ DestroyValues

\* The stub returns, and val_pb is assigned to whatever the status. (It is not
\* null here: see fallback.cc, which asks for no value.)
MaterializeReturn ==
  /\ materialize.step \in {"ok", "error"}
  /\ answer' = IF materialize.step = "ok" THEN materialize.task ELSE answer
  /\ materialize' = NoMaterialize
  /\ UNCHANGED <<tracked, pc, ops, keeps, at, ref, closed, call, reply,
                 failures, serverVars, orphans>>
  /\ DestroyValues

-----------------------------------------------------------------------------
(* The threads of the client *)

\* Plausible mistake: a future that failed is waited for like one that is
\* not ready.
WaitOperand_OnlyOk(t) ==
  /\ pc[t] = "waiting"
  /\ pc[ops[t][at[t] + 1]] = "ok"
  /\ at' = [at EXCEPT ![t] = @ + 1]
  /\ IF at[t] + 1 = Len(ops[t])
     THEN /\ pc' = [pc EXCEPT ![t] = "call"]
          /\ call' = [call EXCEPT ![t] = "sent"]
     ELSE UNCHANGED <<pc, call>>
  /\ UNCHANGED <<tracked, ops, keeps, ref, materialize, answer, closed, reply,
                 dispose, failures, serverVars, orphans>>

\* Wait() on the next captured future; the last one is followed by the call.
WaitOperand(t) ==
  /\ pc[t] = "waiting"
  /\ LET future == ops[t][at[t] + 1] IN
     \/ /\ pc[future] = "ok"
        /\ at' = [at EXCEPT ![t] = @ + 1]
        /\ IF at[t] + 1 = Len(ops[t])
           THEN /\ pc' = [pc EXCEPT ![t] = "call"]
                /\ call' = [call EXCEPT ![t] = "sent"]
           ELSE UNCHANGED <<pc, call>>
     \/ /\ pc[future] = "error"
        /\ pc' = [pc EXCEPT ![t] = "error"]
        /\ UNCHANGED <<at, call>>
  /\ UNCHANGED <<tracked, ops, keeps, ref, materialize, answer, closed, reply,
                 failures, serverVars, orphans>>
  /\ DestroyValues

\* The response arrives, the task's future is set and its thread ends.
CallReturns(t) ==
  /\ call[t] = "served"
  /\ call' = [call EXCEPT ![t] = "over"]
  /\ ref' = [ref EXCEPT ![t] = reply[t]]
  /\ pc' = [pc EXCEPT ![t] = IF reply[t] = NoId THEN "error" ELSE "ok"]
  /\ UNCHANGED <<tracked, ops, keeps, at, materialize, answer, closed, reply,
                 failures, serverVars, orphans>>
  /\ DestroyValues

-----------------------------------------------------------------------------
(* The channel *)

\* Plausible mistake: a stub whose request is lost never returns.
CallFails_NeverReturns(t) ==
  /\ call[t] \in {"sent", "served"}
  /\ failures < MaxFailures
  /\ failures' = failures + 1
  /\ IF call[t] = "sent"
     THEN \E late \in {"late", "over"} : call' = [call EXCEPT ![t] = late]
     ELSE call' = [call EXCEPT ![t] = "over"]
  /\ orphans' = orphans \cup ({reply[t]} \ {NoId})
  /\ UNCHANGED <<clientVars, reply, dispose, serverVars>>

\* A request or its response is lost: the stub returns an error. The server
\* may have handled the request, may never see it or may handle it later.
CallFails(t) ==
  /\ call[t] \in {"sent", "served"}
  /\ failures < MaxFailures
  /\ failures' = failures + 1
  /\ IF call[t] = "sent"
     THEN \E late \in {"late", "over"} : call' = [call EXCEPT ![t] = late]
     ELSE call' = [call EXCEPT ![t] = "over"]
  /\ orphans' = orphans \cup ({reply[t]} \ {NoId})
  /\ pc' = [pc EXCEPT ![t] = "error"]
  /\ UNCHANGED <<tracked, ops, keeps, at, ref, materialize, answer, closed,
                 reply, serverVars>>
  /\ DestroyValues

MaterializeFails ==
  /\ materialize.step = "sent"
  /\ failures < MaxFailures
  /\ failures' = failures + 1
  /\ materialize' = [materialize EXCEPT !.step = "error"]
  /\ UNCHANGED <<tracked, pc, ops, keeps, at, ref, answer, closed, call, reply,
                 dispose, serverVars, orphans>>

\* "Silently ignore for now...": nobody tries again.
DisposeFails(i) ==
  /\ dispose[i] = "sent"
  /\ failures < MaxFailures
  /\ failures' = failures + 1
  /\ dispose' = [dispose EXCEPT ![i] = "over"]
  /\ orphans' = orphans \cup {i}
  /\ UNCHANGED <<clientVars, call, reply, serverVars>>

-----------------------------------------------------------------------------
(* The server *)

Found(t) == \A n \in DOMAIN ops[t] : tracked_values_[ref[ops[t][n]]] # NoTask

\* Plausible mistake: the error path of the handler forgets the value too.
Serve_ForgetsOnError(t) ==
  /\ call[t] \in {"sent", "late"}
  /\ call' = [call EXCEPT ![t] = IF call[t] = "sent" THEN "served" ELSE "over"]
  /\ \/ /\ next_value_id_' = next_value_id_ + 1
        /\ tracked_values_' = [tracked_values_ EXCEPT ![next_value_id_] = t]
        /\ UNCHANGED <<reply, orphans>>
     \/ /\ Found(t)
        /\ next_value_id_' = next_value_id_ + 1
        /\ tracked_values_' = [tracked_values_ EXCEPT ![next_value_id_] = t]
        /\ reply' = [reply EXCEPT ![t] = next_value_id_]
        /\ orphans' = IF call[t] = "late" THEN orphans \cup {next_value_id_}
                                          ELSE orphans
  /\ UNCHANGED <<clientVars, dispose, failures>>

\* CreateValue, CreateCall, CreateStruct or CreateSelection of the service:
\* NotFound for an operand that is not tracked, an error of the executor, or
\* a new value, whose OwnedValueId the handler forgets.
Serve(t) ==
  /\ call[t] \in {"sent", "late"}
  /\ call' = [call EXCEPT ![t] = IF call[t] = "sent" THEN "served" ELSE "over"]
  /\ \/ UNCHANGED <<reply, serverVars, orphans>>
     \/ /\ Found(t)
        /\ next_value_id_' = next_value_id_ + 1
        /\ tracked_values_' = [tracked_values_ EXCEPT ![next_value_id_] = t]
        /\ reply' = [reply EXCEPT ![t] = next_value_id_]
        /\ orphans' = IF call[t] = "late" THEN orphans \cup {next_value_id_}
                                          ELSE orphans
  /\ UNCHANGED <<clientVars, dispose, failures>>

\* Materialize of the service: it waits for the value and sends it, or fails.
ServeMaterialize ==
  /\ materialize.step = "sent"
  /\ \/ /\ tracked_values_[ref[materialize.task]] # NoTask
        /\ materialize' = [materialize EXCEPT !.step = "ok"]
     \/ materialize' = [materialize EXCEPT !.step = "error"]
  /\ UNCHANGED <<tracked, pc, ops, keeps, at, ref, answer, closed, call, reply,
                 dispose, failures, serverVars, orphans>>

\* Plausible mistake: the handler answers without disposing.
ServeDispose_NoErase(i) ==
  /\ dispose[i] = "sent"
  /\ dispose' = [dispose EXCEPT ![i] = "over"]
  /\ UNCHANGED <<clientVars, call, reply, failures, serverVars, orphans>>

\* Dispose of the service, for the one id in the request: NotFound is
\* reported as an internal error, which the client ignores.
ServeDispose(i) ==
  /\ dispose[i] = "sent"
  /\ dispose' = [dispose EXCEPT ![i] = "over"]
  /\ tracked_values_' = [tracked_values_ EXCEPT ![i] = NoTask]
  /\ UNCHANGED <<clientVars, call, reply, failures, next_value_id_, orphans>>

-----------------------------------------------------------------------------
\* The client has finished, and so has everything it started.
Ended ==
  /\ closed
  /\ \A t \in Tasks : ~Running(t)
  /\ \A i \in Ids : dispose[i] # "sent"
  /\ UNCHANGED vars

Next ==
  \/ \E t \in Tasks : \/ Create(t) \/ Release(t) \/ BeginMaterialize(t)
                      \/ WaitOperand(t) \/ CallReturns(t)
                      \/ CallFails(t) \/ Serve(t)
  \/ \E i \in Ids : DisposeFails(i) \/ ServeDispose(i)
  \/ Close
  \/ MaterializeWait \/ MaterializeReturn
  \/ MaterializeFails \/ ServeMaterialize
  \/ Ended

\* Threads run, and a request that the channel has not failed is answered;
\* a request that was given up on need never be handled.
Fairness ==
  /\ \A t \in Tasks : /\ WF_vars(WaitOperand(t))
                      /\ WF_vars(CallReturns(t))
                      /\ WF_vars(call[t] = "sent" /\ Serve(t))
  /\ \A i \in Ids : WF_vars(ServeDispose(i))
  /\ WF_vars(MaterializeWait) /\ WF_vars(MaterializeReturn)
  /\ WF_vars(ServeMaterialize)

Spec == Init /\ [][Next]_vars

FairSpec == Spec /\ Fairness

-----------------------------------------------------------------------------
(* Properties *)

\* A value that the server may yet be asked about: operands of calls and the
\* argument of Materialize.
InUse ==
  {t \in Tasks : \/ materialize.step = "sent" /\ materialize.task = t
                 \/ \E u \in Tasks : /\ call[u] = "sent"
                                     /\ \E n \in DOMAIN ops[u] : ops[u][n] = t}

\* The server knows every id in a request that waits for its answer, and
\* knows it as the value the client means, although the client may have
\* released the operands in the meantime and their Dispose requests travel
\* concurrently on threads of their own: NotFound is never the answer.
RequestsNameLiveValues ==
  \A t \in InUse : /\ dispose[ref[t]] = "none"
                   /\ tracked_values_[ref[t]] = t

\* An id is disposed of at most once, while the server still has it.
DisposedOnce ==
  \A i \in Ids : dispose[i] = "sent" => tracked_values_[i] # NoTask

\* The server holds no value that nobody will dispose of, except the ones the
\* channel orphaned: a task that exists has its id, or the id is on its way to
\* or from the client.
ServerValuesAccounted ==
  \A i \in Ids :
    tracked_values_[i] # NoTask =>
      \/ \E t \in Alive : ref[t] = i
      \/ dispose[i] = "sent"
      \/ \E t \in Tasks : call[t] = "served" /\ reply[t] = i
      \/ i \in orphans

\* Nothing keeps task t: the future it waits for next is resolved, or its call
\* is with the channel, the server or back, and all of those answer.
CanGo(t) ==
  \/ pc[t] = "waiting" /\ pc[ops[t][at[t] + 1]] \in {"ok", "error"}
  \/ pc[t] = "call" /\ call[t] \in {"sent", "served"}

\* Whatever a thread or Materialize waits for is resolved or was made from a
\* value whose thread can go on, whatever was released meanwhile and whatever
\* the channel lost: no error path leaves a future that others wait for
\* without anybody to set it (the lambdas of remote_executor.cc).
NobodyWaitsInVain ==
  \A t \in Created \cup ({materialize.task} \ {NoTask}) :
    pc[t] \in {"ok", "error"} \/ \E u \in keeps[t] : CanGo(u)

\* When the client has released its handles, everything they stood for on the
\* server is released (executor.h: "Dispose of a value, releasing any
\* associated resources"), the values the channel orphaned excepted.
HandlesReleaseServerValues ==
  closed ~> \A i \in Ids : tracked_values_[i] # NoTask => i \in orphans

Interface == INSTANCE Executor WITH
  Vals <- Tasks,
  NoVal <- NoTask,
  status <- [t \in Tasks |-> IF Running(t) THEN "pending" ELSE pc[t]],
  operands <- ops,
  held <- tracked

\* remote_executor.cc implements ExecutorInterface across a faulty channel: a
\* value succeeds only if its operands did, releasing an operand at any time
\* does not disturb it, a successful Materialize speaks of a value that
\* succeeded, and every future becomes ready.
ImplementsExecutor == Interface!Spec
===============================================================================
