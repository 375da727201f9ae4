----------------------------- MODULE Confidential -----------------------------
(***************************************************************************)
(* A confidential computation: the intrinsic of genc/cc/intrinsics/        *)
(* confidential_computation.cc runs a computation on a worker (genc/cc/    *)
(* modules/worker/run_server.cc) that it reaches through Oak: genc/cc/     *)
(* interop/oak/client.cc, server.cc and genc/cc/interop/                   *)
(* confidential_computing/attestation.cc.                                  *)
(*                                                                         *)
(* A worker makes a key when it starts and asks its platform for a token   *)
(* that binds the key to the image it runs; the client encrypts under the  *)
(* key of a token it accepted. One address is served by one process after  *)
(* the other: a restarted worker has another key, an empty table whose ids *)
(* start at zero, and maybe another image. A call may be lost before or    *)
(* after the worker handled it; the client sees an error then and does not *)
(* try again. A call is under way from the moment its arguments are there: *)
(* each waits in a thread of its own. The step that handles it also brings *)
(* the reply, since nobody else can tell. The tokens' signatures, Oak's    *)
(* encryption, gRPC and HTTP are external and do what their callers rely   *)
(* on, or fail.                                                            *)
(* The remote executor of the client (RemoteExecutor) is reduced to the    *)
(* calls it makes and the order it makes them in.                          *)
(***************************************************************************)
EXTENDS Naturals, Sequences, FiniteSets

CONSTANTS
  Clients,
  Deployments,  \* sequences of what the worker's processes run: os, reference
                \* and digest of the image
  Provenance,   \* of each client: the reference and digest it asks for, or ""
  MaxLost,      \* bound: requests and replies that are lost
  FunctorKept,  \* as in RemoteExecutor: the client's values outlive their
                \* handles for good, TRUE with libstdc++, FALSE with libc++
  use_oak       \* RunServerOptions: Oak's service, or the plain executor's

CONFIDENTIAL_SPACE == "CONFIDENTIAL_SPACE"

ASSUME ConfidentialAssumption ==
  /\ \A d \in Deployments :
       \A k \in DOMAIN d : DOMAIN d[k] = {"os", "reference", "digest"}
  /\ \A c \in Clients : DOMAIN Provenance[c] = {"reference", "digest"}
  /\ MaxLost \in Nat
  /\ FunctorKept \in BOOLEAN
  /\ use_oak \in BOOLEAN

VARIABLES
  deployment, \* what the processes of the worker run
  key,        \* the key of the process there is: the first makes 1, ...
  next_id,    \* next_value_id_ of its executor
  tracked,    \* the values in its table, by id
  stage,      \* of each client: how far ExecuteCall is
  token,      \* the token in the evidence it got
  client_key, \* the key it encrypts under
  call,       \* of each operation: none (yet), ok, error
  reply,      \* what the worker replied to it
  result,     \* what ExecuteCall returned
  readBy,     \* history: the workloads that read a request of the client
  lost        \* history: the calls that were lost, as client and operation

serverVars == <<deployment, key, next_id, tracked>>
clientVars == <<stage, token, client_key, result>>
callVars == <<call, reply, readBy, lost>>
vars == <<serverVars, clientVars, callVars>>

\* The values of a call, and the operations on them.
Created == {"comp", "arg", "call"}
DropOf == [comp |-> "drop_comp", arg |-> "drop_arg", call |-> "drop_call"]
Drops == {DropOf[v] : v \in Created}
Ops == Created \cup {"materialize"} \cup Drops

NoKey == 0
NoToken == [nonce |-> NoKey]
NoResult == <<"none">>
Error == <<"error">>
NoReply == Error

workload == deployment[key]

Init ==
  /\ deployment \in Deployments
  /\ key = 1
  /\ next_id = 0
  /\ tracked = <<>>
  /\ stage = [c \in Clients |-> "idle"]
  /\ token = [c \in Clients |-> NoToken]
  /\ client_key = [c \in Clients |-> NoKey]
  /\ call = [c \in Clients |-> [o \in Ops |-> "none"]]
  /\ reply = [c \in Clients |-> [o \in Ops |-> NoReply]]
  /\ result = [c \in Clients |-> NoResult]
  /\ readBy = [c \in Clients |-> {}]
  /\ lost = {}

\* What the client's computation is worth.
Own(c) == <<"ok", <<"comp", c>>, <<"arg", c>>>>
-------------------------------------------------------------------------------
(***************************************************************************)
(* The client, up to the first remote call.                                *)
(***************************************************************************)
Goto(c, s) == stage' = [stage EXCEPT ![c] = s]
Fails(c) == Goto(c, "returned") /\ result' = [result EXCEPT ![c] = Error]

\* ExecuteCall creates a channel, a verifier and an Oak client, whose creation
\* asks the worker for evidence; a plain worker is called at once.
ExecuteCall(c) ==
  /\ stage[c] = "idle"
  /\ Goto(c, IF use_oak THEN "evidence" ELSE "open")
  /\ UNCHANGED <<serverVars, token, client_key, result, callVars>>

\* The token of the platform: the public key is its nonce.
GetAttestationToken == [nonce |-> key, workload |-> workload]

GetEndorsedEvidence(c) ==
  /\ stage[c] = "evidence"
  /\ token' = [token EXCEPT ![c] = GetAttestationToken]
  /\ Goto(c, "verify")
  /\ UNCHANGED <<serverVars, client_key, result, callVars>>

\* The provider has no token, the call is lost, the HTTP client of the verifier
\* does not get the keys that tokens are signed with, ...
AttestationFails(c) ==
  /\ stage[c] \in {"evidence", "verify"}
  /\ Fails(c)
  /\ UNCHANGED <<serverVars, token, client_key, callVars>>

Named(wanted, actual) == wanted = "" \/ wanted = actual

\* Plausible mistake: the digest is looked at only if a reference is named.
AcceptsReference(p, w) ==
  /\ w.os = CONFIDENTIAL_SPACE
  /\ p.reference # "" => p = [reference |-> w.reference, digest |-> w.digest]

\* The operating system must be Confidential Space; of the image, what the
\* client names must be as it says.
Accepts(p, w) ==
  /\ w.os = CONFIDENTIAL_SPACE
  /\ Named(p.reference, w.reference)
  /\ Named(p.digest, w.digest)

\* Verify: the nonce of a token that is accepted is the key to encrypt under.
Verify(c) ==
  /\ stage[c] = "verify"
  /\ Accepts(Provenance[c], token[c].workload)
  /\ client_key' = [client_key EXCEPT ![c] = token[c].nonce]
  /\ token' = [token EXCEPT ![c] = NoToken]
  /\ Goto(c, "open")
  /\ UNCHANGED <<serverVars, result, callVars>>

VerifyRefuses(c) ==
  /\ stage[c] = "verify"
  /\ ~Accepts(Provenance[c], token[c].workload)
  /\ Fails(c)
  /\ UNCHANGED <<serverVars, token, client_key, callVars>>
-------------------------------------------------------------------------------
(***************************************************************************)
(* The remote calls.                                                       *)
(***************************************************************************)
Made(c, o) == call[c][o] = "ok"
Broken(c, o) == call[c][o] = "error"

\* There is a stub to call: with Oak, one that has a key.
Opened(c) ==
  /\ stage[c] \in {"open", "returned"}
  /\ use_oak => client_key[c] # NoKey

\* Plausible mistake: handles are released on the way of success only.
GoesOnSuccess(c, v) ==
  stage[c] = "returned" /\ Made(c, v) /\ result[c] # Error /\ ~FunctorKept

\* The handle of a value goes once ExecuteCall has returned, however it ended,
\* and with it the task and its ExecutorValue, unless the task owns itself.
Goes(c, v) == stage[c] = "returned" /\ Made(c, v) /\ ~FunctorKept

\* The two values are created at the same time, the call once both are there,
\* whether or not ExecuteCall has returned by then; a value is disposed of when
\* its handle goes.
Ready(c, o) ==
  CASE o \in {"comp", "arg"} -> Opened(c)
    [] o = "call" -> Made(c, "comp") /\ Made(c, "arg")
    [] o = "materialize" -> stage[c] = "open" /\ Made(c, "call")
    [] o \in Drops -> \E v \in Created : o = DropOf[v] /\ Goes(c, v)

UnderWay(c, o) == call[c][o] = "none" /\ Ready(c, o)

SetCall(c, o, s) == call' = [call EXCEPT ![c][o] = s]

\* Plausible mistake: a request under another key is served too.
DecryptsAny(c) == TRUE

\* Decrypt: only what was encrypted under the key of this process.
Decrypts(c) == use_oak => client_key[c] = key

Id(c, v) == reply[c][v][2]
Tracks(id) == id \in DOMAIN tracked

\* What the client sees of a request or a reply that is lost.
Lost(c, o) ==
  /\ Cardinality(lost) < MaxLost
  /\ SetCall(c, o, "error")
  /\ lost' = lost \cup {<<c, o>>}
  /\ UNCHANGED reply

Answer(c, o, r) ==
  /\ reply' = [reply EXCEPT ![c][o] = r]
  /\ SetCall(c, o, IF r = Error THEN "error" ELSE "ok")
  /\ UNCHANGED lost

\* The reply arrives, or is lost.
Reply(c, o, r) == Answer(c, o, r) \/ Lost(c, o)

\* A value is given the next id; what cannot be computed is not.
Track(c, o, value) ==
  LET new == IF value = Error THEN {} ELSE {next_id}
  IN /\ tracked' = [id \in DOMAIN tracked \cup new |->
                      IF id \in new THEN value ELSE tracked[id]]
     /\ next_id' = next_id + Cardinality(new)
     /\ Reply(c, o, IF value = Error THEN Error ELSE <<"id", next_id>>)

\* CreateValue.
ExecuteCreateValue(c, o) == o \in {"comp", "arg"} /\ Track(c, o, <<o, c>>)

\* CreateCall of the values behind two ids.
ExecuteCreateCall(c, o) ==
  /\ o = "call"
  /\ Track(c, o, IF Tracks(Id(c, "comp")) /\ Tracks(Id(c, "arg"))
                 THEN <<"ok", tracked[Id(c, "comp")], tracked[Id(c, "arg")]>>
                 ELSE Error)

ExecuteMaterialize(c, o) ==
  /\ o = "materialize"
  /\ Reply(c, o, IF Tracks(Id(c, "call")) THEN tracked[Id(c, "call")] ELSE Error)
  /\ UNCHANGED <<next_id, tracked>>

\* Dispose. The client looks neither at the answer nor for it.
ExecuteDispose(c, o) ==
  \E v \in Created :
    /\ o = DropOf[v]
    /\ tracked' = [id \in DOMAIN tracked \ {Id(c, v)} |-> tracked[id]]
    /\ Reply(c, o, IF Tracks(Id(c, v)) THEN NoResult ELSE Error)
    /\ UNCHANGED next_id

\* GetExecutorResponse: the executor service, by the kind of the request.
GetExecutorResponse(c, o) ==
  \/ ExecuteCreateValue(c, o)
  \/ ExecuteCreateCall(c, o)
  \/ ExecuteMaterialize(c, o)
  \/ ExecuteDispose(c, o)

\* Invoke of OakService, or the executor service itself.
Invoke(c, o) ==
  /\ UnderWay(c, o)
  /\ Decrypts(c)
  /\ GetExecutorResponse(c, o)
  /\ readBy' = [readBy EXCEPT ![c] = @ \cup {workload}]
  /\ UNCHANGED <<deployment, key, clientVars>>

InvokeFails(c, o) ==
  /\ UnderWay(c, o)
  /\ ~Decrypts(c)
  /\ Answer(c, o, Error)
  /\ UNCHANGED <<serverVars, clientVars, readBy>>

\* The request is lost. One that disposes of a value is not made again either:
\* ~ExecutorValue ignores its status.
Lose(c, o) ==
  /\ UnderWay(c, o)
  /\ Lost(c, o)
  /\ UNCHANGED <<serverVars, clientVars, readBy>>

\* ExecuteCall returns what was materialized or the first error; its handles go.
Return(c) ==
  /\ stage[c] = "open"
  /\ \/ /\ Made(c, "materialize")
        /\ Goto(c, "returned")
        /\ result' = [result EXCEPT ![c] = reply[c]["materialize"]]
     \/ (\E o \in Ops : Broken(c, o)) /\ Fails(c)
  /\ UNCHANGED <<serverVars, token, client_key, callVars>>

\* RunServer, in a new process.
RunServer ==
  /\ key < Len(deployment)
  /\ key' = key + 1
  /\ next_id' = 0
  /\ tracked' = <<>>
  /\ UNCHANGED <<deployment, clientVars, callVars>>

\* A step of a computation of c.
Compute(c) ==
  \/ ExecuteCall(c) \/ GetEndorsedEvidence(c) \/ AttestationFails(c)
  \/ Verify(c) \/ VerifyRefuses(c) \/ Return(c)
  \/ \E o \in Ops :
       Invoke(c, o) \/ InvokeFails(c, o) \/ Lose(c, o)

Next == RunServer \/ \E c \in Clients : Compute(c)

Spec == Init /\ [][Next]_vars
-------------------------------------------------------------------------------
(***************************************************************************)
(* Properties.                                                             *)
(***************************************************************************)
TypeOK ==
  /\ deployment \in Deployments
  /\ key \in DOMAIN deployment
  /\ next_id \in Nat
  /\ DOMAIN tracked \subseteq 0 .. (next_id - 1)
  /\ stage \in [Clients -> {"idle", "evidence", "verify", "open", "returned"}]
  /\ client_key \in [Clients -> DOMAIN deployment \cup {NoKey}]
  /\ call \in [Clients -> [Ops -> {"none", "ok", "error"}]]
  /\ lost \subseteq Clients \X Ops

\* Only a workload of the image the client named reads its requests, in
\* Confidential Space, whatever was deployed at the address before or since
\* (attestation.cc Verify, server.cc Invoke).
ReadByAttestedOnly ==
  use_oak =>
    \A c \in Clients : \A w \in readBy[c] :
      /\ w.os = CONFIDENTIAL_SPACE
      /\ Provenance[c].digest # "" => w.digest = Provenance[c].digest
      /\ Provenance[c].reference # "" => w.reference = Provenance[c].reference

\* A computation returns the value of the client's own function and argument
\* or an error, also when the ids it holds have been issued anew to another
\* client by a restarted worker (executor.h next_value_id_, server.cc Invoke).
ResultIsOwn ==
  \A c \in Clients : result[c] \in {NoResult, Error, Own(c)}

\* A client has returned and none of its calls is under way.
Quiet(c) ==
  /\ stage[c] = "returned"
  /\ \A o \in Ops : ~UnderWay(c, o)

ValueOf(c, v) == IF v = "call" THEN Own(c) ELSE <<v, c>>

\* The worker has a value that its client can no longer name, or will not:
\* nobody was told the id, the request to dispose of it failed, or the task
\* that would make the request is never destroyed.
Abandoned(c, v) ==
  \/ <<c, v>> \in lost
  \/ <<c, DropOf[v]>> \in lost
  \/ FunctorKept /\ Made(c, v)

\* What a quiet client leaves on the worker was abandoned in one of these ways:
\* no other path leaves a value behind, whichever calls failed and in whatever
\* order the replies came (confidential_computation.cc ExecuteCall,
\* remote_executor.cc ~ExecutorValue, client.cc Dispose).
NothingIsLeft ==
  \A c \in Clients : \A v \in Created :
    Quiet(c) /\ ~Abandoned(c, v) =>
      \A id \in DOMAIN tracked : tracked[id] # ValueOf(c, v)
===============================================================================
