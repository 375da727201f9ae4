-------------------------- MODULE ConfidentialProofs --------------------------
(***************************************************************************)
(* Proofs about module Confidential: for any clients, any sequence of      *)
(* processes at the worker's address and any number of lost calls, what    *)
(* reads a request was attested to the client that sent it, and, behind    *)
(* Oak, a client gets the result of its own computation or an error, and   *)
(* leaves nothing on the worker but what a lost call, or a task that is    *)
(* never destroyed, abandons.                                              *)
(***************************************************************************)
EXTENDS Confidential, FiniteSetTheorems, TLAPS

Stages == {"idle", "evidence", "verify", "open", "returned"}

\* The tokens that the platform has given out.
Tokens == {[nonce |-> k, workload |-> deployment[k]] : k \in 1 .. key}

TypeInv ==
  /\ key \in Nat \ {0}
  /\ next_id \in Nat
  /\ DOMAIN tracked \subseteq 0 .. (next_id - 1)
  /\ stage \in [Clients -> Stages]
  /\ token = [c \in Clients |-> token[c]]
  /\ client_key \in [Clients -> 0 .. key]
  /\ call \in [Clients -> [Ops -> {"none", "ok", "error"}]]
  /\ reply = [c \in Clients |-> [o \in Ops |-> reply[c][o]]]
  /\ result = [c \in Clients |-> result[c]]
  /\ readBy = [c \in Clients |-> readBy[c]]

\* A client has a key only when it has accepted what goes with it, and calls
\* nothing before.
KeyInv ==
  \A c \in Clients :
    /\ stage[c] = "verify" => token[c] \in Tokens
    /\ stage[c] \in {"idle", "evidence", "verify"} => client_key[c] = NoKey
    /\ client_key[c] = NoKey => \A o \in Ops : call[c][o] = "none"
    /\ client_key[c] # NoKey =>
         Accepts(Provenance[c], deployment[client_key[c]])

\* What was read was attested.
ReadInv == \A c \in Clients : \A w \in readBy[c] : Accepts(Provenance[c], w)

\* In the process whose key the client has, an id the client was told is an id
\* of this process, and whatever it still names is the value it was issued for.
IdInv ==
  \A c \in Clients : \A v \in Created :
    Made(c, v) /\ client_key[c] = key =>
      /\ Id(c, v) \in 0 .. (next_id - 1)
      /\ Tracks(Id(c, v)) => tracked[Id(c, v)] = ValueOf(c, v)

\* What a client materialized is its own, whichever process runs by now.
MaterializedInv ==
  \A c \in Clients : Made(c, "materialize") => reply[c]["materialize"] = Own(c)

IInv ==
  TypeInv /\ KeyInv /\ ReadInv /\ IdInv /\ MaterializedInv /\ ResultIsOwn

-------------------------------------------------------------------------------
\* Initially nobody has a key and nothing has been called or read.
LEMMA InitInv == Init => IInv
  BY DEF Init, IInv, TypeInv, Stages, KeyInv, ReadInv, IdInv, MaterializedInv,
         ResultIsOwn, Made, NoKey, NoToken, Ops, Created

\* A call under way is one of a client that has a key; the others need what
\* Ready says.
LEMMA UnderWayNeeds ==
  ASSUME use_oak = TRUE, TypeInv, KeyInv, NEW c \in Clients, NEW o \in Ops,
         UnderWay(c, o)
  PROVE  /\ client_key[c] # NoKey
         /\ o = "call" => Made(c, "comp") /\ Made(c, "arg")
         /\ o = "materialize" => stage[c] = "open" /\ Made(c, "call")
<1>0. Drops = {"drop_comp", "drop_arg", "drop_call"}
  BY DEF Drops, DropOf, Created
<1>1. CASE o \in {"comp", "arg"}
  <2>1. Ready(c, o) = Opened(c)
    BY <1>0, <1>1 DEF Ready
  <2> QED BY <1>1, <2>1 DEF UnderWay, Opened
<1>2. CASE o = "call"
  <2>1. Ready(c, o) = (Made(c, "comp") /\ Made(c, "arg"))
    BY <1>0, <1>2 DEF Ready
  <2> QED BY <1>2, <2>1 DEF UnderWay, KeyInv, Made, Ops, Created
<1>3. CASE o = "materialize"
  <2>1. Ready(c, o) = (stage[c] = "open" /\ Made(c, "call"))
    BY <1>0, <1>3 DEF Ready
  <2> QED BY <1>3, <2>1 DEF UnderWay, KeyInv, Made, Ops, Created
<1>4. CASE o \in Drops
  <2>0. o \notin {"comp", "arg", "call", "materialize"}
    BY <1>0, <1>4
  <2>1. Ready(c, o) = \E v \in Created : o = DropOf[v] /\ Goes(c, v)
    BY <1>4, <2>0 DEF Ready
  <2>2. PICK v \in Created : Made(c, v)
    BY <2>1 DEF UnderWay, Goes
  <2>3. v \in Ops /\ call[c][v] # "none"
    BY <2>2 DEF Made, Ops
  <2> QED BY <2>0, <2>3 DEF KeyInv
<1> QED BY <1>1, <1>2, <1>3, <1>4 DEF Ops, Created
-------------------------------------------------------------------------------
(***************************************************************************)
(* The steps of a client up to its first call, and the one that returns.   *)
(***************************************************************************)
\* ExecuteCall moves the client on and touches nothing else.
LEMMA ExecuteCallInv ==
  ASSUME use_oak = TRUE, IInv, NEW c \in Clients, ExecuteCall(c)
  PROVE  IInv'
<1> USE DEF ExecuteCall, Goto, serverVars, callVars, IInv
<1>1. TypeInv'
  BY DEF TypeInv, Stages
<1>2. KeyInv'
  BY DEF TypeInv, KeyInv, Tokens
<1>3. ReadInv' /\ IdInv' /\ MaterializedInv' /\ ResultIsOwn'
  BY DEF ReadInv, IdInv, Made, Id, Tracks, MaterializedInv, ResultIsOwn
<1> QED BY <1>1, <1>2, <1>3

\* The evidence is a token of the process that runs.
LEMMA GetEndorsedEvidenceInv ==
  ASSUME use_oak = TRUE, IInv, NEW c \in Clients, GetEndorsedEvidence(c)
  PROVE  IInv'
<1> USE DEF GetEndorsedEvidence, Goto, serverVars, callVars, IInv
<1>1. TypeInv'
  BY DEF TypeInv, Stages
<1>2. GetAttestationToken \in Tokens /\ Tokens' = Tokens
  <2>1. key \in 1 .. key
    BY DEF TypeInv
  <2>2. GetAttestationToken \in Tokens
    BY <2>1 DEF Tokens, GetAttestationToken, workload
  <2>3. Tokens' = Tokens
    BY DEF Tokens
  <2> QED BY <2>2, <2>3
<1>3. KeyInv'
  BY <1>2 DEF TypeInv, KeyInv
<1>4. ReadInv' /\ IdInv' /\ MaterializedInv' /\ ResultIsOwn'
  BY DEF ReadInv, IdInv, Made, Id, Tracks, MaterializedInv, ResultIsOwn
<1> QED BY <1>1, <1>3, <1>4

\* A client that fails returns an error and keeps the key it has.
LEMMA FailsInv ==
  ASSUME IInv, NEW c \in Clients, Fails(c),
         UNCHANGED <<serverVars, token, client_key, callVars>>
  PROVE  IInv'
<1> USE DEF Fails, Goto, serverVars, callVars, IInv
<1>1. TypeInv'
  BY DEF TypeInv, Stages
<1>2. KeyInv'
  BY DEF TypeInv, KeyInv, Tokens
<1>3. ReadInv' /\ IdInv' /\ MaterializedInv'
  BY DEF ReadInv, IdInv, Made, Id, Tracks, MaterializedInv
<1>4. ResultIsOwn'
  BY DEF TypeInv, ResultIsOwn, Own
<1> QED BY <1>1, <1>2, <1>3, <1>4

\* The client takes the key of a token it accepts; it has called nothing under
\* another key.
LEMMA VerifyInv ==
  ASSUME use_oak = TRUE, IInv, NEW c \in Clients, Verify(c)
  PROVE  IInv'
<1> USE DEF Verify, Goto, serverVars, callVars, IInv
<1>1. /\ token[c].nonce \in 1 .. key
      /\ Accepts(Provenance[c], deployment[token[c].nonce])
  BY DEF KeyInv, Tokens
<1>2. TypeInv'
  <2>1. token[c].nonce \in 0 .. key
    BY <1>1 DEF TypeInv
  <2>2. client_key' \in [Clients -> 0 .. key']
    BY <2>1 DEF TypeInv
  <2> QED BY <2>2 DEF TypeInv, Stages
<1>3. KeyInv'
  <2>1. Tokens' = Tokens
    BY DEF Tokens
  <2>2. ASSUME NEW d \in Clients
        PROVE  KeyInv!(d)'
    <3>1. CASE d = c
      BY <3>1, <1>1 DEF TypeInv, KeyInv, NoKey, Accepts, Named
    <3>2. CASE d # c
      BY <3>2, <2>1 DEF TypeInv, KeyInv, Accepts, Named
    <3> QED BY <3>1, <3>2
  <2> QED BY <2>2 DEF KeyInv
<1>4. ReadInv' /\ MaterializedInv' /\ ResultIsOwn'
  BY DEF ReadInv, Accepts, Named, Made, MaterializedInv, ResultIsOwn
<1>5. IdInv'
  <2>1. \A o \in Ops : call[c][o] = "none"
    BY DEF KeyInv
  <2>2. \A v \in Created : ~Made(c, v)'
    BY <2>1 DEF Made, Ops
  <2> QED BY <2>2 DEF TypeInv, IdInv, Made, Id, Tracks
<1> QED BY <1>2, <1>3, <1>4, <1>5

\* What is returned is what was materialized, or an error.
LEMMA ReturnInv ==
  ASSUME IInv, NEW c \in Clients, Return(c)
  PROVE  IInv'
<1>1. CASE /\ Made(c, "materialize")
           /\ Goto(c, "returned")
           /\ result' = [result EXCEPT ![c] = reply[c]["materialize"]]
           /\ UNCHANGED <<serverVars, token, client_key, callVars>>
  <2> USE <1>1 DEF Goto, serverVars, callVars, IInv
  <2>1. TypeInv'
    BY DEF TypeInv, Stages
  <2>2. KeyInv'
    BY DEF TypeInv, KeyInv, Tokens
  <2>3. ReadInv' /\ IdInv' /\ MaterializedInv'
    BY DEF ReadInv, IdInv, Made, Id, Tracks, MaterializedInv
  <2>4. ResultIsOwn'
    BY DEF TypeInv, MaterializedInv, ResultIsOwn
  <2> QED BY <2>1, <2>2, <2>3, <2>4
<1>2. CASE Fails(c) /\ UNCHANGED <<serverVars, token, client_key, callVars>>
  BY <1>2, FailsInv
<1> QED BY <1>1, <1>2 DEF Return
-------------------------------------------------------------------------------
(***************************************************************************)
(* The calls and the worker.                                               *)
(***************************************************************************)
\* However a call ends, only its own state and reply change; it is "ok" when
\* the reply arrived and is no error.
LEMMA ReplyEffect ==
  ASSUME TypeInv, NEW c \in Clients, NEW o \in Ops, NEW r, Reply(c, o, r)
  PROVE  /\ call' \in [Clients -> [Ops -> {"none", "ok", "error"}]]
         /\ reply' = [d \in Clients |-> [p \in Ops |-> reply'[d][p]]]
         /\ \A d \in Clients, p \in Ops : <<d, p>> # <<c, o>> =>
              call'[d][p] = call[d][p] /\ reply'[d][p] = reply[d][p]
         /\ call'[c][o] = "ok" => r # Error /\ reply'[c][o] = r
<1>1. CASE Answer(c, o, r)
  <2> DEFINE s == IF r = Error THEN "error" ELSE "ok"
  <2>1. /\ call' = [call EXCEPT ![c][o] = s]
        /\ reply' = [reply EXCEPT ![c][o] = r]
    BY <1>1 DEF Answer, SetCall
  <2>2. s \in {"error", "ok"} /\ (s = "ok" => r # Error)
    OBVIOUS
  <2> HIDE DEF s
  <2>3. call' \in [Clients -> [Ops -> {"none", "ok", "error"}]]
    BY <2>1, <2>2 DEF TypeInv
  <2>4. reply' = [d \in Clients |-> [p \in Ops |-> reply'[d][p]]]
    BY <2>1 DEF TypeInv
  <2>5. \A d \in Clients, p \in Ops : <<d, p>> # <<c, o>> =>
          call'[d][p] = call[d][p] /\ reply'[d][p] = reply[d][p]
    BY <2>1 DEF TypeInv
  <2>6. call'[c][o] = s /\ reply'[c][o] = r
    BY <2>1 DEF TypeInv
  <2> QED BY <2>2, <2>3, <2>4, <2>5, <2>6
<1>2. CASE Lost(c, o)
  BY <1>2 DEF Lost, SetCall, TypeInv
<1> QED BY <1>1, <1>2 DEF Reply

\* A call keeps the invariant if only a workload that was attested reads it,
\* ids that have been given out keep what they name, the id it brings names the
\* value it stands for, and what it materializes is the client's own.
LEMMA CallInv ==
  ASSUME use_oak = TRUE, IInv, NEW c \in Clients, NEW o \in Ops, NEW r,
         UnderWay(c, o), Reply(c, o, r),
         UNCHANGED <<deployment, key, clientVars>>,
         readBy' = [d \in Clients |-> readBy'[d]], ReadInv',
         next_id' \in Nat, next_id <= next_id',
         DOMAIN tracked' \subseteq 0 .. (next_id' - 1),
         \A id \in 0 .. (next_id - 1) :
           id \in DOMAIN tracked' => Tracks(id) /\ tracked'[id] = tracked[id],
         o \in Created /\ r # Error =>
           /\ r[2] \in 0 .. (next_id' - 1)
           /\ r[2] \in DOMAIN tracked' => tracked'[r[2]] = ValueOf(c, o),
         o = "materialize" /\ r # Error => r = Own(c)
  PROVE  IInv'
<1> USE DEF clientVars, IInv
<1>1. client_key[c] # NoKey
  BY UnderWayNeeds
<1>2. /\ call' \in [Clients -> [Ops -> {"none", "ok", "error"}]]
      /\ reply' = [d \in Clients |-> [p \in Ops |-> reply'[d][p]]]
      /\ \A d \in Clients, p \in Ops : <<d, p>> # <<c, o>> =>
           call'[d][p] = call[d][p] /\ reply'[d][p] = reply[d][p]
      /\ call'[c][o] = "ok" => r # Error /\ reply'[c][o] = r
  BY ReplyEffect
<1>3. TypeInv'
  BY <1>2 DEF TypeInv
<1>4. KeyInv'
  <2>1. Tokens' = Tokens
    BY DEF Tokens
  <2>2. \A d \in Clients : client_key'[d] = NoKey =>
          d # c /\ \A p \in Ops : call'[d][p] = "none"
    BY <1>1, <1>2 DEF KeyInv
  <2> QED BY <2>1, <2>2 DEF KeyInv, Accepts, Named
<1>5. ResultIsOwn'
  BY DEF ResultIsOwn
<1>6. IdInv'
  <2> SUFFICES ASSUME NEW d \in Clients, NEW v \in Created,
                      call'[d][v] = "ok", client_key[d] = key
               PROVE  LET id == reply'[d][v][2]
                      IN /\ id \in 0 .. (next_id' - 1)
                         /\ id \in DOMAIN tracked' => tracked'[id] = ValueOf(d, v)
    BY DEF IdInv, Made, Id, Tracks, ValueOf, Own
  <2>1. CASE <<d, v>> = <<c, o>>
    BY <1>2, <2>1
  <2>2. CASE <<d, v>> # <<c, o>>
    <3>1. call[d][v] = "ok" /\ reply'[d][v] = reply[d][v]
      BY <1>2, <2>2 DEF Ops
    <3>2. /\ reply[d][v][2] \in 0 .. (next_id - 1)
          /\ Tracks(reply[d][v][2]) => tracked[reply[d][v][2]] = ValueOf(d, v)
      BY <3>1 DEF IdInv, Made, Id
    <3> QED BY <3>1, <3>2 DEF TypeInv
  <2> QED BY <2>1, <2>2
<1>7. MaterializedInv'
  BY <1>2 DEF MaterializedInv, Made, Ops, Own
<1> QED BY <1>3, <1>4, <1>5, <1>6, <1>7

\* A call that is lost or refused leaves the worker alone.
LEMMA NoCallInv ==
  ASSUME use_oak = TRUE, IInv, NEW c \in Clients, NEW o \in Ops,
         UnderWay(c, o), Reply(c, o, Error),
         UNCHANGED <<serverVars, clientVars, readBy>>
  PROVE  IInv'
<1> USE DEF serverVars
<1>1. ReadInv' /\ readBy' = [d \in Clients |-> readBy'[d]]
  BY DEF IInv, TypeInv, ReadInv, Accepts, Named
<1>2. /\ next_id' \in Nat /\ next_id <= next_id'
      /\ DOMAIN tracked' \subseteq 0 .. (next_id' - 1)
      /\ \A id \in 0 .. (next_id - 1) :
           id \in DOMAIN tracked' => Tracks(id) /\ tracked'[id] = tracked[id]
  BY DEF IInv, TypeInv, Tracks
<1> QED BY <1>1, <1>2, CallInv

\* Another process has another key: no client has it yet.
LEMMA RunServerInv ==
  ASSUME IInv, RunServer
  PROVE  IInv'
<1> USE DEF RunServer, clientVars, callVars, IInv
<1>1. TypeInv'
  BY DEF TypeInv
<1>2. Tokens \subseteq Tokens'
  BY DEF TypeInv, Tokens
<1>3. KeyInv'
  BY <1>2 DEF KeyInv, Accepts, Named
<1>4. ReadInv' /\ MaterializedInv' /\ ResultIsOwn'
  BY DEF ReadInv, Accepts, Named, Made, MaterializedInv, ResultIsOwn
<1>5. \A c \in Clients : client_key'[c] # key'
  BY DEF TypeInv
<1>6. IdInv'
  BY <1>5 DEF IdInv
<1> QED BY <1>1, <1>3, <1>4, <1>6

\* Track gives a value the next id, which nobody holds; the others stay.
LEMMA TrackEffect ==
  ASSUME TypeInv, NEW c, NEW o, NEW value, Track(c, o, value)
  PROVE  /\ next_id' \in Nat /\ next_id <= next_id'
         /\ DOMAIN tracked' \subseteq 0 .. (next_id' - 1)
         /\ \A id \in 0 .. (next_id - 1) :
              id \in DOMAIN tracked' => Tracks(id) /\ tracked'[id] = tracked[id]
         /\ \E r : /\ Reply(c, o, r)
                   /\ r # Error => /\ value # Error
                                   /\ r = <<"id", next_id>>
                                   /\ next_id' = next_id + 1
                                   /\ next_id \in DOMAIN tracked'
                                   /\ tracked'[next_id] = value
<1>1. CASE value = Error
  <2>1. /\ tracked' = [id \in DOMAIN tracked |-> tracked[id]]
        /\ next_id' = next_id + Cardinality({})
        /\ Reply(c, o, Error)
    BY <1>1 DEF Track
  <2>2. next_id' = next_id
    BY <2>1, FS_EmptySet DEF TypeInv
  <2> QED BY <2>1, <2>2 DEF TypeInv, Tracks
<1>2. CASE value # Error
  <2>1. /\ tracked' = [id \in DOMAIN tracked \cup {next_id} |->
                         IF id \in {next_id} THEN value ELSE tracked[id]]
        /\ next_id' = next_id + Cardinality({next_id})
        /\ Reply(c, o, <<"id", next_id>>)
    BY <1>2 DEF Track
  <2>2. next_id' = next_id + 1
    BY <2>1, FS_Singleton DEF TypeInv
  <2>3. next_id' \in Nat /\ next_id <= next_id'
    BY <2>2 DEF TypeInv
  <2>4. DOMAIN tracked' = DOMAIN tracked \cup {next_id}
    BY <2>1
  <2>5. DOMAIN tracked' \subseteq 0 .. (next_id' - 1)
    BY <2>2, <2>4 DEF TypeInv
  <2>6. \A id \in 0 .. (next_id - 1) : id # next_id
    BY DEF TypeInv
  <2>7. \A id \in 0 .. (next_id - 1) :
          id \in DOMAIN tracked' => Tracks(id) /\ tracked'[id] = tracked[id]
    BY <2>1, <2>4, <2>6 DEF Tracks
  <2>8. next_id \in DOMAIN tracked' /\ tracked'[next_id] = value
    BY <2>1, <2>4
  <2> QED BY <1>2, <2>1, <2>2, <2>3, <2>5, <2>7, <2>8
<1> QED BY <1>1, <1>2

\* A call of a client whose key is that of the process: what it brings is right
\* because every id the client holds was issued by this process.
LEMMA InvokeInv ==
  ASSUME use_oak = TRUE, IInv, NEW c \in Clients, NEW o \in Ops, Invoke(c, o)
  PROVE  IInv'
<1> USE DEF Invoke
<1>0. /\ UnderWay(c, o)
      /\ client_key[c] = key
      /\ client_key[c] # NoKey
      /\ UNCHANGED <<deployment, key, clientVars>>
  BY UnderWayNeeds DEF Decrypts, IInv
<1>1. readBy' = [d \in Clients |-> readBy'[d]]
  BY DEF IInv, TypeInv
<1>2. ReadInv'
  <2>1. Accepts(Provenance[c], workload)
    BY <1>0 DEF IInv, KeyInv, workload
  <2> QED BY <2>1 DEF IInv, TypeInv, ReadInv, Accepts, Named
<1>3. ASSUME o \in Created, NEW value, Track(c, o, value),
             value \in {ValueOf(c, o), Error}
      PROVE  IInv'
  <2>1. /\ next_id' \in Nat /\ next_id <= next_id'
        /\ DOMAIN tracked' \subseteq 0 .. (next_id' - 1)
        /\ \A id \in 0 .. (next_id - 1) :
             id \in DOMAIN tracked' => Tracks(id) /\ tracked'[id] = tracked[id]
    BY <1>3, TrackEffect DEF IInv
  <2>2. PICK r : /\ Reply(c, o, r)
                 /\ r # Error => /\ value # Error
                                 /\ r = <<"id", next_id>>
                                 /\ next_id' = next_id + 1
                                 /\ next_id \in DOMAIN tracked'
                                 /\ tracked'[next_id] = value
    BY <1>3, TrackEffect DEF IInv
  <2>3. r # Error => /\ r[2] = next_id
                     /\ next_id \in 0 .. (next_id' - 1)
                     /\ tracked'[next_id] = ValueOf(c, o)
    BY <1>3, <2>1, <2>2 DEF IInv, TypeInv
  <2>4. o # "materialize"
    BY <1>3 DEF Created
  <2> QED BY <1>0, <1>1, <1>2, <2>1, <2>2, <2>3, <2>4, CallInv
<1>4. CASE ExecuteCreateValue(c, o)
  BY <1>3, <1>4 DEF ExecuteCreateValue, ValueOf, Created
<1>5. CASE ExecuteCreateCall(c, o)
  <2>1. /\ Made(c, "comp") /\ Made(c, "arg") /\ o = "call"
    BY <1>0, <1>5, UnderWayNeeds DEF ExecuteCreateCall, IInv
  <2>2. /\ Tracks(Id(c, "comp")) => tracked[Id(c, "comp")] = <<"comp", c>>
        /\ Tracks(Id(c, "arg")) => tracked[Id(c, "arg")] = <<"arg", c>>
    BY <1>0, <2>1 DEF IInv, IdInv, ValueOf, Created
  <2>3. PICK value \in {Own(c), Error} : Track(c, o, value)
    BY <1>5, <2>2 DEF ExecuteCreateCall, Own
  <2> QED BY <1>3, <2>1, <2>3 DEF ValueOf, Created
<1>6. CASE ExecuteMaterialize(c, o)
  <2>1. /\ Made(c, "call") /\ o = "materialize"
    BY <1>0, <1>6, UnderWayNeeds DEF ExecuteMaterialize, IInv
  <2>2. Tracks(Id(c, "call")) => tracked[Id(c, "call")] = Own(c)
    BY <1>0, <2>1 DEF IInv, IdInv, ValueOf, Created
  <2>3. PICK r \in {Own(c), Error} : Reply(c, o, r)
    BY <1>6, <2>2 DEF ExecuteMaterialize
  <2>4. o \notin Created
    BY <2>1 DEF Created
  <2>5. /\ next_id' \in Nat /\ next_id <= next_id'
        /\ DOMAIN tracked' \subseteq 0 .. (next_id' - 1)
        /\ \A id \in 0 .. (next_id - 1) :
             id \in DOMAIN tracked' => Tracks(id) /\ tracked'[id] = tracked[id]
    BY <1>6 DEF ExecuteMaterialize, IInv, TypeInv, Tracks
  <2> QED BY <1>0, <1>1, <1>2, <2>3, <2>4, <2>5, CallInv
<1>7. CASE ExecuteDispose(c, o)
  <2>1. PICK v \in Created :
          /\ o = DropOf[v]
          /\ tracked' = [id \in DOMAIN tracked \ {Id(c, v)} |-> tracked[id]]
          /\ Reply(c, o, IF Tracks(Id(c, v)) THEN NoResult ELSE Error)
          /\ UNCHANGED next_id
    BY <1>7 DEF ExecuteDispose
  <2>2. PICK r : Reply(c, o, r)
    BY <2>1
  <2>3. o \notin Created /\ o # "materialize"
    BY <2>1 DEF DropOf, Created
  <2>4. /\ next_id' \in Nat /\ next_id <= next_id'
        /\ DOMAIN tracked' \subseteq 0 .. (next_id' - 1)
        /\ \A id \in 0 .. (next_id - 1) :
             id \in DOMAIN tracked' => Tracks(id) /\ tracked'[id] = tracked[id]
    BY <2>1 DEF IInv, TypeInv, Tracks
  <2> QED BY <1>0, <1>1, <1>2, <2>2, <2>3, <2>4, CallInv
<1> QED BY <1>4, <1>5, <1>6, <1>7 DEF GetExecutorResponse
-------------------------------------------------------------------------------
(***************************************************************************)
(* The theorems.                                                           *)
(***************************************************************************)
\* Every step keeps the invariant.
LEMMA NextInv == ASSUME use_oak = TRUE, IInv, [Next]_vars PROVE IInv'
<1>1. CASE RunServer
  BY <1>1, RunServerInv
<1>2. ASSUME NEW c \in Clients, Compute(c)
      PROVE  IInv'
  <2>1. CASE ExecuteCall(c)
    BY <2>1, ExecuteCallInv
  <2>2. CASE GetEndorsedEvidence(c)
    BY <2>2, GetEndorsedEvidenceInv
  <2>3. CASE AttestationFails(c)
    BY <2>3, FailsInv DEF AttestationFails
  <2>4. CASE Verify(c)
    BY <2>4, VerifyInv
  <2>5. CASE VerifyRefuses(c)
    BY <2>5, FailsInv DEF VerifyRefuses
  <2>6. CASE Return(c)
    BY <2>6, ReturnInv
  <2>7. ASSUME NEW o \in Ops, Invoke(c, o)
        PROVE  IInv'
    BY <2>7, InvokeInv
  <2>8. ASSUME NEW o \in Ops, InvokeFails(c, o)
        PROVE  IInv'
    BY <2>8, NoCallInv DEF InvokeFails, Reply
  <2>9. ASSUME NEW o \in Ops, Lose(c, o)
        PROVE  IInv'
    BY <2>9, NoCallInv DEF Lose, Reply
  <2> QED BY <1>2, <2>1, <2>2, <2>3, <2>4, <2>5, <2>6, <2>7, <2>8, <2>9
          DEF Compute
<1>3. CASE UNCHANGED vars
  <2> USE <1>3 DEF vars, serverVars, clientVars, callVars, IInv
  <2>1. TypeInv'
    BY DEF TypeInv
  <2>2. KeyInv' /\ ReadInv'
    <3>1. Tokens' = Tokens
      BY DEF Tokens
    <3>2. KeyInv'
      BY <3>1 DEF KeyInv
    <3>3. ReadInv'
      BY DEF ReadInv
    <3> QED BY <3>2, <3>3
  <2>3. IdInv' /\ MaterializedInv' /\ ResultIsOwn'
    BY DEF IdInv, MaterializedInv, ResultIsOwn, Made, Id, Tracks
  <2> QED BY <2>1, <2>2, <2>3
<1> QED BY <1>1, <1>2, <1>3 DEF Next

-------------------------------------------------------------------------------
(***************************************************************************)
(* What the worker holds.                                                  *)
(***************************************************************************)
\* A value in the table belongs to a client of this process, who was told its
\* id and has not disposed of it yet, or for whom the reply with the id or the
\* call that disposes of it was lost.
LeftInv ==
  \A c \in Clients : \A v \in Created :
    /\ call[c][DropOf[v]] # "none" => Made(c, v)
    /\ \A id \in DOMAIN tracked : tracked[id] = ValueOf(c, v) =>
         /\ client_key[c] = key
         /\ \/ <<c, v>> \in lost
            \/ <<c, DropOf[v]>> \in lost
            \/ Made(c, v) /\ Id(c, v) = id /\ call[c][DropOf[v]] = "none"

\* Values of different clients, or in different roles, are different.
LEMMA ValuesDiffer ==
  ASSUME NEW c \in Clients, NEW d \in Clients, NEW v \in Created, NEW w \in Created,
         ValueOf(c, v) = ValueOf(d, w)
  PROVE  c = d /\ v = w
<1>1. CASE v = "call" /\ w = "call"
  BY <1>1 DEF ValueOf, Own
<1>2. CASE v # "call" /\ w # "call"
  BY <1>2 DEF ValueOf, Created
<1>3. CASE v = "call" /\ w # "call"
  <2>1. Own(c)[1] = "ok" /\ ValueOf(d, w)[1] = w
    BY <1>3 DEF ValueOf, Own
  <2> QED BY <1>3, <2>1 DEF ValueOf, Created
<1>4. CASE v # "call" /\ w = "call"
  <2>1. Own(d)[1] = "ok" /\ ValueOf(c, v)[1] = v
    BY <1>4 DEF ValueOf, Own
  <2> QED BY <1>4, <2>1 DEF ValueOf, Created
<1> QED BY <1>1, <1>2, <1>3, <1>4

LEMMA DropsDiffer ==
  /\ \A v \in Created : DropOf[v] \in Ops /\ v \in Ops /\ DropOf[v] \notin Created
  /\ \A v, w \in Created : DropOf[v] = DropOf[w] => v = w
  BY DEF DropOf, Created, Ops, Drops

\* A call is answered or lost: the table keeps what it has, without the value
\* that the call disposes of unless it is lost, or gets the value that the call
\* creates.
LEMMA LeftKeeps ==
  ASSUME TypeInv, LeftInv, NEW c \in Clients, NEW o \in Ops, NEW r,
         call[c][o] = "none", Reply(c, o, r), UNCHANGED <<key, client_key>>,
         \A v \in Created : o = DropOf[v] => Made(c, v),
         \A id \in DOMAIN tracked' :
           \/ /\ id \in DOMAIN tracked /\ tracked'[id] = tracked[id]
              /\ client_key[c] = key =>
                   \A v \in Created :
                     o = DropOf[v] => id # Id(c, v) \/ <<c, o>> \in lost'
           \/ /\ o \in Created /\ tracked'[id] = ValueOf(c, o)
              /\ client_key[c] = key /\ r = <<"id", id>>
  PROVE  LeftInv'
<1>1. /\ \A d \in Clients, p \in Ops : <<d, p>> # <<c, o>> =>
           call'[d][p] = call[d][p] /\ reply'[d][p] = reply[d][p]
  BY ReplyEffect
<1>2. /\ lost \subseteq lost'
      /\ \/ <<c, o>> \in lost'
         \/ r = Error
         \/ call'[c][o] = "ok" /\ reply'[c][o] = r
  <2>1. CASE Answer(c, o, r)
    <3> DEFINE s == IF r = Error THEN "error" ELSE "ok"
    <3>1. /\ call' = [call EXCEPT ![c][o] = s] /\ lost' = lost
          /\ reply' = [reply EXCEPT ![c][o] = r]
      BY <2>1 DEF Answer, SetCall
    <3>2. r # Error => s = "ok"
      OBVIOUS
    <3> HIDE DEF s
    <3>3. call'[c][o] = s /\ reply'[c][o] = r
      BY <3>1 DEF TypeInv
    <3> QED BY <3>1, <3>2, <3>3
  <2>2. CASE Lost(c, o)
    BY <2>2 DEF Lost
  <2> QED BY <2>1, <2>2 DEF Reply
<1>3. ASSUME NEW d \in Clients, NEW v \in Created
      PROVE  call'[d][DropOf[v]] # "none" => Made(d, v)'
  <2>1. CASE <<d, DropOf[v]>> = <<c, o>>
    <3>1. <<d, v>> # <<c, o>> /\ Made(c, v)
      BY <2>1, DropsDiffer
    <3> QED BY <1>1, <2>1, <3>1, DropsDiffer DEF Made
  <2>2. CASE <<d, DropOf[v]>> # <<c, o>>
    <3>1. call'[d][DropOf[v]] = call[d][DropOf[v]]
      BY <1>1, <2>2, DropsDiffer
    <3>2. Made(d, v) => <<d, v>> # <<c, o>>
      BY DEF Made
    <3>3. Made(d, v) => Made(d, v)'
      BY <1>1, <3>2, DropsDiffer DEF Made
    <3> QED BY <3>1, <3>3 DEF LeftInv
  <2> QED BY <2>1, <2>2
<1>4. ASSUME NEW d \in Clients, NEW v \in Created, NEW id \in DOMAIN tracked',
             tracked'[id] = ValueOf(d, v)
      PROVE  /\ client_key[d] = key
             /\ \/ <<d, v>> \in lost'
                \/ <<d, DropOf[v]>> \in lost'
                \/ Made(d, v)' /\ Id(d, v)' = id /\ call'[d][DropOf[v]] = "none"
  <2>1. CASE /\ id \in DOMAIN tracked /\ tracked'[id] = tracked[id]
             /\ client_key[c] = key =>
                  \A w \in Created :
                    o = DropOf[w] => id # Id(c, w) \/ <<c, o>> \in lost'
    <3>1. /\ client_key[d] = key
          /\ \/ <<d, v>> \in lost
             \/ <<d, DropOf[v]>> \in lost
             \/ Made(d, v) /\ Id(d, v) = id /\ call[d][DropOf[v]] = "none"
      BY <1>4, <2>1 DEF LeftInv
    <3>2. CASE Made(d, v) /\ Id(d, v) = id /\ call[d][DropOf[v]] = "none"
      <4>1. CASE <<d, DropOf[v]>> = <<c, o>>
        BY <2>1, <3>1, <3>2, <4>1
      <4>2. CASE <<d, DropOf[v]>> # <<c, o>>
        <5>1. <<d, v>> # <<c, o>>
          BY <3>2 DEF Made
        <5> QED BY <1>1, <3>1, <3>2, <4>2, <5>1, DropsDiffer DEF Made, Id
      <4> QED BY <4>1, <4>2
    <3> QED BY <1>2, <3>1, <3>2
  <2>2. CASE /\ o \in Created /\ tracked'[id] = ValueOf(c, o)
             /\ client_key[c] = key /\ r = <<"id", id>>
    <3>1. d = c /\ v = o
      BY <1>4, <2>2, ValuesDiffer
    <3>2. r # Error /\ r[2] = id
      BY <2>2 DEF Error
    <3>3. call[c][DropOf[o]] = "none" /\ DropOf[o] # o
      BY <2>2, DropsDiffer DEF LeftInv, Made
    <3>4. call'[c][DropOf[o]] = "none"
      BY <1>1, <2>2, <3>3, DropsDiffer
    <3> QED BY <1>2, <2>2, <3>1, <3>2, <3>4 DEF Made, Id
  <2> QED BY <2>1, <2>2
<1> QED BY <1>3, <1>4 DEF LeftInv, ValueOf, Own

\* A value is disposed of only by somebody who was told its id.
LEMMA DropNeeds ==
  ASSUME NEW c \in Clients, NEW o \in Ops, UnderWay(c, o), NEW v \in Created,
         o = DropOf[v]
  PROVE  Made(c, v)
<1>1. o \in Drops /\ o \notin {"comp", "arg", "call", "materialize"}
  BY DEF Drops, DropOf, Created
<1>2. Ready(c, o) = \E w \in Created : o = DropOf[w] /\ Goes(c, w)
  BY <1>1 DEF Ready
<1> QED BY <1>2, DropsDiffer DEF UnderWay, Goes

\* A request that is served.
LEMMA LeftInvoke ==
  ASSUME use_oak = TRUE, IInv, LeftInv, NEW c \in Clients, NEW o \in Ops,
         Invoke(c, o)
  PROVE  LeftInv'
<1> USE DEF Invoke
<1>0. /\ UnderWay(c, o) /\ call[c][o] = "none" /\ TypeInv
      /\ client_key[c] = key /\ client_key[c] # NoKey
      /\ UNCHANGED <<key, client_key>>
  BY UnderWayNeeds DEF Decrypts, IInv, UnderWay, clientVars
<1>1. ASSUME o \in Created, NEW value, Track(c, o, value),
             value \in {ValueOf(c, o), Error}
      PROVE  LeftInv'
  <2>1. \A v \in Created : o # DropOf[v]
    BY <1>1, DropsDiffer
  <2>2. CASE value = Error
    <3>1. tracked' = [id \in DOMAIN tracked |-> tracked[id]] /\ Reply(c, o, Error)
      BY <1>1, <2>2 DEF Track
    <3>2. \A id \in DOMAIN tracked' : id \in DOMAIN tracked /\ tracked'[id] = tracked[id]
      BY <3>1
    <3> QED BY <1>0, <2>1, <3>1, <3>2, LeftKeeps
  <2>3. CASE value # Error
    <3>1. /\ tracked' = [id \in DOMAIN tracked \cup {next_id} |->
                           IF id \in {next_id} THEN value ELSE tracked[id]]
          /\ Reply(c, o, <<"id", next_id>>)
      BY <1>1, <2>3 DEF Track
    <3>2. \A id \in DOMAIN tracked' :
            \/ id \in DOMAIN tracked /\ tracked'[id] = tracked[id]
            \/ id = next_id /\ tracked'[id] = ValueOf(c, o)
      BY <1>1, <2>3, <3>1
    <3> DEFINE r == <<"id", next_id>>
    <3>3. \A id \in DOMAIN tracked' :
            \/ /\ id \in DOMAIN tracked /\ tracked'[id] = tracked[id]
               /\ client_key[c] = key =>
                    \A v \in Created :
                      o = DropOf[v] => id # Id(c, v) \/ <<c, o>> \in lost'
            \/ /\ o \in Created /\ tracked'[id] = ValueOf(c, o)
               /\ client_key[c] = key /\ r = <<"id", id>>
      BY <1>0, <1>1, <2>1, <3>2
    <3>4. Reply(c, o, r) /\ \A v \in Created : o = DropOf[v] => Made(c, v)
      BY <2>1, <3>1
    <3> HIDE DEF r, Invoke
    <3> QED BY <1>0, <3>3, <3>4, LeftKeeps
  <2> QED BY <2>2, <2>3
<1>2. CASE ExecuteCreateValue(c, o)
  BY <1>1, <1>2 DEF ExecuteCreateValue, ValueOf, Created
<1>3. CASE ExecuteCreateCall(c, o)
  <2>1. /\ Made(c, "comp") /\ Made(c, "arg") /\ o = "call"
    BY <1>0, <1>3, UnderWayNeeds DEF ExecuteCreateCall, IInv
  <2>2. /\ Tracks(Id(c, "comp")) => tracked[Id(c, "comp")] = <<"comp", c>>
        /\ Tracks(Id(c, "arg")) => tracked[Id(c, "arg")] = <<"arg", c>>
    BY <1>0, <2>1 DEF IInv, IdInv, ValueOf, Created
  <2>3. PICK value \in {Own(c), Error} : Track(c, o, value)
    BY <1>3, <2>2 DEF ExecuteCreateCall, Own
  <2> QED BY <1>1, <2>1, <2>3 DEF ValueOf, Created
<1>4. CASE ExecuteMaterialize(c, o)
  <2>1. /\ UNCHANGED tracked /\ \E r : Reply(c, o, r)
        /\ \A v \in Created : o # DropOf[v]
    BY <1>4, DropsDiffer DEF ExecuteMaterialize, DropOf, Created
  <2> QED BY <1>0, <2>1, LeftKeeps
<1>5. CASE ExecuteDispose(c, o)
  <2>1. PICK v \in Created :
          /\ o = DropOf[v]
          /\ tracked' = [id \in DOMAIN tracked \ {Id(c, v)} |-> tracked[id]]
          /\ Reply(c, o, IF Tracks(Id(c, v)) THEN NoResult ELSE Error)
    BY <1>5 DEF ExecuteDispose
  <2>2. PICK r : Reply(c, o, r)
    BY <2>1
  <2>3. \A w \in Created : o = DropOf[w] => w = v
    BY <2>1, DropsDiffer
  <2>4. Made(c, v)
    BY <1>0, <2>1, <2>3, DropNeeds
  <2> QED BY <1>0, <2>1, <2>2, <2>3, <2>4, LeftKeeps
<1> QED BY <1>2, <1>3, <1>4, <1>5 DEF GetExecutorResponse

LEMMA LeftStep ==
  ASSUME use_oak = TRUE, IInv, LeftInv, [Next]_vars
  PROVE  LeftInv'
<1> USE DEF IInv
<1>1. CASE RunServer
  <2>1. DOMAIN tracked' = {} /\ UNCHANGED call
    BY <1>1 DEF RunServer, callVars
  <2> QED BY <2>1 DEF LeftInv, Made
<1>2. ASSUME NEW c \in Clients, NEW o \in Ops, Invoke(c, o)
      PROVE  LeftInv'
  BY <1>2, LeftInvoke
<1>3. ASSUME NEW c \in Clients, NEW o \in Ops, InvokeFails(c, o) \/ Lose(c, o)
      PROVE  LeftInv'
  <2>1. /\ UnderWay(c, o) /\ call[c][o] = "none" /\ Reply(c, o, Error)
        /\ UNCHANGED <<tracked, key, client_key>>
        /\ client_key[c] = key => <<c, o>> \in lost'
    BY <1>3 DEF InvokeFails, Lose, Lost, UnderWay, Reply, serverVars, clientVars,
                Decrypts
  <2>2. \A v \in Created : o = DropOf[v] => Made(c, v)
    BY <2>1, DropNeeds
  <2> QED BY <2>1, <2>2, LeftKeeps
<1>4. ASSUME NEW c \in Clients, Verify(c)
      PROVE  LeftInv'
  <2>1. /\ UNCHANGED <<tracked, key, call, reply, lost>>
        /\ client_key[c] # key
        /\ \A d \in Clients \ {c} : client_key'[d] = client_key[d]
    BY <1>4 DEF Verify, serverVars, callVars, KeyInv, TypeInv, NoKey
  <2> QED BY <2>1 DEF LeftInv, Made, Id, ValueOf, Own
<1>5. CASE UNCHANGED <<tracked, key, call, reply, lost, client_key>>
  BY <1>5 DEF LeftInv, Made, Id, ValueOf, Own
<1> QED BY <1>1, <1>2, <1>3, <1>4, <1>5
        DEF Next, Compute, ExecuteCall, GetEndorsedEvidence, AttestationFails,
            VerifyRefuses, Return, Fails, vars, serverVars, clientVars, callVars
-------------------------------------------------------------------------------
\* What confidential computing is for: whatever is deployed at the address, now
\* or later, and whatever is lost, a request is read only by a workload in
\* Confidential Space whose image is the one the client asked for
\* (attestation.cc Verify, server.cc Invoke). Without Oak nothing is promised.
THEOREM Attested == Spec => []ReadByAttestedOnly
<1>1. CASE use_oak = TRUE
  <2>1. IInv => ReadByAttestedOnly
    BY DEF IInv, ReadInv, ReadByAttestedOnly, Accepts, Named
  <2>2. IInv /\ [Next]_vars => IInv'
    BY <1>1, NextInv
  <2> QED BY InitInv, <2>1, <2>2, PTL DEF Spec
<1>2. CASE use_oak = FALSE
  <2>1. ReadByAttestedOnly
    BY <1>2 DEF ReadByAttestedOnly
  <2> QED BY <2>1, PTL
<1> QED BY <1>1, <1>2, ConfidentialAssumption DEF ConfidentialAssumption

\* Behind Oak, ids that a restarted worker issues anew never confuse two
\* clients: a computation returns its own result or an error (executor.h
\* next_value_id_, server.cc Invoke).
THEOREM OwnResult == ASSUME use_oak = TRUE PROVE Spec => []ResultIsOwn
<1>1. IInv => ResultIsOwn
  BY DEF IInv
<1>2. IInv /\ [Next]_vars => IInv'
  BY NextInv
<1> QED BY InitInv, <1>1, <1>2, PTL DEF Spec

\* Behind Oak, once a client has returned and none of its calls is under way,
\* the worker holds nothing of it but what was abandoned: values whose ids it
\* was never told, values whose request to be disposed of was lost or failed,
\* which remote_executor.cc ~ExecutorValue does not look at, and, where tasks
\* own themselves, values whose ~ExecutorValue never runs. The handles release
\* the rest, also after an error.
THEOREM NothingLeft == ASSUME use_oak = TRUE PROVE Spec => []NothingIsLeft
<1>1. Init => LeftInv
  BY DEF Init, LeftInv, Created, DropOf, Ops, Drops
<1>2. IInv /\ LeftInv => NothingIsLeft
  <2> SUFFICES ASSUME IInv, LeftInv, NEW c \in Clients, NEW v \in Created,
                      Quiet(c), ~Abandoned(c, v),
                      NEW id \in DOMAIN tracked, tracked[id] = ValueOf(c, v)
               PROVE  FALSE
    BY DEF NothingIsLeft
  <2>1. /\ Made(c, v) /\ call[c][DropOf[v]] = "none" /\ stage[c] = "returned"
        /\ ~FunctorKept
    BY DEF LeftInv, Quiet, Abandoned
  <2>2. DropOf[v] \in Drops /\ DropOf[v] \notin Created /\ DropOf[v] # "materialize"
    BY DEF Drops, DropOf, Created
  <2>3. Ready(c, DropOf[v]) = \E w \in Created : DropOf[v] = DropOf[w] /\ Goes(c, w)
    BY <2>2 DEF Ready, Created
  <2>4. UnderWay(c, DropOf[v])
    BY <2>1, <2>3 DEF Goes, UnderWay
  <2> QED BY <2>4, DropsDiffer DEF Quiet
<1>3. IInv /\ LeftInv /\ [Next]_vars => IInv' /\ LeftInv'
  BY NextInv, LeftStep
<1> QED BY InitInv, <1>1, <1>2, <1>3, PTL DEF Spec
===============================================================================
