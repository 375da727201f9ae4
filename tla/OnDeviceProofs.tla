---------------------------- MODULE OnDeviceProofs ----------------------------
(***************************************************************************)
(* Proofs about module OnDevice: for any number of agents, any models and  *)
(* any bounds, the calls of a model that hold its mutex never mix their    *)
(* tokens, a key of the cache holds the latest messages put under it, and  *)
(* the context of a run that nobody overlapped is that of the run.         *)
(***************************************************************************)
EXTENDS OnDevice, SequenceTheorems, FiniteSetTheorems, WellFoundedInduction,
        TLAPS

Outside == {"idle", "called"}
Decoding == {"predict", "decode"}

LlamaTypeInv ==
  /\ client_mutex \in Callers \cup {NoCaller}
  /\ kv \in Seq(Callers)
  /\ model_ # NoConfig => model_ \in Configs
  /\ stage \in [Callers -> Stages]
  /\ prompt \in [Callers -> Nat]
  /\ answer \in [Callers -> [ok : BOOLEAN, tokens : Seq(Tokens)]]

\* Who is past the lock holds it, only calls that have decoded their prompt
\* have tokens, and they have a model.
CallInv ==
  \A c \in Callers :
    /\ stage[c] \notin Outside => client_mutex = c
    /\ stage[c] \notin Decoding \cup {"return"} => answer[c].tokens = <<>>
    /\ stage[c] = "decode" => answer[c].tokens # <<>>
    /\ stage[c] \in Decoding => model_ \in Configs

LlamaInv == LlamaTypeInv /\ CallInv /\ DecodesOwnTokens

-------------------------------------------------------------------------------
(***************************************************************************)
(* The model and its client.                                               *)
(***************************************************************************)
\* Initially nobody calls the model.
LEMMA LlamaInitInv == LlamaInit => LlamaInv
<1> SUFFICES ASSUME LlamaInit PROVE LlamaInv
  OBVIOUS
<1>1. LlamaTypeInv
  BY DEF LlamaInit, LlamaTypeInv, Stages, NoAnswer
<1>2. CallInv /\ DecodesOwnTokens
  BY DEF LlamaInit, CallInv, DecodesOwnTokens, Outside, Decoding, At, NoAnswer
<1> QED BY <1>1, <1>2 DEF LlamaInv

\* While one call is past the lock every other one is before it.
LEMMA Alone ==
  ASSUME LlamaInv, NEW c \in Callers, stage[c] \notin Outside
  PROVE  /\ client_mutex = c
         /\ \A d \in Callers \ {c} : stage[d] \in Outside /\ answer[d].tokens = <<>>
  BY DEF LlamaInv, CallInv, Outside, Decoding

\* A step of the call that is past the lock cannot disturb the others: what is
\* left to show is about that call.
LEMMA StepInv ==
  ASSUME LlamaInv, NEW c \in Callers, stage[c] \notin Outside,
         LlamaTypeInv',
         \A d \in Callers \ {c} : stage'[d] = stage[d] /\ answer'[d] = answer[d],
         stage'[c] \notin Outside => client_mutex' = c,
         stage'[c] \notin Decoding \cup {"return"} => answer'[c].tokens = <<>>,
         stage'[c] = "decode" => answer'[c].tokens # <<>>,
         stage'[c] \in Decoding => model_' \in Configs,
         stage'[c] = "predict" => kv' = Cells(c, n_current(c)'),
         stage'[c] = "decode" => kv' = Cells(c, n_current(c)' - 1),
         answer'[c].tokens # <<>> => n_current(c)' <= MaxTokens[model_'] + 1
  PROVE  LlamaInv'
<1>1. \A d \in Callers \ {c} :
        stage'[d] \in Outside /\ answer'[d].tokens = <<>>
  BY Alone
<1>2. CallInv'
  BY <1>1 DEF CallInv, Outside, Decoding
<1>3. DecodesOwnTokens'
  BY <1>1 DEF DecodesOwnTokens, At, Outside
<1> QED BY <1>2, <1>3 DEF LlamaInv

\* Making a call only notes it.
LEMMA LlamaCallInv ==
  ASSUME LlamaInv, NEW c \in Callers, NEW cfg, NEW n \in Nat,
         LlamaCall(c, cfg, n)
  PROVE  LlamaInv'
<1> USE DEF LlamaCall, At, Goto, clientVars, LlamaInv
<1>1. LlamaTypeInv'
  BY DEF LlamaTypeInv, Stages
<1>2. \A d \in Callers : stage'[d] # "called" => /\ stage'[d] = stage[d]
                                                 /\ prompt'[d] = prompt[d]
  BY DEF LlamaTypeInv
<1>3. CallInv'
  BY <1>2 DEF LlamaTypeInv, CallInv, Outside, Decoding
<1>4. answer[c].tokens = <<>>
  BY DEF CallInv, Decoding
<1>5. DecodesOwnTokens'
  <2> SUFFICES ASSUME NEW d \in Callers PROVE DecodesOwnTokens!(d)'
    BY DEF DecodesOwnTokens
  <2>1. CASE d = c
    BY <1>4, <2>1 DEF LlamaTypeInv
  <2>2. CASE d # c
    BY <2>2 DEF LlamaTypeInv, DecodesOwnTokens, n_current
  <2> QED BY <2>1, <2>2
<1> QED BY <1>1, <1>3, <1>5

\* The lock is taken when nobody has it, so nobody else is past it.
LEMMA EnterInv ==
  ASSUME handler = "shared", LlamaInv, NEW c \in Callers, Enter(c)
  PROVE  LlamaInv'
<1> USE DEF Enter, At, Goto, MayEnter, LlamaInv
<1>1. LlamaTypeInv'
  BY DEF LlamaTypeInv, Stages
<1>2. \A d \in Callers : stage[d] \in Outside /\ answer[d].tokens = <<>>
  BY LlamaCppAssumption DEF LlamaCppAssumption, CallInv, Outside, Decoding
<1>3. stage'[c] \in {"ready", "init"} /\ client_mutex' = c
  BY DEF LlamaTypeInv
<1>4. \A d \in Callers \ {c} : stage'[d] = stage[d]
  BY DEF LlamaTypeInv
<1>5. CallInv'
  BY <1>2, <1>3, <1>4 DEF CallInv, Outside, Decoding
<1>6. DecodesOwnTokens'
  BY <1>2, <1>3, <1>4 DEF DecodesOwnTokens, Outside
<1> QED BY <1>1, <1>5, <1>6

\* A call that fails has no tokens left.
LEMMA ErrsInv ==
  ASSUME LlamaInv, NEW c \in Callers, stage[c] \notin Outside, Errs(c),
         client_mutex' = client_mutex, prompt' = prompt,
         kv' \in Seq(Callers), model_' # NoConfig => model_' \in Configs
  PROVE  LlamaInv'
<1> USE DEF Errs, Goto, LlamaInv
<1>1. LlamaTypeInv'
  BY EmptySeq DEF LlamaTypeInv, Stages
<1>2. /\ stage'[c] = "return" /\ answer'[c].tokens = <<>>
      /\ \A d \in Callers \ {c} : stage'[d] = stage[d] /\ answer'[d] = answer[d]
  BY DEF LlamaTypeInv
<1> QED BY <1>1, <1>2, Alone, StepInv DEF Decoding

\* A model is loaded while no other call has tokens.
LEMMA LoadInv ==
  ASSUME LlamaInv, NEW c \in Callers, InitModel(c) \/ NewContext(c)
  PROVE  LlamaInv'
<1> USE DEF At, Goto
<1>0. /\ stage[c] \notin Outside /\ answer[c].tokens = <<>>
      /\ client_mutex' = client_mutex /\ prompt' = prompt
  BY DEF InitModel, NewContext, LlamaInv, CallInv, Outside, Decoding
<1>1. CASE InitModel(c) /\ config[c] \notin Loadable
  BY <1>0, <1>1, ErrsInv DEF InitModel, LlamaInv, LlamaTypeInv
<1>2. CASE \/ InitModel(c) /\ config[c] \in Loadable
           \/ NewContext(c)
  <2>1. answer' = answer /\ kv' \in Seq(Callers)
    BY <1>2, EmptySeq DEF InitModel, NewContext, LlamaInv, LlamaTypeInv
  <2>2. model_' # NoConfig => model_' \in Configs
    BY <1>2, LlamaCppAssumption
       DEF LlamaCppAssumption, InitModel, NewContext, LlamaInv, LlamaTypeInv
  <2>3. \E s \in {"context", "ready"} : stage' = [stage EXCEPT ![c] = s]
    BY <1>2 DEF InitModel, NewContext
  <2>4. LlamaTypeInv'
    BY <1>0, <2>1, <2>2, <2>3 DEF LlamaInv, LlamaTypeInv, Stages
  <2>5. /\ stage'[c] \in {"context", "ready"}
        /\ \A d \in Callers \ {c} : stage'[d] = stage[d]
    BY <2>3 DEF LlamaInv, LlamaTypeInv
  <2> QED BY <1>0, <2>1, <2>4, <2>5, Alone, StepInv DEF Decoding
<1> QED BY <1>1, <1>2

\* The cells of one caller, and one more.
LEMMA CellsProperties ==
  ASSUME NEW c \in Callers, NEW n \in Nat
  PROVE  /\ Cells(c, n) \in Seq(Callers)
         /\ <<>> \o Cells(c, n) = Cells(c, n)
         /\ Append(Cells(c, n), c) = Cells(c, n + 1)
<1>1. Cells(c, n) \in Seq(Callers) /\ Len(Cells(c, n)) = n
  BY DEF Cells
<1>2. <<>> \o Cells(c, n) = Cells(c, n)
  BY <1>1, ConcatEmptySeq
<1>3. Append(Cells(c, n), c) = Cells(c, n + 1)
  BY DEF Cells
<1> QED BY <1>1, <1>2, <1>3

\* The prompt is decoded into a cache that was cleared.
LEMMA PromptInv ==
  ASSUME LlamaInv, NEW c \in Callers, DecodePrompt(c) \/ PromptFails(c)
  PROVE  LlamaInv'
<1> USE DEF At, Goto
<1>0. /\ stage[c] \notin Outside /\ answer[c].tokens = <<>>
      /\ prompt[c] \in Nat /\ UNCHANGED <<client_mutex, model_, prompt>>
  BY DEF DecodePrompt, PromptFails, LlamaInv, LlamaTypeInv, CallInv, Outside,
         Decoding
<1>1. CASE DecodePrompt(c)
  <2>1. kv' = Cells(c, prompt[c]) /\ kv' \in Seq(Callers)
    BY <1>0, <1>1, CellsProperties DEF DecodePrompt, ClearedCache
  <2>2. /\ stage'[c] = "predict" /\ answer' = answer
        /\ \A d \in Callers \ {c} : stage'[d] = stage[d]
    BY <1>1 DEF DecodePrompt, LlamaInv, LlamaTypeInv
  <2>3. LlamaTypeInv'
    BY <1>0, <1>1, <2>1 DEF DecodePrompt, LlamaInv, LlamaTypeInv, Stages
  <2>4. n_current(c)' = prompt[c] /\ model_' \in Configs
    BY <1>0, <1>1, <2>2, EmptySeq
       DEF n_current, DecodePrompt, is_initialized, LlamaInv, LlamaTypeInv
  <2> QED BY <1>0, <2>1, <2>2, <2>3, <2>4, Alone, StepInv DEF Decoding
<1>2. CASE PromptFails(c)
  <2>1. kv' \in Seq(Callers)
    BY <1>2, EmptySeq DEF PromptFails, ClearedCache, LlamaInv, LlamaTypeInv
  <2> QED BY <1>0, <1>2, <2>1, ErrsInv DEF PromptFails, LlamaInv, LlamaTypeInv
<1> QED BY <1>1, <1>2

\* A token is predicted within the length the model allows, and then decoded
\* after the ones before it.
LEMMA LoopInv ==
  ASSUME LlamaInv, NEW c \in Callers,
         Predict(c) \/ Decode(c) \/ EndOfSequence(c)
  PROVE  LlamaInv'
<1> USE DEF At, Goto
<1>0. /\ stage[c] \in Decoding /\ stage[c] \notin Outside
      /\ UNCHANGED <<client_mutex, model_, prompt>>
      /\ model_ \in Configs /\ MaxTokens[model_] \in Nat
      /\ prompt[c] \in Nat /\ Len(answer[c].tokens) \in Nat
  BY LlamaCppAssumption
     DEF LlamaCppAssumption, Predict, Decode, EndOfSequence, LlamaInv,
         LlamaTypeInv, CallInv, Outside, Decoding, clientVars
<1>1. CASE Predict(c)
  <2>1. PICK t \in Tokens :
          answer' = [answer EXCEPT ![c].tokens = Append(@, t)]
    BY <1>1 DEF Predict
  <2>2. LlamaTypeInv'
    <3>1. Append(answer[c].tokens, t) \in Seq(Tokens)
      BY DEF LlamaInv, LlamaTypeInv
    <3>2. answer' \in [Callers -> [ok : BOOLEAN, tokens : Seq(Tokens)]]
      BY <2>1, <3>1 DEF LlamaInv, LlamaTypeInv
    <3>3. stage' \in [Callers -> Stages]
      BY <1>1 DEF Predict, LlamaInv, LlamaTypeInv, Stages
    <3> QED BY <1>1, <3>2, <3>3 DEF Predict, clientVars, LlamaInv, LlamaTypeInv
  <2>3. /\ stage'[c] = "decode" /\ kv' = kv
        /\ \A d \in Callers \ {c} :
             stage'[d] = stage[d] /\ answer'[d] = answer[d]
    BY <1>1, <2>1 DEF Predict, clientVars, LlamaInv, LlamaTypeInv
  <2>4. n_current(c)' = n_current(c) + 1 /\ answer'[c].tokens # <<>>
    <3>1. answer'[c].tokens = Append(answer[c].tokens, t)
      BY <2>1 DEF LlamaInv, LlamaTypeInv
    <3>2. answer[c].tokens \in Seq(Tokens)
      BY DEF LlamaInv, LlamaTypeInv
    <3>3. /\ Len(answer'[c].tokens) = Len(answer[c].tokens) + 1
          /\ answer'[c].tokens # <<>>
      BY <3>1, <3>2
    <3> QED BY <1>0, <3>3 DEF n_current
  <2>5. kv = Cells(c, n_current(c)) /\ n_current(c) <= MaxTokens[model_]
    BY <1>1 DEF Predict, MayPredict, LlamaInv, DecodesOwnTokens
  <2>6. n_current(c) \in Nat
    BY <1>0 DEF n_current
  <2>7. /\ kv' = Cells(c, n_current(c)' - 1)
        /\ n_current(c)' <= MaxTokens[model_'] + 1
    BY <1>0, <2>3, <2>4, <2>5, <2>6
  <2> QED BY <1>0, <2>2, <2>3, <2>4, <2>7, Alone, StepInv DEF Decoding
<1>2. CASE Decode(c) /\ Errs(c) /\ UNCHANGED kv
  BY <1>0, <1>2, ErrsInv DEF LlamaInv, LlamaTypeInv
<1>3. CASE Decode(c) /\ kv' = Append(kv, c) /\ Goto(c, "predict")
           /\ UNCHANGED answer
  <2>1. /\ kv = Cells(c, n_current(c) - 1) /\ answer[c].tokens # <<>>
        /\ n_current(c) <= MaxTokens[model_] + 1
    BY <1>3 DEF Decode, LlamaInv, CallInv, DecodesOwnTokens
  <2>2. n_current(c) - 1 \in Nat
    BY <1>0, <2>1, EmptySeq DEF n_current, LlamaInv, LlamaTypeInv
  <2>3. kv' = Cells(c, n_current(c)) /\ kv' \in Seq(Callers)
    <3>1. (n_current(c) - 1) + 1 = n_current(c) /\ n_current(c) \in Nat
      BY <1>0 DEF n_current
    <3>2. Append(Cells(c, n_current(c) - 1), c) = Cells(c, n_current(c))
      BY <2>2, <3>1, CellsProperties
    <3> QED BY <1>3, <2>1, <3>1, <3>2, CellsProperties
  <2>4. /\ stage'[c] = "predict" /\ n_current(c)' = n_current(c)
        /\ \A d \in Callers \ {c} : stage'[d] = stage[d]
    BY <1>0, <1>3 DEF n_current, LlamaInv, LlamaTypeInv
  <2>5. LlamaTypeInv'
    BY <1>0, <1>3, <2>3 DEF LlamaInv, LlamaTypeInv, Stages
  <2> QED BY <1>0, <1>3, <2>1, <2>3, <2>4, <2>5, Alone, StepInv DEF Decoding
<1>4. CASE EndOfSequence(c)
  <2>1. /\ stage'[c] = "return" /\ UNCHANGED <<kv, answer>>
        /\ \A d \in Callers \ {c} : stage'[d] = stage[d]
        /\ n_current(c)' = n_current(c)
    BY <1>0, <1>4
       DEF EndOfSequence, clientVars, n_current, LlamaInv, LlamaTypeInv
  <2>2. LlamaTypeInv'
    BY <1>0, <1>4, <2>1 DEF EndOfSequence, LlamaInv, LlamaTypeInv, Stages
  <2>3. answer[c].tokens # <<>> => n_current(c) <= MaxTokens[model_] + 1
    BY DEF LlamaInv, DecodesOwnTokens
  <2> QED BY <1>0, <2>1, <2>2, <2>3, Alone, StepInv DEF Decoding
<1> QED BY <1>1, <1>2, <1>3, <1>4 DEF Decode

\* The call returns and the lock with it.
LEMMA LlamaReturnInv ==
  ASSUME LlamaInv, NEW c \in Callers, LlamaReturn(c)
  PROVE  LlamaInv'
<1> USE DEF LlamaReturn, At, Goto
<1>1. stage[c] \notin Outside
  BY DEF Outside
<1>2. LlamaTypeInv'
  BY EmptySeq DEF LlamaInv, LlamaTypeInv, Stages, Unlocked, NoAnswer
<1>3. /\ stage'[c] = "idle" /\ answer'[c].tokens = <<>>
      /\ \A d \in Callers \ {c} : stage'[d] = stage[d] /\ answer'[d] = answer[d]
  BY DEF LlamaInv, LlamaTypeInv, NoAnswer
<1> QED BY <1>1, <1>2, <1>3, Alone, StepInv DEF Outside, Decoding
-------------------------------------------------------------------------------
(***************************************************************************)
(* The cache.                                                              *)
(***************************************************************************)
\* Both tables hold sequences, and a key the latest messages put under it.
CacheInv ==
  /\ \E S : cache_ \in [CacheKeys -> Seq(S)] /\ written \in [CacheKeys -> Seq(S)]
  /\ \A k \in CacheKeys : cache_[k] = LastOf(max_messages_per_key_, written[k])

\* The last n of a sequence: as many as there are up to n, counted from its end.
LEMMA LastOfProperties ==
  ASSUME NEW S, NEW s \in Seq(S), NEW n \in Nat \ {0}
  PROVE  /\ LastOf(n, s) \in Seq(S)
         /\ Len(LastOf(n, s)) = IF n < Len(s) THEN n ELSE Len(s)
         /\ \A j \in 1 .. Len(LastOf(n, s)) :
              LastOf(n, s)[j] = s[Len(s) - Len(LastOf(n, s)) + j]
<1>1. CASE n < Len(s)
  <2>1. \A j \in Len(s) - n + 1 .. Len(s) : s[j] \in S
    BY <1>1, ElementOfSeq
  <2>2. LastOf(n, s) = SubSeq(s, Len(s) - n + 1, Len(s))
    BY <1>1 DEF LastOf
  <2> DEFINE lo == Len(s) - n + 1
  <2>3. /\ lo \in Int /\ Len(s) \in Int /\ lo <= Len(s)
        /\ Len(s) - lo + 1 = n
        /\ \A j \in 1 .. n : lo + j - 1 = Len(s) - n + j
    BY <1>1
  <2> HIDE DEF lo
  <2>4. /\ SubSeq(s, lo, Len(s)) \in Seq(S)
        /\ Len(SubSeq(s, lo, Len(s))) = n
        /\ \A j \in 1 .. n : SubSeq(s, lo, Len(s))[j] = s[lo + j - 1]
    BY <2>1, <2>3, SubSeqProperties DEF lo
  <2>5. LastOf(n, s) = SubSeq(s, lo, Len(s))
    BY <2>2 DEF lo
  <2> QED BY <1>1, <2>3, <2>4, <2>5
<1>2. CASE ~(n < Len(s))
  <2>1. LastOf(n, s) = s
    BY <1>2 DEF LastOf
  <2> QED BY <1>2, <2>1
<1> QED BY <1>1, <1>2

\* The last n of the last m are the last n of all.
LEMMA LastOfLast ==
  ASSUME NEW S, NEW s \in Seq(S), NEW m \in Nat \ {0}, NEW n \in 1 .. m
  PROVE  LastOf(n, LastOf(m, s)) = LastOf(n, s)
<1> DEFINE t == LastOf(m, s)
<1>1. /\ t \in Seq(S) /\ Len(t) = IF m < Len(s) THEN m ELSE Len(s)
      /\ \A j \in 1 .. Len(t) : t[j] = s[Len(s) - Len(t) + j]
  BY LastOfProperties
<1> HIDE DEF t
<1> DEFINE a == LastOf(n, t)
           b == LastOf(n, s)
<1>0. n \in Nat \ {0}
  OBVIOUS
<1>2. /\ a \in Seq(S) /\ Len(a) = IF n < Len(t) THEN n ELSE Len(t)
      /\ \A j \in 1 .. Len(a) : a[j] = t[Len(t) - Len(a) + j]
  BY <1>0, <1>1, LastOfProperties
<1>3. /\ b \in Seq(S) /\ Len(b) = IF n < Len(s) THEN n ELSE Len(s)
      /\ \A j \in 1 .. Len(b) : b[j] = s[Len(s) - Len(b) + j]
  BY <1>0, LastOfProperties
<1> HIDE DEF a, b
<1>4. Len(s) \in Nat /\ Len(t) \in Nat /\ Len(a) \in Nat
  BY <1>1, <1>2
<1>5. Len(a) = Len(b) /\ Len(a) <= Len(t)
  BY <1>1, <1>2, <1>3, <1>4
<1>6. ASSUME NEW j \in 1 .. Len(a)
      PROVE  a[j] = b[j]
  <2>1. Len(t) - Len(a) + j \in 1 .. Len(t)
    BY <1>4, <1>5
  <2>2. a[j] = s[Len(s) - Len(t) + (Len(t) - Len(a) + j)]
    BY <1>1, <1>2, <2>1
  <2>3. Len(s) - Len(t) + (Len(t) - Len(a) + j) = Len(s) - Len(b) + j
    BY <1>4, <1>5
  <2> QED BY <1>3, <1>5, <2>2, <2>3
<1>7. a = b
  BY <1>2, <1>3, <1>5, <1>6, SeqEqual
<1> QED BY <1>7 DEF a, b, t

\* Making room and adding a message is to keep the latest of one message more.
LEMMA PrunedAppend ==
  ASSUME NEW S, NEW s \in Seq(S), NEW x \in S
  PROVE  Append(Pruned(LastOf(max_messages_per_key_, s)), x)
           = LastOf(max_messages_per_key_, Append(s, x))
<1> DEFINE m == max_messages_per_key_
           t == LastOf(m, s)
           u == Append(s, x)
           a == Append(Pruned(t), x)
           b == LastOf(m, u)
<1>0. m \in Nat \ {0}
  BY LocalCacheAssumption DEF LocalCacheAssumption
<1> HIDE DEF m
<1>1. /\ t \in Seq(S) /\ Len(t) = IF m < Len(s) THEN m ELSE Len(s)
      /\ \A j \in 1 .. Len(t) : t[j] = s[Len(s) - Len(t) + j]
  BY <1>0, LastOfProperties
<1>2. /\ u \in Seq(S) /\ Len(u) = Len(s) + 1 /\ u[Len(s) + 1] = x
      /\ \A j \in 1 .. Len(s) : u[j] = s[j]
  OBVIOUS
<1> HIDE DEF t, u
<1>3. /\ b \in Seq(S) /\ Len(b) = IF m < Len(u) THEN m ELSE Len(u)
      /\ \A j \in 1 .. Len(b) : b[j] = u[Len(u) - Len(b) + j]
  BY <1>0, <1>2, LastOfProperties
<1> HIDE DEF b
<1> DEFINE p == Pruned(t)
<1>4. Len(s) \in Nat /\ Len(t) \in Nat
  BY <1>1
<1>5. /\ p \in Seq(S) /\ Len(p) = IF Len(s) >= m THEN m - 1 ELSE Len(s)
      /\ \A j \in 1 .. Len(p) : p[j] = s[Len(s) - Len(p) + j]
  <2>1. CASE Len(t) >= m
    <3>1. t # <<>> /\ p = Tail(t)
      BY <1>0, <2>1, EmptySeq DEF Pruned, m
    <3>2. /\ p \in Seq(S) /\ Len(p) = Len(t) - 1
          /\ \A j \in 1 .. Len(p) : p[j] = t[j + 1]
      BY <1>1, <3>1, HeadTailProperties
    <3>3. Len(s) >= m /\ Len(p) = m - 1
      BY <1>0, <1>1, <1>4, <2>1, <3>2
    <3>4. ASSUME NEW j \in 1 .. Len(p)
          PROVE  p[j] = s[Len(s) - Len(p) + j]
      <4>1. p[j] = t[j + 1] /\ j + 1 \in 1 .. Len(t)
        BY <1>0, <1>4, <3>2, <3>3
      <4>2. p[j] = s[Len(s) - Len(t) + (j + 1)]
        BY <1>1, <4>1
      <4>3. Len(s) - Len(t) + (j + 1) = Len(s) - Len(p) + j
        BY <1>4, <3>2
      <4> QED BY <4>2, <4>3
    <3> QED BY <3>2, <3>3, <3>4
  <2>2. CASE ~(Len(t) >= m)
    <3>1. p = t
      BY <2>2 DEF Pruned, m
    <3>2. ~(Len(s) >= m) /\ Len(t) = Len(s)
      BY <1>0, <1>1, <1>4, <2>2
    <3> QED BY <1>1, <3>1, <3>2
  <2> QED BY <2>1, <2>2
<1> HIDE DEF p
<1>6. /\ a \in Seq(S) /\ Len(a) = Len(p) + 1 /\ a[Len(p) + 1] = x
      /\ \A j \in 1 .. Len(p) : a[j] = p[j]
  BY <1>5 DEF p
<1> HIDE DEF a
<1>7. Len(a) = Len(b) /\ Len(p) <= Len(s) /\ Len(p) \in Nat
  BY <1>0, <1>2, <1>3, <1>4, <1>5, <1>6
<1>8. ASSUME NEW j \in 1 .. Len(a)
      PROVE  a[j] = b[j]
  <2>1. b[j] = u[Len(s) - Len(p) + j]
    <3>1. b[j] = u[Len(u) - Len(b) + j]
      BY <1>3, <1>7
    <3>2. Len(u) = Len(s) + 1 /\ Len(b) = Len(p) + 1
      BY <1>2, <1>6, <1>7
    <3>3. Len(u) - Len(b) + j = Len(s) - Len(p) + j
      BY <1>4, <1>7, <3>2
    <3> QED BY <3>1, <3>3
  <2>2. CASE j = Len(p) + 1
    BY <1>2, <1>4, <1>6, <1>7, <2>1, <2>2
  <2>3. CASE j # Len(p) + 1
    <3>1. j \in 1 .. Len(p) /\ Len(s) - Len(p) + j \in 1 .. Len(s)
      BY <1>4, <1>6, <1>7, <2>3
    <3> QED BY <1>2, <1>5, <1>6, <2>1, <3>1
  <2> QED BY <2>2, <2>3
<1>9. a = b
  BY <1>3, <1>6, <1>7, <1>8, SeqEqual
<1> QED BY <1>9 DEF a, b, t, u, m

\* The cache starts without an entry.
LEMMA CacheInitInv == CacheInit => CacheInv
<1> SUFFICES ASSUME CacheInit PROVE CacheInv
  OBVIOUS
<1>1. cache_ \in [CacheKeys -> Seq({})] /\ written \in [CacheKeys -> Seq({})]
  BY EmptySeq DEF CacheInit
<1>2. LastOf(max_messages_per_key_, <<>>) = <<>>
  BY LocalCacheAssumption DEF LocalCacheAssumption, LastOf
<1> QED BY <1>1, <1>2 DEF CacheInit, CacheInv

\* Put keeps the latest messages.
LEMMA PutInv ==
  ASSUME CacheInv, NEW k \in CacheKeys, NEW message, PutMessage(k, message)
  PROVE  CacheInv'
<1> USE DEF PutMessage
<1>1. PICK S : cache_ \in [CacheKeys -> Seq(S)] /\ written \in [CacheKeys -> Seq(S)]
  BY DEF CacheInv
<1> DEFINE T == S \cup {message}
<1>2. cache_ \in [CacheKeys -> Seq(T)] /\ written \in [CacheKeys -> Seq(T)]
  BY <1>1, SeqMonotonic
<1>3. message \in T
  OBVIOUS
<1> HIDE DEF T
<1>4. cache_[k] = LastOf(max_messages_per_key_, written[k])
  BY DEF CacheInv
<1>5. Append(Pruned(cache_[k]), message)
        = LastOf(max_messages_per_key_, Append(written[k], message))
  BY <1>2, <1>3, <1>4, PrunedAppend
<1>6. /\ Append(written[k], message) \in Seq(T)
      /\ Append(Pruned(cache_[k]), message) \in Seq(T)
  <2>1. Append(written[k], message) \in Seq(T)
    BY <1>2, <1>3
  <2>2. max_messages_per_key_ \in Nat \ {0}
    BY LocalCacheAssumption DEF LocalCacheAssumption
  <2> QED BY <1>5, <2>1, <2>2, LastOfProperties
<1>7. cache_' \in [CacheKeys -> Seq(T)] /\ written' \in [CacheKeys -> Seq(T)]
  BY <1>2, <1>6
<1>8. \A j \in CacheKeys :
        cache_'[j] = LastOf(max_messages_per_key_, written'[j])
  BY <1>2, <1>5 DEF CacheInv
<1> QED BY <1>7, <1>8 DEF CacheInv

\* Removing a key removes both.
LEMMA RemoveInv ==
  ASSUME CacheInv, NEW k \in CacheKeys, RemoveKey(k)
  PROVE  CacheInv'
<1> USE DEF RemoveKey
<1>1. PICK S : cache_ \in [CacheKeys -> Seq(S)] /\ written \in [CacheKeys -> Seq(S)]
  BY DEF CacheInv
<1>2. cache_' \in [CacheKeys -> Seq(S)] /\ written' \in [CacheKeys -> Seq(S)]
  BY <1>1, EmptySeq
<1>3. LastOf(max_messages_per_key_, <<>>) = <<>>
  BY LocalCacheAssumption DEF LocalCacheAssumption, LastOf
<1> QED BY <1>1, <1>2, <1>3 DEF CacheInv

\* What the invariant says of Get, GetLast and Exists.
LEMMA CacheInvSuffices == CacheInv => ContextIsRecentWrites
<1> SUFFICES ASSUME CacheInv, NEW k \in CacheKeys
             PROVE  ContextIsRecentWrites!(k)
  BY DEF ContextIsRecentWrites
<1> DEFINE m == max_messages_per_key_
<1>0. m \in Nat \ {0}
  BY LocalCacheAssumption DEF LocalCacheAssumption
<1>1. PICK S : written[k] \in Seq(S)
  BY DEF CacheInv
<1>2. cache_[k] = LastOf(m, written[k])
  BY DEF CacheInv
<1>3. \A n \in 1 .. m : GetLast(k, n) = LastOf(n, written[k])
  BY <1>0, <1>1, <1>2, LastOfLast DEF GetLast
<1>4. /\ cache_[k] \in Seq(S)
      /\ Len(cache_[k]) = IF m < Len(written[k]) THEN m ELSE Len(written[k])
  BY <1>0, <1>1, <1>2, LastOfProperties
<1>5. Len(cache_[k]) = 0 <=> Len(written[k]) = 0
  BY <1>0, <1>1, <1>4
<1>6. Exists(k) <=> written[k] # <<>>
  BY <1>1, <1>4, <1>5, EmptySeq DEF Exists
<1> QED BY <1>2, <1>3, <1>6
-------------------------------------------------------------------------------
(***************************************************************************)
(* What ReAct reads in an answer.                                          *)
(***************************************************************************)
\* A set of numbers that is not empty has a least one.
LEMMA LeastNumber ==
  ASSUME NEW T \in SUBSET Nat, T # {}
  PROVE  \E x \in T : \A y \in T : x <= y
<1>1. \E R : /\ \E x \in T : \A y \in T : ~ (<<y, x>> \in R)
             /\ \A x, y \in Nat : y < x => <<y, x>> \in R
  <2>1. \E x \in T : \A y \in T : ~ (<<y, x>> \in OpToRel(<, Nat))
    BY NatLessThanWellFounded, WFMin
  <2>2. \A x, y \in Nat : y < x => <<y, x>> \in OpToRel(<, Nat)
    BY DEF OpToRel
  <2> QED BY <2>1, <2>2, Zenon
<1>2. PICK x \in T : \A y \in T : ~(y < x)
  BY <1>1
<1> QED BY <1>2

\* A pattern finds one of the lines it looks for, or nothing.
LEMMA FirstOfProperties ==
  ASSUME NEW S, NEW text \in Seq(S), NEW lines
  PROVE  FirstOf(text, lines) \in Seq(lines)
<1>1. CASE Has(text, lines)
  <2> DEFINE hits == {n \in 1 .. Len(text) : text[n] \in lines}
             first(n) == /\ text[n] \in lines
                         /\ \A m \in 1 .. (n - 1) : text[m] \notin lines
  <2>1. hits \in SUBSET Nat /\ hits # {}
    BY <1>1 DEF Has
  <2>2. PICK x \in hits : \A y \in hits : x <= y
    BY <2>1, LeastNumber
  <2>3. x \in 1 .. Len(text) /\ first(x)
    <3> SUFFICES ASSUME NEW m \in 1 .. (x - 1), text[m] \in lines PROVE FALSE
      BY <2>2
    <3>1. m \in hits
      BY <2>2
    <3> QED BY <2>2, <3>1
  <2>4. PICK n : /\ n = CHOOSE k \in 1 .. Len(text) : first(k)
                 /\ n \in 1 .. Len(text) /\ first(n)
    BY <2>3
  <2>5. FirstOf(text, lines) = <<text[n]>>
    BY <1>1, <2>4 DEF FirstOf
  <2> QED BY <2>4, <2>5
<1>2. CASE ~Has(text, lines)
  BY <1>2, EmptySeq DEF FirstOf
<1> QED BY <1>1, <1>2

\* What comes before the first observation is a text.
LEMMA BeforeObservationIsText ==
  ASSUME NEW S, NEW text \in Seq(S)
  PROVE  BeforeFirstObservationOrOriginalText(text) \in Seq(S)
<1> DEFINE before == {n \in 1 .. Len(text) :
                        \A m \in 1 .. n : text[m] # "observation"}
<1>0. 1 \in Int /\ Len(text) \in Int /\ Len(text) >= 0
  OBVIOUS
<1>1. IsFiniteSet(1 .. Len(text)) /\ Cardinality(1 .. Len(text)) = Len(text)
  BY <1>0, FS_Interval, SMTT(20)
<1>2. before \in SUBSET (1 .. Len(text))
  OBVIOUS
<1> HIDE DEF before
<1>3. Cardinality(before) \in Nat /\ Cardinality(before) <= Len(text)
  BY <1>1, <1>2, FS_Subset, FS_CardinalityType
<1>4. SubSeq(text, 1, Cardinality(before)) \in Seq(S)
  <2>1. \A m \in 1 .. Cardinality(before) : text[m] \in S
    BY <1>3, ElementOfSeq
  <2> QED BY <1>3, <2>1, SubSeqProperties
<1>5. BeforeFirstObservationOrOriginalText(text)
        = SubSeq(text, 1, Cardinality(before))
  BY DEF BeforeFirstObservationOrOriginalText, before
<1> QED BY <1>4, <1>5

\* What the chain takes from an answer is a thought and an action, whatever the
\* model wrote, and never an observation.
LEMMA ParseKeepsNoObservation ==
  ASSUME NEW S, NEW text \in Seq(S)
  PROVE  ParseThoughtAction(text) \in Seq({"thought", "math", "finish"})
<1> DEFINE T == {"thought", "math", "finish"}
           input == BeforeFirstObservationOrOriginalText(text)
           action == FirstOf(input, {"math", "finish"})
<1>1. input \in Seq(S)
  BY BeforeObservationIsText
<1> HIDE DEF input
<1>2. FirstOf(input, {"thought"}) \in Seq(T)
  BY <1>1, FirstOfProperties, SeqMonotonic, {"thought"} \subseteq T
<1>3. action \in Seq(T)
  BY <1>1, FirstOfProperties, SeqMonotonic, {"math", "finish"} \subseteq T
<1>4. ExtractFinish(input) \in Seq(T)
  <2>1. <<>> \in Seq(T) /\ <<"finish">> \in Seq(T)
    OBVIOUS
  <2> HIDE DEF T
  <2> QED BY <2>1 DEF ExtractFinish
<1> HIDE DEF T, action
<1>5. ParseThoughtAction(text)
        = FirstOf(input, {"thought"})
            \o (IF action = <<>> THEN ExtractFinish(input) ELSE action)
  BY DEF ParseThoughtAction, input, action
<1>6. ParseThoughtAction(text) \in Seq(T)
  BY <1>2, <1>3, <1>4, <1>5, ConcatProperties
<1> QED BY <1>6 DEF T
-------------------------------------------------------------------------------
(***************************************************************************)
(* The context of a run. An agent that started while nobody ran, and since *)
(* whose start nobody else did, is the only one that runs; the messages    *)
(* under the key are then its own and their number tells where it is.      *)
(***************************************************************************)
Answers == [ok : BOOLEAN, tokens : Seq(Tokens)]

AgentTypeInv ==
  /\ at \in [Callers -> Places]
  /\ state \in [Callers -> Seq(Lines)]
  /\ alone \in [Callers -> BOOLEAN]
  /\ answer \in [Callers -> Answers]

\* What goes down the chain on the way to each place.
Carries(place, text) ==
  /\ place \in {"evict", "question"} => text = <<"question">>
  /\ place = "parse" => text \in Seq({"thought", "math", "finish"})
  /\ place = "observation" => text = <<"observation">>

\* What the context holds when the agent that is alone is at each place.
Holds(a, place, messages) ==
  /\ place = "question" => Len(messages) = 0
  /\ place \in {"read", "model", "parse"} => Len(messages) % 2 = 1
  /\ place \in {"tool", "observation"} =>
       Len(messages) > 0 /\ Len(messages) % 2 = 0
  /\ place # "evict" =>
       \A n \in 1 .. Len(messages) :
         messages[n].by = a /\ AsMeant(n, messages[n].text)

AloneInv ==
  \A a \in Callers :
    alone[a] => Running(a) /\ \A b \in Others(a) : ~Running(b)

RunInv ==
  /\ AgentTypeInv
  /\ AloneInv
  /\ \A a \in Callers : Carries(at[a], state[a])
  /\ \A a \in Callers : alone[a] => Holds(a, at[a], written[default_key])

\* Nobody runs at first.
LEMMA RunInitInv == Init => RunInv
<1> SUFFICES ASSUME Init PROVE RunInv
  OBVIOUS
<1>1. AgentTypeInv
  BY EmptySeq DEF Init, LlamaInit, NoAnswer, AgentTypeInv, Places, Answers
<1> QED BY <1>1 DEF Init, RunInv, AloneInv, Carries

\* A step of one agent that moves it on to a place, with what this place asks.
LEMMA GoInv ==
  ASSUME RunInv, NEW a \in Callers, Running(a), answer' \in [Callers -> Answers],
         NEW place \in Places \ {"idle"}, NEW text \in Seq(Lines),
         Go(a, place, text), UNCHANGED alone,
         Carries(place, text),
         alone[a] => Holds(a, place, written'[default_key])
  PROVE  RunInv'
<1>1. AgentTypeInv'
  BY DEF RunInv, AgentTypeInv, Go
<1>2. /\ at'[a] = place /\ state'[a] = text
      /\ \A b \in Others(a) : at'[b] = at[b] /\ state'[b] = state[b]
  BY DEF RunInv, AgentTypeInv, Go, Others
<1>3. AloneInv'
  BY <1>2 DEF RunInv, AloneInv, Running, Others
<1>4. \A b \in Callers : Carries(at[b], state[b])'
  BY <1>2 DEF RunInv, Others, Carries
<1>5. \A b \in Callers : alone[b] => b = a
  BY DEF RunInv, AloneInv, Others
<1> QED BY <1>1, <1>2, <1>3, <1>4, <1>5 DEF RunInv, Holds

\* An agent whose run ends holds nothing.
LEMMA ReturnInv ==
  ASSUME RunInv, NEW a \in Callers, Running(a), answer' \in [Callers -> Answers],
         Return(a)
  PROVE  RunInv'
<1> USE DEF Return, Go
<1>1. AgentTypeInv'
  BY EmptySeq DEF RunInv, AgentTypeInv, Places
<1>2. /\ at'[a] = "idle" /\ ~alone'[a]
      /\ \A b \in Others(a) : /\ at'[b] = at[b] /\ state'[b] = state[b]
                              /\ alone'[b] = alone[b]
  BY DEF RunInv, AgentTypeInv, Others
<1>3. \A b \in Callers : ~alone'[b]
  BY <1>2 DEF RunInv, AgentTypeInv, AloneInv, Others
<1>4. \A b \in Callers : Carries(at[b], state[b])'
  BY <1>2 DEF RunInv, Others, Carries
<1> QED BY <1>1, <1>3, <1>4 DEF RunInv, AloneInv

\* A run that starts ends that of an agent as the only one.
LEMMA RunStarts ==
  ASSUME RunInv, NEW a \in Callers, Run(a)
  PROVE  RunInv'
<1> USE DEF Run, Go
<1>1. AgentTypeInv'
  BY DEF RunInv, AgentTypeInv, Places, Lines, llamaVars, callVars
<1>2. /\ at'[a] = "evict" /\ state'[a] = <<"question">>
      /\ \A b \in Others(a) : at'[b] = at[b] /\ state'[b] = state[b]
  BY DEF RunInv, AgentTypeInv, Others
<1>3. \A b \in Callers :
        alone'[b] => b = a /\ \A c \in Others(a) : ~Running(c)
  OBVIOUS
<1>4. AloneInv'
  BY <1>2, <1>3 DEF AloneInv, Running, Others
<1>5. \A b \in Callers : Carries(at[b], state[b])'
  BY <1>2 DEF RunInv, Others, Carries
<1>6. \A b \in Callers : alone'[b] => Holds(b, at[b], written[default_key])'
  BY <1>2, <1>3 DEF Holds
<1> QED BY <1>1, <1>4, <1>5, <1>6 DEF RunInv

\* The numbers of the messages are odd and even in turn.
LEMMA Parity ==
  ASSUME NEW n \in Nat
  PROVE  /\ n % 2 = 1 => (n + 1) % 2 = 0 /\ n + 1 > 1 /\ n + 1 # 1
         /\ n % 2 = 0 /\ n > 0 => (n + 1) % 2 = 1 /\ n + 1 > 1 /\ n + 1 # 1
OBVIOUS

\* What is meant after the question.
LEMMA LaterText ==
  ASSUME NEW n \in Nat, n > 1, n # 1, NEW text
  PROVE  /\ n % 2 = 0 => (AsMeant(n, text)
                             <=> ~Has(text, {"observation", "finish", "bare"}))
         /\ n % 2 = 1 => (AsMeant(n, text) <=> text = <<"observation">>)
<1>1. CASE n % 2 = 0
  <2>1. n > 1 /\ n % 2 = 0 /\ ~(n > 1 /\ n % 2 = 1)
    BY <1>1
  <2> QED BY <1>1, <2>1, Zenon DEF AsMeant
<1>2. CASE n % 2 = 1
  <2>1. n > 1 /\ n % 2 = 1 /\ ~(n > 1 /\ n % 2 = 0)
    BY <1>2
  <2> QED BY <1>2, <2>1, Zenon DEF AsMeant
<1> QED BY <1>1, <1>2

\* One message more, which is what its place in the run asks for.
LEMMA WriteHolds ==
  ASSUME CacheInv, NEW a \in Callers, NEW text,
         LocalCacheWrite(Message(a, text)),
         \A n \in 1 .. Len(written[default_key]) :
           /\ written[default_key][n].by = a
           /\ AsMeant(n, written[default_key][n].text),
         AsMeant(Len(written[default_key]) + 1, text)
  PROVE  /\ Len(written[default_key]) \in Nat
         /\ Len(written'[default_key]) = Len(written[default_key]) + 1
         /\ \A n \in 1 .. Len(written'[default_key]) :
              /\ written'[default_key][n].by = a
              /\ AsMeant(n, written'[default_key][n].text)
<1> DEFINE w == written[default_key]
           m == Message(a, text)
<1>1. PICK S : written \in [CacheKeys -> Seq(S)]
  BY DEF CacheInv
<1>2. w \in Seq(S) /\ written'[default_key] = Append(w, m)
  BY <1>1, LocalCacheAssumption
     DEF LocalCacheAssumption, LocalCacheWrite, PutMessage
<1>3. m.by = a /\ m.text = text
  BY DEF Message
<1> HIDE DEF w, m
<1>4. /\ Len(Append(w, m)) = Len(w) + 1 /\ Len(w) \in Nat
      /\ Append(w, m)[Len(w) + 1] = m
      /\ \A n \in 1 .. Len(w) : Append(w, m)[n] = w[n]
  <2>1. w \in Seq(S \cup {m})
    BY <1>2, SeqMonotonic
  <2> QED BY <2>1, AppendProperties
<1>5. \A n \in 1 .. Len(w) + 1 : n = Len(w) + 1 \/ n \in 1 .. Len(w)
  BY <1>4
<1> QED BY <1>2, <1>3, <1>4, <1>5 DEF w

\* What the model does leaves answers.
LEMMA AnswersStay ==
  ASSUME answer \in [Callers -> Answers], [Next]_vars
  PROVE  answer' \in [Callers -> Answers]
<1>1. CASE UNCHANGED answer
  BY <1>1
<1>2. ASSUME NEW c \in Callers, LlamaStep(c)
      PROVE  answer' \in [Callers -> Answers]
  <2>1. CASE Errs(c)
    BY <2>1, EmptySeq DEF Errs, Answers
  <2>2. CASE Predict(c)
    <3>1. PICK t \in Tokens :
            answer' = [answer EXCEPT ![c].tokens = Append(@, t)]
      BY <2>2 DEF Predict
    <3>2. Append(answer[c].tokens, t) \in Seq(Tokens)
      BY DEF Answers
    <3> QED BY <3>1, <3>2 DEF Answers
  <2> QED BY <1>1, <1>2, <2>1, <2>2
          DEF LlamaStep, Enter, InitModel, NewContext, DecodePrompt,
              PromptFails, Decode, EndOfSequence
<1>3. ASSUME NEW a \in Callers, AgentStep(a)
      PROVE  answer' \in [Callers -> Answers]
  <2>1. CASE ReadContext(a)
    BY <1>1, <2>1 DEF ReadContext, LlamaCall
  <2>2. CASE ModelStep(a)
    BY <1>2, <2>2 DEF ModelStep
  <2>3. CASE ModelReturns(a)
    BY <2>3, EmptySeq DEF ModelReturns, LlamaReturn, NoAnswer, Answers
  <2>4. CASE \/ Evict(a) \/ AddQuestion(a) \/ LoopEnds(a) \/ Finish(a)
             \/ AddThought(a) \/ UseTool(a) \/ AddObservation(a)
    BY <1>1, <2>4
       DEF Evict, AddQuestion, LoopEnds, Finish, AddThought, UseTool,
           AddObservation, llamaVars, callVars
  <2> QED BY <1>3, <2>1, <2>2, <2>3, <2>4 DEF AgentStep
<1>4. ASSUME NEW a \in Callers, Run(a)
      PROVE  answer' \in [Callers -> Answers]
  BY <1>1, <1>4 DEF Run, llamaVars, callVars
<1> QED BY <1>1, <1>3, <1>4 DEF Next, vars, llamaVars, callVars

\* The steps of an agent that write to the context, or that empty it.
LEMMA WriteSteps ==
  ASSUME CacheInv, RunInv, answer' \in [Callers -> Answers], NEW a \in Callers,
         Evict(a) \/ AddQuestion(a) \/ AddThought(a) \/ AddObservation(a)
  PROVE  RunInv'
<1> DEFINE w == written[default_key]
<1>0. /\ Carries(at[a], state[a]) /\ state[a] \in Seq(Lines)
      /\ alone[a] => Holds(a, at[a], w)
  BY DEF RunInv, AgentTypeInv
<1>1. CASE Evict(a)
  <2>1. written'[default_key] = <<>>
    <3>1. PICK S : written \in [CacheKeys -> Seq(S)]
      BY DEF CacheInv
    <3> QED BY <1>1, <3>1, LocalCacheAssumption
            DEF LocalCacheAssumption, Evict, evict_context, LocalCacheRemove,
                RemoveKey
  <2>2. Holds(a, "question", written'[default_key])
    BY <2>1, EmptySeq DEF Holds
  <2>3. Carries("question", state[a])
    BY <1>0, <1>1 DEF Evict, Carries
  <2> QED BY <1>0, <1>1, <2>2, <2>3, GoInv DEF Evict, Running, Places
<1>2. CASE AddQuestion(a)
  <2>1. Carries("read", state[a])
    BY DEF Carries
  <2>2. ASSUME alone[a] PROVE Holds(a, "read", written'[default_key])
    <3>1. Len(w) = 0 /\ state[a] = <<"question">>
      BY <1>0, <1>2, <2>2 DEF AddQuestion, Holds, Carries
    <3>2. AsMeant(Len(w) + 1, state[a])
      BY <3>1 DEF AsMeant
    <3>3. \A n \in 1 .. Len(w) : w[n].by = a /\ AsMeant(n, w[n].text)
      BY <3>1
    <3>4. /\ Len(written'[default_key]) = 1
          /\ \A n \in 1 .. Len(written'[default_key]) :
               /\ written'[default_key][n].by = a
               /\ AsMeant(n, written'[default_key][n].text)
      BY <1>2, <3>1, <3>2, <3>3, WriteHolds DEF AddQuestion
    <3> QED BY <3>4, 1 % 2 = 1 DEF Holds
  <2> QED BY <1>0, <1>2, <2>1, <2>2, GoInv DEF AddQuestion, Running, Places
<1>3. CASE AddThought(a)
  <2>1. Carries("tool", ExtractMathQuestion(state[a]))
    BY DEF Carries
  <2>2. ASSUME alone[a] PROVE Holds(a, "tool", written'[default_key])
    <3>1. /\ Len(w) % 2 = 1
          /\ \A n \in 1 .. Len(w) : w[n].by = a /\ AsMeant(n, w[n].text)
      BY <1>0, <1>3, <2>2 DEF AddThought, Holds
    <3>2. Len(w) \in Nat
      BY LocalCacheAssumption DEF CacheInv, LocalCacheAssumption
    <3>3. ~Has(state[a], {"observation", "finish", "bare"})
      <4>1. state[a] \in Seq({"thought", "math", "finish"})
        BY <1>0, <1>3 DEF AddThought, Carries
      <4>2. ~Has(state[a], {"finish", "bare"})
        BY <1>3 DEF AddThought, RegexPartialMatchFinish
      <4>3. \A n \in 1 .. Len(state[a]) : state[a][n] \in {"thought", "math", "finish"}
        BY <4>1, ElementOfSeq
      <4> QED BY <4>2, <4>3 DEF Has
    <3>4. Len(w) + 1 > 1 /\ (Len(w) + 1) % 2 = 0 /\ Len(w) + 1 # 1
      BY <3>1, <3>2, Parity
    <3>5. AsMeant(Len(w) + 1, state[a])
      <4>1. Len(w) + 1 \in Nat
        BY <3>2
      <4> QED BY <3>2, <3>3, <3>4, <4>1, LaterText, Zenon
    <3>6. /\ Len(written'[default_key]) = Len(w) + 1
          /\ \A n \in 1 .. Len(written'[default_key]) :
               /\ written'[default_key][n].by = a
               /\ AsMeant(n, written'[default_key][n].text)
      BY <1>3, <3>1, <3>5, WriteHolds DEF AddThought
    <3>7. Len(written'[default_key]) > 0 /\ Len(written'[default_key]) % 2 = 0
      <4>1. Len(written'[default_key]) % 2 = 0
        BY <3>4, <3>6, Zenon
      <4>2. Len(written'[default_key]) > 0
        BY <3>2, <3>6
      <4> QED BY <4>1, <4>2
    <3> QED BY <3>6, <3>7 DEF Holds
  <2>3. ExtractMathQuestion(state[a]) \in Seq(Lines)
    <3>1. <<>> \in Seq(Lines) /\ <<"question">> \in Seq(Lines)
      BY DEF Lines
    <3> QED BY <3>1 DEF ExtractMathQuestion
  <2> QED BY <1>3, <2>1, <2>2, <2>3, GoInv DEF AddThought, Running, Places
<1>4. CASE AddObservation(a)
  <2>1. Carries("read", state[a])
    BY DEF Carries
  <2>2. ASSUME alone[a] PROVE Holds(a, "read", written'[default_key])
    <3>1. /\ Len(w) > 0 /\ Len(w) % 2 = 0 /\ state[a] = <<"observation">>
          /\ \A n \in 1 .. Len(w) : w[n].by = a /\ AsMeant(n, w[n].text)
      BY <1>0, <1>4, <2>2 DEF AddObservation, Holds, Carries
    <3>2. Len(w) \in Nat
      BY LocalCacheAssumption DEF CacheInv, LocalCacheAssumption
    <3>3. Len(w) + 1 > 1 /\ (Len(w) + 1) % 2 = 1 /\ Len(w) + 1 # 1
      BY <3>1, <3>2, Parity
    <3>4. AsMeant(Len(w) + 1, state[a])
      <4>1. Len(w) + 1 \in Nat
        BY <3>2
      <4> QED BY <3>1, <3>2, <3>3, <4>1, LaterText, Zenon
    <3>5. /\ Len(written'[default_key]) = Len(w) + 1
          /\ \A n \in 1 .. Len(written'[default_key]) :
               /\ written'[default_key][n].by = a
               /\ AsMeant(n, written'[default_key][n].text)
      BY <1>4, <3>1, <3>4, WriteHolds DEF AddObservation
    <3> QED BY <3>3, <3>5 DEF Holds
  <2> QED BY <1>0, <1>4, <2>1, <2>2, GoInv DEF AddObservation, Running, Places
<1> QED BY <1>1, <1>2, <1>3, <1>4

\* The steps that leave the context.
LEMMA OtherSteps ==
  ASSUME RunInv, answer' \in [Callers -> Answers], UNCHANGED cacheVars,
         NEW a \in Callers,
         \/ ReadContext(a) \/ LoopEnds(a) \/ ModelReturns(a) \/ Finish(a)
         \/ UseTool(a)
  PROVE  RunInv'
<1>0. /\ Carries(at[a], state[a]) /\ state[a] \in Seq(Lines)
      /\ alone[a] => Holds(a, at[a], written'[default_key])
  BY DEF RunInv, AgentTypeInv, cacheVars
<1>1. CASE Running(a) /\ Return(a)
  BY <1>1, ReturnInv
<1>2. CASE ReadContext(a)
  <2>1. alone[a] => Holds(a, "model", written'[default_key])
    BY <1>0, <1>2 DEF ReadContext, Holds
  <2>2. Carries("model", state[a])
    BY DEF Carries
  <2> QED BY <1>0, <1>2, <2>1, <2>2, GoInv DEF ReadContext, Running, Places
<1>3. CASE ModelReturns(a) /\ answer[a].ok
  <2> DEFINE text == ParseThoughtAction(answer[a].tokens)
  <2>1. text \in Seq({"thought", "math", "finish"})
    BY ParseKeepsNoObservation DEF RunInv, AgentTypeInv, Answers
  <2>2. text \in Seq(Lines)
    <3>1. {"thought", "math", "finish"} \subseteq Lines
      BY DEF Lines
    <3> HIDE DEF text
    <3> QED BY <2>1, <3>1, SeqMonotonic
  <2>3. Carries("parse", text)
    BY <2>1 DEF Carries
  <2>4. alone[a] => Holds(a, "parse", written'[default_key])
    BY <1>0, <1>3 DEF ModelReturns, Holds
  <2> HIDE DEF text
  <2>5. Go(a, "parse", text) /\ UNCHANGED alone /\ Running(a)
    BY <1>3 DEF ModelReturns, Running, text
  <2> QED BY <2>2, <2>3, <2>4, <2>5, GoInv DEF Places
<1>4. CASE UseTool(a) /\ Go(a, "observation", FormatObservation(state[a]))
           /\ UNCHANGED alone
  <2>1. /\ Carries("observation", FormatObservation(state[a]))
        /\ FormatObservation(state[a]) \in Seq(Lines)
    BY DEF Carries, FormatObservation, Lines
  <2>2. alone[a] => Holds(a, "observation", written'[default_key])
    BY <1>0, <1>4 DEF UseTool, Holds
  <2> QED BY <1>4, <2>1, <2>2, GoInv DEF UseTool, Running, Places
<1>5. \/ Running(a) /\ Return(a)
      \/ ReadContext(a)
      \/ ModelReturns(a) /\ answer[a].ok
      \/ /\ UseTool(a) /\ Go(a, "observation", FormatObservation(state[a]))
         /\ UNCHANGED alone
  BY DEF LoopEnds, ModelReturns, Finish, UseTool, Running
<1> QED BY <1>1, <1>2, <1>3, <1>4, <1>5
-------------------------------------------------------------------------------
(***************************************************************************)
(* The composition.                                                        *)
(***************************************************************************)
\* What the agents do to the cache.
LEMMA NextCacheInv ==
  ASSUME CacheInv, [Next]_vars
  PROVE  CacheInv'
<1>0. default_key \in CacheKeys
  BY LocalCacheAssumption DEF LocalCacheAssumption
<1>1. CASE UNCHANGED cacheVars
  BY <1>1 DEF cacheVars, CacheInv
<1>2. ASSUME NEW a \in Callers, AgentStep(a)
      PROVE  CacheInv'
  <2>1. CASE Evict(a)
    BY <1>0, <2>1, RemoveInv DEF Evict, evict_context, LocalCacheRemove
  <2>2. CASE AddQuestion(a)
    BY <1>0, <2>2, PutInv DEF AddQuestion, LocalCacheWrite
  <2>3. CASE AddThought(a)
    BY <1>0, <2>3, PutInv DEF AddThought, LocalCacheWrite
  <2>4. CASE AddObservation(a)
    BY <1>0, <2>4, PutInv DEF AddObservation, LocalCacheWrite
  <2>5. CASE \/ ReadContext(a) \/ LoopEnds(a) \/ ModelStep(a)
             \/ ModelReturns(a) \/ Finish(a) \/ UseTool(a)
    BY <1>1, <2>5
       DEF ReadContext, LoopEnds, ModelStep, ModelReturns, Finish, UseTool
  <2> QED BY <1>2, <2>1, <2>2, <2>3, <2>4, <2>5 DEF AgentStep
<1>3. ASSUME NEW a \in Callers, Run(a)
      PROVE  CacheInv'
  BY <1>1, <1>3 DEF Run
<1> QED BY <1>1, <1>2, <1>3 DEF Next, vars

\* What the agents do to the model; a prompt is as long as what they read.
LEMMA NextLlamaInv ==
  ASSUME handler = "shared", CacheInv, LlamaInv, [Next]_vars
  PROVE  LlamaInv'
<1>1. CASE UNCHANGED llamaVars
  BY <1>1 DEF llamaVars, clientVars, callVars, LlamaInv, LlamaTypeInv, CallInv,
              DecodesOwnTokens, At, n_current
<1>2. ASSUME NEW a \in Callers, AgentStep(a)
      PROVE  LlamaInv'
  <2>1. CASE ReadContext(a)
    <3>1. Len(LocalCacheRead) \in Nat
      <4>1. PICK S : cache_ \in [CacheKeys -> Seq(S)]
        BY DEF CacheInv
      <4> QED BY <4>1, LocalCacheAssumption, LenProperties
              DEF LocalCacheAssumption, LocalCacheRead, Get
    <3> QED BY <2>1, <3>1, LlamaCallInv DEF ReadContext
  <2>2. CASE ModelStep(a)
    BY <2>2, EnterInv, LoadInv, PromptInv, LoopInv DEF ModelStep, LlamaStep
  <2>3. CASE ModelReturns(a)
    BY <2>3, LlamaReturnInv DEF ModelReturns
  <2>4. CASE \/ Evict(a) \/ AddQuestion(a) \/ LoopEnds(a) \/ Finish(a)
             \/ AddThought(a) \/ UseTool(a) \/ AddObservation(a)
    BY <1>1, <2>4
       DEF Evict, AddQuestion, LoopEnds, Finish, AddThought, UseTool,
           AddObservation
  <2> QED BY <1>2, <2>1, <2>2, <2>3, <2>4 DEF AgentStep
<1>3. ASSUME NEW a \in Callers, Run(a)
      PROVE  LlamaInv'
  BY <1>1, <1>3 DEF Run
<1> QED BY <1>1, <1>2, <1>3 DEF Next, vars

\* A key of the cache holds the latest messages put under it, oldest first, as
\* many as the limit allows (local_cache.h Put, Get, Remove), whoever writes.
THEOREM RecentWrites == Spec => []ContextIsRecentWrites
<1>1. Init => CacheInv
  BY CacheInitInv DEF Init
<1>2. CacheInv /\ [Next]_vars => CacheInv'
  BY NextCacheInv
<1> QED BY <1>1, <1>2, CacheInvSuffices, PTL DEF Spec

\* With the handler that holds client_mutex for the whole call, a call decodes
\* its own prompt and its own tokens and nothing else, and no more of them than
\* the model allows by one, for any agents, models and lengths (llamacpp.cc
\* CallLlamaCpp). Without the mutex it does not: see OnDeviceStack.cfg.
THEOREM OwnTokens ==
  ASSUME handler = "shared" PROVE Spec => []DecodesOwnTokens
<1>1. Init => CacheInv /\ LlamaInv
  BY CacheInitInv, LlamaInitInv DEF Init
<1>2. CacheInv /\ LlamaInv /\ [Next]_vars => CacheInv' /\ LlamaInv'
  BY NextCacheInv, NextLlamaInv
<1>3. LlamaInv => DecodesOwnTokens
  BY DEF LlamaInv
<1> QED BY <1>1, <1>2, <1>3, PTL DEF Spec

\* What the agents do to each other's runs.
LEMMA NextRunInv ==
  ASSUME CacheInv, RunInv, [Next]_vars
  PROVE  RunInv'
<1>0. answer' \in [Callers -> Answers]
  BY AnswersStay DEF RunInv, AgentTypeInv
<1>1. CASE UNCHANGED <<agentVars, cacheVars>>
  <2>1. AgentTypeInv'
    BY <1>0, <1>1 DEF agentVars, RunInv, AgentTypeInv
  <2> QED BY <1>1, <2>1
          DEF agentVars, cacheVars, RunInv, AloneInv, Running, Carries, Holds
<1>2. ASSUME NEW a \in Callers, AgentStep(a)
      PROVE  RunInv'
  <2>1. CASE Evict(a) \/ AddQuestion(a) \/ AddThought(a) \/ AddObservation(a)
    BY <1>0, <2>1, WriteSteps
  <2>2. CASE \/ ReadContext(a) \/ LoopEnds(a) \/ ModelReturns(a) \/ Finish(a)
             \/ UseTool(a)
    <3>1. UNCHANGED cacheVars
      BY <2>2 DEF ReadContext, LoopEnds, ModelReturns, Finish, UseTool
    <3> QED BY <1>0, <2>2, <3>1, OtherSteps
  <2>3. CASE ModelStep(a)
    BY <1>1, <2>3 DEF ModelStep
  <2> QED BY <1>2, <2>1, <2>2, <2>3 DEF AgentStep
<1>3. ASSUME NEW a \in Callers, Run(a)
      PROVE  RunInv'
  BY <1>3, RunStarts
<1> QED BY <1>1, <1>2, <1>3 DEF Next, vars

\* The context of a run that no other agent's run overlapped holds its own
\* question, then in turn what the model thought and what the tool observed,
\* and never an observation that the model made up or a message of an earlier
\* run, however many agents there are and whatever the models answer
\* (math_tool_agent.py:119-133, react.cc ParseThoughtAction).
THEOREM OwnContext == Spec => []ContextIsOfTheRun
<1>1. Init => CacheInv /\ RunInv
  BY CacheInitInv, RunInitInv DEF Init
<1>2. CacheInv /\ RunInv /\ [Next]_vars => CacheInv' /\ RunInv'
  BY NextCacheInv, NextRunInv
<1>3. CacheInv /\ RunInv => ContextIsOfTheRun
  <2> SUFFICES ASSUME CacheInv, RunInv, NEW a \in Callers, Running(a), alone[a],
                      at[a] \notin {"evict", "question"}
               PROVE  /\ written[default_key] # <<>>
                      /\ \A n \in 1 .. Len(written[default_key]) :
                           /\ written[default_key][n].by = a
                           /\ AsMeant(n, written[default_key][n].text)
    BY DEF ContextIsOfTheRun
  <2>1. Holds(a, at[a], written[default_key]) /\ at[a] \in Places
    BY DEF RunInv, AgentTypeInv
  <2>2. written[default_key] # <<>>
    <3>1. \/ Len(written[default_key]) % 2 = 1
          \/ Len(written[default_key]) > 0
      BY <2>1 DEF Holds, Running, Places
    <3>2. 0 % 2 # 1
      OBVIOUS
    <3>3. Len(written[default_key]) # 0
      BY <3>1, <3>2, ~(0 > 0), Zenon
    <3> QED BY <3>3, EmptySeq
  <2> QED BY <2>1, <2>2 DEF Holds
<1> QED BY <1>1, <1>2, <1>3, PTL DEF Spec
-------------------------------------------------------------------------------
(***************************************************************************)
(* That somebody can always go on.                                         *)
(***************************************************************************)
\* A run is in a call of the model exactly when it asked for one, and the mutex
\* is with a call that is past the lock and has not returned.
ProgressInv ==
  /\ at \in [Callers -> Places]
  /\ i \in [Callers -> 0 .. num_steps]
  /\ stage \in [Callers -> Stages]
  /\ client_mutex \in Callers \cup {NoCaller}
  /\ \A a \in Callers : at[a] = "model" <=> stage[a] # "idle"
  /\ client_mutex # NoCaller => stage[client_mutex] \notin Outside

\* A step of a call takes it past the lock or leaves it there, and gives the
\* mutex to nobody else.
LEMMA CallStays ==
  ASSUME ProgressInv, NEW c \in Callers, LlamaStep(c)
  PROVE  /\ stage[c] # "idle"
         /\ client_mutex' \in {client_mutex, c}
         /\ \E s \in Stages \ Outside : stage' = [stage EXCEPT ![c] = s]
<1> USE DEF At, Goto, Stages, Outside
<1>1. CASE Enter(c)
  <2>1. stage[c] = "called" /\ client_mutex' \in {client_mutex, c}
    BY <1>1 DEF Enter
  <2>2. \E s \in {"ready", "init"} : stage' = [stage EXCEPT ![c] = s]
    BY <1>1, Zenon DEF Enter
  <2> QED BY <2>1, <2>2
<1>2. CASE InitModel(c) \/ NewContext(c)
  BY <1>2 DEF InitModel, NewContext, Errs
<1>3. CASE DecodePrompt(c) \/ PromptFails(c)
  BY <1>3 DEF DecodePrompt, PromptFails, Errs
<1>4. CASE Predict(c) \/ Decode(c) \/ EndOfSequence(c)
  BY <1>4 DEF Predict, Decode, EndOfSequence, Errs, clientVars
<1> QED BY <1>1, <1>2, <1>3, <1>4 DEF LlamaStep

\* A step of a run outside the model, that neither starts nor ends a call.
LEMMA ElsewhereGoesOn ==
  ASSUME ProgressInv, UNCHANGED llamaVars, NEW a \in Callers,
         at[a] # "model", NEW p \in Places \ {"model"},
         at' = [at EXCEPT ![a] = p], i' \in [Callers -> 0 .. num_steps]
  PROVE  ProgressInv'
<1>1. UNCHANGED <<stage, client_mutex>>
  BY DEF llamaVars, clientVars, callVars
<1>2. at' \in [Callers -> Places] /\ at'[a] = p
  BY DEF ProgressInv
<1>3. \A b \in Callers \ {a} : at'[b] = at[b]
  BY DEF ProgressInv
<1> QED BY <1>1, <1>2, <1>3 DEF ProgressInv

\* The steps of a run around its calls.
LEMMA AgentGoesOn ==
  ASSUME ProgressInv, NEW a \in Callers, Run(a) \/ AgentStep(a)
  PROVE  ProgressInv'
<1>0. /\ num_steps \in Nat \ {0}
      /\ i \in [Callers -> 0 .. num_steps]
      /\ NoCaller \notin Callers
  BY OnDeviceAssumption, LlamaCppAssumption
     DEF OnDeviceAssumption, LlamaCppAssumption, ProgressInv
<1>1. Return(a) => /\ at' = [at EXCEPT ![a] = "idle"]
                   /\ i' \in [Callers -> 0 .. num_steps]
  BY <1>0 DEF Return, Go
<1>2. CASE \/ Run(a) \/ Evict(a) \/ AddQuestion(a) \/ LoopEnds(a) \/ Finish(a)
           \/ AddThought(a) \/ UseTool(a) \/ AddObservation(a)
  <2>1. /\ at[a] # "model" /\ UNCHANGED llamaVars
        /\ i' \in [Callers -> 0 .. num_steps]
        /\ \E p \in Places \ {"model"} : at' = [at EXCEPT ![a] = p]
    BY <1>0, <1>1, <1>2
       DEF Run, Evict, AddQuestion, LoopEnds, Finish, AddThought, UseTool,
           AddObservation, Go, Places
  <2> QED BY <2>1, ElsewhereGoesOn
<1>3. CASE ReadContext(a)
  <2>1. /\ at[a] = "read" /\ stage[a] = "idle" /\ UNCHANGED client_mutex
        /\ at' = [at EXCEPT ![a] = "model"]
        /\ stage' = [stage EXCEPT ![a] = "called"]
    BY <1>3 DEF ReadContext, Go, LlamaCall, At, Goto, clientVars
  <2>2. i' \in [Callers -> 0 .. num_steps]
    BY <1>0, <1>3 DEF ReadContext
  <2>3. /\ at' \in [Callers -> Places] /\ stage' \in [Callers -> Stages]
        /\ at'[a] = "model" /\ stage'[a] = "called"
        /\ \A b \in Callers \ {a} : at'[b] = at[b] /\ stage'[b] = stage[b]
    BY <2>1 DEF ProgressInv, Places, Stages
  <2>4. client_mutex # a
    BY <1>0, <2>1 DEF ProgressInv, Outside
  <2> QED BY <2>1, <2>2, <2>3, <2>4 DEF ProgressInv
<1>4. CASE ModelStep(a)
  <2>1. /\ UNCHANGED <<at, i>> /\ stage[a] # "idle"
        /\ client_mutex' \in {client_mutex, a}
    BY <1>4, CallStays DEF ModelStep, agentVars
  <2>2. PICK s \in Stages \ Outside : stage' = [stage EXCEPT ![a] = s]
    BY <1>4, CallStays DEF ModelStep
  <2>3. /\ stage' \in [Callers -> Stages] /\ stage'[a] = s /\ s # "idle"
        /\ \A b \in Callers \ {a} : stage'[b] = stage[b]
    BY <2>2 DEF ProgressInv, Outside
  <2>4. client_mutex' # NoCaller => stage'[client_mutex'] \notin Outside
    BY <2>1, <2>2, <2>3 DEF ProgressInv
  <2> QED BY <2>1, <2>3, <2>4 DEF ProgressInv
<1>5. CASE ModelReturns(a)
  <2>1. /\ at[a] = "model" /\ stage' = [stage EXCEPT ![a] = "idle"]
        /\ client_mutex' = Unlocked(a)
    BY <1>5 DEF ModelReturns, LlamaReturn, Goto
  <2>2. /\ i' \in [Callers -> 0 .. num_steps]
        /\ \E p \in Places \ {"model"} : at' = [at EXCEPT ![a] = p]
    BY <1>0, <1>1, <1>5 DEF ModelReturns, Go, Places
  <2>3. /\ at' \in [Callers -> Places] /\ stage' \in [Callers -> Stages]
        /\ at'[a] # "model" /\ stage'[a] = "idle"
        /\ \A b \in Callers \ {a} : at'[b] = at[b] /\ stage'[b] = stage[b]
    BY <2>1, <2>2 DEF ProgressInv, Places, Stages
  <2>4. /\ client_mutex' \in Callers \cup {NoCaller} /\ client_mutex' # a
        /\ client_mutex' # NoCaller => client_mutex' = client_mutex
    BY <1>0, <2>1 DEF ProgressInv, Unlocked
  <2> QED BY <2>2, <2>3, <2>4 DEF ProgressInv
<1> QED BY <1>2, <1>3, <1>4, <1>5 DEF AgentStep

\* Whoever waits for the mutex waits for another run whose call is past the
\* lock and does not wait itself: no error path leaves the mutex locked, and
\* every other run can make its next step, its loop being within its limit, for
\* any agents, models and handlers (llamacpp.cc CallLlamaCpp).
THEOREM SomebodyRuns == Spec => []RunsGoOn
<1>1. Init => ProgressInv
  BY OnDeviceAssumption, LlamaCppAssumption
     DEF OnDeviceAssumption, LlamaCppAssumption, Init, LlamaInit, ProgressInv,
         Places, Stages
<1>2. ProgressInv /\ [Next]_vars => ProgressInv'
  <2>1. ASSUME ProgressInv, UNCHANGED vars PROVE ProgressInv'
    BY <2>1 DEF vars, agentVars, llamaVars, clientVars, callVars, ProgressInv
  <2> QED BY <2>1, AgentGoesOn DEF Next
<1>3. ProgressInv => RunsGoOn
  <2> SUFFICES ASSUME ProgressInv, NEW a \in Callers, Running(a)
               PROVE  RunsGoOn!(a)!2
    BY DEF RunsGoOn
  <2>1. CASE at[a] = "model"
    <3>1. stage[a] # "idle"
      BY <2>1 DEF ProgressInv
    <3>2. ASSUME stage[a] = "called", client_mutex # NoCaller
          PROVE  /\ client_mutex \in Callers \ {a}
                 /\ at[client_mutex] = "model"
                 /\ stage[client_mutex] \notin Outside
      BY <3>2 DEF ProgressInv, Outside
    <3> QED BY <2>1, <3>1, <3>2 DEF At, Others, Outside
  <2>2. CASE at[a] # "model"
    BY <2>2, OnDeviceAssumption DEF OnDeviceAssumption, ProgressInv, At
  <2> QED BY <2>1, <2>2
<1> QED BY <1>1, <1>2, <1>3, PTL DEF Spec
===============================================================================
