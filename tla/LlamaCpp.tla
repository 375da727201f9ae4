------------------------------- MODULE LlamaCpp -------------------------------
(***************************************************************************)
(* LlamaCpp of genc/cc/interop/backends/llamacpp.cc: a model on the device *)
(* and the one client of it that all calls of a process share. A call      *)
(* decodes its prompt into the key-value cache of the context, and then    *)
(* one token after the other: each decoding is a step, so that calls can   *)
(* meet in the cache. llama.cpp itself is external: it loads a model or    *)
(* not, predicts any of Tokens or the end, and decodes as long as the      *)
(* cache has room.                                                         *)
(*                                                                         *)
(* handler says which of the handlers of the code a model's URI has:       *)
(*   shared   CallLlamaCpp, which holds client_mutex for the whole call    *)
(*   stack    genc/cc/examples/executors/executor_stacks.cc: no mutex      *)
(*   android  .../android/android_executor_stacks.cc: no mutex, and a      *)
(*            client that failed to load is never loaded again             *)
(***************************************************************************)
EXTENDS Naturals, Sequences

CONSTANTS
  Callers,
  NoCaller,
  Tokens,
  Configs,      \* what the callers' intrinsics say about the model
  Loadable,     \* those whose model_path is a model
  MaxTokens,    \* max_tokens, of each
  n_ctx,        \* room in the key-value cache
  handler

ASSUME LlamaCppAssumption ==
  /\ NoCaller \notin Callers
  /\ Loadable \subseteq Configs
  /\ MaxTokens \in [Configs -> Nat]
  /\ n_ctx \in Nat
  /\ handler \in {"shared", "stack", "android"}

NoConfig == "none"
NoAnswer == [ok |-> TRUE, tokens |-> <<>>]

VARIABLES
  client_mutex,  \* who holds it
  made,          \* shared_client, llama_cpp_client is not null
  model_,        \* the config whose model is loaded
  context_,      \* a context of the model was made
  kv,            \* the key-value cache: whose token each cell holds
  stage,         \* of each caller: where its call is
  config,        \* the config it names
  prompt,        \* tokens of its prompt
  answer         \* its answer: status and the tokens so far

clientVars == <<client_mutex, made, model_, context_, kv>>
callVars == <<stage, config, prompt, answer>>
llamaVars == <<clientVars, callVars>>

Stages == {"idle", "called", "init", "context", "ready", "predict", "decode",
           "return"}

LlamaInit ==
  /\ client_mutex = NoCaller
  /\ made = FALSE
  /\ model_ = NoConfig
  /\ context_ = FALSE
  /\ kv = <<>>
  /\ stage = [c \in Callers |-> "idle"]
  /\ config = [c \in Callers |-> NoConfig]
  /\ prompt = [c \in Callers |-> 0]
  /\ answer = [c \in Callers |-> NoAnswer]

At(c, s) == stage[c] = s
Goto(c, s) == stage' = [stage EXCEPT ![c] = s]

is_initialized == model_ # NoConfig /\ context_

\* How many tokens the sequence of c has, prompt included.
n_current(c) == prompt[c] + Len(answer[c].tokens)

LlamaCall(c, cfg, n_tokens) ==
  /\ At(c, "idle")
  /\ Goto(c, "called")
  /\ config' = [config EXCEPT ![c] = cfg]
  /\ prompt' = [prompt EXCEPT ![c] = n_tokens]
  /\ UNCHANGED <<clientVars, answer>>

Errs(c) ==
  /\ Goto(c, "return")
  /\ answer' = [answer EXCEPT ![c] = [ok |-> FALSE, tokens |-> <<>>]]

\* Plausible mistake: the lock is only held while the client is made.
MayEnterAnytime(c) == TRUE

MayEnter(c) == handler = "shared" => client_mutex = NoCaller

\* The client is made when there is none, and loaded unless it is already.
Enter(c) ==
  /\ At(c, "called")
  /\ MayEnter(c)
  /\ client_mutex' = IF handler = "shared" THEN c ELSE client_mutex
  /\ made' = TRUE
  /\ Goto(c, IF is_initialized \/ (handler = "android" /\ made)
             THEN "ready" ELSE "init")
  /\ UNCHANGED <<model_, context_, kv, config, prompt, answer>>

\* InitModel: the model, and then a context, which may come out null.
InitModel(c) ==
  /\ At(c, "init")
  /\ IF config[c] \in Loadable
     THEN model_' = config[c] /\ Goto(c, "context") /\ UNCHANGED answer
     ELSE model_' = NoConfig /\ Errs(c)
  /\ UNCHANGED <<client_mutex, made, context_, kv, config, prompt>>

NewContext(c) ==
  /\ At(c, "context")
  /\ context_' \in BOOLEAN
  /\ kv' = <<>>
  /\ Goto(c, "ready")
  /\ UNCHANGED <<client_mutex, made, model_, config, prompt, answer>>

\* llama_kv_cache_clear.
ClearedCache(cache) == <<>>

Cells(c, n) == [i \in 1 .. n |-> c]

\* LlamaCppCall up to the loop: what was decoded before is cleared and the
\* prompt decoded, unless it is longer than the context.
DecodePrompt(c) ==
  /\ At(c, "ready")
  /\ is_initialized
  /\ prompt[c] <= n_ctx
  /\ kv' = ClearedCache(kv) \o Cells(c, prompt[c])
  /\ Goto(c, "predict")
  /\ UNCHANGED <<client_mutex, made, model_, context_, config, prompt, answer>>

\* Not initialized, prompt too long, or llama_decode fails.
PromptFails(c) ==
  /\ At(c, "ready")
  /\ kv' = IF is_initialized THEN ClearedCache(kv) ELSE kv
  /\ Errs(c)
  /\ UNCHANGED <<client_mutex, made, model_, context_, config, prompt>>

MayPredict(c) == n_current(c) <= MaxTokens[model_]

\* The loop: the next token is added to the answer and decoded after the rest,
Predict(c) ==
  /\ At(c, "predict")
  /\ MayPredict(c)
  /\ \E t \in Tokens : answer' = [answer EXCEPT ![c].tokens = Append(@, t)]
  /\ Goto(c, "decode")
  /\ UNCHANGED <<clientVars, config, prompt>>

Decode(c) ==
  /\ At(c, "decode")
  /\ \/ Len(kv) < n_ctx /\ kv' = Append(kv, c) /\ Goto(c, "predict")
        /\ UNCHANGED answer
     \/ Errs(c) /\ UNCHANGED kv
  /\ UNCHANGED <<client_mutex, made, model_, context_, config, prompt>>

\* until the length is reached or the model predicts the end of the sequence.
EndOfSequence(c) ==
  /\ At(c, "predict")
  /\ Goto(c, "return")
  /\ UNCHANGED <<clientVars, config, prompt, answer>>

\* Plausible mistake: a call that failed returns with the lock.
UnlockedOnSuccess(c) ==
  IF client_mutex = c /\ answer[c].ok THEN NoCaller ELSE client_mutex

Unlocked(c) == IF client_mutex = c THEN NoCaller ELSE client_mutex

\* The call returns and with it the lock is released.
LlamaReturn(c) ==
  /\ At(c, "return")
  /\ client_mutex' = Unlocked(c)
  /\ Goto(c, "idle")
  /\ config' = [config EXCEPT ![c] = NoConfig]
  /\ prompt' = [prompt EXCEPT ![c] = 0]
  /\ answer' = [answer EXCEPT ![c] = NoAnswer]
  /\ UNCHANGED <<made, model_, context_, kv>>

LlamaStep(c) ==
  \/ Enter(c) \/ InitModel(c) \/ NewContext(c) \/ DecodePrompt(c)
  \/ PromptFails(c) \/ Predict(c) \/ Decode(c) \/ EndOfSequence(c)

\* While a call predicts, the cache holds its own prompt and its own tokens in
\* order and nothing else ("Clears KV cache to prevent previous runs from
\* influencing this one", llamacpp.cc:137), and its tokens are within what the
\* loaded model allows, by one (llamacpp.cc:186).
DecodesOwnTokens ==
  \A c \in Callers :
    /\ At(c, "predict") => kv = Cells(c, n_current(c))
    /\ At(c, "decode") => kv = Cells(c, n_current(c) - 1)
    /\ answer[c].tokens # <<>> => n_current(c) <= MaxTokens[model_] + 1
===============================================================================
