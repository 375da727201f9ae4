------------------------------ MODULE LocalCache ------------------------------
(***************************************************************************)
(* LocalCache of genc/cc/modules/retrieval/local_cache.h: the last         *)
(* messages under each key, and the custom functions of local_cache.cc     *)
(* through which a computation reads, writes and removes those of one key  *)
(* that all computations of the process share. An operation holds the      *)
(* mutex from its first line to its last, so it is a step.                 *)
(***************************************************************************)
EXTENDS Naturals, Sequences

CONSTANTS
  CacheKeys,
  default_key,
  max_messages_per_key_

\* At a limit of zero Put would erase from an empty vector.
ASSUME LocalCacheAssumption ==
  /\ default_key \in CacheKeys
  /\ max_messages_per_key_ \in Nat \ {0}

VARIABLES
  cache_,   \* <<>>: no entry (an entry never stays empty)
  written   \* history: what was put under a key since it was last removed

cacheVars == <<cache_, written>>

CacheInit ==
  /\ cache_ = [k \in CacheKeys |-> <<>>]
  /\ written = [k \in CacheKeys |-> <<>>]

\* Plausible mistake: a key may hold one message more than its limit.
KeepAll(messages) ==
  IF Len(messages) > max_messages_per_key_ THEN Tail(messages) ELSE messages

\* The room made for one more message.
Pruned(messages) ==
  IF Len(messages) >= max_messages_per_key_ THEN Tail(messages) ELSE messages

PutMessage(k, message) ==
  /\ cache_' = [cache_ EXCEPT ![k] = Append(Pruned(@), message)]
  /\ written' = [written EXCEPT ![k] = Append(@, message)]

RemoveKey(k) ==
  /\ cache_' = [cache_ EXCEPT ![k] = <<>>]
  /\ written' = [written EXCEPT ![k] = <<>>]

LastOf(n, messages) ==
  IF n < Len(messages)
  THEN SubSeq(messages, Len(messages) - n + 1, Len(messages)) ELSE messages

GetLast(k, n) == LastOf(n, cache_[k])
Get(k) == cache_[k]
Exists(k) == cache_[k] # <<>>

\* The custom functions.
LocalCacheRead == Get(default_key)
LocalCacheWrite(message) == PutMessage(default_key, message)
LocalCacheRemove == RemoveKey(default_key)

\* A key holds the latest messages put under it, oldest first, as many as the
\* limit allows; what Get(key, n) answers are the latest n of all (Put, Get).
ContextIsRecentWrites ==
  \A k \in CacheKeys :
    /\ cache_[k] = LastOf(max_messages_per_key_, written[k])
    /\ \A n \in 1 .. max_messages_per_key_ :
         GetLast(k, n) = LastOf(n, written[k])
    /\ Exists(k) <=> written[k] # <<>>
===============================================================================
