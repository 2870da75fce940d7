----------------------------- MODULE RedisStore -----------------------------
(***************************************************************************)
(* What the helpers of src/src/utils/redis.helper.ts do to a Redis store.  *)
(* A store is the set of keys it holds; the values that matter are kept by *)
(* the modules that use the store.  `up` says whether the client is ready: *)
(* clientOrNull() returns null when it is not, and every helper then       *)
(* answers as if the key were missing, without an error.                   *)
(*                                                                         *)
(* REDIS_KEY_PREFIX is added by the client to the keys of GET, SET, DEL,   *)
(* EXISTS, INCR and EXPIRE, but not to the pattern of SCAN MATCH: a scan   *)
(* for "users:list:*" finds nothing among keys stored as                   *)
(* "depth:users:list:...".  `prefixed` says whether the prefix is used.    *)
(***************************************************************************)
EXTENDS FiniteSets

RedisGet(store, up, key) == up /\ key \in store
RedisExists(store, up, key) == RedisGet(store, up, key)
RedisSet(store, up, key) == IF up THEN store \cup {key} ELSE store
RedisDel(store, up, keys) == IF up THEN store \ keys ELSE store

\* What SCAN MATCH returns of the keys the pattern was written for.
ScanMatch(store, prefixed, keys) == IF prefixed THEN {} ELSE store \cap keys
=============================================================================
