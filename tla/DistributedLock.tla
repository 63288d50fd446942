--------------------------- MODULE DistributedLock ---------------------------
(***************************************************************************)
(* The lock of common/redis/redis-client.ts: a Redis key set with NX and a  *)
(* time to live, and beside it one in-memory table per Node process, which  *)
(* is used whenever Redis does not answer.  The two know nothing of each    *)
(* other.  Each acquisition draws a fresh token; a release gives back only  *)
(* what carries that token.                                                 *)
(***************************************************************************)
CONSTANTS
    Tokens,   \* the tokens acquisitions draw
    Procs,    \* the Node processes
    NoToken   \* no entry under the key

Slot == Tokens \cup {NoToken}

\* One lock key: its value in Redis and in every process's local table.
LockType == [redis : Slot, local : [Procs -> Slot]]

FreeLock == [redis |-> NoToken, local |-> [p \in Procs |-> NoToken]]

\* SET key token PX ttl NX.
SetNX(lock, t) == IF lock.redis = NoToken THEN [lock EXCEPT !.redis = t] ELSE lock

\* The entry in the local table of process p, unless there is one.
SetLocal(lock, p, t) ==
    IF lock.local[p] = NoToken THEN [lock EXCEPT !.local[p] = t] ELSE lock

\* Seeded fault: whoever releases deletes the Redis key.
DelUnchecked(lock, t) == [lock EXCEPT !.redis = NoToken]

\* RELEASE_LOCK_LUA: compare and delete.
DelIfOwner(lock, t) ==
    IF lock.redis = t THEN [lock EXCEPT !.redis = NoToken] ELSE lock

\* The end of releaseDistributedLock, and the local time to live.
DelLocal(lock, p, t) ==
    IF lock.local[p] = t THEN [lock EXCEPT !.local[p] = NoToken] ELSE lock

\* The Redis time to live runs out.
Expired(lock) == [lock EXCEPT !.redis = NoToken]

\* The process ends, and its local table with it.
ProcGone(lock, p) == [lock EXCEPT !.local[p] = NoToken]
=============================================================================
