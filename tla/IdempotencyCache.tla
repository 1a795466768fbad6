-------------------------- MODULE IdempotencyCache --------------------------
(***************************************************************************)
(* The idempotency cache of the SyncDecision endpoint                      *)
(* (gateway/storage/idempotency.py): an insertion-ordered dict from        *)
(* request id to response with an expiry per entry, under a lock, so every *)
(* operation below is one step.                                            *)
(*                                                                         *)
(* Time is the action Expire: an entry's expiry passes at some moment      *)
(* after it was stored.  Nothing depends on how long that takes.           *)
(***************************************************************************)
EXTENDS Integers, FiniteSets

CONSTANTS
  Keys,        \* request ids
  Responses,   \* what can be stored
  NoResponse,  \* no entry
  MaxSize      \* how many entries are kept

ASSUME CacheAssumption ==
  /\ IsFiniteSet(Keys)
  /\ MaxSize \in Nat \ {0}
  /\ NoResponse \notin Responses

VARIABLES
  store,   \* key -> the response stored under it, or NoResponse
  before,  \* the order of the dict: <<j, k>> when j was inserted before k
  stale    \* the stored keys whose expiry has passed

cachevars == <<store, before, stale>>

Stored == {k \in Keys : store[k] # NoResponse}

\* What get returns.
Fresh(k) == store[k] # NoResponse /\ k \notin stale

\* next(iter(self._store))
Oldest == CHOOSE k \in Stored : \A j \in Stored \ {k} : <<k, j>> \in before

CacheInit ==
  /\ store = [k \in Keys |-> NoResponse]
  /\ before = {}
  /\ stale = {}

\* del self._store[k] for every key of the set gone.
Delete(gone) ==
  /\ store' = [k \in Keys |-> IF k \in gone THEN NoResponse ELSE store[k]]
  /\ before' = {p \in before : p[1] \notin gone /\ p[2] \notin gone}
  /\ stale' = stale \ gone

\* get: an expired entry is deleted by the lookup that finds it.
Get(k) == IF k \in stale THEN Delete({k}) ELSE UNCHANGED cachevars

\* self._store[k] = r, once the keys of gone are deleted: a key that is still
\* there keeps its place.
Insert(k, r, gone) ==
  LET kept == Stored \ gone
  IN  /\ store' = [j \in Keys |-> IF j = k THEN r
                     ELSE IF j \in gone THEN NoResponse ELSE store[j]]
      /\ before' = {p \in before : p[1] \notin gone /\ p[2] \notin gone}
                     \union {<<j, k>> : j \in IF k \in kept THEN {} ELSE kept}
      /\ stale' = stale \ (gone \union {k})

\* Fault: the entry is replaced even while it is valid.
PutOverwrites(k, r) ==
  Insert(k, r, IF Cardinality(Stored) >= MaxSize THEN {Oldest} ELSE {})

\* Fault: room is made only when the cache has already outgrown its size.
PutWithoutRoom(k, r) ==
  IF Fresh(k) THEN UNCHANGED cachevars
  ELSE Insert(k, r, IF Cardinality(Stored) > MaxSize THEN {Oldest} ELSE {})

\* Fault: popitem(), which takes the newest entry.
PutEvictsNewest(k, r) ==
  IF Fresh(k) THEN UNCHANGED cachevars
  ELSE Insert(k, r, IF Cardinality(Stored) < MaxSize THEN {}
         ELSE {j \in Stored : \A i \in Stored \ {j} : <<i, j>> \in before})

\* put: nothing happens to a valid entry.  Otherwise the oldest entry makes
\* room in a full cache, even for a key that has an expired entry in it.
Put(k, r) ==
  IF Fresh(k) THEN UNCHANGED cachevars
  ELSE Insert(k, r, IF Cardinality(Stored) >= MaxSize THEN {Oldest} ELSE {})

\* cleanup, from the periodic task.
Cleanup ==
  /\ stale # {}
  /\ Delete(stale)

\* The expiry of an entry passes.
Expire(k) ==
  /\ Fresh(k)
  /\ stale' = stale \union {k}
  /\ UNCHANGED <<store, before>>

CacheNext ==
  \/ \E k \in Keys : Get(k) \/ Expire(k)
  \/ \E k \in Keys, r \in Responses : Put(k, r)
  \/ Cleanup

CacheSpec == CacheInit /\ [][CacheNext]_cachevars

-----------------------------------------------------------------------------
CacheTypeOK ==
  /\ store \in [Keys -> Responses \union {NoResponse}]
  /\ before \subseteq Stored \X Stored
  /\ stale \subseteq Stored

\* The cache never outgrows its size, and its order is total on exactly the
\* stored keys, so that an eviction always frees one entry and never one that
\* came later (put, get and cleanup each edit the dict).
CacheBounded ==
  /\ Cardinality(Stored) <= MaxSize
  /\ \A j, k \in Stored : j # k => (<<j, k>> \in before <=> <<k, j>> \notin before)
  /\ \A i, j, k \in Stored :
       <<i, j>> \in before /\ <<j, k>> \in before => <<i, k>> \in before
  /\ \A k \in Stored : <<k, k>> \notin before

\* While an entry is valid every answer under its key is the same one: no
\* second handler of the same request replaces what the first one stored.
FirstResponseStands ==
  [][\A k \in Keys : Fresh(k) /\ Fresh(k)' => store'[k] = store[k]]_cachevars

\* An entry that is still valid goes only to make room, as the oldest one.
ValidEntriesKept ==
  [][\A k \in Keys :
       Fresh(k) /\ store'[k] = NoResponse =>
         /\ Cardinality(Stored) = MaxSize
         /\ \A j \in Stored \ {k} : <<k, j>> \in before]_cachevars
=============================================================================
