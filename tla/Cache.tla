-------------------------------- MODULE Cache --------------------------------
(***************************************************************************)
(* The read-through cache of internal/api/cache.go: a Redis lookup, then   *)
(* one fill per key shared by every request that misses meanwhile.         *)
(*                                                                         *)
(* A payload is the version of the database rows it was computed from.     *)
(* Redis may fail, expire a key or evict it at any time (compose.yaml runs *)
(* it as an LRU).  A flight is named by its leader; what close(f.done)     *)
(* makes visible, a result that never changes again, is handed to the      *)
(* followers in got.                                                       *)
(***************************************************************************)
EXTENDS Naturals, FiniteSets

CONSTANTS
  Requests,   \* goroutines serving requests
  Keys,       \* cache keys
  None,       \* no value, no flight
  MaxVersion  \* bound: changes of the rows behind a key

ASSUME CacheAssumption == MaxVersion \in Nat /\ None \notin Requests \cup Nat

VARIABLES
  db,        \* db[k]: version of the rows behind key k
  redis,     \* redis[k]: the cached version, or None
  inflight,  \* inflight[k]: the leader of the flight in the map, or None
  pc,        \* pc[r]: where request r is
  key,       \* key[r]: the key r asks for
  result,    \* result[r]: what r's own fill, or its lookup, came to
  joined,    \* joined[r]: the leader r follows
  got,       \* got[r]: what the flight r follows has published
  ended,     \* ended[r]: r's context has ended
  newest     \* history: newest version ever stored under k

vars == <<db, redis, inflight, pc, key, result, joined, got, ended, newest>>

Results == [ok : {TRUE}, version : Nat] \cup [ok : {FALSE}, error : {"cancelled", "database"}] \cup {None}
Value(v) == [ok |-> TRUE, version |-> v]
Failure(e) == [ok |-> FALSE, error |-> e]

Init ==
  /\ db = [k \in Keys |-> 0] /\ redis = [k \in Keys |-> None]
  /\ inflight = [k \in Keys |-> None] /\ newest = [k \in Keys |-> 0]
  /\ pc = [r \in Requests |-> "idle"] /\ key \in [Requests -> Keys]
  /\ result = [r \in Requests |-> None] /\ joined = [r \in Requests |-> None]
  /\ got = [r \in Requests |-> None] /\ ended = [r \in Requests |-> FALSE]

Goto(r, from, to) == pc[r] = from /\ pc' = [pc EXCEPT ![r] = to]

-----------------------------------------------------------------------------
(* GetOrFill.                                                              *)

Hit(r, k) ==
  /\ redis[k] # None
  /\ Goto(r, "idle", "done")
  /\ key' = [key EXCEPT ![r] = k]
  /\ result' = [result EXCEPT ![r] = Value(redis[k])]
  /\ UNCHANGED <<db, redis, inflight, joined, got, ended, newest>>

\* No entry, or Redis is down.
Miss(r, k) ==
  /\ Goto(r, "idle", "missed")
  /\ key' = [key EXCEPT ![r] = k]
  /\ UNCHANGED <<db, redis, inflight, result, joined, got, ended, newest>>

\* (Fault) the map is not consulted
TakenFault(k) == FALSE
Taken(k) == inflight[k] # None

Join(r) ==
  /\ Taken(key[r])
  /\ Goto(r, "missed", "following")
  /\ joined' = [joined EXCEPT ![r] = inflight[key[r]]]
  /\ UNCHANGED <<db, redis, inflight, key, result, got, ended, newest>>

Lead(r) ==
  /\ ~Taken(key[r])
  /\ Goto(r, "missed", "filling")
  /\ inflight' = [inflight EXCEPT ![key[r]] = r]
  /\ UNCHANGED <<db, redis, key, result, joined, got, ended, newest>>

\* fill(ctx): the query answers from the rows as they are, ...
Filled(r) ==
  /\ Goto(r, "filling", "storing")
  /\ result' = [result EXCEPT ![r] = Value(db[key[r]])]
  /\ UNCHANGED <<db, redis, inflight, key, joined, got, ended, newest>>

\* ... or fails, with the leader's own context or for the database's sake.
FillFails(r) ==
  /\ Goto(r, "filling", "filled")
  /\ \E e \in {"database"} \cup (IF ended[r] THEN {"cancelled"} ELSE {}) :
       result' = [result EXCEPT ![r] = Failure(e)]
  /\ UNCHANGED <<db, redis, inflight, key, joined, got, ended, newest>>

\* rdb.Set, best effort.
Store(r) ==
  /\ Goto(r, "storing", "filled")
  /\ \/ /\ redis' = [redis EXCEPT ![key[r]] = result[r].version]
        /\ newest' = [newest EXCEPT ![key[r]] = result[r].version]
     \/ UNCHANGED <<redis, newest>>
  /\ UNCHANGED <<db, inflight, key, result, joined, got, ended>>

\* delete(c.inflight, key)
Unlist(r) ==
  /\ Goto(r, "filled", "unlisted")
  /\ inflight' = [inflight EXCEPT ![key[r]] = None]
  /\ UNCHANGED <<db, redis, key, result, joined, got, ended, newest>>

Followers(r) == {f \in Requests : pc[f] = "following" /\ joined[f] = r /\ got[f] = None}

\* close(f.done)
\* (Fault) a failed fill is not published
PublishedFault(r) ==
  [f \in Requests |-> IF f \in Followers(r) /\ result[r].ok THEN result[r] ELSE got[f]]
Published(r) == [f \in Requests |-> IF f \in Followers(r) THEN result[r] ELSE got[f]]

Close(r) ==
  /\ Goto(r, "unlisted", "done")
  /\ got' = Published(r)
  /\ UNCHANGED <<db, redis, inflight, key, result, joined, ended, newest>>

Follow(r) ==
  /\ got[r] # None
  /\ Goto(r, "following", "done")
  /\ result' = [result EXCEPT ![r] = got[r]]
  /\ UNCHANGED <<db, redis, inflight, key, joined, got, ended, newest>>

GiveUp(r) ==
  /\ ended[r]
  /\ Goto(r, "following", "done")
  /\ result' = [result EXCEPT ![r] = Failure("cancelled")]
  /\ UNCHANGED <<db, redis, inflight, key, joined, got, ended, newest>>

-----------------------------------------------------------------------------
(* The surroundings: the next request of a goroutine, a client that hangs  *)
(* up, ingestd writing the rows, Redis dropping a key.                     *)

NextRequest(r) ==
  /\ Goto(r, "done", "idle")
  /\ result' = [result EXCEPT ![r] = None] /\ joined' = [joined EXCEPT ![r] = None]
  /\ got' = [got EXCEPT ![r] = None] /\ ended' = [ended EXCEPT ![r] = FALSE]
  /\ UNCHANGED <<db, redis, inflight, key, newest>>

HangUp(r) ==
  /\ pc[r] \notin {"idle", "done"} /\ ~ended[r]
  /\ ended' = [ended EXCEPT ![r] = TRUE]
  /\ UNCHANGED <<db, redis, inflight, pc, key, result, joined, got, newest>>

Write(k) ==
  /\ db[k] < MaxVersion
  /\ db' = [db EXCEPT ![k] = @ + 1]
  /\ UNCHANGED <<redis, inflight, pc, key, result, joined, got, ended, newest>>

Drop(k) ==
  /\ redis[k] # None
  /\ redis' = [redis EXCEPT ![k] = None]
  /\ UNCHANGED <<db, inflight, pc, key, result, joined, got, ended, newest>>

-----------------------------------------------------------------------------
Lookup(r) == Join(r) \/ Lead(r)
Fill(r) == Filled(r) \/ FillFails(r)
Answer(r) == Follow(r) \/ GiveUp(r)
Proceed(r) == Lookup(r) \/ Fill(r) \/ Store(r) \/ Unlist(r) \/ Close(r) \/ Answer(r)

Next ==
  \/ \E r \in Requests : Proceed(r) \/ NextRequest(r) \/ HangUp(r)
  \/ \E r \in Requests, k \in Keys : Hit(r, k) \/ Miss(r, k)
  \/ \E k \in Keys : Write(k) \/ Drop(k)

Spec == Init /\ [][Next]_vars

\* Goroutines are scheduled, and a query ends, with rows or an error.
FairSpec == Spec /\ \A r \in Requests : WF_vars(Proceed(r))

-----------------------------------------------------------------------------
(* Properties.                                                             *)

Leading == {"filling", "storing", "filled", "unlisted"}

\* Every variable has its type.
TypeOK ==
  /\ db \in [Keys -> Nat] /\ newest \in [Keys -> Nat]
  /\ redis \in [Keys -> Nat \cup {None}]
  /\ inflight \in [Keys -> Requests \cup {None}] /\ joined \in [Requests -> Requests \cup {None}]
  /\ pc \in [Requests -> {"idle", "missed", "following", "done"} \cup Leading]
  /\ key \in [Requests -> Keys]
  /\ result \in [Requests -> Results] /\ got \in [Requests -> Results]
  /\ ended \in [Requests -> BOOLEAN]

\* Concurrent misses collapse: a key has at most one query running (cache.go:16-18).
OneFill == \A r, s \in Requests :
  pc[r] = "filling" /\ pc[s] = "filling" /\ key[r] = key[s] => r = s

\* Redis never goes back in time: because the flight stays listed until the
\* payload is stored, a slow fill cannot overwrite the result of a later one.
NeverBackwards == [][\A k \in Keys : newest'[k] >= newest[k]]_vars

\* Every request ends (FairSpec).
RequestsEnd == \A r \in Requests : pc[r] = "missed" ~> pc[r] = "done"

\* A follower whose leader is cancelled retries (cache.go:38-40: "followers
\* get its error and simply retry as new leaders"): nobody but a client that
\* hung up is answered with a cancellation.
FollowersRetry == \A r \in Requests :
  pc[r] = "done" /\ result[r] = Failure("cancelled") => ended[r]
=============================================================================
