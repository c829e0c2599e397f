----------------------------- MODULE CacheProofs -----------------------------
(***************************************************************************)
(* Proofs about Cache, for any number of requests, keys and changes of the *)
(* rows.  FlightInv says that whoever fills is the one listed under its    *)
(* key, which is why fills cannot overlap, and that its payload is at      *)
(* least as new as what Redis has been given.                              *)
(***************************************************************************)
EXTENDS Cache, TLAPS

\* From Lead to Unlist a leader is in the map (cache.go:57-65).
LeaderIsListed == \A r \in Requests : pc[r] \in {"filling", "storing", "filled"} => inflight[key[r]] = r

\* Redis is not ahead of the rows, and a payload on its way to Redis lies
\* between the two.
PayloadIsFresh ==
  /\ \A k \in Keys : newest[k] <= db[k]
  /\ \A r \in Requests : pc[r] = "storing" =>
       /\ result[r].version \in Nat
       /\ newest[key[r]] <= result[r].version /\ result[r].version <= db[key[r]]

\* The types of what the proofs are about.
Types ==
  /\ db \in [Keys -> Nat] /\ newest \in [Keys -> Nat]
  /\ inflight \in [Keys -> Requests \cup {None}]
  /\ pc \in [Requests -> {"idle", "missed", "following", "done"} \cup Leading]
  /\ key \in [Requests -> Keys] /\ result = [r \in Requests |-> result[r]]

FlightInv == Types /\ LeaderIsListed /\ PayloadIsFresh

\* No request has come yet.
LEMMA InitEstablishes == Init => FlightInv
  <1> SUFFICES ASSUME Init PROVE FlightInv
    OBVIOUS
  <1>1. Types
    BY DEF Init, Types
  <1>2. LeaderIsListed
    BY DEF Init, LeaderIsListed
  <1>3. PayloadIsFresh
    BY DEF Init, PayloadIsFresh
  <1> QED
    BY <1>1, <1>2, <1>3 DEF FlightInv

\* Two leaders that are listed under one key are one.
LEMMA OneLeader ==
  ASSUME FlightInv, NEW r \in Requests, NEW s \in Requests, key[r] = key[s],
         pc[r] \in {"filling", "storing", "filled"}, pc[s] \in {"filling", "storing", "filled"}
  PROVE  r = s
  BY DEF FlightInv, LeaderIsListed

\* A step of r that neither touches the map nor stores, and leads it to no
\* new place between Lead and Unlist.
LEMMA PlainPreserves ==
  ASSUME FlightInv, NEW r \in Requests,
         NEW to \in {"idle", "missed", "following", "filled", "unlisted", "done"}, pc' = [pc EXCEPT ![r] = to],
         to = "filled" => pc[r] \in {"filling", "storing"} /\ key' = key,
         NEW k \in Keys, key' = [key EXCEPT ![r] = k],
         NEW v, result' = [result EXCEPT ![r] = v],
         UNCHANGED <<db, inflight, newest>>
  PROVE  FlightInv'
  <1>1. Types'
    BY DEF FlightInv, Types, Leading
  <1>2. LeaderIsListed'
    BY DEF FlightInv, Types, LeaderIsListed
  <1>3. PayloadIsFresh'
    <2>1. ASSUME NEW s \in Requests, pc'[s] = "storing"
          PROVE  s # r /\ pc[s] = "storing" /\ result'[s] = result[s] /\ key'[s] = key[s]
      BY <2>1 DEF FlightInv, Types
    <2> QED
      BY <2>1 DEF FlightInv, PayloadIsFresh
  <1> QED
    BY <1>1, <1>2, <1>3 DEF FlightInv

\* Every step of the next-state relation preserves the invariant, and none
\* takes Redis back.
LEMMA NextPreserves ==
  ASSUME FlightInv, [Next]_vars
  PROVE  FlightInv' /\ \A k \in Keys : newest'[k] >= newest[k]
  <1>0. /\ key \in [Requests -> Keys] /\ newest \in [Keys -> Nat]
        /\ \A r \in Requests : key[r] \in Keys
        /\ \A r \in Requests : key = [key EXCEPT ![r] = key[r]]
        /\ \A r \in Requests : result = [result EXCEPT ![r] = result[r]]
        /\ DOMAIN result = Requests
        /\ \A k \in Keys : newest[k] \in Nat
    BY DEF FlightInv, Types
  <1>1. CASE UNCHANGED vars
    BY <1>0, <1>1 DEF vars, FlightInv, Types, LeaderIsListed, PayloadIsFresh
  <1>2. ASSUME NEW r \in Requests, NEW k \in Keys, Hit(r, k) \/ Miss(r, k)
        PROVE  FlightInv' /\ newest' = newest
    <2>1. /\ \/ pc' = [pc EXCEPT ![r] = "done"]
             \/ pc' = [pc EXCEPT ![r] = "missed"]
          /\ key' = [key EXCEPT ![r] = k]
          /\ \E v : result' = [result EXCEPT ![r] = v]
          /\ UNCHANGED <<db, inflight, newest>>
      <3>1. CASE Hit(r, k)
        <4>1. pc' = [pc EXCEPT ![r] = "done"] /\ UNCHANGED <<db, inflight, newest>>
          BY <3>1 DEF Hit, Goto
        <4>2. key' = [key EXCEPT ![r] = k] /\ result' = [result EXCEPT ![r] = Value(redis[k])]
          BY <3>1 DEF Hit
        <4> QED
          BY <4>1, <4>2
      <3>2. CASE Miss(r, k)
        <4>1. result' = [result EXCEPT ![r] = result[r]]
          BY <3>2, <1>0 DEF Miss
        <4>2. pc' = [pc EXCEPT ![r] = "missed"] /\ key' = [key EXCEPT ![r] = k]
          BY <3>2 DEF Miss, Goto
        <4>3. UNCHANGED <<db, inflight, newest>>
          BY <3>2 DEF Miss
        <4> QED
          BY <4>1, <4>2, <4>3
      <3> QED
        BY <1>2, <3>1, <3>2
    <2> QED
      BY <2>1, PlainPreserves
  <1>3. ASSUME NEW r \in Requests, Join(r) \/ FillFails(r) \/ Close(r) \/ Follow(r) \/ GiveUp(r) \/ NextRequest(r)
        PROVE  FlightInv' /\ newest' = newest
    <2>1. PICK to \in {"idle", "following", "filled", "done"} :
            /\ pc' = [pc EXCEPT ![r] = to]
            /\ to = "filled" => pc[r] = "filling"
      <3>1. Join(r) => pc' = [pc EXCEPT ![r] = "following"]
        BY DEF Join, Goto
      <3>2. FillFails(r) => pc[r] = "filling" /\ pc' = [pc EXCEPT ![r] = "filled"]
        BY DEF FillFails, Goto
      <3>3. Close(r) \/ Follow(r) \/ GiveUp(r) => pc' = [pc EXCEPT ![r] = "done"]
        BY DEF Close, Follow, GiveUp, Goto
      <3>4. NextRequest(r) => pc' = [pc EXCEPT ![r] = "idle"]
        BY DEF NextRequest, Goto
      <3> QED
        BY <1>3, <3>1, <3>2, <3>3, <3>4
    <2>2. PICK v : result' = [result EXCEPT ![r] = v]
      <3>1. CASE Join(r) \/ Close(r)
        <4>1. result' = [result EXCEPT ![r] = result[r]]
          BY <3>1, <1>0 DEF Join, Close
        <4> QED
          BY <4>1
      <3>2. CASE FillFails(r) \/ Follow(r) \/ GiveUp(r) \/ NextRequest(r)
        BY <3>2 DEF FillFails, Follow, GiveUp, NextRequest
      <3> QED
        BY <1>3, <3>1, <3>2
    <2>3. UNCHANGED <<db, inflight, newest, key>>
      BY <1>3 DEF Join, FillFails, Close, Follow, GiveUp, NextRequest
    <2>4. key' = [key EXCEPT ![r] = key[r]] /\ key[r] \in Keys
      BY <2>3, <1>0
    <2> QED
      BY <2>1, <2>2, <2>3, <2>4, PlainPreserves
  <1>4. ASSUME NEW r \in Requests, Lead(r) PROVE FlightInv' /\ newest' = newest
    <2>1. /\ pc[r] = "missed" /\ pc' = [pc EXCEPT ![r] = "filling"] /\ inflight[key[r]] = None
          /\ inflight' = [inflight EXCEPT ![key[r]] = r]
          /\ UNCHANGED <<db, key, result, newest>>
      BY <1>4 DEF Lead, Goto, Taken
    <2>2. Types'
      BY <2>1, <1>0 DEF FlightInv, Types, Leading
    <2>3. LeaderIsListed'
      <3> SUFFICES ASSUME NEW s \in Requests, pc'[s] \in {"filling", "storing", "filled"}
                   PROVE  inflight'[key[s]] = s
        BY <2>1 DEF LeaderIsListed
      <3>1. CASE s = r
        BY <3>1, <2>1, <1>0 DEF FlightInv, Types
      <3>2. CASE s # r
        <4>1. pc[s] \in {"filling", "storing", "filled"}
          BY <3>2, <2>1 DEF FlightInv, Types
        <4>2. inflight[key[s]] = s /\ s # None
          BY <4>1, CacheAssumption DEF FlightInv, LeaderIsListed
        <4> QED
          BY <4>2, <2>1, <1>0 DEF FlightInv, Types
      <3> QED
        BY <3>1, <3>2
    <2>4. PayloadIsFresh'
      <3>1. \A s \in Requests : pc'[s] = "storing" => pc[s] = "storing"
        BY <2>1 DEF FlightInv, Types
      <3> QED
        BY <3>1, <2>1 DEF FlightInv, PayloadIsFresh
    <2> QED
      BY <2>1, <2>2, <2>3, <2>4 DEF FlightInv
  <1>5. ASSUME NEW r \in Requests, Filled(r) PROVE FlightInv' /\ newest' = newest
    <2>1. /\ pc[r] = "filling" /\ pc' = [pc EXCEPT ![r] = "storing"]
          /\ result' = [result EXCEPT ![r] = [ok |-> TRUE, version |-> db[key[r]]]]
          /\ UNCHANGED <<db, inflight, key, newest>>
      BY <1>5 DEF Filled, Goto, Value
    <2>2. Types'
      <3>1. result' = [s \in Requests |-> result'[s]]
        BY <2>1 DEF FlightInv, Types
      <3>2. pc' \in [Requests -> {"idle", "missed", "following", "done"} \cup Leading]
        BY <2>1 DEF FlightInv, Types, Leading
      <3> QED
        BY <3>1, <3>2, <2>1 DEF FlightInv, Types
    <2>3. LeaderIsListed'
      BY <2>1 DEF FlightInv, Types, LeaderIsListed
    <2>4. PayloadIsFresh'
      <3>1. result'[r].version = db[key[r]]
        BY <2>1, <1>0
      <3>2. /\ \A k \in Keys : newest[k] <= db[k]
            /\ db[key[r]] \in Nat /\ newest[key[r]] \in Nat
        BY <1>0 DEF FlightInv, Types, PayloadIsFresh
      <3>3. ASSUME NEW s \in Requests, s # r, pc'[s] = "storing"
            PROVE  pc[s] = "storing" /\ result'[s] = result[s]
        BY <3>3, <2>1, <1>0 DEF FlightInv, Types
      <3> QED
        BY <3>1, <3>2, <3>3, <2>1, <1>0 DEF FlightInv, PayloadIsFresh
    <2> QED
      BY <2>1, <2>2, <2>3, <2>4 DEF FlightInv
  <1>6. ASSUME NEW r \in Requests, Store(r)
        PROVE  FlightInv' /\ \A k \in Keys : newest'[k] >= newest[k]
    <2>1. /\ pc[r] = "storing" /\ pc' = [pc EXCEPT ![r] = "filled"]
          /\ UNCHANGED <<db, inflight, key, result>>
      BY <1>6 DEF Store, Goto
    <2> DEFINE v == result[r].version
    <2>2. v \in Nat /\ newest[key[r]] <= v /\ v <= db[key[r]]
      BY <2>1 DEF FlightInv, PayloadIsFresh
    <2> HIDE DEF v
    <2>3. /\ \A k \in Keys \ {key[r]} : newest'[k] = newest[k]
          /\ newest'[key[r]] \in {newest[key[r]], v}
          /\ newest' \in [Keys -> Nat]
      <3>1. newest' = newest \/ newest' = [newest EXCEPT ![key[r]] = v]
        BY <1>6 DEF Store, v
      <3> QED
        BY <3>1, <2>2, <1>0
    <2>4. Types'
      BY <2>1, <2>3 DEF FlightInv, Types, Leading
    <2>5. LeaderIsListed'
      BY <2>1 DEF FlightInv, Types, LeaderIsListed
    <2>6. PayloadIsFresh'
      <3>1. \A k \in Keys : newest'[k] <= db[k]
        <4>1. \A k \in Keys : newest[k] <= db[k]
          BY DEF FlightInv, PayloadIsFresh
        <4> QED
          BY <4>1, <2>2, <2>3
      <3>2. ASSUME NEW s \in Requests, pc'[s] = "storing"
            PROVE  pc[s] = "storing" /\ key[s] # key[r]
        <4>1. pc[s] = "storing" /\ s # r
          BY <3>2, <2>1 DEF FlightInv, Types
        <4> QED
          BY <4>1, <2>1, OneLeader
      <3>3. ASSUME NEW s \in Requests, pc'[s] = "storing"
            PROVE  newest'[key[s]] = newest[key[s]]
        BY <3>3, <3>2, <2>3, <1>0
      <3> QED
        BY <3>1, <3>2, <3>3, <2>1 DEF FlightInv, PayloadIsFresh
    <2>7. \A k \in Keys : newest'[k] >= newest[k]
      BY <2>2, <2>3, <1>0
    <2> QED
      BY <2>4, <2>5, <2>6, <2>7 DEF FlightInv
  <1>7. ASSUME NEW r \in Requests, Unlist(r) PROVE FlightInv' /\ newest' = newest
    <2>1. /\ pc[r] = "filled" /\ pc' = [pc EXCEPT ![r] = "unlisted"]
          /\ inflight' = [inflight EXCEPT ![key[r]] = None]
          /\ UNCHANGED <<db, key, result, newest>>
      BY <1>7 DEF Unlist, Goto
    <2>2. Types'
      BY <2>1, <1>0 DEF FlightInv, Types, Leading
    <2>3. LeaderIsListed'
      <3> SUFFICES ASSUME NEW s \in Requests, pc'[s] \in {"filling", "storing", "filled"}
                   PROVE  inflight'[key[s]] = s
        BY <2>1 DEF LeaderIsListed
      <3>1. pc[s] \in {"filling", "storing", "filled"} /\ s # r
        BY <2>1 DEF FlightInv, Types
      <3>2. key[s] # key[r] /\ inflight[key[s]] = s
        BY <3>1, <2>1, OneLeader DEF FlightInv, LeaderIsListed
      <3> QED
        BY <3>2, <2>1, <1>0 DEF FlightInv, Types
    <2>4. PayloadIsFresh'
      <3>1. \A s \in Requests : pc'[s] = "storing" => pc[s] = "storing"
        BY <2>1 DEF FlightInv, Types
      <3> QED
        BY <3>1, <2>1 DEF FlightInv, PayloadIsFresh
    <2> QED
      BY <2>1, <2>2, <2>3, <2>4 DEF FlightInv
  <1>8. ASSUME NEW r \in Requests, HangUp(r) PROVE FlightInv' /\ newest' = newest
    BY <1>0, <1>8 DEF HangUp, FlightInv, Types, LeaderIsListed, PayloadIsFresh
  <1>9. ASSUME NEW k \in Keys, Drop(k) PROVE FlightInv' /\ newest' = newest
    BY <1>0, <1>9 DEF Drop, FlightInv, Types, LeaderIsListed, PayloadIsFresh
  <1>10. ASSUME NEW k \in Keys, Write(k) PROVE FlightInv' /\ newest' = newest
    <2>1. /\ db' = [db EXCEPT ![k] = db[k] + 1]
          /\ UNCHANGED <<inflight, pc, key, result, newest>>
      BY <1>10 DEF Write
    <2>2. db' \in [Keys -> Nat] /\ \A j \in Keys : db[j] \in Nat /\ db'[j] \in Nat /\ db[j] <= db'[j]
      BY <2>1 DEF FlightInv, Types
    <2>3. Types' /\ LeaderIsListed'
      BY <2>1, <2>2 DEF FlightInv, Types, LeaderIsListed
    <2>4. PayloadIsFresh'
      <3>1. \A j \in Keys : newest[j] <= db'[j]
        BY <2>2, <1>0 DEF FlightInv, PayloadIsFresh
      <3>2. ASSUME NEW r \in Requests, pc[r] = "storing"
            PROVE  /\ result[r].version \in Nat /\ newest[key[r]] <= result[r].version
                   /\ result[r].version <= db'[key[r]]
        <4>1. /\ result[r].version \in Nat /\ newest[key[r]] <= result[r].version
              /\ result[r].version <= db[key[r]]
          BY <3>2 DEF FlightInv, PayloadIsFresh
        <4> QED
          BY <4>1, <2>2, <1>0
      <3> QED
        BY <3>1, <3>2, <2>1 DEF PayloadIsFresh
    <2> QED
      BY <2>1, <2>3, <2>4 DEF FlightInv
  <1>11. newest' = newest => \A k \in Keys : newest'[k] >= newest[k]
    BY <1>0
  <1> QED
    BY <1>0, <1>1, <1>2, <1>3, <1>4, <1>5, <1>6, <1>7, <1>8, <1>9, <1>10, <1>11
    DEF Next, Proceed, Lookup, Fill, Answer, vars

-----------------------------------------------------------------------------
\* Leaders are in the map and carry a payload at least as new as Redis
\* (cache.go:48-67).
THEOREM FlightInvariant == Spec => []FlightInv
  <1>1. FlightInv /\ [Next]_vars => FlightInv'
    BY NextPreserves
  <1> QED
    BY InitEstablishes, <1>1, PTL DEF Spec

\* Concurrent misses collapse: a key has at most one query running
\* (cache.go:16-18).
THEOREM FillsNeverOverlap == Spec => []OneFill
  <1>1. FlightInv => OneFill
    BY OneLeader DEF OneFill
  <1> QED
    BY <1>1, FlightInvariant, PTL

\* Redis never goes back in time: a slow fill cannot overwrite the result of
\* a later one (cache.go:62-65, 79-81).
THEOREM RedisNeverGoesBack == Spec => NeverBackwards
  <1>1. FlightInv /\ [Next]_vars => [\A k \in Keys : newest'[k] >= newest[k]]_vars
    BY NextPreserves
  <1> QED
    BY <1>1, FlightInvariant, PTL DEF Spec, NeverBackwards
=============================================================================
