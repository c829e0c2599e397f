------------------------------ MODULE ConnPool ------------------------------
(***************************************************************************)
(* The api's bounded Postgres pool (cmd/api/main.go) under the handlers of *)
(* internal/api.  Most of them take one connection at a time; the load of  *)
(* a collection that breaks out of its walk early keeps the connection of  *)
(* that walk, which is closed by a defer, while it asks for a second one   *)
(* to count offers.  There is one such load per slug, as it is the fill of *)
(* a flight (Cache, OneFill).  The history handler asks for its connection *)
(* with retailersMu in hand.                                               *)
(*                                                                         *)
(* Names that end in a parenthesised "Fault" comment are faulty variants   *)
(* of the definition that follows them.                                    *)
(***************************************************************************)
EXTENDS Naturals, FiniteSets

CONSTANTS
  Conns,     \* connections of the pool
  Handlers,  \* requests being served
  Slugs,     \* collections
  None       \* nobody, nothing

\* cmd/api/main.go:42 allows 16 connections; 002_collections.sql seeds six
\* collections.
ASSUME PoolAssumption ==
  /\ IsFiniteSet(Conns) /\ IsFiniteSet(Slugs) /\ Cardinality(Slugs) < Cardinality(Conns)
  /\ None \notin Handlers /\ None \notin Slugs

VARIABLES
  holder,  \* holder[c]: the request that has connection c, or None
  stage,   \* stage[r]: where request r is
  slug,    \* slug[r]: the collection r loads, or None
  mutex    \* the request that has retailersMu, or None

poolVars == <<holder, stage, slug, mutex>>

PoolInit ==
  /\ holder = [c \in Conns |-> None]
  /\ stage = [r \in Handlers |-> "idle"] /\ slug = [r \in Handlers |-> None]
  /\ mutex = None

Moves(r, from, to) == stage[r] = from /\ stage' = [stage EXCEPT ![r] = to]

Released(r) == [c \in Conns |-> IF holder[c] = r THEN None ELSE holder[c]]

\* The request is over: its rows are closed, its locks undone.
Finish(r) ==
  /\ holder' = Released(r)
  /\ slug' = [slug EXCEPT ![r] = None]
  /\ mutex' = IF mutex = r THEN None ELSE mutex

-----------------------------------------------------------------------------
\* Search, product, similar, showcase: one query at a time.
BeginPlain(r) ==
  /\ Moves(r, "idle", "get")
  /\ UNCHANGED <<holder, slug, mutex>>

\* handleHistory, retailerNames: the mutex comes first.
BeginHistory(r) ==
  /\ Moves(r, "idle", "lock")
  /\ UNCHANGED <<holder, slug, mutex>>

Lock(r) ==
  /\ mutex = None
  /\ Moves(r, "lock", "get")
  /\ mutex' = r
  /\ UNCHANGED <<holder, slug>>

\* handleCollection: a miss starts a fill unless one is running.
\* (Fault) every miss starts a fill
FillingFault(s) == FALSE
Filling(s) == \E r \in Handlers : slug[r] = s

\* A slug without a row in the collections table is a 404 after one query.
Known == Slugs

BeginLoad(r, s) ==
  /\ ~Filling(s)
  /\ Moves(r, "idle", "get")
  /\ slug' = [slug EXCEPT ![r] = s]
  /\ UNCHANGED <<holder, mutex>>

\* pool.Query takes a connection, when there is one.
Acquire(r) ==
  /\ \/ Moves(r, "get", "use")
     \/ Moves(r, "more", "count")
  /\ \E c \in Conns : holder[c] = None /\ holder' = [holder EXCEPT ![c] = r]
  /\ UNCHANGED <<slug, mutex>>

\* A query between others: rows read to the end give their connection back.
Requery(r) ==
  /\ mutex # r
  /\ Moves(r, "use", "get")
  /\ holder' = Released(r)
  /\ UNCHANGED <<slug, mutex>>

\* loadCollection, `break` at the target: the rows stay open.
BreakOff(r) ==
  /\ slug[r] # None
  /\ Moves(r, "use", "more")
  /\ UNCHANGED <<holder, slug, mutex>>

Respond(r) ==
  /\ \/ Moves(r, "use", "idle")
     \/ Moves(r, "count", "idle")
  /\ Finish(r)

\* A wait for a connection has no deadline of its own: only the client can
\* end it.
HangUp(r) ==
  /\ \/ Moves(r, "get", "idle")
     \/ Moves(r, "more", "idle")
  /\ Finish(r)

-----------------------------------------------------------------------------
PoolNext == \E r \in Handlers :
  \/ BeginPlain(r) \/ BeginHistory(r) \/ \E s \in Known : BeginLoad(r, s)
  \/ Lock(r) \/ Acquire(r) \/ Requery(r) \/ BreakOff(r) \/ Respond(r) \/ HangUp(r)

PoolSpec == PoolInit /\ [][PoolNext]_poolVars

(***************************************************************************)
(* Queries end and handlers issue finitely many (strong fairness of        *)
(* Respond); the pool and the mutex serve their waiters in turn.  Nobody   *)
(* has to hang up.                                                         *)
(***************************************************************************)
FairPoolSpec == PoolSpec /\ \A r \in Handlers :
  SF_poolVars(Acquire(r)) /\ SF_poolVars(Lock(r)) /\ WF_poolVars(Respond(r) \/ Requery(r) \/ BreakOff(r)) /\ SF_poolVars(Respond(r))

-----------------------------------------------------------------------------
(* Properties.                                                             *)

\* Every variable has its type; only a break leaves a connection behind.
PoolTypeOK ==
  /\ holder \in [Conns -> Handlers \cup {None}]
  /\ stage \in [Handlers -> {"idle", "lock", "get", "use", "more", "count"}]
  /\ slug \in [Handlers -> Slugs \cup {None}] /\ mutex \in Handlers \cup {None}

\* The pool never runs dry for good: some connection is free, or in the
\* hands of a request that needs no other and will give it back.
PoolDrains == \E c \in Conns : holder[c] = None \/ stage[holder[c]] # "more"

\* The facts behind it: one load per collection, connections only in the
\* hands of those that asked, and a second one only for the count.
OneLoad ==
  /\ \A r, q \in Handlers : slug[r] = slug[q] /\ slug[r] # None => r = q
  /\ \A r \in Handlers : stage[r] = "more" => slug[r] # None
  /\ \A c \in Conns : holder[c] # None => stage[holder[c]] \in {"use", "more", "count"}
  /\ \A c, d \in Conns : holder[c] = holder[d] /\ holder[c] # None /\ c # d => stage[holder[c]] = "count"

\* Every request is answered in the end, without its client hanging up (FairPoolSpec).
RequestsEnd == \A r \in Handlers : stage[r] \in {"lock", "get", "more"} ~> stage[r] = "idle"
=============================================================================
