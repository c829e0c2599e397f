--------------------------- MODULE HistoryCursor ---------------------------
(***************************************************************************)
(* What ingestd promises about its persisted cursors (the contract at the  *)
(* head of CHWriter and at the end of processItems): a cursor moves past   *)
(* an observation only when ClickHouse already has it, so that a crash     *)
(* replays observations instead of losing them.                            *)
(***************************************************************************)
EXTENDS Naturals

CONSTANT Workers

VARIABLES
  stored,   \* observations in ClickHouse, as <<worker, position>>
  saved     \* saved[w]: the position w resumes from after a crash

vars == <<stored, saved>>

Init == stored = {} /\ saved = [w \in Workers |-> 0]

Record == stored \subseteq stored' /\ UNCHANGED saved

Save(w, position) ==
  /\ {w} \X (1..position) \subseteq stored
  /\ saved' = [saved EXCEPT ![w] = position]
  /\ UNCHANGED stored

Next == Record \/ \E w \in Workers : \E position \in saved[w]..saved'[w] : Save(w, position)

Spec == Init /\ [][Next]_vars
=============================================================================
