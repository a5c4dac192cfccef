----------------------------- MODULE MCSnapshot -----------------------------
(* Snapshot for TLC: two builds of the server.  In the one entities change *)
(* and all of them come back; in the other each type is left out for a     *)
(* reason of its own, except one.                                          *)
EXTENDS Snapshot

CONSTANTS one, other

MCSchema == [f \in {one, other} |-> IF f = one THEN {"hero"} ELSE {"hero", "fx", "own", "mark"}]

MCMaxValue == [f \in {one, other} |-> IF f = one THEN 1 ELSE 0]

=============================================================================
