--------------------------- MODULE MCCursorCohort ---------------------------
(* Instances of CursorCohort: composers k1, k2 of Project "P", k3 of "Q";   *)
(* runs over both Projects, with capture, forced or not, and runs over P     *)
(* without; nothing is there at first, or the composers of P.               *)
EXTENDS CursorCohort, TLC

CONSTANTS k1, k2, k3

MCOwner    == [x \in Composer |-> IF x = k3 THEN "Q" ELSE "P"]
MCStarted  == {[x \in {} |-> "header"], [x \in {k1, k2} |-> "header"]}
MCSymmetry == Permutations({k1, k2})

Both      == [roots |-> {"P", "Q"}, force |-> FALSE, capture |-> TRUE]
MCOptions == {Both, [Both EXCEPT !.force = TRUE],
              [roots |-> {"P"}, force |-> FALSE, capture |-> FALSE]}
MCUpdate  == {Both}
=============================================================================
