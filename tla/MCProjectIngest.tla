-------------------------- MODULE MCProjectIngest --------------------------
(* Instances of ProjectIngest: two Sources of two vendors; "c" is a Source  *)
(* whose marker is taken before it is read.                                 *)
EXTENDS ProjectIngest

Plain == [force |-> FALSE, stop |-> FALSE, candidate |-> FALSE,
          seal |-> FALSE, sel |-> Vendor]

MCVendorOf   == [s \in Source |-> IF s = "t" THEN "cc" ELSE "cursor"]
UpdateMode   == {Plain}
AllModes     == {[Plain EXCEPT !.force = f, !.stop = st, !.sel = vs] :
                   f \in BOOLEAN, st \in BOOLEAN, vs \in {{"cc"}, Vendor}}
                \cup {[Plain EXCEPT !.candidate = TRUE], [Plain EXCEPT !.seal = TRUE]}
=============================================================================
