----------------------- MODULE MCSnapshotPublication -----------------------
(* Instances of SnapshotPublication.  No definition tells one location of a *)
(* Project from another, so they may be permuted.                           *)
EXTENDS SnapshotPublication, TLC

AllKinds  == {"ingest", "candidate", "apply"}
AllFaults == {"replace", "rollback", "remove", "crash"}
Symmetric == Permutations(Location)
=============================================================================
