-------------------------- MODULE MCProjectCatalog --------------------------
(* Instances of ProjectCatalog.  Directories are interchangeable, and so are *)
(* workers.                                                                  *)
EXTENDS ProjectCatalog, TLC

AllOperations == {"ingest", "add", "retire", "relocate"}
Commands      == AllOperations \ {"ingest"}
AllFaults     == {"crash", "fail", "clean", "copy", "move", "damage"}
Symmetric     == Permutations(Directory) \cup Permutations(Worker)
=============================================================================
