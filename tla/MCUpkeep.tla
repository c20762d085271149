------------------------------ MODULE MCUpkeep ------------------------------
(* Instances of the components of Upkeep; MCDiscovery has those of Discovery. *)
EXTENDS Upkeep, MCDiscovery

CONSTANTS r1, r2, p1, p2

MCFloor == [s \in Sink |-> IF s = "human" THEN INFO ELSE DEBUG]
MCFirst == {<<"x">>, <<"x", "x">>}
MCSymmetry == Permutations({r1, r2}) \cup Permutations({p1, p2})

\* One state of what a behaviour is not about is enough.
MCUpkeepInit ==
  /\ part \in {"refresh", "report", "baseline", "raw", "scan", "registry", "review",
               "validation", "digest"}
  /\ RawInit
  /\ part # "raw" => format = "transcript" /\ file.bytes = <<"x">> /\ installed = "v1"
  /\ IF part = "scan" THEN ScanInit ELSE ScanAtRest
  /\ IF part = "registry" THEN RegistryInit ELSE RegistryAtRest
  /\ IF part = "review" THEN ReviewInit ELSE ReviewAtRest
  /\ IF part = "validation" THEN ValidationInit ELSE ValidationAtRest
  /\ UpkeepInit

MCUpkeepSpec == MCUpkeepInit /\ [][UpkeepNext]_upkeepVars
=============================================================================
