------------------------ MODULE SnapshotPublication ------------------------
(***************************************************************************)
(* The snapshots of one Project: how they are built, made current, trimmed *)
(* and pruned, and the raw objects they rest on.                           *)
(*                                                                         *)
(* A Project has a durable root, with its snapshots and a central pointer, *)
(* and one or more locations, each with its working stores and a pointer   *)
(* of its own.  A run at a location starts from the raw records of the     *)
(* snapshot its local pointer names, captures the Source into the shared   *)
(* raw store, builds a snapshot, replaces the central and then the local   *)
(* pointer, and trims.  A prune plans against what it finds, then deletes  *)
(* snapshots, then raw objects.  Everything may fail or die half way.      *)
(*                                                                         *)
(* Snapshot identities begin with their creation time: they are numbers in *)
(* creation order.  Raw objects are named by content, numbered in the      *)
(* order the one Source took it on.  0 stands for "none" everywhere.       *)
(***************************************************************************)
EXTENDS Naturals, FiniteSets, Functions

CONSTANTS
  Location,    \* the directories of the Project
  NoLocation,  \* "no run is in progress"
  MaxId,       \* bound on the snapshots ever built
  MaxContent,  \* bound on the contents of the Source
  Kinds,       \* what runs are: "ingest", "candidate", "apply"
  Depths,      \* the retained totals that may be asked for
  Faults,      \* "replace", "rollback", "remove", "crash"
  Apart        \* whether a prune and a run never overlap

ASSUME PublicationAssumption ==
  /\ NoLocation \notin Location
  /\ MaxId \in Nat /\ MaxContent \in Nat
  /\ Kinds \subseteq {"ingest", "candidate", "apply"}
  /\ Depths \subseteq Nat
  /\ Faults \subseteq {"replace", "rollback", "remove", "crash"}
  /\ Apart \in BOOLEAN

VARIABLES
  source,    \* the content of the Source
  gen,       \* what is on disk of each snapshot
  ref,       \* the raw object its manifest names
  objs,      \* the raw objects in the store
  central,   \* the pointer under the durable root
  local,     \* the pointer of each location
  selected,  \* the snapshot the approved catalog selects for each location
  served,    \* history: the snapshots the central pointer has named
  torn,      \* history: the last replacement of the pointers was cut short
  last,      \* the last identity given out
  phase,     \* where the run is
  loc,       \* its location
  kind,      \* what it is
  rec,       \* the raw object its records name
  new,       \* the snapshot it built or recovers
  prior,     \* the central pointer before it was replaced
  trims,     \* the snapshots its trim has still to remove
  pruning,   \* where the prune is
  doomed,    \* the snapshots it has still to delete
  dead       \* the raw objects it has still to delete

disk  == <<gen, ref, objs, central, local, selected>>
run   == <<phase, loc, kind, rec, new, prior, trims>>
prune == <<pruning, doomed, dead>>
vars  == <<source, disk, served, torn, last, run, prune>>

Id      == 1..MaxId
Content == 1..MaxContent
\* A removal that failed half way leaves the directory: without its stores,
\* or without the manifests either.
Shape   == {"absent", "whole", "gutted", "wrecked"}
Phase   == {"idle", "run", "validate", "publish", "central", "local",
            "rollback", "published", "trim"}

TypeOK ==
  /\ source \in 0..MaxContent /\ last \in 0..MaxId
  /\ gen \in [Id -> Shape] /\ ref \in [Id -> 0..MaxContent]
  /\ objs \subseteq Content
  /\ central \in 0..MaxId /\ local \in [Location -> 0..MaxId]
  /\ selected \in [Location -> 0..MaxId]
  /\ served \subseteq Id /\ torn \in BOOLEAN
  /\ phase \in Phase /\ loc \in Location \cup {NoLocation}
  /\ phase # "idle" => loc \in Location
  /\ phase \notin {"idle", "run"} => new \in Id
  /\ kind \in Kinds \cup {"recover", "none"}
  /\ rec \in 0..MaxContent /\ new \in 0..MaxId /\ prior \in 0..MaxId
  /\ trims \subseteq Id
  /\ pruning \in BOOLEAN /\ doomed \subseteq Id /\ dead \subseteq Content

\* A run that ends, however it ends, keeps nothing in memory.
EndRun ==
  /\ phase' = "idle" /\ loc' = NoLocation /\ kind' = "none"
  /\ rec' = 0 /\ new' = 0 /\ prior' = 0 /\ trims' = {}

EndPrune == pruning' = FALSE /\ doomed' = {} /\ dead' = {}

Init ==
  /\ source = 0 /\ last = 0
  /\ gen = [i \in Id |-> "absent"] /\ ref = [i \in Id |-> 0] /\ objs = {}
  /\ central = 0 /\ local = [l \in Location |-> 0]
  /\ selected = [l \in Location |-> 0] /\ served = {} /\ torn = FALSE
  /\ phase = "idle" /\ loc = NoLocation /\ kind = "none"
  /\ rec = 0 /\ new = 0 /\ prior = 0 /\ trims = {}
  /\ pruning = FALSE /\ doomed = {} /\ dead = {}

-----------------------------------------------------------------------------
Whole       == {i \in Id : gen[i] = "whole"}
Generations == {i \in Id : gen[i] # "absent"}
Selected    == {selected[l] : l \in Location}

\* Following a pointer needs no more than the manifest it names.
Resolves(i) == i \in Id /\ gen[i] \in {"whole", "gutted"}

\* Faulty variant: one snapshot fewer is retained.
BeyondOff(superseded, k) ==
  {i \in superseded :
     k > 0 /\ Cardinality({j \in superseded : j > i}) + 2 >= k}

\* Of the superseded snapshots, those outside a retained total k that counts
\* the current one; a total of 0 retains everything.
Beyond(superseded, k) ==
  {i \in superseded :
     k > 0 /\ Cardinality({j \in superseded : j > i}) + 1 >= k}

Oldest(i, S) == i \in S /\ \A j \in S : i <= j

\* Removing a directory tree may stop anywhere.
Removed(i, shape) ==
  /\ shape = "absent" \/ "remove" \in Faults
  /\ shape \in {gen[i], "absent"} \/ (shape = "gutted" /\ gen[i] = "whole")
       \/ shape = "wrecked"
  /\ gen' = [gen EXCEPT ![i] = shape]

-----------------------------------------------------------------------------
\* The vendor's tool changes the Source.
Write ==
  /\ source < MaxContent
  /\ source' = source + 1
  /\ UNCHANGED <<disk, served, torn, last, run, prune>>

\* A run reads the raw records of the location's current snapshot, and is
\* refused when its pointer leads nowhere.
Begin(l, k) ==
  /\ phase = "idle"
  /\ Apart => ~pruning
  /\ local[l] = 0 \/ Resolves(local[l])
  /\ phase' = "run" /\ loc' = l /\ kind' = k
  /\ rec' = IF local[l] = 0 THEN 0 ELSE ref[local[l]]
  /\ UNCHANGED <<source, disk, served, torn, last, new, prior, trims, prune>>

\* Observing the Source captures its content; an object already in the store
\* is used as it is.
Capture ==
  /\ phase = "run" /\ source > 0
  /\ rec' = source /\ objs' = objs \cup {source}
  /\ UNCHANGED <<source, gen, ref, central, local, selected, served, torn, last,
                 phase, loc, kind, new, prior, trims, prune>>

\* The run fails, or gives no reason to build a snapshot.
Leave ==
  /\ phase = "run"
  /\ EndRun
  /\ UNCHANGED <<source, disk, served, torn, last, prune>>

\* A snapshot appears under its name complete.  It is not checked that the raw
\* object it names is in the store.
Create ==
  /\ phase = "run" /\ rec > 0 /\ last < MaxId
  /\ local[loc] = 0 \/ Resolves(local[loc])
  /\ last' = last + 1
  /\ gen' = [gen EXCEPT ![last + 1] = "whole"]
  /\ ref' = [ref EXCEPT ![last + 1] = rec]
  /\ IF kind = "candidate" THEN EndRun
     ELSE /\ phase' = IF kind = "apply" THEN "validate" ELSE "publish"
          /\ new' = last + 1
          /\ UNCHANGED <<loc, kind, rec, prior, trims>>
  /\ UNCHANGED <<source, objs, central, local, selected, served, torn, prune>>

\* The baseline workflow publishes a candidate only when it was accepted.
Accept ==
  /\ phase = "validate"
  /\ phase' = "publish"
  /\ UNCHANGED <<source, disk, served, torn, last, loc, kind, rec, new, prior,
                 trims, prune>>

Reject ==
  /\ phase = "validate"
  /\ EndRun
  /\ UNCHANGED <<source, disk, served, torn, last, prune>>

\* Faulty variant: the snapshot the central pointer names is recovered.
RecoveryChoiceNamed(i) == i = central

\* The newest snapshot that validates, whether it was ever published or not.
RecoveryChoice(i) == i \in Whole /\ \A j \in Whole : j <= i

\* The operator has a snapshot republished.
Recover(l) ==
  /\ phase = "idle"
  /\ Apart => ~pruning
  /\ phase' = "publish" /\ loc' = l /\ kind' = "recover"
  /\ \E i \in 0..MaxId : RecoveryChoice(i) /\ new' = i
  /\ UNCHANGED <<source, disk, served, torn, last, rec, prior, trims, prune>>

-----------------------------------------------------------------------------
\* Publication checks that what it is about to name can be read whole.
Verify ==
  /\ phase = "publish"
  /\ IF gen[new] = "whole"
     THEN /\ phase' = "central" /\ prior' = central
          /\ UNCHANGED <<loc, kind, rec, new, trims>>
     ELSE EndRun
  /\ UNCHANGED <<source, disk, served, torn, last, prune>>

ReplaceCentral ==
  /\ phase = "central"
  /\ phase' = "local" /\ central' = new /\ served' = served \cup {new}
  /\ UNCHANGED <<source, gen, ref, objs, local, selected, torn, last, loc, kind,
                 rec, new, prior, trims, prune>>

ReplaceLocal ==
  /\ phase = "local"
  /\ phase' = "published" /\ local' = [local EXCEPT ![loc] = new]
  /\ torn' = FALSE
  /\ UNCHANGED <<source, gen, ref, objs, central, selected, served, last,
                 loc, kind, rec, new, prior, trims, prune>>

\* A replacement fails: what was replaced before it is put back.
ReplaceFails ==
  /\ "replace" \in Faults
  /\ \/ phase = "central" /\ EndRun
     \/ /\ phase = "local" /\ phase' = "rollback"
        /\ UNCHANGED <<loc, kind, rec, new, prior, trims>>
  /\ UNCHANGED <<source, disk, served, torn, last, prune>>

\* Faulty variant: nothing is put back.
RestoredNever == central

Restored == prior

\* Putting it back may fail too, and leaves the pointers apart.
Rollback ==
  /\ phase = "rollback"
  /\ \/ central' = Restored /\ UNCHANGED torn
     \/ "rollback" \in Faults /\ central' = central /\ torn' = TRUE
  /\ EndRun
  /\ UNCHANGED <<source, gen, ref, objs, local, selected, served, last, prune>>

\* Faulty variant: what the catalogs select is not looked at.
TrimmableUnselected == Generations \ {new}

\* Faulty variant: the snapshot just published is not set aside.
TrimmableAll == Generations \ Selected

\* The prior snapshots no catalog selects; these are not counted either.
Trimmable == Generations \ ({new} \cup Selected)

\* After a publication: ingest trims, unless a catalog cannot be read; the
\* baseline workflow may have its catalog select what it published; and a
\* recovery is done.
AfterIngest(k) ==
  /\ phase = "published" /\ kind = "ingest"
  /\ phase' = "trim"
  /\ trims' = Beyond(Trimmable, k) \/ ("remove" \in Faults /\ trims' = {})
  /\ UNCHANGED <<source, disk, served, torn, last, loc, kind, rec, new, prior, prune>>

AfterApply(approve) ==
  /\ phase = "published" /\ kind = "apply"
  /\ selected' = IF approve THEN [selected EXCEPT ![loc] = new] ELSE selected
  /\ EndRun
  /\ UNCHANGED <<source, gen, ref, objs, central, local, served, torn, last, prune>>

AfterRecover ==
  /\ phase = "published" /\ kind = "recover"
  /\ EndRun
  /\ UNCHANGED <<source, disk, served, torn, last, prune>>

\* The trim takes the oldest first and goes on past one it cannot remove.
Trim ==
  /\ phase = "trim"
  /\ \E i \in trims, shape \in Shape :
       Oldest(i, trims) /\ Removed(i, shape) /\ trims' = trims \ {i}
  /\ UNCHANGED <<source, ref, objs, central, local, selected, served, torn, last,
                 phase, loc, kind, rec, new, prior, prune>>

TrimDone ==
  /\ phase = "trim" /\ trims = {}
  /\ EndRun
  /\ UNCHANGED <<source, disk, served, torn, last, prune>>

\* The process dies, at any point, or in the middle of a removal.
Crash ==
  /\ phase # "idle" /\ "crash" \in Faults
  /\ EndRun
  /\ torn' = (torn \/ phase \in {"local", "rollback"})
  /\ UNCHANGED <<source, disk, served, last, prune>>

-----------------------------------------------------------------------------
\* Faulty variant: the current snapshot is counted among the superseded.
SupersededAll(k) == Beyond(Generations, k)

\* What a plan with retained total k deletes and keeps.
Superseded(k) == Beyond(Generations \ {central}, k)
Retained(k)   == Generations \ Superseded(k)

\* Faulty variant: only the current snapshot's object is kept.
UnreferencedByCurrent(k) == objs \ {ref[central]}

\* A snapshot inside the retained total keeps its raw object.
Unreferenced(k) == objs \ {ref[i] : i \in Retained(k)}

\* Faulty variant: the pointers of the locations are not looked at.
SafeUnlocated(k) ==
  /\ central # 0 /\ gen[central] = "whole" /\ ref[central] \in objs
  /\ \A i \in Retained(k) : gen[i] # "wrecked"
  /\ Selected \cap Superseded(k) = {}

\* A plan is refused while the current snapshot or its evidence is damaged, a
\* retained manifest cannot be read, or a pointer or a catalog names what it
\* would delete.
Safe(k) ==
  /\ central # 0 /\ gen[central] = "whole" /\ ref[central] \in objs
  /\ \A i \in Retained(k) : gen[i] # "wrecked"
  /\ \A l \in Location : local[l] \notin Superseded(k)
  /\ Selected \cap Superseded(k) = {}

\* Applying re-plans first, against the store as it is now.
Plan(k) ==
  /\ ~pruning /\ Safe(k)
  /\ Apart => phase = "idle"
  /\ pruning' = TRUE /\ doomed' = Superseded(k) /\ dead' = Unreferenced(k)
  /\ UNCHANGED <<source, disk, served, torn, last, run>>

\* Snapshots go before the raw objects; a removal that fails ends the prune.
PruneSnapshot ==
  /\ pruning
  /\ \E i \in doomed, shape \in Shape :
       /\ Oldest(i, doomed) /\ Removed(i, shape)
       /\ IF shape = "absent"
          THEN doomed' = doomed \ {i} /\ UNCHANGED <<pruning, dead>>
          ELSE EndPrune
  /\ UNCHANGED <<source, ref, objs, central, local, selected, served, torn, last, run>>

PruneObject ==
  /\ pruning /\ doomed = {}
  /\ \E o \in dead : objs' = objs \ {o} /\ dead' = dead \ {o}
  /\ UNCHANGED <<source, gen, ref, central, local, selected, served, torn, last,
                 run, pruning, doomed>>

PruneDone ==
  /\ pruning /\ doomed = {} /\ dead = {}
  /\ EndPrune
  /\ UNCHANGED <<source, disk, served, torn, last, run>>

PruneCrash ==
  /\ pruning /\ "crash" \in Faults
  /\ EndPrune
  /\ UNCHANGED <<source, disk, served, torn, last, run>>

-----------------------------------------------------------------------------
RunStep ==
  \/ Capture \/ Leave \/ Create \/ Accept \/ Reject \/ Verify
  \/ ReplaceCentral \/ ReplaceLocal \/ ReplaceFails \/ Rollback
  \/ \E k \in Depths : AfterIngest(k)
  \/ \E approve \in BOOLEAN : AfterApply(approve)
  \/ AfterRecover \/ Trim \/ TrimDone

PruneStep == PruneSnapshot \/ PruneObject \/ PruneDone

Next ==
  \/ Write
  \/ \E l \in Location : Recover(l) \/ \E k \in Kinds : Begin(l, k)
  \/ RunStep \/ Crash
  \/ \E k \in Depths : Plan(k)
  \/ PruneStep \/ PruneCrash

Spec == Init /\ [][Next]_vars

-----------------------------------------------------------------------------
(* Correctness properties. *)

\* What readers are served, until a publication is complete: the pointer it
\* will put back counts, not the one being tried (_current_snapshot_id).
Serving == IF phase \in {"local", "rollback"} THEN prior ELSE central

Promise == INSTANCE CurrentSnapshot
             WITH Snapshot <- Id, current <- Serving, held <- Whole

\* The machinery implements the promise of CurrentSnapshot, whatever fails:
\* one step publishes, and no retention path takes the current snapshot.
KeepsPromise == Promise!Spec

\* The central pointer never leads nowhere (publish_snapshot, _trim_prior_
\* snapshots, apply_retention_plan).
CentralServes == central # 0 => gen[central] = "whole"

\* Nor does a location's, for the one location of a Project.  It is what
\* _trim_prior_snapshots says trimming after publication leaves behind.
LocalServes == \A l \in Location : local[l] # 0 => gen[local[l]] = "whole"

\* No snapshot that can be read names a raw object that is gone
\* (build_retention_plan, observe).
EvidencePresent == \A i \in Whole : ref[i] \in objs

\* Replacing the pointer pair fails or succeeds as a whole: unless it was cut
\* short, and until it is repeated, some location agrees with the central
\* pointer when no run is in progress (publish_snapshot).
PointersAgree ==
  phase = "idle" /\ central # 0 /\ ~torn => \E l \in Location : local[l] = central

\* What the approved catalog selects is kept by either retention path, until
\* it selects something else.
SelectedKept == [][\A i \in Selected \cap Whole : gen'[i] = "whole"]_vars

\* A prune never takes the snapshot a pointer names.
PruneSparesPointers ==
  [][pruning => \A l \in Location : Resolves(local[l]) => gen'[local[l]] = gen[local[l]]]_vars

\* While every snapshot there is can be read and has been current once, a trim
\* or a prune that may keep a past one leaves one to roll back to
\* (superseded_beyond_depth).
RollbackTargets == (Whole \cap served) \ {central}
RollbackKept ==
  [][(Generations = Whole /\ Whole \subseteq served /\ gen' # gen)
       => (RollbackTargets # {} => RollbackTargets' # {})]_vars
=============================================================================
