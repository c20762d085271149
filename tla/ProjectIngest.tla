--------------------------- MODULE ProjectIngest ---------------------------
(***************************************************************************)
(* Incremental ingest of one Project and the publication that follows it.  *)
(*                                                                         *)
(* A run reads the raw records of the current snapshot, opens one store    *)
(* per selected vendor, and takes the listed Sources one at a time: a      *)
(* Source whose marker is unchanged is skipped, any other is decoded, its  *)
(* revision is recorded as raw evidence, its rows replace the stored ones  *)
(* in one transaction and its marker is saved.  A forced run does the same *)
(* into a staging tree which is promoted at the end, unless something      *)
(* failed and the Project already had stores.  Last, a snapshot binds the  *)
(* working stores to the raw records, when something gave a reason to.     *)
(*                                                                         *)
(* The content of a Source is its revision, a number that grows when the   *)
(* vendor's tool appends to the file; 0 stands for "absent" everywhere.    *)
(***************************************************************************)
EXTENDS Naturals

CONSTANTS
  Source,      \* the transcript files and databases of the Project
  Vendor,      \* the source systems, one store each
  VendorOf,    \* the vendor of each Source
  NoSource,    \* "no Source is being processed"
  EarlyMark,   \* Sources whose marker is taken before they are read
  MaxRev,      \* bound on the revisions of a Source
  LiveAppend,  \* whether vendors write while a run is in progress
  Modes,       \* the option combinations runs are started with
  Faults       \* what may strike: "source", "commit", "identity", "abandon"

Option == [force : BOOLEAN, stop : BOOLEAN, candidate : BOOLEAN,
           seal : BOOLEAN, sel : SUBSET Vendor]

ASSUME IngestAssumption ==
  /\ VendorOf \in [Source -> Vendor]
  /\ NoSource \notin Source
  /\ EarlyMark \subseteq Source
  /\ MaxRev \in Nat
  /\ LiveAppend \in BOOLEAN
  /\ Modes \subseteq Option
  /\ Faults \subseteq {"source", "commit", "identity", "abandon"}

VARIABLES
  file,      \* revision of each Source on disk
  rows,      \* revision whose rows the working store holds
  mark,      \* revision ingest_state.json records as complete
  stores,    \* vendors whose working store exists
  snap,      \* what the current snapshot binds: store rows and raw records
  phase,     \* where the run is
  mode,      \* the options of the run
  opened,    \* vendors the run has reached
  todo,      \* listed Sources the run has not settled
  src,       \* the Source being processed
  seen,      \* its revision when it was admitted
  rev,       \* the revision its decoded rows come from
  raws,      \* the run's raw records, by Source
  reasons,   \* what made a snapshot due
  failed,    \* whether the run counted an error
  hadStore,  \* whether a rebuild found stores to protect
  stRows,    \* rows of the staging tree of a rebuild
  stMark,    \* markers of the staging tree
  promoted   \* vendors whose staged store replaced the working one

durable == <<file, rows, mark, stores, snap>>
plan    == <<mode, opened, todo>>
cursor  == <<src, seen, rev>>
tally   == <<raws, reasons, failed>>
staging == <<hadStore, stRows, stMark, promoted>>
vars    == <<durable, phase, plan, cursor, tally, staging>>

Rev    == 0..MaxRev
None   == [s \in Source |-> 0]
NoMode == [force |-> FALSE, stop |-> FALSE, candidate |-> FALSE,
           seal |-> FALSE, sel |-> {}]
Phase  == {"idle", "scan", "admitted", "decoded", "observed", "committed",
           "promote", "snapshot"}
Reason == {"changed", "catalog", "raw", "seal"}

TypeOK ==
  /\ file \in [Source -> Rev] /\ rows \in [Source -> Rev]
  /\ mark \in [Source -> Rev] /\ stores \subseteq Vendor
  /\ snap \in [taken : BOOLEAN, sealed : BOOLEAN,
               rows : [Source -> Rev], raws : [Source -> Rev]]
  /\ phase \in Phase /\ mode \in Modes \cup {NoMode}
  /\ opened \subseteq Vendor /\ todo \subseteq Source
  /\ src \in Source \cup {NoSource}
  /\ phase \in {"admitted", "decoded", "observed", "committed"} => src \in Source
  /\ seen \in Rev /\ rev \in Rev
  /\ raws \in [Source -> Rev] /\ reasons \subseteq Reason
  /\ failed \in BOOLEAN /\ hadStore \in BOOLEAN
  /\ stRows \in [Source -> Rev] /\ stMark \in [Source -> Rev]
  /\ promoted \subseteq Vendor

\* Leaving a run drops everything it held in memory and its staging tree.
Forget ==
  /\ phase' = "idle" /\ mode' = NoMode /\ opened' = {} /\ todo' = {}
  /\ src' = NoSource /\ seen' = 0 /\ rev' = 0
  /\ raws' = None /\ reasons' = {} /\ failed' = FALSE
  /\ hadStore' = FALSE /\ stRows' = None /\ stMark' = None /\ promoted' = {}

Init ==
  /\ file = None /\ rows = None /\ mark = None /\ stores = {}
  /\ snap = [taken |-> FALSE, sealed |-> FALSE, rows |-> None, raws |-> None]
  /\ phase = "idle" /\ mode = NoMode /\ opened = {} /\ todo = {}
  /\ src = NoSource /\ seen = 0 /\ rev = 0
  /\ raws = None /\ reasons = {} /\ failed = FALSE
  /\ hadStore = FALSE /\ stRows = None /\ stMark = None /\ promoted = {}

-----------------------------------------------------------------------------
\* The vendor's tool creates a Source or appends to it.
Write(s) ==
  /\ file[s] < MaxRev
  /\ phase = "idle" \/ LiveAppend
  /\ file' = [file EXCEPT ![s] = @ + 1]
  /\ UNCHANGED <<rows, mark, stores, snap, phase, plan, cursor, tally, staging>>

\* A run starts on the Project.  A rebuild notes whether there was a store to
\* protect before it creates the missing ones.
Begin(m) ==
  /\ phase = "idle"
  /\ phase' = "scan" /\ mode' = m
  /\ raws' = snap.raws
  /\ reasons' = IF m.seal /\ ~snap.sealed THEN {"seal"} ELSE {}
  /\ hadStore' = (m.force /\ m.sel \cap stores # {})
  /\ stores' = IF m.force THEN stores \cup m.sel ELSE stores
  /\ UNCHANGED <<file, rows, mark, snap, opened, todo, cursor, failed,
                 stRows, stMark, promoted>>

\* The run reaches a vendor: it creates the store and lists the Sources there
\* are.  A new store always takes the catalog entry as a change, and the entry
\* may have changed since an old one saw it.
OpenVendor(v) ==
  /\ phase = "scan" /\ todo = {}
  /\ v \in mode.sel \ opened
  /\ opened' = opened \cup {v}
  /\ todo' = {s \in Source : VendorOf[s] = v /\ file[s] > 0}
  /\ stores' = stores \cup {v}
  /\ \/ reasons' = reasons \cup {"catalog"}
     \/ v \in stores /\ ~mode.force /\ UNCHANGED reasons
  /\ UNCHANGED <<file, rows, mark, snap, phase, mode, cursor, raws, failed,
                 staging>>

\* An unchanged Source is not read again; a rebuild reads every Source.
Skip(s) ==
  /\ phase = "scan" /\ s \in todo
  /\ ~mode.force /\ mark[s] = file[s]
  /\ todo' = todo \ {s}
  /\ UNCHANGED <<durable, phase, mode, opened, cursor, tally, staging>>

\* A Source that cannot be read or exceeds a limit is refused before its
\* marker is looked at.
Reject(s) ==
  /\ phase = "scan" /\ s \in todo
  /\ "source" \in Faults /\ ~mode.stop
  /\ todo' = todo \ {s} /\ failed' = TRUE
  /\ UNCHANGED <<durable, phase, mode, opened, cursor, raws, reasons, staging>>

\* Faulty variant: the Source taken up is not remembered.
AdmitForgetful(s) ==
  /\ phase = "scan" /\ s \in todo
  /\ mode.force \/ mark[s] # file[s]
  /\ phase' = "admitted" /\ seen' = file[s]
  /\ UNCHANGED <<durable, plan, src, rev, tally, staging>>

Admit(s) ==
  /\ phase = "scan" /\ s \in todo
  /\ mode.force \/ mark[s] # file[s]
  /\ phase' = "admitted" /\ src' = s /\ seen' = file[s]
  /\ UNCHANGED <<durable, plan, rev, tally, staging>>

Decode ==
  /\ phase = "admitted"
  /\ phase' = "decoded" /\ rev' = file[src]
  /\ UNCHANGED <<durable, plan, src, seen, tally, staging>>

\* Faulty variant: the record of a Source already in the list is kept.
ObserveOnce ==
  /\ phase = "decoded"
  /\ phase' = "observed"
  /\ raws' = IF raws[src] = 0 THEN [raws EXCEPT ![src] = file[src]] ELSE raws
  /\ reasons' = IF raws' # raws THEN reasons \cup {"raw"} ELSE reasons
  /\ UNCHANGED <<durable, plan, cursor, failed, staging>>

\* The Source is observed once more for its raw record, inside the transaction
\* but in memory: the list is not part of what a rollback undoes.
Observe ==
  /\ phase = "decoded"
  /\ phase' = "observed"
  /\ raws' = [raws EXCEPT ![src] = file[src]]
  /\ reasons' = IF raws' # raws THEN reasons \cup {"raw"} ELSE reasons
  /\ UNCHANGED <<durable, plan, cursor, failed, staging>>

\* A rebuild commits to its staging tree, any other run to the working store.
Commit ==
  /\ phase = "observed"
  /\ phase' = "committed"
  /\ rows' = IF mode.force THEN rows ELSE [rows EXCEPT ![src] = rev]
  /\ stRows' = IF mode.force THEN [stRows EXCEPT ![src] = rev] ELSE stRows
  /\ reasons' = reasons \cup {"changed"}
  /\ UNCHANGED <<file, mark, stores, snap, plan, cursor, raws, failed,
                 hadStore, stMark, promoted>>

\* Faulty variant: every marker is taken when it is saved.
MarkerLate == file[src]

\* The revision the saved marker describes.
Marker == IF src \in EarlyMark THEN seen ELSE file[src]

MarkComplete ==
  /\ phase = "committed"
  /\ phase' = "scan" /\ todo' = todo \ {src}
  /\ mark' = IF mode.force THEN mark ELSE [mark EXCEPT ![src] = Marker]
  /\ stMark' = IF mode.force THEN [stMark EXCEPT ![src] = Marker] ELSE stMark
  /\ src' = NoSource /\ seen' = 0 /\ rev' = 0
  /\ UNCHANGED <<file, rows, stores, snap, mode, opened, tally, hadStore,
                 stRows, promoted>>

\* Decoding, capture or the transaction fails: the Source is counted and left
\* as it was, and the next one is taken.
SourceFails ==
  /\ \/ phase \in {"admitted", "decoded"} /\ "source" \in Faults
     \/ phase = "observed" /\ "commit" \in Faults
  /\ ~mode.stop
  /\ phase' = "scan" /\ todo' = todo \ {src} /\ failed' = TRUE
  /\ src' = NoSource /\ seen' = 0 /\ rev' = 0
  /\ UNCHANGED <<durable, mode, opened, raws, reasons, staging>>

\* Every selected vendor has been gone through.
ScanDone == phase = "scan" /\ todo = {} /\ opened = mode.sel

\* The run ends early: an exception, a failing Source when the operator asked
\* to stop on errors, a changed Project identity, or the process dies.
Abandon ==
  /\ phase # "idle"
  /\ \/ "abandon" \in Faults
     \/ /\ mode.stop /\ "source" \in Faults
        /\ phase \in {"admitted", "decoded"} \/ (phase = "scan" /\ todo # {})
     \/ mode.stop /\ phase = "observed" /\ "commit" \in Faults
     \/ ScanDone /\ "identity" \in Faults
  /\ Forget
  /\ UNCHANGED durable

-----------------------------------------------------------------------------
\* Faulty variant: a rebuild is promoted whatever failed.
RetainNever == FALSE

\* A failed rebuild of a Project that had stores.
RetainPrior == failed /\ hadStore

\* The phases of publication are ordered: promotion, then the snapshot.
Publication ==
  /\ ScanDone
  /\ phase' = IF mode.force /\ ~RetainPrior THEN "promote" ELSE "snapshot"
  /\ reasons' = IF mode.force /\ RetainPrior
                THEN reasons \ {"changed", "catalog"} ELSE reasons
  /\ UNCHANGED <<durable, plan, cursor, raws, failed, staging>>

PromoteStore(v) ==
  /\ phase = "promote" /\ v \in mode.sel \ promoted
  /\ promoted' = promoted \cup {v}
  /\ rows' = [s \in Source |-> IF VendorOf[s] = v THEN stRows[s] ELSE rows[s]]
  /\ UNCHANGED <<file, mark, stores, snap, phase, plan, cursor, tally,
                 hadStore, stRows, stMark>>

\* The staged state file, if one was written, replaces the whole state file.
PromoteState ==
  /\ phase = "promote" /\ promoted = mode.sel
  /\ phase' = "snapshot"
  /\ mark' = IF stMark = None THEN mark ELSE stMark
  /\ UNCHANGED <<file, rows, stores, snap, plan, cursor, tally, staging>>

\* Faulty variant: changed rows and raw records give no reason to publish.
SnapshotDueCatalog == raws # None /\ "catalog" \in reasons

\* Something to bind, and a reason to bind it anew.
SnapshotDue == raws # None /\ reasons # {}

\* A candidate is left for review and the current snapshot stays.
TakeSnapshot ==
  /\ phase = "snapshot" /\ SnapshotDue
  /\ snap' = IF mode.candidate THEN snap
             ELSE [taken |-> TRUE, sealed |-> mode.seal,
                   rows |-> rows, raws |-> raws]
  /\ Forget
  /\ UNCHANGED <<file, rows, mark, stores>>

NoSnapshot ==
  /\ phase = "snapshot" /\ ~SnapshotDue
  /\ Forget
  /\ UNCHANGED durable

-----------------------------------------------------------------------------
RunStep ==
  \/ \E v \in Vendor : OpenVendor(v) \/ PromoteStore(v)
  \/ \E s \in Source : Skip(s) \/ Reject(s) \/ Admit(s)
  \/ Decode \/ Observe \/ Commit \/ MarkComplete \/ SourceFails
  \/ Publication \/ PromoteState \/ TakeSnapshot \/ NoSnapshot

Next ==
  \/ \E s \in Source : Write(s)
  \/ \E m \in Modes : Begin(m)
  \/ RunStep
  \/ Abandon

Spec == Init /\ [][Next]_vars

\* The operator repeats ingest, a started run goes on, and a Source that is
\* read again and again is read without a failure at some point.
FairSpec ==
  /\ Spec
  /\ WF_vars(RunStep)
  /\ \A m \in Modes : SF_vars(Begin(m))
  /\ \A s \in Source : /\ SF_vars(Admit(s))
                       /\ SF_vars(Decode /\ src = s)
                       /\ SF_vars(Observe /\ src = s)
                       /\ SF_vars(Commit /\ src = s)

-----------------------------------------------------------------------------
(* Correctness properties. *)

\* Rows stored for a Source are only ever replaced by rows of the same or a
\* later revision, whatever fails or crashes: in particular a rebuild that
\* failed, or died while its stores were being promoted, loses nothing
\* (promote_rebuilt_stores, commit_source_replacement).
NoRegress == [][\A s \in Source : rows'[s] >= rows[s]]_vars

\* No saved marker is ahead of the rows of its Source, so that a Source found
\* unchanged is one whose content is stored.  Sources marked with what was
\* detected before the read have it under live appends too
\* (mark_source_complete, the detection marker of _ingest_cursor).
MarkTrailsRows ==
  \A s \in Source : (s \in EarlyMark \/ ~LiveAppend) => mark[s] <= rows[s]

\* Every row a snapshot holds comes from a revision its raw records reach: the
\* evidence of a row is never missing or older (publish_snapshot).
EvidenceCoversRows ==
  snap.taken => \A s \in Source : snap.rows[s] <= snap.raws[s]

\* Once a Source stops changing, repeated ingest brings its last revision into
\* the current snapshot for good, unless its marker has got ahead of its rows
\* (run, _ingest_project).
EventuallyPublished ==
  \A s \in Source : [](mark[s] <= rows[s]) => <>[](snap.rows[s] = file[s])
=============================================================================
