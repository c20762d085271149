------------------------ MODULE ProjectIngestProofs ------------------------
(***************************************************************************)
(* Proofs about ProjectIngest: for every set of Sources and vendors, every *)
(* option combination and every failure, stored rows never regress and a   *)
(* saved marker never runs ahead of the rows it vouches for.               *)
(***************************************************************************)
EXTENDS ProjectIngest, TLAPS

Late == {"decoded", "observed", "committed"}

\* What the run knows of the Source it is processing.
CursorInv ==
  /\ \A s \in todo : VendorOf[s] \in opened
  /\ phase \in Late \cup {"admitted"} => src \in todo
  /\ phase = "admitted" => seen <= file[src]
  /\ phase \in Late => /\ seen <= rev /\ rev <= file[src]
                       /\ ~LiveAppend => rev = file[src]
                       /\ rows[src] <= rev /\ stRows[src] <= rev
  /\ phase = "committed" => IF mode.force THEN stRows[src] = rev
                                          ELSE rows[src] = rev

\* Rows come from the disk, and only a store that exists holds any.
RowsInv ==
  /\ opened \subseteq stores
  /\ \A s \in Source : /\ rows[s] <= file[s] /\ stRows[s] <= file[s]
                       /\ rows[s] > 0 => VendorOf[s] \in stores

\* Markers trail rows, in the working tree and in the staging tree.
MarkInv ==
  \A s \in Source : /\ (s \in EarlyMark \/ ~LiveAppend) =>
                         mark[s] <= rows[s] /\ stMark[s] <= stRows[s]
                    /\ stMark[s] > 0 => VendorOf[s] \in opened

\* A rebuild without a failure has staged at least what was stored for every
\* Source it settled; one that found no store has nothing stored to lose.
StageInv ==
  /\ phase \in {"idle", "scan", "admitted", "decoded", "observed", "committed"}
       => promoted = {}
  /\ phase = "promote" => mode.force /\ opened = mode.sel /\ todo = {}
                          /\ ~RetainPrior
  /\ mode.force /\ ~failed => \A s \in Source :
       VendorOf[s] \in opened /\ s \notin todo => rows[s] <= stRows[s]
  /\ mode.force /\ ~hadStore => \A s \in Source :
       VendorOf[s] \in mode.sel \ promoted => rows[s] = 0
  /\ mode.force => \A s \in Source : VendorOf[s] \in promoted => rows[s] = stRows[s]
  /\ phase = "idle" => mode = NoMode
  /\ opened \subseteq mode.sel /\ promoted \subseteq mode.sel

IInv == TypeOK /\ CursorInv /\ RowsInv /\ MarkInv /\ StageInv

Grows == \A s \in Source : rows'[s] >= rows[s]

\* The absent revision is a revision.
LEMMA NoneType == None \in [Source -> Rev] /\ 0 \in Rev
BY IngestAssumption DEF None, Rev

\* The initial state of a fresh Project satisfies the invariant (Init).
LEMMA InitInv == Init => IInv
<1> SUFFICES ASSUME Init PROVE IInv
  OBVIOUS
<1> USE IngestAssumption DEF Init
<1>1. TypeOK
  <2>1. snap \in [taken : BOOLEAN, sealed : BOOLEAN,
                  rows : [Source -> Rev], raws : [Source -> Rev]]
    BY NoneType
  <2> QED BY <2>1, NoneType DEF TypeOK, Phase, Reason
<1>2. CursorInv /\ RowsInv
  BY DEF CursorInv, Late, RowsInv, None
<1>3. MarkInv /\ StageInv
  BY DEF MarkInv, StageInv, NoMode, RetainPrior, None
<1> QED BY <1>1, <1>2, <1>3 DEF IInv

\* The modes of a run are options with their types.
LEMMA ModeType ==
  ASSUME TypeOK
  PROVE  /\ mode.sel \subseteq Vendor
         /\ mode.force \in BOOLEAN /\ mode.seal \in BOOLEAN
<1>1. mode \in Option \/ mode = NoMode
  BY IngestAssumption DEF TypeOK
<1>2. CASE mode \in Option
  BY <1>2 DEF Option
<1>3. CASE mode = NoMode
  BY <1>3 DEF NoMode
<1> QED BY <1>1, <1>2, <1>3

\* Every action keeps the variables in their types.
LEMMA TypeStep == TypeOK /\ [Next]_vars => TypeOK'
<1> SUFFICES ASSUME TypeOK, [Next]_vars PROVE TypeOK'
  OBVIOUS
<1> USE IngestAssumption, ModeType, NoneType DEF TypeOK, Phase, Reason
<1> USE DEF durable, plan, cursor, tally, staging
<1>1. ASSUME NEW s \in Source, Write(s) PROVE TypeOK'
  BY <1>1 DEF Write, Rev
<1>2. ASSUME NEW m \in Modes, Begin(m) PROVE TypeOK'
  <2>1. m \in Option /\ m.sel \subseteq Vendor /\ m.force \in BOOLEAN
    BY DEF Option
  <2>2. raws' \in [Source -> Rev]
    BY <1>2 DEF Begin
  <2>3. stores' \subseteq Vendor /\ reasons' \subseteq Reason /\ hadStore' \in BOOLEAN
    BY <1>2, <2>1 DEF Begin
  <2> QED BY <1>2, <2>1, <2>2, <2>3 DEF Begin
<1>3. ASSUME NEW v \in Vendor, OpenVendor(v) PROVE TypeOK'
  <2>1. reasons' \subseteq Reason
    BY <1>3 DEF OpenVendor
  <2>2. todo' \subseteq Source /\ stores' \subseteq Vendor /\ opened' \subseteq Vendor
    BY <1>3 DEF OpenVendor
  <2> QED BY <1>3, <2>1, <2>2 DEF OpenVendor
<1>4. ASSUME NEW s \in Source, Skip(s) \/ Reject(s) PROVE TypeOK'
  BY <1>4 DEF Skip, Reject
<1>13. ASSUME NEW s \in Source, Admit(s) PROVE TypeOK'
  BY <1>13 DEF Admit
<1>5. CASE Decode
  BY <1>5 DEF Decode
<1>15. CASE Observe
  <2>1. raws' \in [Source -> Rev] /\ reasons' \subseteq Reason
    BY <1>15 DEF Observe
  <2> QED BY <1>15, <2>1 DEF Observe
<1>14. CASE Commit
  BY <1>14 DEF Commit
<1>6. CASE MarkComplete
  BY <1>6 DEF MarkComplete, Marker
<1>7. CASE SourceFails
  BY <1>7 DEF SourceFails
<1>8. CASE Abandon \/ NoSnapshot
  BY <1>8, NoneType DEF Abandon, NoSnapshot, Forget
<1>9. CASE Publication \/ PromoteState
  BY <1>9 DEF Publication, PromoteState
<1>10. ASSUME NEW v \in Vendor, PromoteStore(v) PROVE TypeOK'
  BY <1>10 DEF PromoteStore
<1>11. CASE TakeSnapshot
  <2>1. snap' \in [taken : BOOLEAN, sealed : BOOLEAN,
                   rows : [Source -> Rev], raws : [Source -> Rev]]
    <3>1. mode.seal \in BOOLEAN
      BY ModeType
    <3> QED BY <1>11, <3>1 DEF TakeSnapshot
  <2> QED BY <1>11, <2>1, NoneType DEF TakeSnapshot, Forget
<1>12. CASE UNCHANGED vars
  BY <1>12 DEF vars
<1> QED
  BY <1>1, <1>2, <1>3, <1>4, <1>5, <1>6, <1>7, <1>8, <1>9, <1>10, <1>11, <1>12,
     <1>13, <1>14, <1>15
  DEF Next, RunStep

-----------------------------------------------------------------------------
\* What the invariant says beyond types, for the step proofs.
StateInv == CursorInv /\ RowsInv /\ MarkInv /\ StageInv

\* Starting, listing and settling Sources without a commit (Begin, OpenVendor,
\* Skip, Reject, Admit, and the vendor's own writes).
LEMMA ScanStep ==
  ASSUME IInv, TypeOK',
         \/ \E s \in Source : Write(s) \/ Skip(s) \/ Reject(s) \/ Admit(s)
         \/ \E m \in Modes : Begin(m)
         \/ \E v \in Vendor : OpenVendor(v)
  PROVE  StateInv' /\ Grows
<1> USE IngestAssumption, ModeType
<1> USE DEF IInv, TypeOK, Rev, Phase, StateInv, Grows
<1> USE DEF CursorInv, Late, RowsInv, MarkInv, StageInv, RetainPrior
<1> USE DEF durable, plan, cursor, tally, staging
<1>1. ASSUME NEW s \in Source, Write(s) PROVE StateInv' /\ Grows
  BY <1>1 DEF Write
<1>2. ASSUME NEW s \in Source, Skip(s) \/ Reject(s) PROVE StateInv' /\ Grows
  BY <1>2 DEF Skip, Reject
<1>3. ASSUME NEW s \in Source, Admit(s) PROVE StateInv' /\ Grows
  BY <1>3 DEF Admit
<1>4. ASSUME NEW m \in Modes, Begin(m) PROVE StateInv' /\ Grows
  BY <1>4 DEF Begin, NoMode, Option
<1>5. ASSUME NEW v \in Vendor, OpenVendor(v) PROVE StateInv' /\ Grows
  BY <1>5 DEF OpenVendor
<1> QED BY <1>1, <1>2, <1>3, <1>4, <1>5

\* Processing one Source (Decode, Observe, Commit, MarkComplete, SourceFails).
LEMMA SourceStep ==
  ASSUME IInv, TypeOK',
         Decode \/ Observe \/ Commit \/ MarkComplete \/ SourceFails
  PROVE  StateInv' /\ Grows
<1> USE IngestAssumption, ModeType
<1> USE DEF IInv, TypeOK, Rev, Phase, StateInv, Grows
<1> USE DEF CursorInv, Late, RowsInv, MarkInv, StageInv, RetainPrior
<1> USE DEF durable, plan, cursor, tally, staging
<1>1. CASE Decode
  BY <1>1 DEF Decode
<1>2. CASE Observe
  BY <1>2 DEF Observe
<1>3. CASE Commit
  <2>1. src \in Source /\ rows[src] <= rev /\ rev <= file[src]
    BY <1>3 DEF Commit
  <2>2. CASE mode.force
    <3>1. /\ rows' = rows /\ stMark' = stMark /\ mark' = mark
          /\ \A s \in Source : stRows'[s] = IF s = src THEN rev ELSE stRows[s]
      BY <1>3, <2>1, <2>2 DEF Commit
    <3>2. CursorInv' /\ RowsInv'
      BY <1>3, <2>1, <2>2, <3>1 DEF Commit
    <3>3. MarkInv'
      BY <1>3, <2>1, <2>2, <3>1 DEF Commit
    <3>4. StageInv' /\ Grows
      BY <1>3, <2>1, <2>2, <3>1 DEF Commit
    <3> QED BY <3>2, <3>3, <3>4
  <2>3. CASE ~mode.force
    <3>1. /\ stRows' = stRows /\ stMark' = stMark /\ mark' = mark
          /\ \A s \in Source : rows'[s] = IF s = src THEN rev ELSE rows[s]
      BY <1>3, <2>1, <2>3 DEF Commit
    <3>2. CursorInv' /\ RowsInv'
      BY <1>3, <2>1, <2>3, <3>1 DEF Commit
    <3>3. MarkInv'
      BY <1>3, <2>1, <2>3, <3>1 DEF Commit
    <3>4. StageInv' /\ Grows
      BY <1>3, <2>1, <2>3, <3>1 DEF Commit
    <3> QED BY <3>2, <3>3, <3>4
  <2> QED BY <2>2, <2>3
<1>4. CASE MarkComplete
  <2>1. src \in Source /\ (src \in EarlyMark \/ ~LiveAppend => Marker <= rev)
    BY <1>4 DEF MarkComplete, Marker
  <2>2. CASE mode.force
    BY <1>4, <2>1, <2>2 DEF MarkComplete
  <2>3. CASE ~mode.force
    BY <1>4, <2>1, <2>3 DEF MarkComplete
  <2> QED BY <2>2, <2>3
<1>5. CASE SourceFails
  BY <1>5 DEF SourceFails
<1> QED BY <1>1, <1>2, <1>3, <1>4, <1>5

\* Leaving a run, in the ordinary way or not.
LEMMA EndStep ==
  ASSUME IInv, TypeOK', Abandon \/ TakeSnapshot \/ NoSnapshot
  PROVE  StateInv' /\ Grows
<1>1. Forget /\ UNCHANGED <<file, rows, mark, stores>>
  BY DEF Abandon, TakeSnapshot, NoSnapshot, durable
<1> QED
  BY <1>1, IngestAssumption
  DEF Forget, None, IInv, TypeOK, Rev, StateInv, Grows, CursorInv, Late,
      RowsInv, MarkInv, StageInv, NoMode, RetainPrior

\* Publication up to the snapshot: the retain decision and the promotion.
LEMMA PromoteStep ==
  ASSUME IInv, TypeOK',
         Publication \/ PromoteState \/ \E v \in Vendor : PromoteStore(v)
  PROVE  StateInv' /\ Grows
<1> USE IngestAssumption, ModeType
<1> USE DEF IInv, TypeOK, Rev, Phase, StateInv, Grows
<1> USE DEF CursorInv, Late, RowsInv, MarkInv, StageInv, RetainPrior
<1> USE DEF durable, plan, cursor, tally, staging
<1>1. CASE Publication
  BY <1>1 DEF Publication, ScanDone
<1>2. CASE PromoteState
  BY <1>2 DEF PromoteState
<1>3. ASSUME NEW v \in Vendor, PromoteStore(v) PROVE StateInv' /\ Grows
  <2>1. \A s \in Source : VendorOf[s] = v => rows[s] <= stRows[s]
    BY <1>3 DEF PromoteStore
  <2> QED BY <1>3, <2>1 DEF PromoteStore
<1> QED BY <1>1, <1>2, <1>3

\* Every step keeps the invariant and makes no row older.
LEMMA StepInv == IInv /\ [Next]_vars => IInv' /\ Grows
<1> SUFFICES ASSUME IInv, [Next]_vars PROVE IInv' /\ Grows
  OBVIOUS
<1>1. TypeOK'
  BY TypeStep DEF IInv
<1>2. StateInv' /\ Grows
  <2>1. CASE UNCHANGED vars
    BY <2>1, <1>1 DEF vars, durable, plan, cursor, tally, staging, IInv, StateInv,
       Grows, CursorInv, Late, RowsInv, MarkInv, StageInv, RetainPrior, TypeOK, Rev
  <2>2. CASE Next
    BY <2>2, <1>1, ScanStep, SourceStep, EndStep, PromoteStep DEF Next, RunStep
  <2> QED BY <2>1, <2>2
<1> QED BY <1>1, <1>2 DEF IInv, StateInv

-----------------------------------------------------------------------------
\* The state of the ingest is always well typed.
THEOREM TypeCorrect == Spec => []TypeOK
<1>1. IInv => TypeOK
  BY DEF IInv
<1> QED BY <1>1, InitInv, StepInv, PTL DEF Spec

\* No saved marker runs ahead of the rows stored for its Source, whatever fails,
\* provided it was taken before the read or nothing writes during a run
\* (mark_source_complete, the detection marker of _ingest_cursor).
THEOREM MarkersTrailRows == Spec => []MarkTrailsRows
<1>1. IInv => MarkTrailsRows
  BY DEF IInv, MarkInv, MarkTrailsRows
<1> QED BY <1>1, InitInv, StepInv, PTL DEF Spec

\* No failure, crash, rebuild or promotion makes the rows stored for a Source
\* older (commit_source_replacement, promote_rebuilt_stores).
THEOREM RowsNeverRegress == Spec => NoRegress
<1>1. IInv /\ [Next]_vars => [\A s \in Source : rows'[s] >= rows[s]]_vars
  BY StepInv DEF Grows
<1> QED BY <1>1, InitInv, StepInv, PTL DEF Spec, NoRegress

-----------------------------------------------------------------------------
(* As long as runs are carried to their end and publish what they build, a   *)
(* snapshot never holds rows its raw records do not reach, however many      *)
(* Sources and commits fail.                                                 *)

\* No run is cut short, and none leaves its snapshot for review.
Completed ==
  /\ Faults \subseteq {"source", "commit"}
  /\ \A m \in Modes : ~m.stop /\ ~m.candidate

\* The raw records in hand reach every row in the working and staging stores;
\* between runs those of the snapshot do.
BoundInv ==
  /\ \A s \in Source : raws[s] <= file[s] /\ snap.raws[s] <= file[s]
  /\ phase = "idle" => \A s \in Source : rows[s] <= snap.raws[s] /\ stRows[s] = 0
  /\ phase # "idle" => \A s \in Source : /\ rows[s] <= raws[s]
                                         /\ stRows[s] <= raws[s]
  /\ phase \in {"observed", "committed"} => rev <= raws[src]
  /\ phase # "idle" /\ "raw" \notin reasons => raws = snap.raws
  /\ EvidenceCoversRows

\* A fresh Project holds nothing (Init).
LEMMA BoundInit == Init => BoundInv
BY IngestAssumption DEF Init, BoundInv, EvidenceCoversRows, None

\* Listing, settling and processing Sources keeps the raw records ahead.
LEMMA BoundScan ==
  ASSUME IInv, BoundInv, IInv',
         \/ \E s \in Source : Write(s) \/ Skip(s) \/ Reject(s) \/ Admit(s)
         \/ \E m \in Modes : Begin(m)
         \/ \E v \in Vendor : OpenVendor(v)
         \/ Decode \/ Observe \/ Commit \/ MarkComplete \/ SourceFails
  PROVE  BoundInv'
<1> USE IngestAssumption DEF BoundInv, EvidenceCoversRows, IInv, TypeOK, Rev, Phase
<1> USE DEF durable, plan, cursor, tally, staging
<1>1. ASSUME NEW s \in Source, Write(s) PROVE BoundInv'
  BY <1>1 DEF Write
<1>2. ASSUME NEW s \in Source, Skip(s) \/ Reject(s) \/ Admit(s) PROVE BoundInv'
  BY <1>2 DEF Skip, Reject, Admit
<1>3. ASSUME NEW m \in Modes, Begin(m) PROVE BoundInv'
  BY <1>3 DEF Begin
<1>4. ASSUME NEW v \in Vendor, OpenVendor(v) PROVE BoundInv'
  <2>1. "raw" \in reasons => "raw" \in reasons'
    BY <1>4 DEF OpenVendor
  <2> QED BY <1>4, <2>1 DEF OpenVendor
<1>5. CASE Decode
  BY <1>5 DEF Decode
<1>6. CASE Observe
  <2>1. src \in Source /\ rev <= file[src]
    BY <1>6 DEF Observe, CursorInv, Late
  <2>2. /\ phase' = "observed" /\ raws' = [raws EXCEPT ![src] = file[src]]
        /\ UNCHANGED <<file, rows, snap, stRows, rev, src>>
    BY <1>6 DEF Observe
  <2>3. "raw" \notin reasons' => raws' = raws /\ "raw" \notin reasons
    BY <1>6 DEF Observe
  <2>4. \A s \in Source : raws'[s] <= file[s] /\ raws[s] <= raws'[s]
    BY <2>1, <2>2
  <2>5. \A s \in Source : rows[s] <= raws'[s] /\ stRows[s] <= raws'[s]
    BY <1>6, <2>4 DEF Observe
  <2>6. rev <= raws'[src]
    BY <2>1, <2>2
  <2> QED BY <1>6, <2>2, <2>3, <2>4, <2>5, <2>6 DEF Observe
<1>7. CASE Commit
  <2>1. /\ src \in Source /\ rev <= raws[src] /\ phase' = "committed"
        /\ UNCHANGED <<file, snap, raws, rev, src>>
        /\ "raw" \in reasons => "raw" \in reasons'
    BY <1>7 DEF Commit
  <2>2. \A s \in Source : rows'[s] \in {rows[s], rev} /\ stRows'[s] \in {stRows[s], rev}
                          /\ s # src => rows'[s] = rows[s] /\ stRows'[s] = stRows[s]
    BY <1>7, <2>1 DEF Commit
  <2>3. \A s \in Source : rows'[s] <= raws[s] /\ stRows'[s] <= raws[s]
    BY <1>7, <2>1, <2>2 DEF Commit
  <2> QED BY <1>7, <2>1, <2>3 DEF Commit
<1>8. CASE MarkComplete \/ SourceFails
  BY <1>8 DEF MarkComplete, SourceFails
<1> QED BY <1>1, <1>2, <1>3, <1>4, <1>5, <1>6, <1>7, <1>8

\* So does publication: it binds what the working stores hold to the raw
\* records in hand, or leaves both as they were (_publish_project).
LEMMA BoundPublication ==
  ASSUME Completed, IInv, BoundInv, IInv',
         \/ Publication \/ PromoteState \/ \E v \in Vendor : PromoteStore(v)
         \/ TakeSnapshot \/ NoSnapshot \/ Abandon
  PROVE  BoundInv'
<1> USE IngestAssumption DEF BoundInv, EvidenceCoversRows, IInv, TypeOK, Rev, Phase
<1> USE DEF durable, plan, cursor, tally, staging
<1>1. CASE Publication
  BY <1>1 DEF Publication, ScanDone
<1>2. CASE PromoteState
  BY <1>2 DEF PromoteState
<1>3. ASSUME NEW v \in Vendor, PromoteStore(v) PROVE BoundInv'
  BY <1>3 DEF PromoteStore
<1>4. ~mode.stop /\ ~mode.candidate
  BY DEF Completed, NoMode
<1>5. CASE TakeSnapshot
  <2>1. /\ snap' = [taken |-> TRUE, sealed |-> mode.seal,
                    rows |-> rows, raws |-> raws]
        /\ UNCHANGED <<file, rows>> /\ phase = "snapshot"
    BY <1>4, <1>5 DEF TakeSnapshot
  <2>2. phase' = "idle" /\ raws' = None /\ stRows' = None
    BY <1>5 DEF TakeSnapshot, Forget
  <2> QED BY <2>1, <2>2 DEF None
<1>6. CASE NoSnapshot
  <2>1. /\ phase = "snapshot" /\ UNCHANGED <<file, rows, snap>>
        /\ phase' = "idle" /\ raws' = None /\ stRows' = None
    BY <1>6 DEF NoSnapshot, Forget
  <2>2. raws = None \/ reasons = {}
    BY <1>6 DEF NoSnapshot, SnapshotDue
  <2>3. \A s \in Source : rows[s] <= snap.raws[s]
    <3>1. CASE raws = None
      BY <2>1, <3>1 DEF None
    <3>2. CASE reasons = {}
      BY <2>1, <3>2
    <3> QED BY <2>2, <3>1, <3>2
  <2> QED BY <2>1, <2>3 DEF None
<1>7. CASE Abandon
  BY <1>4, <1>7 DEF Abandon, Completed
<1> QED BY <1>1, <1>2, <1>3, <1>5, <1>6, <1>7

\* When runs are carried to their end, the evidence of every row in a snapshot
\* is in it too, and not older (publish_snapshot, _record_raw).
THEOREM EvidenceCovers == Completed => (Spec => []EvidenceCoversRows)
<1> SUFFICES ASSUME Completed PROVE Spec => []EvidenceCoversRows
  OBVIOUS
<1>1. IInv /\ BoundInv /\ [Next]_vars => IInv' /\ BoundInv'
  <2> SUFFICES ASSUME IInv, BoundInv, [Next]_vars PROVE IInv' /\ BoundInv'
    OBVIOUS
  <2>1. IInv'
    BY StepInv
  <2>2. CASE UNCHANGED vars
    BY <2>1, <2>2 DEF vars, durable, plan, cursor, tally, staging, BoundInv,
       EvidenceCoversRows
  <2>3. CASE Next
    BY <2>1, <2>3, BoundScan, BoundPublication DEF Next, RunStep
  <2> QED BY <2>1, <2>2, <2>3
<1>2. BoundInv => EvidenceCoversRows
  BY DEF BoundInv
<1> QED BY <1>1, <1>2, InitInv, BoundInit, PTL DEF Spec
=============================================================================
