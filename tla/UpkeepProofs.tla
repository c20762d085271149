--------------------------- MODULE UpkeepProofs ----------------------------
(***************************************************************************)
(* What is proved of BaselineWorkflow, RawCapture, RefreshReceipts and     *)
(* ReportBuffer, for every number of Source revisions, builds and          *)
(* packages, of Projects, writes and observations, of refreshes and        *)
(* Targets, of sinks and events, and any bytes.  A frozen build is a fixed *)
(* point because each place that names it on the way keeps to builds that  *)
(* were compared; a raw record tells what was kept because an object is    *)
(* written before the record that names it and never replaced by less; a   *)
(* receipt tells what was done because only the result of the ingest that  *)
(* ended last can be missing from it; no event is overwritten before it is *)
(* delivered because a batch is never larger than the ring.                *)
(***************************************************************************)
EXTENDS BaselineWorkflow, RawCapture, RefreshReceipts, ReportBuffer, SequenceTheorems,
        FiniteSetTheorems, WellFoundedInduction, TLAPS

(* The Baseline workflow. *)

BuildRow == [release : 1..MaxPackage, revision : 1..MaxSource,
             meaning : 1..MaxSource, sound : BOOLEAN]

(* No snapshot, or one of those built.                                     *)
Built == 0..Len(builds)

Frozen == [build : Built, release : 0..MaxPackage]

WorkflowTypes ==
  /\ origin \in [revision : 1..MaxSource, meaning : 1..MaxSource]
  /\ release \in 1..MaxPackage
  /\ working \in [release : 0..MaxPackage, marks : 0..MaxSource]
  /\ builds \in Seq(BuildRow) /\ Len(builds) <= MaxBuilds
  /\ published \in Built /\ approved \in Built
  /\ receipt \in [build : Built, fixed : BOOLEAN, release : 0..MaxPackage]
  /\ reviewed \in Frozen
  /\ matched \subseteq 1..Len(builds)
  /\ apply \in [step : {"none", "archive", "drop_marks", "reset", "ingest", "validate",
                        "again", "drop_again", "ingest_again", "validate_again", "compare",
                        "publish", "approve", "report"},
                repeat : BOOLEAN, drift : BOOLEAN, first : Built, second : Built]
  /\ freeze \in [step : {"none", "reviewed", "verify"}, approved : Built, reviewed : Frozen]

(* A build that was compared agrees with an earlier one of its package.    *)
Compared ==
  \A b \in matched : \E a \in 1..(b - 1) :
    builds[a].meaning = builds[b].meaning /\ builds[a].release = builds[b].release

(* A build that was compared and made by a given package, or none.         *)
FixedUnder(b, package) == b # 0 => b \in matched /\ builds[b].release = package

Repeats == {"again", "drop_again", "ingest_again", "validate_again", "compare"}

(* The second build follows the first; both were validated by the package  *)
(* in use before they are compared; what is published was compared, if     *)
(* there is a second at all.                                               *)
ApplyKept ==
  /\ apply.step = "validate" => apply.first # 0
  /\ apply.step \in Repeats => apply.first # 0 /\ builds[apply.first].release = release
  /\ apply.step \in {"validate_again", "compare"} => apply.first < apply.second
  /\ apply.step = "compare" => builds[apply.second].release = release
  /\ apply.step \in {"publish", "approve", "report"} => FixedUnder(apply.second, release)
  /\ apply.step \in {"none", "archive", "drop_marks", "reset", "ingest", "validate"} \cup
                    (Repeats \ {"validate_again", "compare"}) => apply.second = 0

ReceiptKept == receipt.fixed => FixedUnder(receipt.build, receipt.release)

FreezeKept ==
  /\ FixedUnder(reviewed.build, reviewed.release)
  /\ freeze.step # "none" =>
       apply.step = "none" /\ FixedUnder(freeze.reviewed.build, freeze.reviewed.release)
  /\ freeze.step = "reviewed" => FixedUnder(approved, release)

WorkflowInv == WorkflowTypes /\ Compared /\ ApplyKept /\ ReceiptKept /\ FreezeKept

-----------------------------------------------------------------------------
\* A new build leaves the earlier ones as they are (run_project_ingest).
LEMMA EarlierBuildsStay ==
  ASSUME WorkflowInv, NEW sound \in BOOLEAN, Len(builds) < MaxBuilds,
         builds' = Append(builds, BuildNow(sound))
  PROVE  /\ builds' \in Seq(BuildRow) /\ Len(builds') = Len(builds) + 1
         /\ Len(builds') <= MaxBuilds
         /\ \A i \in 1..Len(builds) : builds'[i] = builds[i]
<1>1. BuildNow(sound) \in BuildRow
  BY DEF WorkflowInv, WorkflowTypes, BuildNow, BuildRow
<1>2. builds \in Seq(BuildRow) /\ Len(builds) \in Nat
  BY DEF WorkflowInv, WorkflowTypes
<1> QED BY <1>1, <1>2, BaselineBounds DEF BaselineAssumption

\* Nothing that was named is lost when a build is added and the rest stays.
LEMMA AddedBuild ==
  ASSUME WorkflowInv, NEW sound \in BOOLEAN, Len(builds) < MaxBuilds,
         builds' = Append(builds, BuildNow(sound)),
         UNCHANGED <<release, receipt, approved, reviewed, matched, freeze>>,
         freeze.step # "none" => apply'.step = "none"
  PROVE  Compared' /\ ReceiptKept' /\ FreezeKept'
<1>1. /\ Len(builds) \in Nat /\ Len(builds') = Len(builds) + 1
      /\ \A i \in 1..Len(builds) : builds'[i] = builds[i]
  BY EarlierBuildsStay DEF WorkflowInv, WorkflowTypes
<1>2. matched \subseteq 1..Len(builds)
  BY DEF WorkflowInv, WorkflowTypes
<1>3. Compared'
  <2> SUFFICES ASSUME NEW b \in matched
               PROVE  \E a \in 1..(b - 1) : builds'[a].meaning = builds'[b].meaning
                                            /\ builds'[a].release = builds'[b].release
    BY DEF Compared
  <2>1. PICK a \in 1..(b - 1) : builds[a].meaning = builds[b].meaning
                                /\ builds[a].release = builds[b].release
    BY DEF WorkflowInv, Compared
  <2>2. b \in 1..Len(builds) /\ a \in 1..Len(builds)
    BY <1>1, <1>2
  <2> QED BY <1>1, <2>1, <2>2
<1>4. \A b \in matched : builds'[b] = builds[b]
  BY <1>1, <1>2
<1>5. ReceiptKept'
  BY <1>4 DEF WorkflowInv, ReceiptKept, FixedUnder
<1>6. FreezeKept'
  BY <1>4 DEF WorkflowInv, FreezeKept, FixedUnder
<1> QED BY <1>3, <1>5, <1>6

\* The snapshots are the same while none is built.
LEMMA SnapshotsStay == builds' = builds => Built' = Built /\ Frozen' = Frozen
BY DEF Built, Frozen

\* Every command between applies and freezes keeps the invariant
\* (normal ingests, new packages, a Source that changes).
LEMMA BetweenStep ==
  ASSUME WorkflowInv,
         (\E v \in 1..MaxSource : SourceChanges(v)) \/ PackageChanges \/ OrdinaryIngest
  PROVE  WorkflowInv'
<1> USE BaselineBounds DEF BaselineAssumption
<1>1. ASSUME NEW v \in 1..MaxSource, SourceChanges(v)  PROVE WorkflowInv'
  <2>1. /\ origin' = [revision |-> origin.revision + 1, meaning |-> v]
        /\ origin.revision < MaxSource
        /\ UNCHANGED <<release, working, builds, published, receipt, approved, reviewed,
                       matched, apply, freeze>>
    BY <1>1 DEF SourceChanges
  <2>2. origin' \in [revision : 1..MaxSource, meaning : 1..MaxSource]
    BY <2>1 DEF WorkflowInv, WorkflowTypes
  <2>3. WorkflowTypes'
    BY <2>1, <2>2, SnapshotsStay DEF WorkflowInv, WorkflowTypes
  <2> QED BY <2>1, <2>3 DEF WorkflowInv, Compared, ApplyKept, ReceiptKept, FreezeKept, FixedUnder
<1>2. ASSUME PackageChanges  PROVE WorkflowInv'
  <2>1. /\ release < MaxPackage /\ release' = release + 1
        /\ apply.step = "none" /\ freeze.step = "none"
        /\ UNCHANGED <<origin, working, builds, published, receipt, approved, reviewed,
                       matched, apply, freeze>>
    BY <1>2 DEF PackageChanges, Quiet
  <2>2. release' \in 1..MaxPackage
    BY <2>1 DEF WorkflowInv, WorkflowTypes
  <2>3. WorkflowTypes'
    BY <2>1, <2>2, SnapshotsStay DEF WorkflowInv, WorkflowTypes
  <2>4. ApplyKept'
    BY <2>1 DEF WorkflowInv, ApplyKept, Repeats
  <2> QED BY <2>1, <2>3, <2>4 DEF WorkflowInv, Compared, ReceiptKept, FreezeKept, FixedUnder
<1>3. ASSUME OrdinaryIngest  PROVE WorkflowInv'
  <2>1. /\ builds' = Append(builds, BuildNow(TRUE)) /\ Len(builds) < MaxBuilds
        /\ published' = Len(builds') /\ working' = [release |-> release, marks |-> origin.revision]
        /\ UNCHANGED <<origin, release, receipt, approved, reviewed, matched, apply, freeze>>
        /\ apply.step = "none" /\ freeze.step = "none"
    BY <1>3 DEF OrdinaryIngest, Quiet
  <2>2. /\ builds' \in Seq(BuildRow) /\ Len(builds') = Len(builds) + 1
        /\ Len(builds') <= MaxBuilds
    BY <2>1, EarlierBuildsStay
  <2>3. Len(builds) \in Nat
    BY DEF WorkflowInv, WorkflowTypes
  <2>4. Built \subseteq Built' /\ Frozen \subseteq Frozen'
    BY <2>2, <2>3 DEF Built, Frozen
  <2>5. working' \in [release : 0..MaxPackage, marks : 0..MaxSource]
    BY <2>1 DEF WorkflowInv, WorkflowTypes
  <2>6. published' \in Built' /\ matched' \subseteq 1..Len(builds')
    <3>1. published' \in Built'
      BY <2>1, <2>2, <2>3 DEF Built
    <3>2. matched' = matched /\ matched \subseteq 1..Len(builds)
      BY <2>1 DEF WorkflowInv, WorkflowTypes
    <3>3. matched' \subseteq 1..Len(builds')
      BY <2>2, <2>3, <3>2
    <3> QED
      BY <3>1, <3>3
  <2>7. WorkflowTypes'
    BY <2>1, <2>2, <2>4, <2>5, <2>6 DEF WorkflowInv, WorkflowTypes, Frozen
  <2>8. ApplyKept'
    BY <2>1 DEF WorkflowInv, ApplyKept, Repeats
  <2>9. Compared' /\ ReceiptKept' /\ FreezeKept'
    BY <2>1, AddedBuild
  <2> QED BY <2>7, <2>8, <2>9 DEF WorkflowInv
<1> QED BY <1>1, <1>2, <1>3

\* An apply that goes on builds nothing, names no other build and leaves the
\* freeze alone: its types, the report and the freeze are as they were.
LEMMA ApplyGoesOn ==
  ASSUME WorkflowInv, apply.step # "none",
         UNCHANGED <<origin, release, builds, receipt, reviewed, freeze>>,
         working' \in [release : 0..MaxPackage, marks : 0..MaxSource],
         published' \in Built, approved' \in Built,
         matched \subseteq matched', matched' \subseteq 1..Len(builds),
         NEW s \in {"none", "archive", "drop_marks", "reset", "ingest", "validate",
                    "again", "drop_again", "ingest_again", "validate_again", "compare",
                    "publish", "approve", "report"},
         apply' = Step(s) \/ (s = "none" /\ apply' = NoApply)
  PROVE  WorkflowTypes' /\ ReceiptKept' /\ FreezeKept'
<1>1. Built' = Built /\ Frozen' = Frozen
  BY SnapshotsStay
<1>2. 0 \in Built
  BY DEF WorkflowInv, WorkflowTypes, Built
<1>3. apply' \in [step : {"none", "archive", "drop_marks", "reset", "ingest", "validate",
                          "again", "drop_again", "ingest_again", "validate_again", "compare",
                          "publish", "approve", "report"},
                  repeat : BOOLEAN, drift : BOOLEAN, first : Built, second : Built]
  <2>1. CASE apply' = NoApply
    BY <1>2, <2>1 DEF NoApply
  <2>2. CASE apply' = Step(s)
    BY <2>2 DEF WorkflowInv, WorkflowTypes, Step
  <2> QED BY <2>1, <2>2
<1>4. WorkflowTypes'
  BY <1>1, <1>3 DEF WorkflowInv, WorkflowTypes
<1>5. ReceiptKept'
  BY DEF WorkflowInv, ReceiptKept, FixedUnder
<1>6. FreezeKept'
  BY DEF WorkflowInv, FreezeKept, FixedUnder
<1> QED BY <1>4, <1>5, <1>6

\* An apply that moves from step to step without building keeps the invariant
\* (apply_project up to the report).
LEMMA ApplyStep ==
  ASSUME WorkflowInv,
         ArchiveStaleStores \/ ResetWorkingStores \/ DropState \/ ValidateProject
           \/ CompareRebuilds \/ Publish \/ Approve \/ FailApply
  PROVE  WorkflowInv'
<1> USE DEF WorkflowInv
<1>0. /\ working \in [release : 0..MaxPackage, marks : 0..MaxSource]
      /\ published \in Built /\ approved \in Built /\ matched \subseteq 1..Len(builds)
      /\ apply = [step |-> apply.step, repeat |-> apply.repeat, drift |-> apply.drift,
                  first |-> apply.first, second |-> apply.second]
      /\ apply.first \in Built /\ apply.second \in Built /\ Len(builds) \in Nat
  BY DEF WorkflowTypes
<1>1. \A s : Step(s) = [step |-> s, repeat |-> apply.repeat, drift |-> apply.drift,
                        first |-> apply.first, second |-> apply.second]
  BY <1>0 DEF Step
<1>2. ASSUME NEW marked \in [release : 0..MaxPackage, marks : 0..MaxSource], working' = marked,
             NEW s \in {"drop_marks", "reset", "ingest", "drop_again", "ingest_again"},
             apply' = Step(s),
             \/ apply.step = "archive" /\ s \in {"reset", "drop_marks"}
             \/ apply.step = "reset" /\ s \in {"ingest", "drop_marks"}
             \/ apply.step = "again" /\ s \in {"ingest_again", "drop_again"}
             \/ apply.step = "drop_marks" /\ s = "ingest"
             \/ apply.step = "drop_again" /\ s = "ingest_again",
             UNCHANGED <<origin, release, builds, published, receipt, approved, reviewed,
                         matched, freeze>>
      PROVE  WorkflowInv'
  <2>1. WorkflowTypes' /\ ReceiptKept' /\ FreezeKept'
    BY <1>0, <1>2, ApplyGoesOn
  <2>2. /\ apply'.step = s /\ apply'.first = apply.first /\ apply'.second = apply.second
        /\ apply.second = 0 /\ (s \in Repeats => apply.step \in Repeats)
    BY <1>1, <1>2 DEF ApplyKept, Repeats
  <2>3. ApplyKept'
    BY <1>2, <2>2 DEF ApplyKept, Repeats
  <2>4. Compared'
    BY <1>2 DEF Compared
  <2> QED BY <2>1, <2>3, <2>4
<1>3. ASSUME ArchiveStaleStores  PROVE WorkflowInv'
  <2>1. working' \in [release : 0..MaxPackage, marks : 0..MaxSource]
    <3>1. [working EXCEPT !.release = 0] \in [release : 0..MaxPackage, marks : 0..MaxSource]
      BY <1>0, BaselineBounds DEF BaselineAssumption
    <3>2. working' = working \/ working' = [working EXCEPT !.release = 0]
      BY <1>3 DEF ArchiveStaleStores
    <3> QED BY <1>0, <3>1, <3>2
  <2>2. /\ apply.step = "archive" /\ (apply' = Step("reset") \/ apply' = Step("drop_marks"))
        /\ UNCHANGED <<origin, release, builds, published, receipt, approved, reviewed,
                       matched, freeze>>
    BY <1>3 DEF ArchiveStaleStores
  <2> QED BY <1>2, <2>1, <2>2
<1>4. ASSUME ResetWorkingStores  PROVE WorkflowInv'
  <2>1. working' \in [release : 0..MaxPackage, marks : 0..MaxSource]
    <3>1. [working EXCEPT !.release = 0] \in [release : 0..MaxPackage, marks : 0..MaxSource]
      BY <1>0, BaselineBounds DEF BaselineAssumption
    <3>2. working' = working \/ working' = [working EXCEPT !.release = 0]
      BY <1>4 DEF ResetWorkingStores
    <3> QED BY <1>0, <3>1, <3>2
  <2>2. /\ \/ apply.step = "reset" /\ (apply' = Step("ingest") \/ apply' = Step("drop_marks"))
           \/ apply.step = "again" /\ (apply' = Step("ingest_again") \/ apply' = Step("drop_again"))
        /\ UNCHANGED <<origin, release, builds, published, receipt, approved, reviewed,
                       matched, freeze>>
    BY <1>4 DEF ResetWorkingStores
  <2> QED BY <1>2, <2>1, <2>2
<1>5. ASSUME DropState  PROVE WorkflowInv'
  <2>1. working' \in [release : 0..MaxPackage, marks : 0..MaxSource]
    BY <1>0, <1>5, BaselineBounds DEF DropState, BaselineAssumption
  <2>2. /\ \/ apply.step = "drop_marks" /\ apply' = Step("ingest")
           \/ apply.step = "drop_again" /\ apply' = Step("ingest_again")
        /\ UNCHANGED <<origin, release, builds, published, receipt, approved, reviewed,
                       matched, freeze>>
    BY <1>5 DEF DropState
  <2> QED BY <1>2, <2>1, <2>2
<1>6. ASSUME ValidateProject  PROVE WorkflowInv'
  <2> DEFINE b == IF apply.step = "validate" THEN apply.first ELSE apply.second
             s == IF apply.step = "validate_again" THEN "compare"
                  ELSE IF apply.repeat THEN "again" ELSE "publish"
  <2>1. /\ apply.step \in {"validate", "validate_again"} /\ builds[b].release = release
        /\ apply' = Step(s)
        /\ UNCHANGED <<origin, release, working, builds, published, receipt, approved,
                       reviewed, matched, freeze>>
    BY <1>6 DEF ValidateProject, Rejected
  <2>2. WorkflowTypes' /\ ReceiptKept' /\ FreezeKept'
    BY <1>0, <2>1, ApplyGoesOn
  <2>3. /\ apply'.step = s /\ apply'.first = apply.first /\ apply'.second = apply.second
    BY <1>1, <2>1
  <2>4. ApplyKept'
    <3>1. CASE apply.step = "validate"
      BY <2>1, <2>3, <3>1 DEF ApplyKept, Repeats, FixedUnder
    <3>2. CASE apply.step = "validate_again"
      BY <2>1, <2>3, <3>2 DEF ApplyKept, Repeats
    <3> QED BY <2>1, <3>1, <3>2
  <2>5. Compared'
    BY <2>1 DEF Compared
  <2> QED BY <2>2, <2>4, <2>5
<1>7. ASSUME CompareRebuilds  PROVE WorkflowInv'
  <2>1. /\ apply.step = "compare" /\ matched' = matched \cup {apply.second}
        /\ builds[apply.first].meaning = builds[apply.second].meaning
        /\ apply' = Step("publish")
        /\ UNCHANGED <<origin, release, working, builds, published, receipt, approved,
                       reviewed, freeze>>
    BY <1>7 DEF CompareRebuilds, Agree
  <2>2. /\ apply.first # 0 /\ apply.first < apply.second
        /\ builds[apply.first].release = release /\ builds[apply.second].release = release
    BY <2>1 DEF ApplyKept, Repeats
  <2>3. apply.first \in 1..(apply.second - 1) /\ apply.second \in 1..Len(builds)
    BY <1>0, <2>2 DEF Built
  <2>4. WorkflowTypes' /\ ReceiptKept' /\ FreezeKept'
    BY <1>0, <2>1, <2>3, ApplyGoesOn
  <2>5. Compared'
    BY <2>1, <2>2, <2>3 DEF Compared
  <2>6. /\ apply'.step = "publish" /\ apply'.second = apply.second
    BY <1>1, <2>1
  <2>7. ApplyKept'
    BY <2>1, <2>2, <2>6 DEF ApplyKept, Repeats, FixedUnder
  <2> QED BY <2>4, <2>5, <2>7
<1>8. ASSUME Publish \/ Approve  PROVE WorkflowInv'
  <2>1. Final \in Built
    BY <1>0 DEF Final
  <2>2. /\ apply.step \in {"publish", "approve"}
        /\ apply' = Step("approve") \/ apply' = Step("report")
        /\ published' \in {published, Final} /\ approved' \in {approved, Final}
        /\ UNCHANGED <<origin, release, working, builds, receipt, reviewed, matched, freeze>>
    BY <1>8 DEF Publish, Approve
  <2>3. WorkflowTypes' /\ ReceiptKept' /\ FreezeKept'
    BY <1>0, <2>1, <2>2, ApplyGoesOn
  <2>4. apply'.step \in {"approve", "report"} /\ apply'.second = apply.second
    BY <1>1, <2>2
  <2>5. ApplyKept'
    BY <2>2, <2>4 DEF ApplyKept, Repeats, FixedUnder
  <2>6. Compared'
    BY <2>2 DEF Compared
  <2> QED BY <2>3, <2>5, <2>6
<1>9. ASSUME FailApply  PROVE WorkflowInv'
  <2>1. /\ apply.step # "none" /\ apply' = NoApply
        /\ UNCHANGED <<origin, release, working, builds, published, receipt, approved,
                       reviewed, matched, freeze>>
    BY <1>9 DEF FailApply
  <2>2. WorkflowTypes' /\ ReceiptKept' /\ FreezeKept'
    BY <1>0, <2>1, ApplyGoesOn
  <2>3. ApplyKept' /\ Compared'
    BY <2>1 DEF ApplyKept, Repeats, NoApply, Compared
  <2> QED BY <2>2, <2>3
<1> QED BY <1>3, <1>4, <1>5, <1>6, <1>7, <1>8, <1>9

\* A build, forced by an apply, is the first of it or follows the first, and
\* what the report tells of it is what the apply found (validation-report.json).
LEMMA BuildStep ==
  ASSUME WorkflowInv,
         \/ \E repeat, drift, fixed \in BOOLEAN : BeginApply(repeat, drift, fixed)
         \/ \E sound \in BOOLEAN : RunIngest(sound)
         \/ WriteReport
  PROVE  WorkflowInv'
<1> USE DEF WorkflowInv
<1>0. /\ apply = [step |-> apply.step, repeat |-> apply.repeat, drift |-> apply.drift,
                  first |-> apply.first, second |-> apply.second]
      /\ apply.first \in Built /\ apply.second \in Built /\ Len(builds) \in Nat
      /\ 0 \in Built
  BY DEF WorkflowTypes, Built
<1>1. ASSUME NEW repeat \in BOOLEAN, NEW drift \in BOOLEAN, NEW fixed \in BOOLEAN,
             BeginApply(repeat, drift, fixed)
      PROVE  WorkflowInv'
  <2>1. /\ apply' = [step |-> "archive", repeat |-> repeat, drift |-> drift,
                     first |-> 0, second |-> 0]
        /\ freeze.step = "none"
        /\ UNCHANGED <<origin, release, working, builds, published, receipt, approved,
                       reviewed, matched, freeze>>
    BY <1>1 DEF BeginApply, NoApply, Quiet
  <2>2. WorkflowTypes'
    BY <1>0, <2>1, SnapshotsStay DEF WorkflowTypes
  <2>3. ApplyKept' /\ Compared' /\ ReceiptKept' /\ FreezeKept'
    BY <2>1 DEF ApplyKept, Repeats, Compared, ReceiptKept, FreezeKept, FixedUnder
  <2> QED BY <2>2, <2>3
<1>2. ASSUME NEW sound \in BOOLEAN, RunIngest(sound)  PROVE WorkflowInv'
  <2>1. /\ apply.step \in {"ingest", "ingest_again"} /\ Len(builds) < MaxBuilds
        /\ builds' = Append(builds, BuildNow(sound))
        /\ working' = [release |-> release, marks |-> origin.revision]
        /\ UNCHANGED <<origin, release, published, receipt, approved, reviewed, matched, freeze>>
    BY <1>2 DEF RunIngest
  <2>2. /\ builds' \in Seq(BuildRow) /\ Len(builds') = Len(builds) + 1
        /\ Len(builds') <= MaxBuilds /\ \A i \in 1..Len(builds) : builds'[i] = builds[i]
    BY <2>1, EarlierBuildsStay
  <2>3. Built \subseteq Built' /\ Frozen \subseteq Frozen' /\ Len(builds') \in Built'
    BY <1>0, <2>2 DEF Built, Frozen
  <2>4. working' \in [release : 0..MaxPackage, marks : 0..MaxSource]
    BY <2>1 DEF WorkflowTypes
  <2>5. matched' \subseteq 1..Len(builds')
    BY <1>0, <2>1, <2>2 DEF WorkflowTypes
  <2>6. apply' = IF apply.step = "ingest"
                 THEN [step |-> "validate", repeat |-> apply.repeat, drift |-> apply.drift,
                       first |-> Len(builds'), second |-> apply.second]
                 ELSE [step |-> "validate_again", repeat |-> apply.repeat,
                       drift |-> apply.drift, first |-> apply.first, second |-> Len(builds')]
    <3>1. /\ Step("validate") = [step |-> "validate", repeat |-> apply.repeat,
                 drift |-> apply.drift, first |-> apply.first, second |-> apply.second]
          /\ Step("validate_again") = [step |-> "validate_again", repeat |-> apply.repeat,
                 drift |-> apply.drift, first |-> apply.first, second |-> apply.second]
      BY DEF WorkflowTypes, Step
    <3>2. \A n : [Step("validate") EXCEPT !.first = n] =
                   [step |-> "validate", repeat |-> apply.repeat, drift |-> apply.drift,
                    first |-> n, second |-> apply.second]
      BY <3>1
    <3>3. \A n : [Step("validate_again") EXCEPT !.second = n] =
                   [step |-> "validate_again", repeat |-> apply.repeat, drift |-> apply.drift,
                    first |-> apply.first, second |-> n]
      BY <3>1
    <3> QED BY <1>2, <3>2, <3>3 DEF RunIngest
  <2>7. apply' \in [step : {"none", "archive", "drop_marks", "reset", "ingest", "validate",
                            "again", "drop_again", "ingest_again", "validate_again", "compare",
                            "publish", "approve", "report"},
                    repeat : BOOLEAN, drift : BOOLEAN, first : Built', second : Built']
    BY <1>0, <2>3, <2>6 DEF WorkflowTypes
  <2>8. WorkflowTypes'
    BY <2>1, <2>2, <2>3, <2>4, <2>5, <2>7 DEF WorkflowTypes, Frozen
  <2>9. ApplyKept'
    <3>1. CASE apply.step = "ingest"
      BY <1>0, <2>1, <2>2, <2>6, <3>1 DEF ApplyKept, Repeats
    <3>2. CASE apply.step = "ingest_again"
      <4>1. /\ apply.first # 0 /\ builds[apply.first].release = release
        BY <3>2 DEF ApplyKept, Repeats
      <4>2. apply.first \in 1..Len(builds)
        BY <1>0, <4>1 DEF Built
      <4> QED BY <1>0, <2>1, <2>2, <2>6, <3>2, <4>1, <4>2 DEF ApplyKept, Repeats
    <3> QED BY <2>1, <3>1, <3>2
  <2>10. Compared' /\ ReceiptKept' /\ FreezeKept'
    <3>1. freeze.step # "none" => apply'.step = "none"
      BY <2>1 DEF FreezeKept
    <3> QED BY <2>1, <3>1, AddedBuild
  <2> QED BY <2>8, <2>9, <2>10
<1>3. ASSUME WriteReport  PROVE WorkflowInv'
  <2>1. /\ apply.step = "report" /\ apply' = NoApply
        /\ receipt' = [build |-> Final, fixed |-> apply.second # 0, release |-> release]
        /\ UNCHANGED <<origin, release, working, builds, published, approved, reviewed,
                       matched, freeze>>
    BY <1>3 DEF WriteReport
  <2>2. receipt' \in [build : Built, fixed : BOOLEAN, release : 0..MaxPackage]
    BY <1>0, <2>1 DEF Final, WorkflowTypes
  <2>3. WorkflowTypes'
    BY <1>0, <2>1, <2>2, SnapshotsStay DEF WorkflowTypes, NoApply
  <2>4. FixedUnder(apply.second, release)
    BY <2>1 DEF ApplyKept
  <2>5. ReceiptKept'
    BY <2>1, <2>4 DEF ReceiptKept, FixedUnder, Final
  <2>6. ApplyKept' /\ Compared' /\ FreezeKept'
    BY <2>1 DEF ApplyKept, Repeats, NoApply, Compared, FreezeKept, FixedUnder
  <2> QED BY <2>3, <2>5, <2>6
<1> QED BY <1>1, <1>2, <1>3

\* A freeze replaces what is reviewed by the build the report accepted, and puts
\* back what it replaced (freeze_reviewed_catalogs).
LEMMA FreezeStep ==
  ASSUME WorkflowInv,
         FreezeApproved \/ FreezeReviewed \/ VerifyReviewed \/ RollBackFreeze \/ KillFreeze
  PROVE  WorkflowInv'
<1> USE DEF WorkflowInv
<1>1. ASSUME FreezeApproved  PROVE WorkflowInv'
  <2>1. /\ apply.step = "none" /\ receipt.build # 0 /\ receipt.fixed
        /\ receipt.release = release /\ published = receipt.build
        /\ freeze' = [step |-> "reviewed", approved |-> approved, reviewed |-> reviewed]
        /\ approved' = published
        /\ UNCHANGED <<origin, release, working, builds, published, receipt, reviewed,
                       matched, apply>>
    BY <1>1 DEF FreezeApproved, Quiet, AcceptedFromReports
  <2>2. WorkflowTypes'
    BY <2>1, SnapshotsStay DEF WorkflowTypes
  <2>3. FixedUnder(published, release)
    BY <2>1 DEF ReceiptKept
  <2>4. FreezeKept'
    BY <2>1, <2>3 DEF FreezeKept, FixedUnder
  <2>5. ApplyKept' /\ Compared' /\ ReceiptKept'
    BY <2>1 DEF ApplyKept, Compared, ReceiptKept, FixedUnder
  <2> QED BY <2>2, <2>4, <2>5
<1>2. ASSUME FreezeReviewed  PROVE WorkflowInv'
  <2>1. /\ freeze.step = "reviewed"
        /\ reviewed' = [build |-> approved, release |-> release]
        /\ freeze' = [freeze EXCEPT !.step = "verify"]
        /\ UNCHANGED <<origin, release, working, builds, published, receipt, approved,
                       matched, apply>>
    BY <1>2 DEF FreezeReviewed
  <2>2. reviewed' \in Frozen
    BY <2>1 DEF WorkflowTypes, Frozen
  <2>3. freeze' = [step |-> "verify", approved |-> freeze.approved, reviewed |-> freeze.reviewed]
    BY <2>1 DEF WorkflowTypes
  <2>4. WorkflowTypes'
    BY <2>1, <2>2, <2>3, SnapshotsStay DEF WorkflowTypes
  <2>5. FreezeKept'
    BY <2>1, <2>3 DEF FreezeKept, FixedUnder
  <2>6. ApplyKept' /\ Compared' /\ ReceiptKept'
    BY <2>1 DEF ApplyKept, Compared, ReceiptKept, FixedUnder
  <2> QED BY <2>4, <2>5, <2>6
<1>3. ASSUME VerifyReviewed \/ RollBackFreeze \/ KillFreeze  PROVE WorkflowInv'
  <2>1. /\ freeze.step # "none" /\ freeze' = NoFreeze
        /\ \/ approved' = approved /\ reviewed' = reviewed
           \/ approved' = freeze.approved /\ reviewed' = freeze.reviewed
        /\ UNCHANGED <<origin, release, working, builds, published, receipt, matched, apply>>
    BY <1>3 DEF VerifyReviewed, RollBackFreeze, KillFreeze
  <2>2. freeze' \in [step : {"none", "reviewed", "verify"}, approved : Built,
                     reviewed : Frozen]
    <3>1. 0 \in Built /\ 0 \in 0..MaxPackage
      BY BaselineBounds DEF BaselineAssumption, WorkflowTypes, Built
    <3> QED BY <2>1, <3>1 DEF NoFreeze, Unfrozen, Frozen
  <2>3. approved' \in Built /\ reviewed' \in Frozen
    BY <2>1 DEF WorkflowTypes
  <2>4. WorkflowTypes'
    BY <2>1, <2>2, <2>3, SnapshotsStay DEF WorkflowTypes
  <2>5. FreezeKept'
    BY <2>1 DEF FreezeKept, FixedUnder, NoFreeze
  <2>6. ApplyKept' /\ Compared' /\ ReceiptKept'
    BY <2>1 DEF ApplyKept, Compared, ReceiptKept, FixedUnder
  <2> QED BY <2>4, <2>5, <2>6
<1> QED BY <1>1, <1>2, <1>3

-----------------------------------------------------------------------------
\* The workflow never leaves its invariant.
LEMMA WorkflowInvariance == BaselineSpec => []WorkflowInv
<1>1. BaselineInit => WorkflowInv
  <2> SUFFICES ASSUME BaselineInit PROVE WorkflowInv
    OBVIOUS
  <2>1. WorkflowTypes
    BY BaselineBounds DEF BaselineAssumption, BaselineInit, WorkflowTypes, Built, Frozen,
                          Unfrozen, NoApply, NoFreeze
  <2>2. Compared /\ ApplyKept /\ ReceiptKept /\ FreezeKept
    BY DEF BaselineInit, Compared, ApplyKept, ReceiptKept, FreezeKept, FixedUnder, Unfrozen,
           NoApply, NoFreeze, Repeats
  <2> QED BY <2>1, <2>2 DEF WorkflowInv
<1>2. WorkflowInv /\ [BaselineNext]_baselineVars => WorkflowInv'
  <2>1. ASSUME WorkflowInv, UNCHANGED baselineVars  PROVE WorkflowInv'
    BY <2>1, SnapshotsStay DEF baselineVars, WorkflowInv, WorkflowTypes, Compared, ApplyKept,
                               ReceiptKept, FreezeKept, FixedUnder
  <2>2. ASSUME WorkflowInv, BaselineNext  PROVE WorkflowInv'
    BY <2>2, BetweenStep, ApplyStep, BuildStep, FreezeStep DEF BaselineNext
  <2> QED BY <2>1, <2>2
<1> QED BY <1>1, <1>2, PTL DEF BaselineSpec

\* The workflow is well typed (baseline_workflow.py).
THEOREM WorkflowIsTyped == BaselineSpec => []BaselineTypeOK
<1>1. WorkflowInv => BaselineTypeOK
  <2> SUFFICES ASSUME WorkflowInv PROVE BaselineTypeOK
    OBVIOUS
  <2>1. WorkflowTypes
    BY DEF WorkflowInv
  <2>2. /\ Len(builds) \in Nat /\ DOMAIN builds = 1..Len(builds) /\ Len(builds) <= MaxBuilds
        /\ \A i \in DOMAIN builds : builds[i] \in BuildRow
    BY <2>1, LenProperties, ElementOfSeq DEF WorkflowTypes
  <2>3. Built \subseteq Build /\ Built = 0..Len(builds)
    <3>1. \A n \in 0..Len(builds) : n \in 0..MaxBuilds
      BY <2>2, BaselineBounds DEF BaselineAssumption
    <3> QED BY <3>1 DEF Built, Build
  <2>4. apply.first \in Build /\ apply.second \in Build
    BY <2>1, <2>3 DEF WorkflowTypes
  <2>5. apply \in [step : {"none", "archive", "drop_marks", "reset", "ingest", "validate",
                          "again", "drop_again", "ingest_again", "validate_again", "compare",
                          "publish", "approve", "report"},
                   repeat : BOOLEAN, drift : BOOLEAN, first : Build, second : Build]
    BY <2>1, <2>4 DEF WorkflowTypes
  <2> QED BY <2>1, <2>2, <2>3, <2>5 DEF WorkflowTypes, BaselineTypeOK, BuildRow, Frozen
<1> QED BY <1>1, WorkflowInvariance, PTL

\* A frozen baseline was built twice by the package it is frozen under, and both
\* builds normalize to the same, whatever applied, ingested, failed or upgraded
\* before (freeze_reviewed_catalogs, apply_project).
THEOREM FrozenIsFixed == BaselineSpec => []ReviewedIsAFixedPoint
<1>1. WorkflowInv => ReviewedIsAFixedPoint
  BY DEF WorkflowInv, FreezeKept, FixedUnder, Compared, ReviewedIsAFixedPoint
<1> QED BY <1>1, WorkflowInvariance, PTL

\* An apply gives up working stores only while a snapshot is published
\* (archive_stale_project, reset_working_stores).
THEOREM DiscardsAreBacked == BaselineSpec => DiscardLeavesASnapshot
<1> DEFINE Backed == working.release # 0 /\ working'.release = 0 => published # 0
<1>1. ASSUME WorkflowInv, BaselineNext  PROVE Backed
  <2>1. CASE UNCHANGED working
    BY <2>1
  <2>2. CASE ArchiveStaleStores \/ ResetWorkingStores
    BY <2>2 DEF ArchiveStaleStores, ResetWorkingStores, RetainsSnapshot
  <2>3. CASE DropState
    BY <1>1, <2>3 DEF DropState, WorkflowInv, WorkflowTypes
  <2>4. CASE OrdinaryIngest \/ \E sound \in BOOLEAN : RunIngest(sound)
    <3>1. working' = [release |-> release, marks |-> origin.revision]
      BY <2>4 DEF OrdinaryIngest, RunIngest
    <3>2. release \in Nat /\ release # 0
      BY <1>1, BaselineBounds DEF BaselineAssumption, WorkflowInv, WorkflowTypes
    <3> QED BY <3>1, <3>2
  <2> QED
    BY <1>1, <2>1, <2>2, <2>3, <2>4
    DEF BaselineNext, SourceChanges, PackageChanges, BeginApply, ValidateProject,
        CompareRebuilds, Publish, Approve, WriteReport, FailApply, FreezeApproved,
        FreezeReviewed, VerifyReviewed, RollBackFreeze, KillFreeze
<1>2. ASSUME UNCHANGED baselineVars  PROVE Backed
  BY <1>2 DEF baselineVars
<1>3. WorkflowInv /\ [BaselineNext]_baselineVars => [Backed]_baselineVars
  BY <1>1, <1>2
<1> QED BY <1>3, WorkflowInvariance, PTL DEF BaselineSpec, DiscardLeavesASnapshot

-----------------------------------------------------------------------------
(* Raw evidence. *)

CaptureState ==
  [step : {"idle", "read", "staged", "promote", "record"}, how : {Absent, "reference", "capture"},
   before : [size : Nat, stamp : Nat], read : Bytes, version : Version \cup {Absent},
   quiet : BOOLEAN]
Object == [version : Version, whole : BOOLEAN]

RawTypes ==
  /\ format \in {"transcript", "database"}
  /\ file \in [bytes : Bytes, stamp : Nat] /\ file.bytes \in past /\ past \subseteq Bytes
  /\ installed \in Version
  /\ DOMAIN objects \subseteq Bytes /\ objects \in [DOMAIN objects -> Object]
  /\ capture \in [Project -> CaptureState]
  /\ record \in [Project -> Observation] /\ inSnapshot \in [Project -> Observation]
  /\ changed \in [Project -> BOOLEAN]
  /\ restored \in [Project -> {Absent, "exact", "refused"}]
  /\ writes \in 0..MaxWrites /\ captures \in 0..MaxCaptures

(* What was read so far is how the file begins.                            *)
Begins(read, bytes) ==
  /\ Len(read) <= Len(bytes)
  /\ \A i \in 1..Len(read) : read[i] = bytes[i]

(* A read no write went by unnoticed during: the stamp tells of any other. *)
ReadKept(c) ==
  c.step = "read" =>
    /\ c.how # Absent
    /\ c.before.stamp <= file.stamp
    /\ c.before.stamp = file.stamp /\ ~c.quiet =>
         c.before.size = Len(file.bytes) /\ Begins(c.read, file.bytes)

(* A copy is made by the compressor installed; one that is to be recorded  *)
(* states the encoding of its object.                                      *)
CopyKept(c) ==
  /\ c.step \in {"staged", "promote", "record"} => c.how = "capture"
  /\ c.how = "capture" /\ c.step \in {"read", "staged", "promote"} => c.version = installed
  /\ c.step = "promote" /\ c.read \in DOMAIN objects => objects[c.read].version = installed
  /\ c.step = "record" => c.read \in DOMAIN objects /\ objects[c.read].version = c.version

(* Only a captured record states an encoding.                              *)
Told(r) == IF r.how = "capture"
           THEN r.bytes \in DOMAIN objects /\ objects[r.bytes].version = r.version
           ELSE r.version = Absent

SameButState(r, s) == Revision(r) = Revision(s) /\ r.version = s.version

ProjectKept(p) ==
  /\ ReadKept(capture[p]) /\ CopyKept(capture[p])
  /\ capture[p].step \in {"staged", "promote", "record"} /\ ~capture[p].quiet =>
       capture[p].read \in past
  /\ Told(record[p]) /\ Told(inSnapshot[p])
  /\ ~changed[p] => SameButState(record[p], inSnapshot[p])

RawInv == RawTypes /\ \A p \in Project : ProjectKept(p)

-----------------------------------------------------------------------------
\* The bounds of the capture are numbers.
LEMMA RawBounds == /\ MaxLength \in Nat /\ MaxWrites \in Nat /\ MaxCaptures \in Nat
                   /\ First \subseteq Bytes
BY RawAssumption DEF RawAssumption, Bytes

\* The bounded sequences of chunks are the sequences within the bound.
LEMMA BytesHaveALength ==
  ASSUME NEW s \in Bytes
  PROVE  s \in Seq(Block) /\ Len(s) \in Nat /\ Len(s) <= MaxLength
<1>1. PICK m \in 0..MaxLength : s \in [1..m -> Block]
  BY RawBounds DEF Bytes, BoundedSeq, SeqOf
<1> QED BY <1>1, RawBounds, SeqDef

\* A short enough sequence of blocks is the bytes of a file.
LEMMA SequencesAreBytes ==
  ASSUME NEW s \in Seq(Block), Len(s) <= MaxLength
  PROVE  s \in Bytes
<1>1. Len(s) \in 0..MaxLength /\ s \in [1..Len(s) -> Block]
  BY RawBounds, LenProperties
<1> QED BY <1>1 DEF Bytes, BoundedSeq, SeqOf

\* The empty file.
LEMMA NothingRead == << >> \in Bytes /\ Len(<< >>) = 0
<1>1. << >> \in Seq(Block) /\ Len(<< >>) = 0
  BY EmptySeq
<1>2. 0 <= MaxLength
  BY RawBounds
<1> QED BY <1>1, <1>2, SequencesAreBytes

\* A file whose beginning was read to its length was read.
LEMMA BeginningToTheEnd ==
  ASSUME NEW s \in Bytes, NEW t \in Bytes, Begins(s, t), Len(s) = Len(t)
  PROVE  s = t
BY BytesHaveALength, SeqEqual DEF Begins

\* One chunk more is still how the file begins.
LEMMA OneChunkMore ==
  ASSUME NEW s \in Bytes, NEW t \in Bytes, Len(s) < Len(t)
  PROVE  /\ Append(s, t[Len(s) + 1]) \in Bytes
         /\ Begins(s, t) => Begins(Append(s, t[Len(s) + 1]), t)
<1>. DEFINE x == t[Len(s) + 1]
<1>1. s \in Seq(Block) /\ t \in Seq(Block) /\ Len(s) \in Nat /\ Len(t) \in Nat /\ Len(t) <= MaxLength
  BY BytesHaveALength
<1>2. x \in Block
  BY <1>1, LenProperties
<1>3. /\ Append(s, x) \in Seq(Block) /\ Len(Append(s, x)) = Len(s) + 1
      /\ \A i \in 1..Len(s) : Append(s, x)[i] = s[i]
      /\ Append(s, x)[Len(s) + 1] = x
  BY <1>1, <1>2, AppendProperties
<1>4. Append(s, x) \in Bytes
  <2>1. Len(Append(s, x)) <= MaxLength
    BY <1>1, <1>3, RawBounds
  <2> QED BY <1>3, <2>1, SequencesAreBytes
<1>5. ASSUME Begins(s, t) PROVE Begins(Append(s, x), t)
  BY <1>1, <1>3, <1>5 DEF Begins
<1> QED BY <1>4, <1>5

\* Records that differ in nothing but the state agree, and conversely.
LEMMA StateAside ==
  ASSUME NEW r \in Observation, NEW s \in Observation
  PROVE  SameButState(r, s) <=>
           [r EXCEPT !.state = "stable"] = [s EXCEPT !.state = "stable"]
BY DEF Observation, SameButState, Revision

\* What is asked of the run's records follows from the invariant.
LEMMA RecordsTell == RawInv => RecordsTellWhatIsKept
BY StateAside DEF RawInv, RawTypes, ProjectKept, Told, RecordsTellWhatIsKept, CopiesAreExact,
   CapturesAreHeld, DifferencesAreNoticed

\* The invariant holds the types.
LEMMA RawTypeHolds == RawInv => RawTypeOK
BY DEF RawInv, RawTypes, RawTypeOK, CaptureState, Object

\* The invariant holds at first.
LEMMA RawStarts == RawInit => RawInv
<1>. SUFFICES ASSUME RawInit PROVE RawInv
  OBVIOUS
<1>1. << >> \in Bytes /\ First \subseteq Bytes
  BY NothingRead, RawBounds DEF Bytes
<1>2. Idle \in CaptureState /\ NoRecord \in Observation
  BY <1>1 DEF Idle, CaptureState, NoRecord, Observation, Absent
<1>3. DOMAIN objects = {} /\ objects \in [{} -> Object]
  BY EmptySeq, LenProperties DEF RawInit
<1>4. RawTypes
  <2>1. PICK b \in Bytes : file = [bytes |-> b, stamp |-> 0]
    BY <1>1 DEF RawInit
  <2>2. file \in [bytes : Bytes, stamp : Nat] /\ file.bytes \in past /\ past \subseteq Bytes
    BY <2>1 DEF RawInit
  <2> QED BY <1>2, <1>3, <2>2, RawBounds DEF RawInit, RawTypes, Absent
<1>5. Idle.step = "idle" /\ Idle.how = Absent /\ NoRecord.how = "none" /\ NoRecord.version = Absent
  BY DEF Idle, NoRecord
<1>6. \A p \in Project : capture[p] = Idle /\ record[p] = NoRecord /\ inSnapshot[p] = NoRecord
  BY DEF RawInit
<1> QED BY <1>4, <1>5, <1>6 DEF RawInv, ProjectKept, ReadKept, CopyKept, Told, SameButState, Absent

-----------------------------------------------------------------------------
\* Objects keep their encoding: what was told of one stays true.
LEMMA ToldStays ==
  ASSUME NEW r, Told(r),
         \A b \in DOMAIN objects :
           b \in DOMAIN objects' /\ objects'[b].version = objects[b].version
  PROVE  Told(r)'
BY DEF Told

\* What one Project does to its own observation and records leaves the others'.
LEMMA OthersKept ==
  ASSUME RawInv, NEW p \in Project, UNCHANGED <<file, past, installed, objects>>,
         \A q \in Project \ {p} : /\ capture'[q] = capture[q] /\ record'[q] = record[q]
                                  /\ inSnapshot'[q] = inSnapshot[q] /\ changed'[q] = changed[q],
         RawTypes', ProjectKept(p)'
  PROVE  RawInv'
BY DEF RawInv, ProjectKept, ReadKept, CopyKept, Told, SameButState

\* A record that took the place of the run's, and was told of (_merge_raw_record).
LEMMA RecordsMerge ==
  ASSUME RawInv, NEW p \in Project, NEW r \in Observation, Told(r), Merge(p, r)
  PROVE  /\ record' \in [Project -> Observation] /\ changed' \in [Project -> BOOLEAN]
         /\ record'[p] = r
         /\ \A q \in Project \ {p} : record'[q] = record[q] /\ changed'[q] = changed[q]
         /\ ~changed'[p] => SameButState(r, inSnapshot[p])
<1>1. record \in [Project -> Observation] /\ changed \in [Project -> BOOLEAN]
  BY DEF RawInv, RawTypes
<1>2. changed'[p] = (changed[p] \/ Differs(r, record[p]))
  BY <1>1 DEF Merge
<1>3. ASSUME ~changed'[p] PROVE SameButState(r, inSnapshot[p])
  <2>1. Revision(r) = Revision(record[p]) /\ SameButState(record[p], inSnapshot[p])
    BY <1>2, <1>3 DEF RawInv, ProjectKept, Differs
  <2>2. r.how = record[p].how /\ r.bytes = record[p].bytes
    BY <2>1 DEF Revision
  <2>3. r.version = record[p].version
    BY <2>2 DEF RawInv, ProjectKept, Told
  <2> QED BY <2>1, <2>3 DEF SameButState
<1>4. record' = [record EXCEPT ![p] = r] /\ Differs(r, record[p]) \in BOOLEAN
  BY DEF Merge, Differs
<1>5. changed' = [changed EXCEPT ![p] = changed'[p]] /\ changed'[p] \in BOOLEAN
  BY <1>1, <1>2, <1>4 DEF Merge
<1> QED BY <1>1, <1>3, <1>4, <1>5

\* Beginning a capture or a reference keeps the invariant.
LEMMA BeginKeeps ==
  ASSUME RawInv, NEW p \in Project, NEW how \in {"reference", "capture"}, Begin(p, how)
  PROVE  RawInv'
<1>. DEFINE c == [step |-> IF Backup(how) THEN "staged" ELSE "read", how |-> how,
                  before |-> Stat(file), read |-> IF Backup(how) THEN file.bytes ELSE <<>>,
                  version |-> IF how = "capture" THEN installed ELSE Absent, quiet |-> FALSE]
<1>1. RawTypes
  BY DEF RawInv
<1>2. file.bytes \in Bytes /\ file.stamp \in Nat /\ Len(file.bytes) \in Nat
  BY <1>1, BytesHaveALength DEF RawTypes
<1>3. Stat(file) \in [size : Nat, stamp : Nat]
  BY <1>2 DEF Stat
<1>4. c \in CaptureState
  BY <1>1, <1>2, <1>3, NothingRead DEF CaptureState, RawTypes
<1>5. capture' = [capture EXCEPT ![p] = c]
  BY DEF Begin
<1>6. captures' \in 0..MaxCaptures
  BY <1>1, RawBounds DEF Begin, RawTypes
<1>7. RawTypes'
  BY <1>1, <1>4, <1>5, <1>6 DEF RawTypes, Begin
<1>8. ReadKept(c) /\ CopyKept(c)
  BY <1>2, NothingRead DEF ReadKept, CopyKept, Begins, Stat, Backup, Absent
<1>9. c.step = "staged" => c.read \in past
  BY <1>1 DEF RawTypes
<1>10. capture'[p] = c /\ c.step \in {"staged", "read"}
  BY <1>1, <1>5 DEF RawTypes
<1>. HIDE DEF c
<1>11. ProjectKept(p)'
  BY <1>8, <1>9, <1>10
  DEF RawInv, ProjectKept, ReadKept, CopyKept, Told, SameButState, Begin
<1> QED BY <1>1, <1>5, <1>7, <1>11, OthersKept DEF RawTypes, Begin

\* Reading one block more keeps the invariant.
LEMMA ReadChunkKeeps ==
  ASSUME RawInv, NEW p \in Project, ReadChunk(p)
  PROVE  RawInv'
<1>. DEFINE b == Append(capture[p].read, file.bytes[Len(capture[p].read) + 1])
            c == [capture[p] EXCEPT !.read = b]
<1>1. RawTypes /\ capture[p] \in CaptureState /\ file.bytes \in Bytes
  BY DEF RawInv, RawTypes
<1>2. capture[p].read \in Bytes /\ Len(capture[p].read) < Len(file.bytes)
  BY <1>1 DEF CaptureState, ReadChunk, More
<1>3. b \in Bytes /\ (Begins(capture[p].read, file.bytes) => Begins(b, file.bytes))
  BY <1>1, <1>2, OneChunkMore
<1>. HIDE DEF b
<1>4. /\ c \in CaptureState /\ c.step = "read" /\ c.how = capture[p].how /\ c.read = b
      /\ c.before = capture[p].before /\ c.version = capture[p].version
      /\ c.quiet = capture[p].quiet
  BY <1>1, <1>3 DEF CaptureState, ReadChunk
<1>5. capture' = [capture EXCEPT ![p] = c]
  BY DEF ReadChunk, b
<1>. HIDE DEF c
<1>6. RawTypes' /\ capture'[p] = c
  BY <1>1, <1>4, <1>5 DEF RawTypes, ReadChunk
<1>7. ProjectKept(p)
  BY DEF RawInv
<1>8. ReadKept(c)
  BY <1>3, <1>4, <1>7 DEF ProjectKept, ReadKept, ReadChunk
<1>9. CopyKept(c)
  BY <1>4, <1>7 DEF ProjectKept, CopyKept, ReadChunk
<1>10. ProjectKept(p)'
  BY <1>4, <1>6, <1>7, <1>8, <1>9
  DEF ProjectKept, ReadKept, CopyKept, Told, SameButState, ReadChunk
<1> QED BY <1>1, <1>5, <1>6, <1>10, OthersKept DEF RawTypes, ReadChunk

\* A capture that is over owes nothing.
LEMMA IdleKept ==
  /\ Idle \in CaptureState /\ Idle.step = "idle" /\ Idle.how = Absent
  /\ ReadKept(Idle)' /\ CopyKept(Idle)'
BY NothingRead DEF Idle, CaptureState, ReadKept, CopyKept, Absent

\* The comparison has three outcomes.
LEMMA ConsistencyIsAState ==
  ASSUME NEW b, NEW a
  PROVE  Consistency(b, a) \in {"stable", "appended", "rewritten"}
BY DEF Consistency

\* Recording a reference keeps the invariant.
LEMMA ReferKeeps ==
  ASSUME RawInv, NEW p \in Project, Refer(p)
  PROVE  RawInv'
<1>. DEFINE s == Consistency(capture[p].before, Stat(file))
            r == [how |-> "reference", bytes |-> capture[p].read, stamp |-> 0,
                  version |-> Absent, state |-> s]
<1>1. RawTypes /\ capture[p] \in CaptureState
  BY DEF RawInv, RawTypes
<1>2. s \in {"stable", "appended", "rewritten"}
  BY ConsistencyIsAState
<1>3. r \in Observation /\ r.how = "reference" /\ r.version = Absent
  BY <1>1, <1>2 DEF CaptureState, Observation
<1>4. Merge(p, r) /\ Told(r)
  BY <1>3 DEF Refer, Told
<1>. HIDE DEF r
<1>5. /\ record' \in [Project -> Observation] /\ changed' \in [Project -> BOOLEAN]
      /\ record'[p] = r
      /\ \A q \in Project \ {p} : record'[q] = record[q] /\ changed'[q] = changed[q]
      /\ ~changed'[p] => SameButState(r, inSnapshot[p])
  BY <1>3, <1>4, RecordsMerge
<1>6. RawTypes' /\ capture'[p] = Idle
  BY <1>1, <1>5, IdleKept DEF RawTypes, Refer
<1>7. ProjectKept(p)'
  BY <1>4, <1>5, <1>6, IdleKept DEF RawInv, ProjectKept, ReadKept, CopyKept, Told, SameButState, Refer
<1> QED BY <1>1, <1>5, <1>6, <1>7, OthersKept DEF RawTypes, Refer

\* Comparing the source with what was read keeps the invariant.
LEMMA CheckKeeps ==
  ASSUME RawInv, NEW p \in Project, Check(p)
  PROVE  RawInv'
<1>. DEFINE c == [capture[p] EXCEPT !.step = "staged"]
<1>1. RawTypes /\ capture[p] \in CaptureState /\ file.bytes \in Bytes /\ file.bytes \in past
      /\ ProjectKept(p) /\ file \in [bytes : Bytes, stamp : Nat]
  BY DEF RawInv, RawTypes
<1>2. /\ c \in CaptureState /\ c.step = "staged" /\ c.how = "capture"
      /\ c.read = capture[p].read /\ c.version = capture[p].version /\ c.quiet = capture[p].quiet
  BY <1>1 DEF CaptureState, Check
<1>3. capture' = [capture EXCEPT ![p] = IF Exact(capture[p]) THEN c ELSE Idle]
  BY DEF Check
<1>. HIDE DEF c
<1>4. RawTypes' /\ capture'[p] = (IF Exact(capture[p]) THEN c ELSE Idle)
  BY <1>1, <1>2, <1>3, IdleKept DEF RawTypes, Check
<1>5. ASSUME Exact(capture[p]), ~capture[p].quiet PROVE capture[p].read \in past
  <2>1. capture[p].before = Stat(file)
    BY <1>5 DEF Exact, Consistency
  <2>2. capture[p].before.stamp = file.stamp /\ capture[p].before.size = Len(file.bytes)
    BY <2>1 DEF Stat
  <2>3. Begins(capture[p].read, file.bytes)
    BY <1>1, <1>5, <2>2 DEF ProjectKept, ReadKept, Check
  <2>4. capture[p].read \in Bytes /\ Len(capture[p].read) = Len(file.bytes)
    BY <1>1, <1>5, <2>2 DEF Exact, CaptureState
  <2> QED BY <1>1, <2>3, <2>4, BeginningToTheEnd
<1>6. CopyKept(c)
  BY <1>1, <1>2 DEF ProjectKept, CopyKept, Check
<1>7. ProjectKept(p)'
  <2>1. CASE Exact(capture[p])
    BY <1>1, <1>2, <1>4, <1>5, <1>6, <2>1
    DEF ProjectKept, ReadKept, CopyKept, Told, SameButState, Check
  <2>2. CASE ~Exact(capture[p])
    BY <1>1, <1>4, <2>2, IdleKept
    DEF ProjectKept, ReadKept, CopyKept, Told, SameButState, Check
  <2> QED BY <2>1, <2>2
<1> QED BY <1>1, <1>3, <1>4, <1>7, OthersKept DEF RawTypes, Check

\* Looking for the bytes in the store keeps the invariant.
LEMMA LookUpKeeps ==
  ASSUME RawInv, NEW p \in Project, LookUp(p)
  PROVE  RawInv'
<1>. DEFINE b == capture[p].read
            c == [capture[p] EXCEPT !.step = "promote"]
            d == [capture[p] EXCEPT !.step = "record", !.version = objects[b].version]
<1>1. RawTypes /\ capture[p] \in CaptureState /\ ProjectKept(p)
  BY DEF RawInv, RawTypes
<1>2. /\ c \in CaptureState /\ c.step = "promote" /\ c.how = capture[p].how
      /\ c.read = capture[p].read /\ c.version = capture[p].version /\ c.quiet = capture[p].quiet
  BY <1>1 DEF CaptureState
<1>3. ASSUME b \in DOMAIN objects
      PROVE  /\ d \in CaptureState /\ d.step = "record" /\ d.how = capture[p].how
             /\ d.read = capture[p].read /\ d.version = objects[b].version
             /\ d.quiet = capture[p].quiet
  <2>1. objects[b].version \in Version
    BY <1>1, <1>3 DEF RawTypes, Object
  <2> QED BY <1>1, <2>1 DEF CaptureState
<1>4. capture' = [capture EXCEPT ![p] = IF b \notin DOMAIN objects THEN c
                                       ELSE IF ~Whole(b) THEN Idle ELSE d]
  BY DEF LookUp
<1>5. CASE b \notin DOMAIN objects
  <2>1. RawTypes' /\ capture'[p] = c /\ \A q \in Project \ {p} : capture'[q] = capture[q]
    BY <1>1, <1>2, <1>4, <1>5 DEF RawTypes, LookUp
  <2>2. ProjectKept(p)'
    BY <1>1, <1>2, <1>5, <2>1 DEF ProjectKept, ReadKept, CopyKept, Told, SameButState, LookUp
  <2> QED BY <2>1, <2>2, OthersKept DEF LookUp
<1>6. CASE b \in DOMAIN objects /\ ~Whole(b)
  <2>1. RawTypes' /\ capture'[p] = Idle /\ \A q \in Project \ {p} : capture'[q] = capture[q]
    BY <1>1, <1>4, <1>6, IdleKept DEF RawTypes, LookUp
  <2>2. ProjectKept(p)'
    BY <1>1, <2>1, IdleKept DEF ProjectKept, ReadKept, CopyKept, Told, SameButState, LookUp
  <2> QED BY <2>1, <2>2, OthersKept DEF LookUp
<1>7. CASE b \in DOMAIN objects /\ Whole(b)
  <2>1. RawTypes' /\ capture'[p] = d /\ \A q \in Project \ {p} : capture'[q] = capture[q]
    BY <1>1, <1>3, <1>4, <1>7 DEF RawTypes, LookUp
  <2>2. ProjectKept(p)'
    BY <1>1, <1>3, <1>7, <2>1 DEF ProjectKept, ReadKept, CopyKept, Told, SameButState, LookUp
  <2> QED BY <2>1, <2>2, OthersKept DEF LookUp
<1> QED BY <1>5, <1>6, <1>7

\* Moving the copy into the store keeps the invariant.
LEMMA PromoteKeeps ==
  ASSUME RawInv, NEW p \in Project, Promote(p)
  PROVE  RawInv'
<1>. DEFINE b == capture[p].read
            c == [capture[p] EXCEPT !.step = "record"]
            o == [version |-> capture[p].version, whole |-> TRUE]
<1>1. RawTypes /\ capture[p] \in CaptureState /\ ProjectKept(p)
  BY DEF RawInv, RawTypes
<1>2. /\ c \in CaptureState /\ c.step = "record" /\ c.how = "capture"
      /\ c.read = b /\ c.version = capture[p].version /\ c.quiet = capture[p].quiet
  BY <1>1 DEF CaptureState, Promote, ProjectKept, CopyKept
<1>3. capture' = [capture EXCEPT ![p] = c]
  BY DEF Promote
<1>4. capture[p].version = installed /\ installed \in Version /\ b \in Bytes
  BY <1>1, <1>2 DEF RawTypes, ProjectKept, CopyKept, Promote, CaptureState
<1>5. o \in Object /\ o.version = installed
  BY <1>4 DEF Object
<1>6. /\ DOMAIN objects' = DOMAIN objects \cup {b}
      /\ objects'[b] = o /\ \A x \in DOMAIN objects \ {b} : objects'[x] = objects[x]
      /\ objects' = [x \in DOMAIN objects' |-> objects'[x]]
  BY DEF Promote
<1>7. \A x \in DOMAIN objects : x \in DOMAIN objects' /\ objects'[x].version = objects[x].version
  BY <1>1, <1>5, <1>6 DEF ProjectKept, CopyKept, Promote
<1>8. \A x \in DOMAIN objects' : objects'[x] \in Object
  BY <1>1, <1>5, <1>6 DEF RawTypes
<1>9. RawTypes' /\ capture'[p] = c
  <2>1. objects' \in [DOMAIN objects' -> Object] /\ DOMAIN objects' \subseteq Bytes
    BY <1>1, <1>4, <1>6, <1>8 DEF RawTypes
  <2>2. capture' \in [Project -> CaptureState] /\ capture'[p] = c
    BY <1>1, <1>2, <1>3 DEF RawTypes
  <2> QED BY <1>1, <2>1, <2>2 DEF RawTypes, Promote
<1>10. ASSUME NEW q \in Project PROVE ProjectKept(q)'
  <2>1. ProjectKept(q) /\ Told(record[q]) /\ Told(inSnapshot[q])
    BY DEF RawInv, ProjectKept
  <2>2. Told(record[q])' /\ Told(inSnapshot[q])'
    BY <1>7, <2>1 DEF Told, Promote
  <2>3. ~changed'[q] => SameButState(record[q], inSnapshot[q])'
    BY <2>1 DEF ProjectKept, SameButState, Promote
  <2>4. CASE q = p
    BY <1>1, <1>2, <1>4, <1>5, <1>6, <1>9, <2>2, <2>3, <2>4
    DEF ProjectKept, ReadKept, CopyKept, Promote
  <2>5. CASE q # p
    <3>1. capture'[q] = capture[q]
      BY <1>1, <1>3, <2>5 DEF RawTypes
    <3>2. ReadKept(capture[q])'
      BY <2>1, <3>1 DEF ProjectKept, ReadKept, Promote
    <3>3. CopyKept(capture[q])'
      BY <1>5, <1>6, <1>7, <2>1, <3>1 DEF ProjectKept, CopyKept, Promote
    <3> QED BY <2>1, <2>2, <2>3, <3>1, <3>2, <3>3 DEF ProjectKept, Promote
  <2> QED BY <2>4, <2>5
<1> QED BY <1>9, <1>10 DEF RawInv

\* Recording the capture keeps the invariant.
LEMMA RecordKeeps ==
  ASSUME RawInv, NEW p \in Project, Record(p)
  PROVE  RawInv'
<1>. DEFINE s == IF format = "database" THEN "transactional" ELSE "stable"
            r == [how |-> "capture", bytes |-> capture[p].read, stamp |-> 0,
                  version |-> capture[p].version, state |-> s]
<1>1. RawTypes /\ capture[p] \in CaptureState /\ ProjectKept(p)
  BY DEF RawInv, RawTypes
<1>2. capture[p].read \in DOMAIN objects /\ objects[capture[p].read].version = capture[p].version
  BY <1>1 DEF ProjectKept, CopyKept, Record
<1>3. /\ r \in Observation /\ r.how = "capture" /\ r.bytes = capture[p].read
      /\ r.version = capture[p].version
  BY <1>1 DEF CaptureState, Observation
<1>4. Merge(p, r) /\ Told(r)
  BY <1>2, <1>3 DEF Record, Told
<1>. HIDE DEF r
<1>5. /\ record' \in [Project -> Observation] /\ changed' \in [Project -> BOOLEAN]
      /\ record'[p] = r
      /\ \A q \in Project \ {p} : record'[q] = record[q] /\ changed'[q] = changed[q]
      /\ ~changed'[p] => SameButState(r, inSnapshot[p])
  BY <1>3, <1>4, RecordsMerge
<1>6. RawTypes' /\ capture'[p] = Idle
  BY <1>1, <1>5, IdleKept DEF RawTypes, Record
<1>7. ProjectKept(p)'
  BY <1>4, <1>5, <1>6, IdleKept DEF RawInv, ProjectKept, ReadKept, CopyKept, Told, SameButState, Record
<1> QED BY <1>1, <1>5, <1>6, <1>7, OthersKept DEF RawTypes, Record

\* A read that fails keeps the invariant.
LEMMA ReadFailsKeeps ==
  ASSUME RawInv, NEW p \in Project, ReadFails(p)
  PROVE  RawInv'
<1>. DEFINE r == [NoRecord EXCEPT !.how = "stat", !.stamp = capture[p].before.stamp]
<1>1. RawTypes /\ capture[p] \in CaptureState /\ ProjectKept(p)
  BY DEF RawInv, RawTypes
<1>2. capture' \in [Project -> CaptureState] /\ capture'[p] = Idle
      /\ \A q \in Project \ {p} : capture'[q] = capture[q]
  BY <1>1, IdleKept DEF RawTypes, ReadFails
<1>3. CASE UNCHANGED <<record, changed>>
  <2>1. RawTypes'
    BY <1>1, <1>2, <1>3 DEF RawTypes, ReadFails
  <2>2. ProjectKept(p)'
    BY <1>1, <1>2, <1>3, IdleKept DEF ProjectKept, Told, SameButState, ReadKept, CopyKept, ReadFails
  <2> QED BY <1>2, <1>3, <2>1, <2>2, OthersKept DEF ReadFails
<1>4. CASE Merge(p, r)
  <2>1. NoRecord \in Observation /\ NoRecord.version = Absent
    BY NothingRead DEF NoRecord, Observation
  <2>2. r \in Observation /\ r.how = "stat" /\ r.version = Absent
    BY <1>1, <2>1 DEF CaptureState, Observation
  <2>3. Told(r)
    BY <2>2 DEF Told
  <2>. HIDE DEF r
  <2>4. /\ record' \in [Project -> Observation] /\ changed' \in [Project -> BOOLEAN]
        /\ record'[p] = r
        /\ \A q \in Project \ {p} : record'[q] = record[q] /\ changed'[q] = changed[q]
        /\ ~changed'[p] => SameButState(r, inSnapshot[p])
    BY <1>4, <2>2, <2>3, RecordsMerge
  <2>5. RawTypes'
    BY <1>1, <1>2, <2>4 DEF RawTypes, ReadFails
  <2>6. ProjectKept(p)'
    BY <1>1, <1>2, <2>3, <2>4, IdleKept
    DEF ProjectKept, ReadKept, CopyKept, Told, SameButState, ReadFails
  <2> QED BY <1>2, <2>4, <2>5, <2>6, OthersKept DEF ReadFails
<1> QED BY <1>3, <1>4 DEF ReadFails

\* A crash keeps the invariant.
LEMMA CrashKeeps ==
  ASSUME RawInv, NEW p \in Project, Crash(p)
  PROVE  RawInv'
<1>1. RawTypes /\ ProjectKept(p)
  BY DEF RawInv
<1>2. /\ capture'[p] = Idle /\ record'[p] = inSnapshot[p] /\ RawTypes'
      /\ \A q \in Project \ {p} : /\ capture'[q] = capture[q] /\ record'[q] = record[q]
                                 /\ changed'[q] = changed[q]
  BY <1>1, IdleKept DEF RawTypes, Crash
<1>3. ProjectKept(p)'
  BY <1>1, <1>2, IdleKept DEF ProjectKept, Told, SameButState, ReadKept, CopyKept, Crash
<1> QED BY <1>2, <1>3, OthersKept DEF Crash

\* Publishing the records keeps the invariant.
LEMMA PublishKeeps ==
  ASSUME RawInv, NEW p \in Project, PublishRecords(p)
  PROVE  RawInv'
<1>1. RawTypes /\ ProjectKept(p)
  BY DEF RawInv
<1>2. /\ inSnapshot'[p] = record[p] /\ RawTypes'
      /\ \A q \in Project \ {p} : inSnapshot'[q] = inSnapshot[q] /\ changed'[q] = changed[q]
  BY <1>1 DEF RawTypes, PublishRecords
<1>3. ProjectKept(p)'
  BY <1>1, <1>2 DEF ProjectKept, Told, SameButState, ReadKept, CopyKept, PublishRecords
<1> QED BY <1>2, <1>3, OthersKept DEF PublishRecords

\* Going back to the published records keeps the invariant.
LEMMA RestoreKeeps ==
  ASSUME RawInv, NEW p \in Project, Restore(p)
  PROVE  RawInv'
<1>1. RawTypes /\ ProjectKept(p)
  BY DEF RawInv
<1>2. RawTypes'
  BY <1>1 DEF RawTypes, Restore
<1>3. ProjectKept(p)'
  BY <1>1 DEF ProjectKept, Told, SameButState, ReadKept, CopyKept, Restore
<1> QED BY <1>2, <1>3, OthersKept DEF Restore

\* The stamp grows with every write, or the reads under way are marked.
LEMMA WriteKeeps ==
  ASSUME RawInv, Write
  PROVE  RawInv'
<1>1. PICK b \in Bytes, quiet \in BOOLEAN :
        /\ file' = [bytes |-> b, stamp |-> IF quiet THEN file.stamp ELSE file.stamp + 1]
        /\ past' = past \cup {b}
        /\ capture' = [p \in Project |-> IF quiet /\ capture[p].step = "read"
                                        THEN [capture[p] EXCEPT !.quiet = TRUE] ELSE capture[p]]
  BY DEF Write
<1>2. RawTypes
  BY DEF RawInv
<1>3. ASSUME NEW p \in Project
      PROVE  /\ capture'[p] \in CaptureState /\ capture'[p].step = capture[p].step
             /\ capture'[p].how = capture[p].how /\ capture'[p].before = capture[p].before
             /\ capture'[p].read = capture[p].read /\ capture'[p].version = capture[p].version
             /\ capture'[p].quiet = (capture[p].quiet \/ (quiet /\ capture[p].step = "read"))
  <2>1. capture[p] \in CaptureState
    BY <1>2 DEF RawTypes
  <2>2. CASE quiet /\ capture[p].step = "read"
    <3>1. capture'[p] = [capture[p] EXCEPT !.quiet = TRUE]
      BY <1>1, <2>2
    <3> QED BY <2>1, <2>2, <3>1 DEF CaptureState
  <2>3. CASE ~(quiet /\ capture[p].step = "read")
    <3>1. capture'[p] = capture[p]
      BY <1>1, <2>3
    <3> QED BY <2>1, <2>3, <3>1 DEF CaptureState
  <2> QED BY <2>2, <2>3
<1>4. /\ file' \in [bytes : Bytes, stamp : Nat] /\ file'.bytes = b
      /\ file'.stamp = (IF quiet THEN file.stamp ELSE file.stamp + 1)
  BY <1>1, <1>2 DEF RawTypes
<1>5. RawTypes'
  <2>1. capture' \in [Project -> CaptureState]
    BY <1>1, <1>3
  <2>2. writes' \in 0..MaxWrites
    BY <1>2, RawBounds DEF RawTypes, Write
  <2> QED BY <1>1, <1>2, <1>4, <2>1, <2>2 DEF RawTypes, Write
<1>6. ASSUME NEW p \in Project PROVE ProjectKept(p)'
  <2>1. ProjectKept(p) /\ capture[p] \in CaptureState
    BY <1>2 DEF RawInv, RawTypes
  <2>2. ReadKept(capture[p])'
    <3>1. capture[p].before.stamp \in Nat /\ file.stamp \in Nat
      BY <1>2, <2>1 DEF RawTypes, CaptureState
    <3> QED BY <1>3, <1>4, <2>1, <3>1 DEF ProjectKept, ReadKept
  <2>3. CopyKept(capture[p])'
    BY <1>3, <2>1 DEF ProjectKept, CopyKept, Write
  <2>4. (capture[p].step \in {"staged", "promote", "record"} /\ ~capture[p].quiet =>
           capture[p].read \in past)'
    BY <1>1, <1>3, <2>1 DEF ProjectKept
  <2> QED BY <2>1, <2>2, <2>3, <2>4 DEF ProjectKept, Told, SameButState, Write
<1> QED BY <1>5, <1>6 DEF RawInv

\* A change of the metadata's version keeps the invariant.
LEMMA UpgradeKeeps ==
  ASSUME RawInv, Upgrade
  PROVE  RawInv'
<1>1. RawTypes'
  BY DEF RawInv, RawTypes, Upgrade
<1>2. ASSUME NEW p \in Project PROVE ProjectKept(p)'
  BY DEF RawInv, ProjectKept, ReadKept, CopyKept, Told, SameButState, Upgrade
<1> QED BY <1>1, <1>2 DEF RawInv

\* Damage to the stored bytes keeps the invariant.
LEMMA DamageKeeps ==
  ASSUME RawInv, Damage
  PROVE  RawInv'
<1>1. PICK b \in DOMAIN objects : objects' = [objects EXCEPT ![b].whole = FALSE]
  BY DEF Damage
<1>2. RawTypes /\ objects \in [DOMAIN objects -> Object]
  BY DEF RawInv, RawTypes
<1>3. /\ DOMAIN objects' = DOMAIN objects /\ objects' \in [DOMAIN objects' -> Object]
      /\ \A x \in DOMAIN objects : objects'[x].version = objects[x].version
  BY <1>1, <1>2 DEF Object
<1>4. RawTypes'
  BY <1>2, <1>3 DEF RawTypes, Damage
<1>5. ASSUME NEW p \in Project PROVE ProjectKept(p)'
  BY <1>3 DEF RawInv, ProjectKept, ReadKept, CopyKept, Told, SameButState, Damage
<1> QED BY <1>4, <1>5 DEF RawInv

\* Every step keeps the invariant.
LEMMA RawStepKeeps ==
  ASSUME RawInv, [RawNext]_rawVars
  PROVE  RawInv'
<1>1. CASE UNCHANGED rawVars
  <2>1. RawTypes'
    BY <1>1 DEF RawInv, RawTypes, rawVars
  <2>2. \A p \in Project : ProjectKept(p)'
    BY <1>1 DEF RawInv, ProjectKept, ReadKept, CopyKept, Told, SameButState, rawVars
  <2> QED BY <2>1, <2>2 DEF RawInv
<1> QED
  BY <1>1, BeginKeeps, ReadChunkKeeps, ReferKeeps, CheckKeeps, LookUpKeeps, PromoteKeeps,
     RecordKeeps, ReadFailsKeeps, CrashKeeps, PublishKeeps, RestoreKeeps, WriteKeeps,
     UpgradeKeeps, DamageKeeps
  DEF RawNext

\* Observations, records and objects are of their types (raw_store.py).
THEOREM RawIsTyped == RawSpec => []RawTypeOK
<1>1. RawInit => RawInv
  BY RawStarts
<1>2. RawInv /\ [RawNext]_rawVars => RawInv'
  BY RawStepKeeps
<1>3. RawInv => RawTypeOK
  BY RawTypeHolds
<1> QED BY <1>1, <1>2, <1>3, PTL DEF RawSpec

\* Whatever the vendor writes meanwhile and wherever runs end: copies are of one
\* state of the file, records name objects in the encoding they have, and a
\* record the current snapshot does not hold is published
\* (RawStore.observe, _merge_raw_record).
THEOREM RecordsAreKept == RawSpec => []RecordsTellWhatIsKept
<1>1. RawInit => RawInv
  BY RawStarts
<1>2. RawInv /\ [RawNext]_rawVars => RawInv'
  BY RawStepKeeps
<1>3. RawInv => RecordsTellWhatIsKept
  BY RecordsTell
<1> QED BY <1>1, <1>2, <1>3, PTL DEF RawSpec

-----------------------------------------------------------------------------
(* Refreshes and their receipts. *)

Less == OpToRel(<, Nat)

Active(r) == stage[r] \notin {"none", "done"}

(* An ingest has found no snapshot the Project does not have.              *)
ChildKept(r) ==
  child[r] # NoChild =>
    /\ stage[r] = "apply" /\ child[r].target \in Target
    /\ child[r].found <= current[child[r].target]
    /\ child[r].floor <= current[child[r].target]

(* No report that is to come, and none that was left by an ingest that     *)
(* passed, goes back behind the floor of an ingest of the same Project.    *)
FloorsKept ==
  /\ \A r \in Refresh : child[r].status = "passed" => child[r].floor <= report[child[r].target]
  /\ \A q, r \in Refresh :
       child[q].status = "published" /\ child[r].target = child[q].target =>
         child[r].floor <= child[q].found

Unrecorded(r) == {p \in ended[r] : held[r].apply[p] = Missing}

(* Nothing is ingested before all passed; only the result of the ingest    *)
(* that ended last is not on record.                                       *)
WorkKept(r) ==
  /\ stage[r] \in {"none", "preflight", "compare"} => ended[r] = {}
  /\ stage[r] \in {"compare", "apply"} \/ ended[r] # {} =>
       \A p \in held[r].plan : held[r].preflight[p].status = "passed"
  /\ \A p, q \in Unrecorded(r) : p = q
  /\ stage[r] = "apply" => \A p \in Unrecorded(r) : child[r] # NoChild /\ child[r].target = p
  /\ stage[r] = "none" => r \notin ToSet(written)

NotAfter(s, a, b) == \E k, l \in DOMAIN s : k <= l /\ s[k] = a /\ s[l] = b

(* As long as refreshes follow on each other, results are obtained in the  *)
(* order in which receipts are written: the one at work is the last.       *)
ResultsInOrder ==
  ~together =>
    /\ \A q, r \in Refresh : Active(q) /\ Active(r) => q = r
    /\ \A r \in Refresh : Active(r) => written # <<>> /\ written[Len(written)] = r
    /\ \A i, j \in DOMAIN written : written[i] = written[j] => i = j
    /\ \A p \in Target : \A i, j \in DOMAIN obtained[p] :
         i <= j => NotAfter(written, obtained[p][i][1], obtained[p][j][1])

RefreshInv ==
  /\ RefreshTypeOK /\ receipts = held
  /\ \A p \in Target : report[p] <= current[p]
  /\ \A r \in Refresh : ChildKept(r) /\ WorkKept(r)
  /\ FloorsKept /\ ResultsInOrder

-----------------------------------------------------------------------------
\* A set of natural numbers with a bound has a greatest one.
LEMMA LessIsWellFounded ==
  /\ IsWellFoundedOn(Less, Nat)
  /\ \A x, y \in Nat : <<x, y>> \in Less <=> x < y
<1>1. IsWellFoundedOn(Less, Nat)
  BY NatLessThanWellFounded, Zenon DEF Less
<1>2. \A x, y \in Nat : <<x, y>> \in Less <=> x < y
  BY DEF Less, OpToRel
<1> QED BY <1>1, <1>2

\* Of bounded numbers one is the greatest.
LEMMA GreatestExists ==
  ASSUME NEW S, S \subseteq Nat, S # {}, NEW n \in Nat, \A i \in S : i <= n
  PROVE  \E i \in S : \A j \in S : j <= i
<1>. DEFINE T == {m \in Nat : \E i \in S : m = n - i}
<1>1. \A i \in S : n - i \in T
  OBVIOUS
<1>2. T \subseteq Nat /\ T # {}
  BY <1>1
<1>3. \A m \in T : \E i \in S : m = n - i
  OBVIOUS
<1>. HIDE DEF T
<1>4. PICK x \in T : \A y \in T : ~(<<y, x>> \in Less)
  <2>1. IsWellFoundedOn(Less, Nat)
    BY LessIsWellFounded
  <2> QED BY <1>2, <2>1, WFMin, Zenon
<1>5. PICK i \in S : x = n - i
  BY <1>3
<1>6. ASSUME NEW j \in S PROVE j <= i
  <2>1. x \in Nat /\ n - j \in Nat /\ ~(<<n - j, x>> \in Less)
    BY <1>1, <1>2, <1>4
  <2>2. ~(n - j < x)
    BY <2>1, LessIsWellFounded
  <2> QED BY <1>5, <2>2
<1> QED BY <1>6

\* The Projects of a refresh are numbers.
LEMMA RefreshBounds == /\ Target \subseteq Nat /\ -1 \notin Target /\ \A plan \in Plans : plan \subseteq Target
                       /\ MaxSnapshot \in Nat /\ ReceiptLimit \in Nat /\ ReceiptLimit > 0
BY RefreshAssumption DEF RefreshAssumption

\* The receipt just written is the last, the others keep their order.
LEMMA WrittenLast ==
  ASSUME RefreshInv, NEW r \in Refresh
  PROVE  /\ LastWritten(r) \in Seq(Refresh)
         /\ \A q \in ToSet(LastWritten(r)) : q = r \/ q \in ToSet(written)
         /\ r \notin ToSet(written) => LastWritten(r) = Append(written, r)
         /\ ~together /\ Active(r) => LastWritten(r) = written
<1>1. written \in Seq(Refresh) /\ Len(written) \in Nat /\ DOMAIN written = 1..Len(written)
      /\ \A k \in DOMAIN written : written[k] \in Refresh
  BY LenProperties DEF RefreshInv, RefreshTypeOK
<1>0. Len(written) \in Nat
  BY <1>1
<1>2. CASE r \notin ToSet(written)
  <2>1. LastWritten(r) = Append(written, r)
    BY <1>2 DEF LastWritten
  <2>2. ~(~together /\ Active(r))
    BY <1>1, <1>2 DEF RefreshInv, ResultsInOrder, ToSet
  <2>3. Append(written, r) \in Seq(Refresh) /\ Len(Append(written, r)) = Len(written) + 1
        /\ \A i \in 1..Len(written) : Append(written, r)[i] = written[i]
        /\ Append(written, r)[Len(written) + 1] = r
    BY <1>1, AppendProperties
  <2>4. \A q \in ToSet(Append(written, r)) : q = r \/ q \in ToSet(written)
    BY <1>1, <2>3, LenProperties DEF ToSet
  <2> QED BY <1>2, <2>1, <2>2, <2>3, <2>4
<1>3. CASE r \in ToSet(written)
  <2>. DEFINE k == CHOOSE k \in DOMAIN written : written[k] = r
              a == SubSeq(written, 1, k - 1)
              b == SubSeq(written, k + 1, Len(written))
              s == a \o b
  <2>1. k \in DOMAIN written /\ written[k] = r
    BY <1>3 DEF ToSet
  <2>2. k \in 1..Len(written)
    BY <1>1, <2>1
  <2>3. LastWritten(r) = Append(s, r)
    BY <1>3 DEF LastWritten, RemoveAt
  <2>. HIDE DEF k
  <2>4. /\ a \in Seq(Refresh) /\ Len(a) = k - 1
        /\ \A i \in 1..(k - 1) : a[i] = written[i]
    <3>1. \A i \in 1..(k - 1) : written[i] \in Refresh
      BY <1>1, <2>2
    <3> QED BY <2>2, <3>1, SubSeqProperties
  <2>5. /\ b \in Seq(Refresh) /\ Len(b) = Len(written) - k
        /\ \A i \in 1..(Len(written) - k) : b[i] = written[k + i]
    <3>1. \A i \in (k + 1)..Len(written) : written[i] \in Refresh
      BY <1>1, <2>2
    <3>2. /\ b \in Seq(Refresh)
          /\ Len(b) = (IF k + 1 <= Len(written) THEN Len(written) - (k + 1) + 1 ELSE 0)
          /\ \A i \in 1..(Len(written) - (k + 1) + 1) : b[i] = written[(k + 1) + i - 1]
      BY <1>1, <2>2, <3>1, SubSeqProperties
    <3>3. Len(b) = Len(written) - k
      <4>1. Len(b) = (IF k + 1 <= Len(written) THEN Len(written) - (k + 1) + 1 ELSE 0)
        BY <3>2
      <4>2. k \in Nat /\ k <= Len(written)
        BY <1>0, <2>2
      <4>. HIDE DEF b
      <4> QED BY <1>0, <4>1, <4>2
    <3>4. ASSUME NEW i \in 1..(Len(written) - k) PROVE b[i] = written[k + i]
      <4>1. i \in 1..(Len(written) - (k + 1) + 1) /\ (k + 1) + i - 1 = k + i
        BY <1>1, <2>2
      <4>2. b[i] = written[(k + 1) + i - 1]
        BY <3>2, <4>1
      <4> QED BY <4>1, <4>2
    <3> QED BY <3>2, <3>3, <3>4
  <2>. HIDE DEF a, b
  <2>6. /\ s \in Seq(Refresh) /\ Len(s) = Len(written) - 1
        /\ \A i \in 1..Len(s) : s[i] = IF i <= k - 1 THEN written[i] ELSE written[i + 1]
    <3>1. /\ s \in Seq(Refresh) /\ Len(s) = Len(a) + Len(b)
          /\ \A i \in 1..(Len(a) + Len(b)) : s[i] = IF i <= Len(a) THEN a[i] ELSE b[i - Len(a)]
      BY <2>4, <2>5, ConcatProperties
    <3> QED BY <1>1, <2>2, <2>4, <2>5, <3>1
  <2>6a. Len(s) = Len(written) - 1
    BY <2>6
  <2>. HIDE DEF s
  <2>7. /\ Append(s, r) \in Seq(Refresh) /\ Len(Append(s, r)) = Len(written)
        /\ \A i \in 1..Len(s) : Append(s, r)[i] = s[i]
        /\ Append(s, r)[Len(written)] = r
    <3>1. /\ Append(s, r) \in Seq(Refresh) /\ Len(Append(s, r)) = Len(s) + 1
          /\ \A i \in 1..Len(s) : Append(s, r)[i] = s[i] /\ Append(s, r)[Len(s) + 1] = r
      BY <2>6, AppendProperties
    <3>2. Len(s) + 1 = Len(written)
      BY <1>0, <2>6a
    <3> QED BY <3>1, <3>2
  <2>8. \A q \in ToSet(Append(s, r)) : q = r \/ q \in ToSet(written)
    <3>1. DOMAIN Append(s, r) = 1..Len(written)
      BY <2>7, LenProperties
    <3>2. ASSUME NEW i \in 1..Len(written)
          PROVE  Append(s, r)[i] = r \/ Append(s, r)[i] \in ToSet(written)
      <4>1. CASE i = Len(written)
        BY <2>7, <4>1
      <4>2. CASE i # Len(written)
        <5>0. Len(written) \in Nat /\ i \in Nat /\ i >= 1 /\ i < Len(written)
          BY <1>0, <4>2
        <5>1. i \in 1..Len(s) /\ i + 1 \in 1..Len(written)
          BY <2>6a, <5>0
        <5>2. Append(s, r)[i] \in {written[i], written[i + 1]}
          BY <2>6, <2>7, <5>1
        <5> QED BY <1>1, <5>1, <5>2 DEF ToSet
      <4> QED BY <4>1, <4>2
    <3> QED BY <3>1, <3>2 DEF ToSet
  <2>9. ASSUME ~together, Active(r) PROVE Append(s, r) = written
    <3>1. k = Len(written)
      BY <1>1, <2>1, <2>2, <2>9 DEF RefreshInv, ResultsInOrder
    <3>2. ASSUME NEW i \in 1..Len(written) PROVE Append(s, r)[i] = written[i]
      <4>1. CASE i = Len(written)
        BY <2>1, <2>7, <3>1, <4>1
      <4>2. CASE i # Len(written)
        <5>0. Len(written) \in Nat /\ i \in Nat /\ i >= 1 /\ i < Len(written)
          BY <1>0, <4>2
        <5>1. i \in 1..Len(s) /\ i <= k - 1
          BY <2>6a, <3>1, <5>0
        <5> QED BY <2>6, <2>7, <5>1
      <4> QED BY <4>1, <4>2
    <3> QED BY <1>1, <2>7, <3>2, SeqEqual
  <2> QED BY <1>3, <2>3, <2>7, <2>8, <2>9
<1> QED BY <1>2, <1>3

\* The order of those written stays when r is, as long as refreshes follow on
\* each other: r is the last, or is added.
LEMMA OrderStays ==
  ASSUME RefreshInv, NEW r \in Refresh, written' = LastWritten(r),
         ~together /\ (Active(r) \/ r \notin ToSet(written))
  PROVE  /\ written' # <<>> /\ written'[Len(written')] = r
         /\ \A i, j \in DOMAIN written' : written'[i] = written'[j] => i = j
         /\ \A a, b : NotAfter(written, a, b) => NotAfter(written', a, b)
<1>1. written \in Seq(Refresh) /\ Len(written) \in Nat /\ DOMAIN written = 1..Len(written)
  BY LenProperties DEF RefreshInv, RefreshTypeOK
<1>2. CASE Active(r)
  <2>1. written' = written
    BY <1>2, WrittenLast
  <2> QED BY <1>1, <1>2, <2>1 DEF RefreshInv, ResultsInOrder, NotAfter
<1>3. CASE r \notin ToSet(written)
  <2>1. written' = Append(written, r)
    BY <1>3, WrittenLast
  <2>2. /\ written' \in Seq(Refresh) /\ Len(written') = Len(written) + 1
        /\ \A i \in 1..Len(written) : written'[i] = written[i]
        /\ written'[Len(written) + 1] = r /\ written' # <<>>
    BY <1>1, <2>1, AppendProperties
  <2>3. DOMAIN written' = 1..(Len(written) + 1)
    BY <2>2, LenProperties
  <2>4. \A i \in 1..Len(written) : written[i] # r
    BY <1>1, <1>3 DEF ToSet
  <2>5. \A i, j \in DOMAIN written : written[i] = written[j] => i = j
    BY DEF RefreshInv, ResultsInOrder
  <2>6. \A i, j \in DOMAIN written' : written'[i] = written'[j] => i = j
    BY <1>1, <2>2, <2>3, <2>4, <2>5
  <2>7. \A a, b : NotAfter(written, a, b) => NotAfter(written', a, b)
    BY <1>1, <2>2, <2>3 DEF NotAfter
  <2> QED BY <2>2, <2>6, <2>7
<1> QED BY <1>2, <1>3

\* A checkpoint writes what the refresh holds; nothing else moves but the order.
LEMMA Checkpointed ==
  ASSUME RefreshInv, NEW r \in Refresh, NEW new \in Receipt, Checkpoint(r, new)
  PROVE  /\ held' \in [Refresh -> Receipt] /\ receipts' = held' /\ held'[r] = new
         /\ \A q \in Refresh \ {r} : held'[q] = held[q]
         /\ written' \in Seq(Refresh)
         /\ \A q \in Refresh \ {r} : q \in ToSet(written') => q \in ToSet(written)
BY WrittenLast DEF RefreshInv, RefreshTypeOK, Checkpoint

\* The order of results when one is added by the refresh at work.
LEMMA ObtainedInOrder ==
  ASSUME RefreshInv, NEW r \in Refresh, NEW p \in Target, NEW kind \in {"preflight", "apply"},
         Active(r), Obtain(r, p, kind), written' = written \/ written' = LastWritten(r)
  PROVE  /\ obtained' \in [Target -> Seq(Refresh \X {"preflight", "apply"})]
         /\ ~together => \A t \in Target : \A i, j \in DOMAIN obtained'[t] :
              i <= j => NotAfter(written', obtained'[t][i][1], obtained'[t][j][1])
<1>. DEFINE R == Refresh \X {"preflight", "apply"}
<1>1. obtained \in [Target -> Seq(R)] /\ <<r, kind>> \in R
  BY DEF RefreshInv, RefreshTypeOK
<1>2. /\ obtained[p] \in Seq(R) /\ Append(obtained[p], <<r, kind>>) \in Seq(R)
      /\ obtained' = [obtained EXCEPT ![p] = Append(obtained[p], <<r, kind>>)]
  BY <1>1, AppendProperties DEF Obtain
<1>3. obtained' \in [Target -> Seq(R)] /\ obtained'[p] = Append(obtained[p], <<r, kind>>)
  BY <1>1, <1>2
<1>4. ASSUME ~together, NEW t \in Target, NEW i \in DOMAIN obtained'[t],
             NEW j \in DOMAIN obtained'[t], i <= j
      PROVE  NotAfter(written', obtained'[t][i][1], obtained'[t][j][1])
  <2>1. written' = written
    BY <1>4, WrittenLast
  <2>2. obtained[t] \in Seq(R) /\ DOMAIN obtained[t] = 1..Len(obtained[t])
        /\ Len(obtained[t]) \in Nat /\ \A k \in 1..Len(obtained[t]) : obtained[t][k][1] \in Refresh
    BY <1>1, LenProperties
  <2>3. \A a, b : NotAfter(written, a, b) => NotAfter(written', a, b)
    BY <2>1 DEF NotAfter
  <2>4. \A k, l \in DOMAIN obtained[t] : k <= l => NotAfter(written, obtained[t][k][1], obtained[t][l][1])
    BY <1>4 DEF RefreshInv, ResultsInOrder
  <2>5. CASE t # p
    <3>1. obtained'[t] = obtained[t]
      BY <1>1, <1>2, <2>5
    <3>2. NotAfter(written, obtained[t][i][1], obtained[t][j][1])
      BY <1>4, <2>4, <3>1
    <3> QED BY <2>3, <3>1, <3>2
  <2>6. CASE t = p
    <3>. DEFINE n == Len(obtained[p])
    <3>1. /\ DOMAIN obtained'[p] = 1..(n + 1) /\ obtained'[p][n + 1] = <<r, kind>>
          /\ \A k \in 1..n : obtained'[p][k] = obtained[p][k]
      BY <1>1, <1>2, <1>3, <2>2, <2>6, AppendProperties, LenProperties
    <3>2. CASE j <= n
      <4>1. i \in 1..n /\ j \in 1..n
        BY <1>4, <2>2, <2>6, <3>1, <3>2
      <4>2. NotAfter(written, obtained[p][i][1], obtained[p][j][1])
        BY <1>4, <2>2, <2>4, <2>6, <4>1
      <4> QED BY <2>3, <2>6, <3>1, <4>1, <4>2
    <3>3. CASE j = n + 1
      <4>1. written \in Seq(Refresh) /\ written # <<>> /\ written[Len(written)] = r
        BY <1>4 DEF RefreshInv, RefreshTypeOK, ResultsInOrder
      <4>2. Len(written) \in 1..Len(written) /\ DOMAIN written = 1..Len(written)
        BY <4>1, EmptySeq, LenProperties
      <4>3. \A q \in ToSet(written) : NotAfter(written, q, r)
        BY <4>1, <4>2 DEF NotAfter, ToSet
      <4>4. obtained'[p][i][1] \in ToSet(written)
        <5>1. CASE i = n + 1
          BY <3>1, <4>1, <4>2, <5>1 DEF ToSet
        <5>2. CASE i # n + 1
          <6>1. i \in DOMAIN obtained[p] /\ obtained'[p][i] = obtained[p][i]
            BY <1>4, <2>2, <2>6, <3>1, <5>2
          <6>2. i <= i
            BY <2>2, <2>6, <6>1
          <6>3. NotAfter(written, obtained[p][i][1], obtained[p][i][1])
            BY <2>4, <2>6, <6>1, <6>2
          <6> QED BY <6>1, <6>3 DEF NotAfter, ToSet
        <5> QED BY <5>1, <5>2
      <4>5. obtained'[p][j][1] = r
        BY <3>1, <3>3
      <4>6. NotAfter(written, obtained'[p][i][1], r)
        BY <4>3, <4>4
      <4> QED BY <2>3, <2>6, <4>5, <4>6
    <3> QED BY <1>4, <2>2, <2>6, <3>1, <3>2, <3>3
  <2> QED BY <2>5, <2>6
<1> QED BY <1>3, <1>4

\* A step of the refresh at work keeps the order.
LEMMA InOrderStays ==
  ASSUME RefreshInv, NEW r \in Refresh, Active(r), together' = together,
         \A q \in Refresh \ {r} : stage'[q] = stage[q],
         written' = written \/ written' = LastWritten(r),
         \/ obtained' = obtained
         \/ \E p \in Target, kind \in {"preflight", "apply"} : Obtain(r, p, kind)
  PROVE  ResultsInOrder' /\ obtained' \in [Target -> Seq(Refresh \X {"preflight", "apply"})]
<1>1. ASSUME ~together
      PROVE  /\ written' = written /\ written # <<>> /\ written[Len(written)] = r
             /\ \A q \in Refresh \ {r} : ~Active(q)
             /\ \A i, j \in DOMAIN written : written[i] = written[j] => i = j
  BY <1>1, WrittenLast DEF RefreshInv, ResultsInOrder
<1>2. \A q \in Refresh \ {r} : Active(q)' <=> Active(q)
  BY DEF Active
<1>3. /\ obtained' \in [Target -> Seq(Refresh \X {"preflight", "apply"})]
      /\ ~together => \A t \in Target : \A i, j \in DOMAIN obtained'[t] :
           i <= j => NotAfter(written', obtained'[t][i][1], obtained'[t][j][1])
  <2>1. CASE obtained' = obtained
    BY <1>1, <2>1 DEF RefreshInv, RefreshTypeOK, ResultsInOrder
  <2>2. CASE \E p \in Target, kind \in {"preflight", "apply"} : Obtain(r, p, kind)
    BY <2>2, ObtainedInOrder
  <2> QED BY <2>1, <2>2
<1>4. ResultsInOrder'
  <2>. SUFFICES ASSUME ~together PROVE ResultsInOrder'
    BY DEF ResultsInOrder
  <2>1. \A a, b \in Refresh : Active(a)' /\ Active(b)' => a = b
    BY <1>1, <1>2
  <2>2. \A q \in Refresh : Active(q)' => written' # <<>> /\ written'[Len(written')] = q
    BY <1>1, <1>2
  <2>3. \A i, j \in DOMAIN written' : written'[i] = written'[j] => i = j
    BY <1>1
  <2>4. \A t \in Target : \A i, j \in DOMAIN obtained'[t] :
          i <= j => NotAfter(written', obtained'[t][i][1], obtained'[t][j][1])
    BY <1>3
  <2> QED BY <2>1, <2>2, <2>3, <2>4 DEF ResultsInOrder
<1> QED BY <1>3, <1>4

\* What one refresh does to itself leaves the others as they were; snapshots only
\* go up.
LEMMA OthersAtWork ==
  ASSUME RefreshInv, NEW r \in Refresh,
         \A q \in Refresh \ {r} :
           /\ stage'[q] = stage[q] /\ child'[q] = child[q] /\ held'[q] = held[q]
           /\ ended'[q] = ended[q]
           /\ q \in ToSet(written') => q \in ToSet(written),
         \A p \in Target : current'[p] \in Nat /\ current[p] <= current'[p],
         ChildKept(r)', WorkKept(r)'
  PROVE  \A q \in Refresh : ChildKept(q)' /\ WorkKept(q)'
<1>1. ASSUME NEW q \in Refresh \ {r} PROVE ChildKept(q)' /\ WorkKept(q)'
  <2>1. ChildKept(q) /\ WorkKept(q) /\ child[q].found \in Nat /\ child[q].floor \in Nat
    BY RefreshBounds DEF RefreshInv, RefreshTypeOK, Child, Snapshot
  <2>2. \A p \in Target : current[p] \in Nat
    BY RefreshBounds DEF RefreshInv, RefreshTypeOK, Snapshot
  <2>3. ChildKept(q)'
    BY <2>1, <2>2 DEF ChildKept
  <2>4. /\ stage'[q] = stage[q] /\ child'[q] = child[q] /\ held'[q] = held[q]
        /\ ended'[q] = ended[q]
        /\ q \in ToSet(written') => q \in ToSet(written)
    OBVIOUS
  <2>5. Unrecorded(q)' = Unrecorded(q)
    BY <2>4 DEF Unrecorded
  <2>6. WorkKept(q)'
    BY <2>1, <2>4, <2>5 DEF WorkKept
  <2> QED BY <2>3, <2>6
<1> QED BY <1>1

\* Nothing happened to the Projects.
LEMMA ProjectsStay ==
  ASSUME RefreshInv, UNCHANGED targets
  PROVE  /\ \A p \in Target : /\ current'[p] \in Nat /\ current[p] <= current'[p]
                              /\ report'[p] <= current'[p]
         /\ current' \in [Target -> Snapshot] /\ report' \in [Target -> Snapshot]
BY RefreshBounds DEF RefreshInv, RefreshTypeOK, Snapshot, targets

\* Where no report is written and no ingest goes on, floors hold as they did.
LEMMA FloorsStay ==
  ASSUME RefreshInv, NEW r \in Refresh, report' = report,
         child' = child \/ child' = [child EXCEPT ![r] = NoChild]
  PROVE  FloorsKept'
<1>1. FloorsKept /\ child \in [Refresh -> Child]
  BY DEF RefreshInv, RefreshTypeOK
<1>2. CASE child' = child
  BY <1>1, <1>2 DEF FloorsKept
<1>3. CASE child' = [child EXCEPT ![r] = NoChild]
  <2>1. child'[r] = NoChild /\ \A q \in Refresh \ {r} : child'[q] = child[q]
    BY <1>1, <1>3
  <2>2. NoChild.status = "failed" /\ NoChild.target = -1
    BY DEF NoChild
  <2>3. \A q \in Refresh : child[q].status = "published" => child[q].target # -1
    BY RefreshBounds DEF RefreshInv, ChildKept, NoChild
  <2> QED BY <1>1, <2>1, <2>2, <2>3 DEF FloorsKept
<1> QED BY <1>2, <1>3

\* An edit of the catalog keeps the invariant.
LEMMA EditKeeps ==
  ASSUME RefreshInv, EditCatalog
  PROVE  RefreshInv'
<1>1. UNCHANGED <<current, report, obtained, stage, child, held, receipts, written, ended, together>>
  BY DEF EditCatalog, targets, records
<1>2. stale' \subseteq Refresh
  BY DEF EditCatalog
<1>3. RefreshTypeOK' /\ receipts' = held' /\ \A p \in Target : report'[p] <= current'[p]
  BY <1>1, <1>2 DEF RefreshInv, RefreshTypeOK
<1>4. \A r \in Refresh : ChildKept(r)' /\ WorkKept(r)'
  BY <1>1 DEF RefreshInv, ChildKept, WorkKept, Unrecorded
<1>5. ResultsInOrder'
  BY <1>1 DEF RefreshInv, ResultsInOrder, Active
<1>6. FloorsKept'
  BY <1>1 DEF RefreshInv, FloorsKept
<1> QED BY <1>3, <1>4, <1>5, <1>6 DEF RefreshInv

\* Starting a refresh keeps the invariant.
LEMMA StartKeeps ==
  ASSUME RefreshInv, NEW r \in Refresh, NEW plan \in Plans, StartRefresh(r, plan)
  PROVE  RefreshInv'
<1>. DEFINE new == [NoReceipt EXCEPT !.plan = plan]
<1>1. RefreshTypeOK /\ stage[r] = "none" /\ ChildKept(r) /\ WorkKept(r)
  BY DEF RefreshInv, StartRefresh
<1>2. NoReceipt \in Receipt /\ new \in Receipt
  BY RefreshBounds DEF NoReceipt, Receipt, NoResults, Results, Missing
<1>3. Checkpoint(r, new)
  BY DEF StartRefresh
<1>. HIDE DEF new
<1>4. /\ held' \in [Refresh -> Receipt] /\ receipts' = held' /\ held'[r] = new
      /\ \A q \in Refresh \ {r} : held'[q] = held[q]
      /\ written' \in Seq(Refresh)
      /\ \A q \in Refresh \ {r} : q \in ToSet(written') => q \in ToSet(written)
  BY <1>2, <1>3, Checkpointed
<1>5. /\ stage' = [stage EXCEPT ![r] = "preflight"] /\ stale' = stale
      /\ UNCHANGED <<current, report, obtained, child, ended>> /\ UNCHANGED targets
      /\ written' = LastWritten(r) /\ together' \in BOOLEAN
      /\ ~together' => ~together /\ \A q \in Refresh : ~Active(q)
  BY <1>1 DEF StartRefresh, GoTo, Checkpoint, targets, RefreshTypeOK, Active
<1>6. /\ stage'[r] = "preflight" /\ \A q \in Refresh \ {r} : stage'[q] = stage[q]
      /\ stage' \in [Refresh -> {"none", "preflight", "compare", "apply", "done"}]
  BY <1>1, <1>5 DEF RefreshTypeOK
<1>7. RefreshTypeOK' /\ \A p \in Target : report'[p] <= current'[p]
  BY <1>1, <1>4, <1>5, <1>6 DEF RefreshInv, RefreshTypeOK
<1>8. ended[r] = {} /\ child[r] = NoChild /\ r \notin ToSet(written)
  BY <1>1 DEF ChildKept, WorkKept
<1>9. Unrecorded(r)' = {}
  BY <1>5, <1>8 DEF Unrecorded
<1>10. ChildKept(r)' /\ WorkKept(r)'
  BY <1>5, <1>6, <1>8, <1>9 DEF ChildKept, WorkKept
<1>11. \A q \in Refresh : ChildKept(q)' /\ WorkKept(q)'
  BY <1>4, <1>5, <1>6, <1>10, ProjectsStay, OthersAtWork
<1>12. ResultsInOrder'
  <2>. SUFFICES ASSUME ~together' PROVE ResultsInOrder'
    BY DEF ResultsInOrder
  <2>1. ~together /\ \A q \in Refresh : ~Active(q)
    BY <1>5
  <2>2. \A q \in Refresh : Active(q)' => q = r
    BY <1>6, <2>1 DEF Active
  <2>3. /\ written' # <<>> /\ written'[Len(written')] = r
        /\ \A i, j \in DOMAIN written' : written'[i] = written'[j] => i = j
        /\ \A a, b : NotAfter(written, a, b) => NotAfter(written', a, b)
    BY <1>5, <1>8, <2>1, OrderStays
  <2>4. \A t \in Target : \A i, j \in DOMAIN obtained[t] :
          i <= j => NotAfter(written', obtained[t][i][1], obtained[t][j][1])
    BY <2>1, <2>3 DEF RefreshInv, ResultsInOrder
  <2> QED BY <1>5, <2>2, <2>3, <2>4 DEF ResultsInOrder
<1>13. FloorsKept'
  BY <1>5, FloorsStay
<1> QED BY <1>4, <1>7, <1>11, <1>12, <1>13 DEF RefreshInv

\* The step of one refresh that is at work: what is left to show of it.
LEMMA AtWorkKeeps ==
  ASSUME RefreshInv, NEW r \in Refresh, Active(r), together' = together,
         UNCHANGED targets \/ (\A p \in Target :
           /\ current'[p] \in Nat /\ current[p] <= current'[p] /\ report'[p] <= current'[p]),
         current' \in [Target -> Snapshot] /\ report' \in [Target -> Snapshot],
         NEW s \in {"preflight", "compare", "apply", "done"}, stage' = [stage EXCEPT ![r] = s],
         stale' \subseteq Refresh,
         held' \in [Refresh -> Receipt], receipts' = held',
         NEW c \in Child,
         child' = [child EXCEPT ![r] = c],
         NEW e \in SUBSET Target, ended' = [ended EXCEPT ![r] = e],
         \A q \in Refresh \ {r} : held'[q] = held[q],
         written' = written \/ written' = LastWritten(r),
         \/ obtained' = obtained
         \/ \E p \in Target, kind \in {"preflight", "apply"} : Obtain(r, p, kind),
         ChildKept(r)', WorkKept(r)', FloorsKept'
  PROVE  RefreshInv'
<1>1. RefreshTypeOK
  BY DEF RefreshInv
<1>2. \A q \in Refresh \ {r} : /\ stage'[q] = stage[q] /\ child'[q] = child[q]
                               /\ ended'[q] = ended[q]
                               /\ q \in ToSet(written') => q \in ToSet(written)
  <2>1. \A q \in Refresh \ {r} : q \in ToSet(written') => q \in ToSet(written)
    BY WrittenLast
  <2> QED BY <1>1, <2>1 DEF RefreshTypeOK
<1>3. \A p \in Target : /\ current'[p] \in Nat /\ current[p] <= current'[p]
                        /\ report'[p] <= current'[p]
  BY ProjectsStay
<1>4. ResultsInOrder' /\ obtained' \in [Target -> Seq(Refresh \X {"preflight", "apply"})]
  BY <1>2, InOrderStays
<1>5. \A q \in Refresh : ChildKept(q)' /\ WorkKept(q)'
  BY <1>2, <1>3, OthersAtWork
<1>6. written' \in Seq(Refresh)
  BY <1>1, WrittenLast DEF RefreshTypeOK
<1>7. RefreshTypeOK'
  BY <1>1, <1>4, <1>6 DEF RefreshTypeOK
<1> QED BY <1>3, <1>4, <1>5, <1>7 DEF RefreshInv

\* A Project's preflight keeps the invariant.
LEMMA PreflightKeeps ==
  ASSUME RefreshInv, NEW r \in Refresh, NEW p \in Target, NEW status \in {"passed", "failed"},
         Preflight(r, p, status)
  PROVE  RefreshInv'
<1>. DEFINE x == [status |-> status, snapshot |-> 0]
            new == [held[r] EXCEPT !.preflight[p] = x]
<1>1. RefreshTypeOK /\ held[r] \in Receipt /\ ChildKept(r) /\ WorkKept(r) /\ stage[r] = "preflight"
  BY DEF RefreshInv, RefreshTypeOK, Preflight
<1>2. x \in Result \cup {Missing}
  BY RefreshBounds DEF Result, Snapshot
<1>. HIDE DEF x
<1>3. new \in Receipt /\ new.plan = held[r].plan /\ new.apply = held[r].apply
  BY <1>1, <1>2 DEF Receipt, Results
<1>4. Checkpoint(r, new)
  BY DEF Preflight, x
<1>. HIDE DEF new
<1>5. /\ held' \in [Refresh -> Receipt] /\ receipts' = held' /\ held'[r] = new
      /\ \A q \in Refresh \ {r} : held'[q] = held[q]
  BY <1>3, <1>4, Checkpointed
<1>6. /\ UNCHANGED <<current, report, stage, stale, child, ended, together>> /\ UNCHANGED targets
      /\ Obtain(r, p, "preflight") /\ written' = LastWritten(r)
  BY DEF Preflight, Checkpoint, targets
<1>7. /\ stage' = [stage EXCEPT ![r] = "preflight"] /\ child' = [child EXCEPT ![r] = child[r]]
      /\ ended' = [ended EXCEPT ![r] = ended[r]] /\ stale' \subseteq Refresh
      /\ ended[r] \in SUBSET Target
      /\ child[r] \in Child
      /\ current' \in [Target -> Snapshot] /\ report' \in [Target -> Snapshot]
  BY <1>1, <1>6 DEF RefreshTypeOK
<1>8. Unrecorded(r)' = {} /\ ended[r] = {}
  BY <1>1, <1>6 DEF Unrecorded, WorkKept
<1>9. ChildKept(r)' /\ WorkKept(r)'
  BY <1>1, <1>6, <1>8 DEF ChildKept, WorkKept
<1>10. FloorsKept'
  BY <1>6, FloorsStay
<1> QED BY <1>1, <1>5, <1>6, <1>7, <1>9, <1>10, AtWorkKeeps DEF Active

\* A checkpoint that changes no more than the status.
LEMMA StatusChanged ==
  ASSUME RefreshInv, NEW r \in Refresh,
         NEW st \in {"planned", "preflight_rejected", "preflight_accepted", "apply_blocked",
                     "applied", "partial_failure", "apply_failed"},
         Checkpoint(r, [held[r] EXCEPT !.status = st])
  PROVE  /\ held' \in [Refresh -> Receipt] /\ receipts' = held' /\ written' = LastWritten(r)
         /\ \A q \in Refresh \ {r} : held'[q] = held[q]
         /\ held'[r].plan = held[r].plan /\ held'[r].apply = held[r].apply
         /\ held'[r].preflight = held[r].preflight
<1>. DEFINE new == [held[r] EXCEPT !.status = st]
<1>1. held[r] \in Receipt
  BY DEF RefreshInv, RefreshTypeOK
<1>2. /\ new \in Receipt /\ new.plan = held[r].plan /\ new.apply = held[r].apply
      /\ new.preflight = held[r].preflight
  BY <1>1 DEF Receipt
<1>. HIDE DEF new
<1>3. Checkpoint(r, new)
  BY DEF new
<1> QED BY <1>2, <1>3, Checkpointed DEF Checkpoint

\* A refresh goes on to another stage, or is done, with the same results.
LEMMA StageKeeps ==
  ASSUME RefreshInv, NEW r \in Refresh, Active(r), NEW s \in {"preflight", "compare", "apply", "done"},
         GoTo(r, s), UNCHANGED <<targets, obtained, ended, together>>,
         child' = [child EXCEPT ![r] = IF s = "done" THEN NoChild ELSE child[r]],
         child[r] # NoChild => s = "done",
         held' \in [Refresh -> Receipt], receipts' = held',
         written' = written \/ written' = LastWritten(r),
         \A q \in Refresh \ {r} : held'[q] = held[q],
         held'[r].plan = held[r].plan, held'[r].apply = held[r].apply,
         held'[r].preflight = held[r].preflight,
         s \in {"compare", "apply"} =>
           \/ s = "compare" /\ stage[r] = "preflight" /\ PreflightPassed(r)
           \/ s = "apply" /\ stage[r] = "compare",
         s # "preflight"
  PROVE  RefreshInv'
<1>1. RefreshTypeOK /\ ChildKept(r) /\ WorkKept(r)
  BY DEF RefreshInv
<1>2. /\ UNCHANGED <<current, report>>
      /\ current' \in [Target -> Snapshot] /\ report' \in [Target -> Snapshot]
      /\ ended' = [ended EXCEPT ![r] = ended[r]] /\ ended[r] \in SUBSET Target
      /\ stale' \subseteq Refresh /\ stage' = [stage EXCEPT ![r] = s] /\ stage'[r] = s
      /\ ended'[r] = ended[r]
  BY <1>1 DEF RefreshTypeOK, targets, GoTo
<1>. DEFINE c == IF s = "done" THEN NoChild ELSE child[r]
<1>3. /\ c \in Child
      /\ child' = [child EXCEPT ![r] = c] /\ child'[r] = c /\ c = NoChild
  BY <1>1, RefreshBounds DEF RefreshTypeOK, NoChild, Child, Snapshot
<1>. HIDE DEF c
<1>4. Unrecorded(r)' = Unrecorded(r)
  BY <1>2 DEF Unrecorded
<1>5. ChildKept(r)'
  BY <1>3 DEF ChildKept, NoChild
<1>6. WorkKept(r)'
  <2>1. s \in {"compare", "apply"} \/ ended[r] # {} =>
          \A p \in held[r].plan : held[r].preflight[p].status = "passed"
    BY <1>1 DEF WorkKept, PreflightPassed
  <2>2. s = "compare" => ended[r] = {}
    BY <1>1 DEF WorkKept
  <2>3. s = "apply" => Unrecorded(r) = {}
    BY <1>1 DEF WorkKept, Unrecorded
  <2> QED BY <1>1, <1>2, <1>4, <2>1, <2>2, <2>3 DEF WorkKept
<1>7. FloorsKept'
  BY <1>2, <1>3, FloorsStay
<1> QED BY <1>2, <1>3, <1>5, <1>6, <1>7, AtWorkKeeps

\* Going from a stage of the refresh to the next, or stopping, keeps the invariant.
LEMMA StagesKeep ==
  ASSUME RefreshInv, NEW r \in Refresh,
         EndPreflight(r) \/ Compare(r) \/ BlockApply(r) \/ EndApply(r) \/ Interrupt(r)
  PROVE  RefreshInv'
<1>1. RefreshTypeOK /\ ChildKept(r) /\ WorkKept(r) /\ receipts = held
  BY DEF RefreshInv
<1>2. child \in [Refresh -> Child]
      /\ held \in [Refresh -> Receipt]
  BY <1>1 DEF RefreshTypeOK
<1>3. CASE EndPreflight(r)
  <2>. DEFINE st == IF PreflightPassed(r) THEN "preflight_accepted" ELSE "preflight_rejected"
  <2>1. Checkpoint(r, [held[r] EXCEPT !.status = st])
    BY <1>3 DEF EndPreflight
  <2>. HIDE DEF st
  <2>2. /\ held' \in [Refresh -> Receipt] /\ receipts' = held' /\ written' = LastWritten(r)
        /\ \A q \in Refresh \ {r} : held'[q] = held[q]
        /\ held'[r].plan = held[r].plan /\ held'[r].apply = held[r].apply
        /\ held'[r].preflight = held[r].preflight
    <3>1. st \in {"planned", "preflight_rejected", "preflight_accepted", "apply_blocked",
                  "applied", "partial_failure", "apply_failed"}
      BY DEF st
    <3> QED BY <2>1, <3>1, StatusChanged
  <2>3. stage[r] = "preflight" /\ Active(r) /\ child[r] = NoChild
    BY <1>1, <1>3 DEF EndPreflight, Active, ChildKept
  <2>4. PICK s \in {"done", "compare"} : GoTo(r, s) /\ (s = "compare" => PreflightPassed(r))
    BY <1>3 DEF EndPreflight
  <2>5. child' = [child EXCEPT ![r] = IF s = "done" THEN NoChild ELSE child[r]]
    BY <1>2, <1>3, <2>3 DEF EndPreflight
  <2> QED BY <1>3, <2>2, <2>3, <2>4, <2>5, StageKeeps DEF EndPreflight
<1>4. CASE Compare(r)
  <2>1. stage[r] = "compare" /\ Active(r) /\ child[r] = NoChild /\ GoTo(r, "apply")
    BY <1>1, <1>4 DEF Compare, Active, ChildKept
  <2>2. child' = [child EXCEPT ![r] = IF "apply" = "done" THEN NoChild ELSE child[r]]
    BY <1>2, <1>4 DEF Compare
  <2>3. UNCHANGED <<targets, obtained, ended, together>> /\ UNCHANGED <<held, receipts, written>>
    BY <1>4 DEF Compare, records
  <2> QED BY <1>1, <1>2, <2>1, <2>2, <2>3, StageKeeps
<1>5. CASE BlockApply(r)
  <2>1. stage[r] = "compare" /\ Active(r) /\ child[r] = NoChild /\ GoTo(r, "done")
        /\ Checkpoint(r, [held[r] EXCEPT !.status = "apply_blocked"])
    BY <1>1, <1>5 DEF BlockApply, Active, ChildKept
  <2>2. child' = [child EXCEPT ![r] = IF "done" = "done" THEN NoChild ELSE child[r]]
    BY <1>2, <1>5, <2>1 DEF BlockApply
  <2>3. UNCHANGED <<targets, obtained, ended, together>>
    BY <1>5 DEF BlockApply
  <2>4. /\ held' \in [Refresh -> Receipt] /\ receipts' = held' /\ written' = LastWritten(r)
        /\ \A q \in Refresh \ {r} : held'[q] = held[q]
        /\ held'[r].plan = held[r].plan /\ held'[r].apply = held[r].apply
        /\ held'[r].preflight = held[r].preflight
    BY <2>1, StatusChanged
  <2> QED BY <2>1, <2>2, <2>3, <2>4, StageKeeps
<1>6. CASE EndApply(r)
  <2>1. stage[r] = "apply" /\ Active(r) /\ child[r] = NoChild /\ GoTo(r, "done")
        /\ Checkpoint(r, [held[r] EXCEPT !.status = Verdict(r)])
    BY <1>6 DEF EndApply, Active
  <2>2. Verdict(r) \in {"applied", "partial_failure", "apply_failed"}
    BY DEF Verdict
  <2>3. child' = [child EXCEPT ![r] = IF "done" = "done" THEN NoChild ELSE child[r]]
    BY <1>2, <1>6, <2>1 DEF EndApply
  <2>4. UNCHANGED <<targets, obtained, ended, together>>
    BY <1>6 DEF EndApply
  <2>5. /\ held' \in [Refresh -> Receipt] /\ receipts' = held' /\ written' = LastWritten(r)
        /\ \A q \in Refresh \ {r} : held'[q] = held[q]
        /\ held'[r].plan = held[r].plan /\ held'[r].apply = held[r].apply
        /\ held'[r].preflight = held[r].preflight
    BY <2>1, <2>2, StatusChanged
  <2> QED BY <2>1, <2>3, <2>4, <2>5, StageKeeps
<1>7. CASE Interrupt(r)
  <2>1. Active(r) /\ GoTo(r, "done")
    BY <1>7 DEF Interrupt, Active
  <2>2. child' = [child EXCEPT ![r] = IF "done" = "done" THEN NoChild ELSE child[r]]
    BY <1>7 DEF Interrupt
  <2>3. UNCHANGED <<targets, obtained, ended, together>> /\ UNCHANGED <<held, receipts, written>>
    BY <1>7 DEF Interrupt, records
  <2> QED BY <1>1, <1>2, <2>1, <2>2, <2>3, StageKeeps
<1> QED BY <1>3, <1>4, <1>5, <1>6, <1>7

\* Of natural numbers one is the least.
LEMMA LeastExists ==
  ASSUME NEW S, S \subseteq Nat, S # {}
  PROVE  Min(S) \in S /\ \A x \in S : Min(S) <= x
<1>1. PICK m \in S : \A x \in S : ~(<<x, m>> \in Less)
  <2>1. IsWellFoundedOn(Less, Nat)
    BY LessIsWellFounded
  <2> QED BY <2>1, WFMin, Zenon
<1>2. \A x \in S : m <= x
  <2>. SUFFICES ASSUME NEW x \in S PROVE m <= x
    OBVIOUS
  <2>1. ~(x < m) /\ x \in Nat /\ m \in Nat
    BY <1>1, LessIsWellFounded
  <2> QED BY <2>1
<1> QED BY <1>2 DEF Min

\* The ingests at work, as they are known to be.
LEMMA IngestTypes ==
  ASSUME RefreshInv
  PROVE  /\ \A r \in Refresh : /\ child[r].found \in Nat /\ child[r].found \in Snapshot
                               /\ child[r].floor \in Nat /\ child[r].target \in Target \cup {-1}
                               /\ child[r] \in Child
         /\ \A p \in Target : /\ current[p] \in Nat /\ current[p] \in Snapshot
                              /\ report[p] \in Nat /\ report[p] \in Snapshot
         /\ \A r \in Refresh : child[r].status # "failed" =>
              /\ child[r] # NoChild /\ stage[r] = "apply" /\ child[r].target \in Target
              /\ child[r].found <= current[child[r].target]
<1>1. \A r \in Refresh : child[r].status # "failed" => child[r] # NoChild
  BY DEF NoChild
<1> QED BY <1>1, RefreshBounds DEF RefreshInv, RefreshTypeOK, Child, Snapshot, ChildKept

\* The beginning of an ingest keeps the invariant.
LEMMA IngestBeginsKeeps ==
  ASSUME RefreshInv, NEW r \in Refresh, NEW p \in Target, IngestBegins(r, p)
  PROVE  RefreshInv'
<1>. DEFINE c == [NoChild EXCEPT !.target = p, !.status = "begun"]
<1>1. RefreshTypeOK /\ ChildKept(r) /\ WorkKept(r) /\ FloorsKept /\ receipts = held
      /\ stage[r] = "apply" /\ child[r] = NoChild
  BY DEF RefreshInv, IngestBegins
<1>2. child' = [child EXCEPT ![r] = c]
  BY DEF IngestBegins
<1>3. c \in Child /\ c.target = p /\ c.status = "begun" /\ c.found = 0 /\ c.floor = 0
  <2>1. NoChild \in Child /\ NoChild.found = 0 /\ NoChild.floor = 0
    BY RefreshBounds DEF NoChild, Child, Snapshot
  <2> QED BY <2>1 DEF Child
<1>. HIDE DEF c
<1>4. UNCHANGED <<current, report, obtained, stage, stale, held, receipts, written, ended,
                  together>> /\ UNCHANGED targets
  BY DEF IngestBegins, records, targets
<1>5. /\ child'[r] = c /\ \A q \in Refresh \ {r} : child'[q] = child[q]
      /\ stage' = [stage EXCEPT ![r] = "apply"] /\ stale' \subseteq Refresh
      /\ ended' = [ended EXCEPT ![r] = ended[r]] /\ ended[r] \in SUBSET Target
      /\ held \in [Refresh -> Receipt]
      /\ current' \in [Target -> Snapshot] /\ report' \in [Target -> Snapshot]
  BY <1>1, <1>2, <1>4 DEF RefreshTypeOK
<1>6. ChildKept(r)'
  BY <1>1, <1>3, <1>4, <1>5, IngestTypes DEF ChildKept
<1>7. WorkKept(r)'
  <2>1. Unrecorded(r)' = {}
    BY <1>1, <1>4 DEF WorkKept, Unrecorded
  <2> QED BY <1>1, <1>4, <2>1 DEF WorkKept
<1>8. FloorsKept'
  <2>1. ASSUME NEW q \in Refresh, child'[q].status = "passed"
        PROVE  child'[q].floor <= report'[child'[q].target]
    BY <1>1, <1>3, <1>4, <1>5, <2>1 DEF FloorsKept
  <2>2. ASSUME NEW q \in Refresh, NEW a \in Refresh, child'[q].status = "published",
               child'[a].target = child'[q].target
        PROVE  child'[a].floor <= child'[q].found
    <3>1. q # r /\ child'[q] = child[q] /\ child[q].found \in Nat
      BY <1>3, <1>5, <2>2, IngestTypes
    <3>2. CASE a = r
      BY <1>3, <1>5, <3>1, <3>2
    <3>3. CASE a # r
      BY <1>1, <1>5, <2>2, <3>1, <3>3 DEF FloorsKept
    <3> QED BY <3>2, <3>3
  <2> QED BY <2>1, <2>2 DEF FloorsKept
<1> QED BY <1>1, <1>2, <1>3, <1>4, <1>5, <1>6, <1>7, <1>8, AtWorkKeeps DEF Active

\* Publishing moves the current snapshot up; the floor of the ingest is none that
\* is behind what is still to be reported.
LEMMA IngestPublishesKeeps ==
  ASSUME RefreshInv, NEW r \in Refresh, IngestPublishes(r)
  PROVE  RefreshInv'
<1>. DEFINE t == child[r].target
            U == Unreported(t)
<1>1. RefreshTypeOK /\ ChildKept(r) /\ WorkKept(r) /\ FloorsKept /\ receipts = held
      /\ child[r].status = "begun" /\ child[r].status # "failed"
      /\ \A p \in Target : report[p] <= current[p]
  BY DEF RefreshInv, IngestPublishes
<1>2. child[r] # NoChild /\ stage[r] = "apply" /\ t \in Target
  BY <1>1, IngestTypes
<1>3. PICK s \in {current[t], current[t] + 1} \cap Snapshot :
        /\ current' = [current EXCEPT ![t] = s]
        /\ child' = [child EXCEPT ![r].status = "published", ![r].found = s,
                                  ![r].floor = Min({s} \cup U)]
  BY DEF IngestPublishes
<1>4. s \in Snapshot /\ s \in Nat /\ current[t] <= s
  BY <1>2, <1>3, IngestTypes
<1>5. /\ Min({s} \cup U) \in Snapshot /\ Min({s} \cup U) \in Nat /\ Min({s} \cup U) <= s
      /\ \A q \in Refresh : child[q].target = t /\ child[q].status = "published" =>
           Min({s} \cup U) <= child[q].found
  <2>1. {s} \cup U \subseteq Snapshot /\ {s} \cup U \subseteq Nat /\ {s} \cup U # {}
    BY <1>4, IngestTypes DEF Unreported
  <2>2. Min({s} \cup U) \in {s} \cup U /\ \A x \in {s} \cup U : Min({s} \cup U) <= x
    BY <2>1, LeastExists
  <2>3. \A q \in Refresh : child[q].target = t /\ child[q].status = "published" => child[q].found \in U
    BY DEF Unreported
  <2> QED BY <2>1, <2>2, <2>3
<1>. DEFINE c == [child[r] EXCEPT !.status = "published", !.found = s, !.floor = Min({s} \cup U)]
<1>6. /\ c \in Child /\ c.target = t /\ c.status = "published" /\ c.found = s
      /\ c.floor = Min({s} \cup U)
  BY <1>4, <1>5, IngestTypes DEF Child
<1>7. child' = [child EXCEPT ![r] = c]
  BY <1>1, <1>3 DEF RefreshTypeOK
<1>. HIDE DEF c, t, U
<1>8. UNCHANGED <<report, obtained, stage, stale, held, receipts, written, ended, together>>
  BY DEF IngestPublishes, records
<1>9. /\ child'[r] = c /\ \A q \in Refresh \ {r} : child'[q] = child[q]
      /\ current' \in [Target -> Snapshot] /\ current'[t] = s
      /\ \A p \in Target \ {t} : current'[p] = current[p]
      /\ stage' = [stage EXCEPT ![r] = "apply"] /\ stale' \subseteq Refresh
      /\ ended' = [ended EXCEPT ![r] = ended[r]] /\ ended[r] \in SUBSET Target
      /\ held \in [Refresh -> Receipt] /\ report' \in [Target -> Snapshot]
  BY <1>1, <1>2, <1>3, <1>4, <1>7, <1>8 DEF RefreshTypeOK
<1>10. ASSUME NEW p \in Target
       PROVE  current'[p] \in Nat /\ current[p] <= current'[p] /\ report'[p] <= current'[p]
  <2>1. report[p] <= current[p] /\ report[p] \in Nat /\ current[p] \in Nat
    BY <1>1, IngestTypes
  <2>2. CASE p = t
    BY <1>4, <1>8, <1>9, <2>1, <2>2
  <2>3. CASE p # t
    BY <1>8, <1>9, <2>1, <2>3
  <2> QED BY <2>2, <2>3
<1>11. ChildKept(r)'
  BY <1>2, <1>4, <1>5, <1>6, <1>8, <1>9 DEF ChildKept
<1>12. WorkKept(r)'
  <2>1. Unrecorded(r)' = Unrecorded(r)
    BY <1>8 DEF Unrecorded
  <2>2. child'[r] # NoChild /\ child'[r].target = t
    BY <1>6, <1>9 DEF NoChild
  <2> QED BY <1>1, <1>2, <1>8, <2>1, <2>2 DEF WorkKept, t
<1>13. FloorsKept'
  <2>1. ASSUME NEW q \in Refresh, child'[q].status = "passed"
        PROVE  child'[q].floor <= report'[child'[q].target]
    BY <1>1, <1>6, <1>8, <1>9, <2>1 DEF FloorsKept
  <2>2. ASSUME NEW q \in Refresh, NEW a \in Refresh, child'[q].status = "published",
               child'[a].target = child'[q].target
        PROVE  child'[a].floor <= child'[q].found
    <3>1. CASE q = r /\ a = r
      BY <1>5, <1>6, <1>9, <3>1
    <3>2. CASE q = r /\ a # r
      <4>1. child'[a] = child[a] /\ child[a].target = t /\ child[a].floor \in Nat
        BY <1>6, <1>9, <2>2, <3>2, IngestTypes
      <4>2. ChildKept(a) /\ child[a] # NoChild
        BY <1>2, <4>1, RefreshBounds DEF RefreshInv, NoChild
      <4>3. child[a].floor <= current[t] /\ current[t] \in Nat
        BY <1>2, <4>1, <4>2, IngestTypes DEF ChildKept
      <4> QED BY <1>4, <1>6, <1>9, <3>2, <4>1, <4>3
    <3>3. CASE q # r /\ a = r
      BY <1>5, <1>6, <1>9, <2>2, <3>3
    <3>4. CASE q # r /\ a # r
      BY <1>1, <1>9, <2>2, <3>4 DEF FloorsKept
    <3> QED BY <3>1, <3>2, <3>3, <3>4
  <2> QED BY <2>1, <2>2 DEF FloorsKept
<1> QED BY <1>1, <1>2, <1>6, <1>7, <1>8, <1>9, <1>10, <1>11, <1>12, <1>13, AtWorkKeeps DEF Active

\* The end of an ingest keeps the invariant: the report it leaves is none that its
\* floor or another's has left behind.
LEMMA IngestEndsKeeps ==
  ASSUME RefreshInv, NEW r \in Refresh, NEW status \in {"passed", "failed"}, IngestEnds(r, status)
  PROVE  RefreshInv'
<1>. DEFINE p == child[r].target
            c == [child[r] EXCEPT !.status = status]
<1>1. RefreshTypeOK /\ ChildKept(r) /\ WorkKept(r) /\ FloorsKept /\ receipts = held
      /\ child[r].status \in {"begun", "published"} /\ child[r].status # "failed"
      /\ (status = "passed" => child[r].status = "published")
      /\ \A t \in Target : report[t] <= current[t]
  BY DEF RefreshInv, IngestEnds
<1>2. child[r] # NoChild /\ stage[r] = "apply" /\ p \in Target /\ child[r].found <= current[p]
  BY <1>1, IngestTypes
<1>3. PICK named \in Reported(r, status) : report' = [report EXCEPT ![p] = named]
  BY DEF IngestEnds
<1>4. (named = child[r].found /\ child[r].status = "published") \/ (named = report[p] /\ status = "failed")
  BY <1>1, <1>3 DEF Reported
<1>5. /\ c \in Child /\ c.target = p /\ c.status = status /\ c.found = child[r].found
      /\ c.floor = child[r].floor
  BY IngestTypes DEF Child
<1>6. child' = [child EXCEPT ![r] = c]
  BY <1>1 DEF RefreshTypeOK, IngestEnds
<1>7. named \in Snapshot /\ named \in Nat /\ named <= current[p]
  BY <1>1, <1>2, <1>4, IngestTypes
<1>. HIDE DEF c, p
<1>8. /\ child'[r] = c /\ \A q \in Refresh \ {r} : child'[q] = child[q]
      /\ report' \in [Target -> Snapshot] /\ report'[p] = named
      /\ \A t \in Target \ {p} : report'[t] = report[t]
      /\ UNCHANGED <<current, stage, stale, held, receipts, written, together>>
      /\ ended[r] \cup {p} \in SUBSET Target
      /\ ended' = [ended EXCEPT ![r] = ended[r] \cup {p}] /\ ended'[r] = ended[r] \cup {p}
      /\ stage' = [stage EXCEPT ![r] = "apply"] /\ stale' \subseteq Refresh
      /\ held \in [Refresh -> Receipt] /\ Obtain(r, p, "apply")
      /\ current' \in [Target -> Snapshot]
  BY <1>1, <1>2, <1>3, <1>6, <1>7 DEF RefreshTypeOK, IngestEnds, records, p
<1>9. ASSUME NEW t \in Target
      PROVE  current'[t] \in Nat /\ current[t] <= current'[t] /\ report'[t] <= current'[t]
  <2>1. report[t] <= current[t] /\ current[t] \in Nat
    BY <1>1, IngestTypes
  <2>2. CASE t = p
    BY <1>7, <1>8, <2>1, <2>2
  <2>3. CASE t # p
    BY <1>8, <2>1, <2>3
  <2> QED BY <2>2, <2>3
<1>10. ChildKept(r)'
  BY <1>1, <1>2, <1>5, <1>8 DEF ChildKept, p
<1>11. WorkKept(r)'
  <2>1. \A t \in Unrecorded(r)' : t = p
    BY <1>1, <1>2, <1>8 DEF WorkKept, Unrecorded, p
  <2>2. child'[r] # NoChild /\ child'[r].target = p
    BY <1>2, <1>5, <1>8, RefreshBounds DEF NoChild
  <2> QED BY <1>1, <1>2, <1>8, <2>1, <2>2 DEF WorkKept
<1>12. FloorsKept'
  <2>1. ASSUME NEW q \in Refresh, child'[q].status = "passed"
        PROVE  child'[q].floor <= report'[child'[q].target]
    <3>1. child'[q].floor = child[q].floor /\ child'[q].target = child[q].target
      BY <1>5, <1>8 DEF p
    <3>2. CASE child[q].target # p
      <4>1. q # r /\ child[q].status = "passed" /\ child[q].target \in Target
        BY <1>8, <2>1, <3>2, IngestTypes DEF p
      <4> QED BY <1>1, <1>8, <3>1, <3>2, <4>1 DEF FloorsKept
    <3>3. CASE child[q].target = p /\ named = child[r].found /\ child[r].status = "published"
      <4>1. child[q].floor <= child[r].found
        BY <1>1, <3>3 DEF FloorsKept, p
      <4> QED BY <1>8, <3>1, <3>3, <4>1
    <3>4. CASE child[q].target = p /\ named = report[p] /\ status = "failed"
      <4>1. q # r /\ child[q].status = "passed"
        BY <1>5, <1>8, <2>1, <3>4
      <4> QED BY <1>1, <1>8, <3>1, <3>4, <4>1 DEF FloorsKept
    <3> QED BY <1>4, <3>2, <3>3, <3>4
  <2>2. ASSUME NEW q \in Refresh, NEW a \in Refresh, child'[q].status = "published",
               child'[a].target = child'[q].target
        PROVE  child'[a].floor <= child'[q].found
    <3>1. q # r /\ child'[q] = child[q]
      BY <1>5, <1>8, <2>2
    <3>2. child'[a].target = child[a].target /\ child'[a].floor = child[a].floor
      BY <1>5, <1>8 DEF p
    <3> QED BY <1>1, <2>2, <3>1, <3>2 DEF FloorsKept
  <2> QED BY <2>1, <2>2 DEF FloorsKept
<1> QED BY <1>1, <1>2, <1>5, <1>6, <1>8, <1>9, <1>10, <1>11, <1>12, AtWorkKeeps DEF Active

\* Collecting a child's result keeps the invariant, and the receipt has the status and
\* the snapshot the child reported.
LEMMA CollectKeeps ==
  ASSUME RefreshInv, NEW r \in Refresh, CollectResult(r)
  PROVE  /\ RefreshInv'
         /\ receipts'[r].apply[child[r].target] =
              [status |-> child[r].status, snapshot |-> report[child[r].target]]
<1>. DEFINE t == child[r].target
            x == [status |-> child[r].status, snapshot |-> report[t]]
            new == [held[r] EXCEPT !.apply[t] = x]
<1>1. RefreshTypeOK /\ ChildKept(r) /\ WorkKept(r) /\ receipts = held /\ child[r] # NoChild
      /\ stage[r] = "apply" /\ t \in Target
  BY DEF RefreshInv, CollectResult, ChildKept
<1>2. held[r] \in Receipt /\ x \in Result /\ x # Missing
  BY <1>1, IngestTypes DEF RefreshTypeOK, CollectResult, Result, Missing
<1>. HIDE DEF x
<1>3. /\ new \in Receipt /\ new.plan = held[r].plan /\ new.preflight = held[r].preflight
      /\ new.apply[t] = x /\ \A p \in Target \ {t} : new.apply[p] = held[r].apply[p]
  BY <1>1, <1>2 DEF Receipt, Results
<1>4. Checkpoint(r, new)
  BY DEF CollectResult, x
<1>. HIDE DEF new
<1>5. /\ held' \in [Refresh -> Receipt] /\ receipts' = held' /\ held'[r] = new
      /\ \A q \in Refresh \ {r} : held'[q] = held[q]
  BY <1>3, <1>4, Checkpointed DEF Checkpoint
<1>6. /\ UNCHANGED <<current, report, obtained, stage, ended, together>> /\ UNCHANGED targets
      /\ child' = [child EXCEPT ![r] = NoChild] /\ child'[r] = NoChild
      /\ stage' = [stage EXCEPT ![r] = "apply"] /\ stale' \subseteq Refresh
      /\ ended' = [ended EXCEPT ![r] = ended[r]] /\ ended[r] \in SUBSET Target
      /\ current' \in [Target -> Snapshot] /\ report' \in [Target -> Snapshot]
      /\ written' = LastWritten(r)
  BY <1>1, <1>4 DEF RefreshTypeOK, CollectResult, targets, Checkpoint
<1>7. NoChild \in Child
  BY RefreshBounds DEF NoChild, Child, Snapshot
<1>8. Unrecorded(r)' = {}
  <2>1. ASSUME NEW p \in Unrecorded(r)' PROVE FALSE
    <3>1. p \in ended[r] /\ new.apply[p] = Missing /\ p \in Target
      BY <1>5, <1>6, <2>1 DEF Unrecorded
    <3>2. p # t /\ p \in Unrecorded(r)
      BY <1>2, <1>3, <3>1 DEF Unrecorded
    <3> QED BY <1>1, <3>2 DEF WorkKept
  <2> QED BY <2>1
<1>9. ChildKept(r)' /\ WorkKept(r)'
  BY <1>1, <1>3, <1>5, <1>6, <1>8 DEF ChildKept, WorkKept, NoChild
<1>9a. FloorsKept'
  BY <1>6, FloorsStay
<1>10. RefreshInv'
  BY <1>1, <1>5, <1>6, <1>7, <1>9, <1>9a, AtWorkKeeps DEF Active
<1> QED BY <1>3, <1>5, <1>10 DEF x

\* The invariant holds at first.
LEMMA RefreshStarts == RefreshInit => RefreshInv
<1>. SUFFICES ASSUME RefreshInit PROVE RefreshInv
  OBVIOUS
<1>1. NoReceipt \in Receipt /\ 0 \in Snapshot
  BY RefreshBounds DEF NoReceipt, Receipt, NoResults, Results, Missing, Snapshot
<1>2. NoChild \in Child
  BY <1>1 DEF NoChild, Child
<1>3. << >> \in Seq(Refresh) /\ DOMAIN << >> = {} /\ << >> \in Seq(Refresh \X {"preflight", "apply"})
  BY EmptySeq, LenProperties
<1>4. RefreshTypeOK /\ receipts = held
  BY <1>1, <1>2, <1>3 DEF RefreshInit, RefreshTypeOK
<1>5. \A p \in Target : report[p] <= current[p]
  BY DEF RefreshInit
<1>6. \A r \in Refresh : ChildKept(r) /\ WorkKept(r)
  BY <1>3 DEF RefreshInit, ChildKept, WorkKept, Unrecorded, ToSet
<1>7. ResultsInOrder
  BY <1>3 DEF RefreshInit, ResultsInOrder, Active
<1>8. FloorsKept
  BY DEF RefreshInit, FloorsKept, NoChild
<1> QED BY <1>4, <1>5, <1>6, <1>7, <1>8 DEF RefreshInv

\* Every step keeps the invariant.
LEMMA RefreshStepKeeps ==
  ASSUME RefreshInv, [RefreshNext]_refreshVars
  PROVE  RefreshInv'
<1>1. CASE UNCHANGED refreshVars
  <2>1. UNCHANGED <<current, report, obtained, stage, stale, child, held, receipts, written,
                    ended, together>>
    BY <1>1 DEF refreshVars, targets, records
  <2>2. RefreshTypeOK' /\ receipts' = held' /\ \A p \in Target : report'[p] <= current'[p]
    BY <2>1 DEF RefreshInv, RefreshTypeOK
  <2>3. \A r \in Refresh : ChildKept(r)' /\ WorkKept(r)'
    BY <2>1 DEF RefreshInv, ChildKept, WorkKept, Unrecorded
  <2>4. ResultsInOrder'
    BY <2>1 DEF RefreshInv, ResultsInOrder, Active
  <2>5. FloorsKept'
    BY <2>1 DEF RefreshInv, FloorsKept
  <2> QED BY <2>2, <2>3, <2>4, <2>5 DEF RefreshInv
<1> QED
  BY <1>1, EditKeeps, StartKeeps, PreflightKeeps, StagesKeep, IngestBeginsKeeps,
     IngestPublishesKeeps, IngestEndsKeeps, CollectKeeps
  DEF RefreshNext

\* What is found on disk covers what was done.
LEMMA WorkIsCovered == RefreshInv => ReceiptCoversWork
<1>. SUFFICES ASSUME RefreshInv, NEW r \in Refresh, ended[r] # {}
              PROVE  /\ \A p \in receipts[r].plan : /\ receipts[r].preflight[p] # Missing
                                                     /\ receipts[r].preflight[p].status = "passed"
                     /\ Cardinality({p \in ended[r] : receipts[r].apply[p] = Missing}) <= 1
  BY DEF ReceiptCoversWork
<1>1. WorkKept(r) /\ receipts = held
  BY DEF RefreshInv
<1>2. \A p \in receipts[r].plan : receipts[r].preflight[p].status = "passed"
  BY <1>1 DEF WorkKept
<1>3. Missing.status = "missing"
  BY DEF Missing
<1>4. Cardinality(Unrecorded(r)) <= 1
  <2>1. CASE Unrecorded(r) = {}
    BY <2>1, FS_EmptySet
  <2>2. CASE Unrecorded(r) # {}
    <3>1. PICK p \in Unrecorded(r) : TRUE
      BY <2>2
    <3>2. Unrecorded(r) = {p}
      BY <1>1, <3>1 DEF WorkKept
    <3> QED BY <3>2, FS_Singleton
  <2> QED BY <2>1, <2>2
<1> QED BY <1>1, <1>2, <1>3, <1>4 DEF Unrecorded

\* The newest results on record stay within the receipts looked at.
LEMMA NothingOutdated == RefreshInv => NeverOutdated
<1>. SUFFICES ASSUME RefreshInv, ~together, NEW p \in Target, Latest(p) # 0,
                     NEW i \in OnRecord(p, Refresh)
              PROVE  i <= Latest(p)
  BY DEF NeverOutdated
<1>. DEFINE S == OnRecord(p, Newest)
            L == Latest(p)
<1>1. obtained[p] \in Seq(Refresh \X {"preflight", "apply"}) /\ Len(obtained[p]) \in Nat
      /\ written \in Seq(Refresh) /\ Len(written) \in Nat /\ ReceiptLimit \in Nat
  BY LenProperties, RefreshBounds DEF RefreshInv, RefreshTypeOK
<1>2. DOMAIN obtained[p] = 1..Len(obtained[p]) /\ DOMAIN written = 1..Len(written)
  BY <1>1, LenProperties
<1>3. S # {} /\ S \subseteq DOMAIN obtained[p] /\ i \in DOMAIN obtained[p]
  BY DEF Latest, OnRecord
<1>4. L \in S /\ \A j \in S : j <= L
  <2>1. S \subseteq Nat /\ \A j \in S : j <= Len(obtained[p])
    BY <1>1, <1>2, <1>3
  <2>2. \E k \in S : \A j \in S : j <= k
    BY <1>1, <1>3, <2>1, GreatestExists
  <2>3. L = CHOOSE k \in S : \A j \in S : j <= k
    BY <1>3 DEF Latest
  <2> QED BY <2>2, <2>3
<1>. HIDE DEF L
<1>5. ASSUME ~(i <= L) PROVE FALSE
  <2>1. L <= i /\ L \in DOMAIN obtained[p]
    BY <1>1, <1>2, <1>3, <1>4, <1>5
  <2>2. NotAfter(written, obtained[p][L][1], obtained[p][i][1])
    BY <1>3, <2>1 DEF RefreshInv, ResultsInOrder
  <2>3. PICK k, l \in DOMAIN written : /\ k <= l /\ written[k] = obtained[p][L][1]
                                       /\ written[l] = obtained[p][i][1]
    BY <2>2 DEF NotAfter
  <2>4. PICK m \in DOMAIN written : /\ m + ReceiptLimit > Len(written)
                                    /\ written[m] = obtained[p][L][1]
    BY <1>4 DEF OnRecord, Newest
  <2>5. k = m
    BY <2>3, <2>4 DEF RefreshInv, ResultsInOrder
  <2>6. l + ReceiptLimit > Len(written)
    BY <1>1, <1>2, <2>3, <2>4, <2>5
  <2>7. obtained[p][i][1] \in Newest
    BY <2>3, <2>6 DEF Newest
  <2>8. i \in S
    BY <2>7 DEF OnRecord
  <2> QED BY <1>4, <1>5, <2>8
<1> QED BY <1>5 DEF L

\* Receipts, results and reports are of their types (refresh_operations.py).
THEOREM RefreshIsTyped == RefreshSpec => []RefreshTypeOK
<1>1. RefreshInit => RefreshInv
  BY RefreshStarts
<1>2. RefreshInv /\ [RefreshNext]_refreshVars => RefreshInv'
  BY RefreshStepKeeps
<1>3. RefreshInv => RefreshTypeOK
  BY DEF RefreshInv
<1> QED BY <1>1, <1>2, <1>3, PTL DEF RefreshSpec

\* Receipts cover what the refreshes did, and readers are told the last of it,
\* for any Projects, refreshes and limit on receipts
\* (refresh_projects, latest_refresh_observations).
THEOREM ReceiptsTell == RefreshSpec => []ReceiptsTellWhatWasDone
<1>1. RefreshInit => RefreshInv
  BY RefreshStarts
<1>2. RefreshInv /\ [RefreshNext]_refreshVars => RefreshInv'
  BY RefreshStepKeeps
<1>3. RefreshInv => ReceiptsTellWhatWasDone
  BY WorkIsCovered, NothingOutdated DEF ReceiptsTellWhatWasDone
<1> QED BY <1>1, <1>2, <1>3, PTL DEF RefreshSpec

\* A result that passed names no snapshot older than its own, or than what was
\* published of its Project and not yet reported when that was, however the
\* ingests of other refreshes publish and report in between (_result_summary).
THEOREM ResultsNameTheirSnapshot == RefreshSpec => NamesItsSnapshot
<1>1. RefreshInit => RefreshInv
  BY RefreshStarts
<1>2. RefreshInv /\ [RefreshNext]_refreshVars => RefreshInv'
  BY RefreshStepKeeps
<1>. DEFINE A == \A r \in Refresh : CollectResult(r) /\ child[r].status = "passed" =>
                   receipts'[r].apply[child[r].target].snapshot \in
                     child[r].floor..current[child[r].target]
<1>3. ASSUME RefreshInv, [RefreshNext]_refreshVars PROVE [A]_refreshVars
  <2>. SUFFICES ASSUME NEW r \in Refresh, CollectResult(r), child[r].status = "passed"
                PROVE  receipts'[r].apply[child[r].target].snapshot \in
                         child[r].floor..current[child[r].target]
    OBVIOUS
  <2>1. receipts'[r].apply[child[r].target] =
          [status |-> child[r].status, snapshot |-> report[child[r].target]]
    BY <1>3, CollectKeeps
  <2>2. child[r].target \in Target
    BY <1>3, IngestTypes
  <2>3. child[r].floor \in Nat /\ report[child[r].target] \in Nat /\ current[child[r].target] \in Nat
    BY <1>3, <2>2, IngestTypes
  <2>4. child[r].floor <= report[child[r].target] /\ report[child[r].target] <= current[child[r].target]
    BY <1>3, <2>2 DEF RefreshInv, FloorsKept
  <2> QED BY <2>1, <2>3, <2>4
<1> QED BY <1>1, <1>2, <1>3, PTL DEF RefreshSpec, NamesItsSnapshot

-----------------------------------------------------------------------------
(* The report buffer. *)

Ascends(order) == \A j, k \in DOMAIN order : j < k => order[j] < order[k]

Enumerated(P) == \E order \in [1..Cardinality(P) -> P] : Ascends(order)

\* Some numbers can be put in ascending order.
LEMMA SomeOrder ==
  \A m \in Nat : \A P \in SUBSET (1..m) : Enumerated(P)
<1>. DEFINE Bad == {m \in Nat : \E P \in SUBSET (1..m) : ~Enumerated(P)}
<1> SUFFICES ASSUME Bad # {} PROVE FALSE
  OBVIOUS
<1>0. Bad \subseteq Nat
  OBVIOUS
<1>. HIDE DEF Bad
<1>1. PICK m \in Bad : \A l \in Bad : ~(<<l, m>> \in Less)
  <2>1. IsWellFoundedOn(Less, Nat)
    BY LessIsWellFounded
  <2>2. Bad # {}
    OBVIOUS
  <2> QED BY <1>0, <2>1, <2>2, WFMin, Zenon
<1>. USE DEF Bad
<1>2. m \in Nat /\ \A l \in Nat : l < m => l \notin Bad
  BY <1>1, LessIsWellFounded
<1>3. PICK P \in SUBSET (1..m) : ~Enumerated(P)
  BY <1>1
<1>4. IsFiniteSet(P) /\ Cardinality(P) \in Nat
  <2>1. IsFiniteSet(1..m)
    BY <1>2, FS_Interval
  <2>2. IsFiniteSet(P)
    BY <2>1, FS_Subset
  <2> QED BY <2>2, FS_CardinalityType
<1>5. CASE m = 0
  <2>1. P = {}
    BY <1>5
  <2>0. Cardinality(P) = 0
    BY <2>1, FS_EmptySet
  <2>. DEFINE order == [k \in {} |-> k]
  <2>2. order \in [1..Cardinality(P) -> P] /\ Ascends(order)
    BY <2>0, <2>1 DEF Ascends
  <2> QED BY <1>3, <2>2 DEF Enumerated
<1>6. CASE m # 0 /\ m \notin P
  <2>1. m - 1 \in Nat /\ m - 1 < m /\ P \in SUBSET (1..m - 1)
    BY <1>2, <1>6
  <2> QED BY <1>2, <1>3, <2>1
<1>7. CASE m # 0 /\ m \in P
  <2>. DEFINE Q == P \ {m}
              c == Cardinality(Q)
  <2>1. m - 1 \in Nat /\ m - 1 < m /\ Q \in SUBSET (1..m - 1)
    BY <1>2, <1>7
  <2>2. Enumerated(Q)
    BY <1>2, <2>1
  <2>3. c \in Nat /\ Cardinality(P) = c + 1
    <3>1. IsFiniteSet(Q) /\ c = Cardinality(P) - 1
      BY <1>4, <1>7, FS_RemoveElement
    <3>2. c \in Nat
      BY <3>1, FS_CardinalityType
    <3> QED BY <1>4, <3>1, <3>2
  <2>4. PICK order \in [1..c -> Q] : Ascends(order)
    BY <2>2 DEF Enumerated
  <2>. HIDE DEF c
  <2>. DEFINE longer == [k \in 1..c + 1 |-> IF k = c + 1 THEN m ELSE order[k]]
  <2>5. longer \in [1..c + 1 -> P]
    BY <1>7, <2>3, <2>4
  <2>6. \A k \in 1..c : longer[k] = order[k] /\ order[k] \in 1..m - 1
    <3> SUFFICES ASSUME NEW k \in 1..c PROVE longer[k] = order[k] /\ order[k] \in 1..m - 1
      OBVIOUS
    <3>1. order[k] \in Q
      BY <2>4
    <3>2. k \in 1..c + 1 /\ k # c + 1
      BY <2>3
    <3> QED BY <2>1, <3>1, <3>2
  <2>7. longer[c + 1] = m
    BY <2>3
  <2>9. DOMAIN longer = 1..c + 1
    OBVIOUS
  <2>. HIDE DEF longer
  <2>8. Ascends(longer)
    <3> SUFFICES ASSUME NEW j \in 1..c + 1, NEW k \in 1..c + 1, j < k PROVE longer[j] < longer[k]
      BY <2>9 DEF Ascends
    <3>1. j \in 1..c
      BY <2>3
    <3>2. CASE k = c + 1
      BY <1>2, <2>6, <2>7, <3>1, <3>2
    <3>3. CASE k # c + 1
      <4>1. k \in 1..c
        BY <2>3, <3>3
      <4>2. order[j] < order[k]
        BY <2>4, <3>1, <4>1 DEF Ascends
      <4> QED BY <2>6, <3>1, <4>1, <4>2
    <3> QED BY <3>2, <3>3
  <2> QED BY <1>3, <2>3, <2>5, <2>8 DEF Enumerated
<1> QED BY <1>5, <1>6, <1>7

\* What is put in order is all of it, and nothing else.
LEMMA OrderIsOfAll ==
  ASSUME NEW m \in Nat, NEW P \in SUBSET (1..m)
  PROVE  /\ Cardinality(P) \in 0..m
         /\ Ascending(P) \in [1..Cardinality(P) -> P]
         /\ \A j, k \in 1..Cardinality(P) : j < k => Ascending(P)[j] < Ascending(P)[k]
         /\ \A p \in P : \E k \in 1..Cardinality(P) : Ascending(P)[k] = p
<1>1. IsFiniteSet(P) /\ Cardinality(P) \in Nat /\ Cardinality(P) <= m
  <2>1. IsFiniteSet(1..m) /\ Cardinality(1..m) = m
    BY FS_Interval
  <2>2. IsFiniteSet(P) /\ Cardinality(P) <= m
    BY <2>1, FS_Subset
  <2> QED BY <2>2, FS_CardinalityType
<1>. DEFINE c == Cardinality(P)
            order == Ascending(P)
<1>2. order \in [1..c -> P] /\ \A j, k \in DOMAIN order : j < k => order[j] < order[k]
  BY SomeOrder DEF Enumerated, Ascends, Ascending
<1>. HIDE DEF order, c
<1>0. c \in Nat /\ P \subseteq Nat
  BY <1>1 DEF c
<1>3. order \in Injection(1..c, P)
  <2>1. \A j, k \in 1..c : j < k => order[j] # order[k]
    <3> SUFFICES ASSUME NEW j \in 1..c, NEW k \in 1..c, j < k PROVE order[j] # order[k]
      OBVIOUS
    <3>1. order[j] < order[k]
      BY <1>2
    <3>2. order[j] \in P
      BY <1>2
    <3>3. order[j] \in Nat
      BY <1>0, <3>2
    <3> QED BY <3>1, <3>3
  <2>2. \A j, k \in 1..c : order[j] = order[k] => j = k
    BY <1>0, <2>1
  <2> QED BY <1>2, <2>2 DEF Injection, IsInjective
<1>4. IsFiniteSet(1..c) /\ Cardinality(1..c) = c
  BY <1>0, FS_Interval
<1>5. order \in Surjection(1..c, P)
  <2>1. IsFiniteSet(P) /\ Cardinality(1..c) = Cardinality(P)
    BY <1>1, <1>4 DEF c
  <2> QED BY <1>3, <2>1, FS_Injection
<1> QED BY <1>1, <1>2, <1>5 DEF Surjection, c, order

-----------------------------------------------------------------------------
\* The sizes the facility is configured with.
LEMMA Sizes ==
  /\ Capacity \in Nat /\ Capacity >= 1 /\ FlushEvents \in Nat /\ FlushEvents >= 1
  /\ FlushEvents <= Capacity /\ MaxRecords \in Nat /\ MaxEvents \in Nat
BY ReportAssumption DEF ReportAssumption

\* Below twice the capacity the remainder is a difference: the ring wraps once.
LEMMA Wraps ==
  /\ \A x \in 0..Capacity - 1 : x % Capacity = x
  /\ \A x \in Capacity..2 * Capacity - 1 : x % Capacity = x - Capacity
BY Sizes

(* What is to be taken of the first m events.                              *)
Due(lg, m, s, left, lost) ==
  {e \in 1..m : /\ lg[e] >= Floor[s] /\ e \notin lost[s]
                /\ s = Collector => e \notin left}

Delivered(lg, m, took, left, lost) ==
  \A s \in Sink : Ascends(took[s]) /\ ToSet(took[s]) = Due(lg, m, s, left, lost)

(* The last c of L events are in the slots before w.                       *)
Holds(sl, w, c, L) == \A i \in 1..c : sl[(w + Capacity - c + i - 1) % Capacity] = L - c + i

(* An event is with the sinks, counted against them or still pending; what *)
(* is pending fits a batch and so the ring, which holds it.                *)
ReportInv ==
  /\ ReportTypeOK
  /\ pending < FlushEvents /\ pending <= Len(log)
  /\ count = IF Len(log) < Capacity THEN Len(log) ELSE Capacity
  /\ Holds(slots, write, count, Len(log))
  /\ \A e \in Len(log) - pending + 1..Len(log) : log[e] < WARNING
  /\ Len(taken[Collector]) <= MaxRecords
  /\ refused \subseteq 1..Len(log) - pending
  /\ \A s \in Sink : failed[s] \subseteq 1..Len(log) - pending
  /\ Delivered(log, Len(log) - pending, taken, refused, failed)

\* The invariant tells what is claimed of deliveries.
LEMMA InvTells == ReportInv => DeliversInOrder
<1> SUFFICES ASSUME ReportInv PROVE DeliversInOrder
  OBVIOUS
<1>1. Retained = [i \in 1..count |-> Len(log) - count + i]
  BY DEF ReportInv, Retained, Window, Holds
<1> QED BY <1>1 DEF ReportInv, DeliversInOrder, Delivered, Due, Ascends

\* Nothing is delivered, and the ring is empty, at the start.
LEMMA ReportStarts == ReportInit => ReportInv
<1> SUFFICES ASSUME ReportInit PROVE ReportInv
  OBVIOUS
<1>1. Len(<<>>) = 0 /\ <<>> \in Seq(Level) /\ <<>> \in Seq(Event) /\ DOMAIN <<>> = {}
  BY EmptySeq
<1>2. ReportTypeOK
  BY <1>1, Sizes DEF ReportInit, ReportTypeOK
<1>3. Delivered(log, 0, taken, refused, failed)
  <2> SUFFICES ASSUME NEW s \in Sink
               PROVE  Ascends(taken[s]) /\ ToSet(taken[s]) = {}
    BY DEF Delivered, Due
  <2>1. taken[s] = <<>>
    BY DEF ReportInit
  <2> QED BY <1>1, <2>1 DEF Ascends, ToSet
<1>4. Len(taken[Collector]) = 0
  BY <1>1, ReportAssumption DEF ReportInit, ReportAssumption
<1>5. pending = 0 /\ Len(log) = 0 /\ count = 0 /\ refused = {} /\ \A s \in Sink : failed[s] = {}
  BY <1>1 DEF ReportInit
<1> QED BY <1>2, <1>3, <1>4, <1>5, Sizes DEF ReportInv, Holds

-----------------------------------------------------------------------------
Above(lg, s, a, b) == {e \in a..b : lg[e] >= Floor[s]}

\* What a sink takes of a batch that is m + 1, m + 2 and so on.
LEMMA AcceptedOfBatch ==
  ASSUME NEW lg, NEW m \in Nat, NEW n \in Nat, NEW s, NEW batch, batch = [i \in 1..n |-> m + i]
  PROVE  LET A == Accepted(lg, s, batch)
         IN  /\ A \in Seq(m + 1..m + n) /\ Len(A) \in 0..n /\ Ascends(A)
             /\ ToSet(A) = Above(lg, s, m + 1, m + n)
<1>. DEFINE P == {k \in DOMAIN batch : lg[batch[k]] >= Floor[s]}
            c == Cardinality(P)
            order == Ascending(P)
            A == [i \in DOMAIN order |-> batch[order[i]]]
<1>0. Accepted(lg, s, batch) = A
  BY DEF Accepted
<1>1. P \subseteq 1..n /\ \A k \in 1..n : k \in P <=> lg[m + k] >= Floor[s]
  OBVIOUS
<1>2. /\ c \in 0..n /\ order \in [1..c -> P]
      /\ \A j, k \in 1..c : j < k => order[j] < order[k]
      /\ \A p \in P : \E k \in 1..c : order[k] = p
  <2>. HIDE DEF P
  <2> QED BY <1>1, OrderIsOfAll
<1>. HIDE DEF P, c, order
<1>3. DOMAIN A = 1..c /\ \A i \in 1..c : order[i] \in P /\ A[i] = m + order[i]
  <2>1. \A i \in 1..c : order[i] \in P /\ order[i] \in 1..n
    BY <1>1, <1>2
  <2> QED BY <1>2, <2>1
<1>. HIDE DEF A
<1>4. \A i \in 1..c : order[i] \in 1..n /\ A[i] \in m + 1..m + n
  <2> SUFFICES ASSUME NEW i \in 1..c PROVE order[i] \in 1..n /\ A[i] \in m + 1..m + n
    OBVIOUS
  <2>1. order[i] \in 1..n /\ A[i] = m + order[i]
    BY <1>1, <1>3
  <2> QED BY <2>1
<1>5. A \in Seq(m + 1..m + n) /\ Len(A) = c
  <2>1. A \in [1..c -> m + 1..m + n]
    BY <1>3, <1>4 DEF A
  <2> QED BY <1>2, <2>1, SeqDef, LenProperties
<1>6. Ascends(A)
  <2> SUFFICES ASSUME NEW j \in 1..c, NEW k \in 1..c, j < k PROVE A[j] < A[k]
    BY <1>3 DEF Ascends
  <2> QED BY <1>2, <1>3, <1>4
<1>7. ToSet(A) = Above(lg, s, m + 1, m + n)
  <2>1. ASSUME NEW i \in 1..c PROVE A[i] \in m + 1..m + n /\ lg[A[i]] >= Floor[s]
    BY <1>1, <1>3, <1>4
  <2>2. ASSUME NEW e \in m + 1..m + n, lg[e] >= Floor[s] PROVE \E i \in 1..c : A[i] = e
    <3>1. e - m \in 1..n /\ m + (e - m) = e
      OBVIOUS
    <3>2. e - m \in P
      BY <1>1, <2>2, <3>1
    <3>3. PICK i \in 1..c : order[i] = e - m
      BY <1>2, <3>2
    <3> QED BY <1>3, <3>1, <3>3
  <2> QED BY <1>3, <2>1, <2>2 DEF ToSet, Above
<1> QED BY <1>0, <1>2, <1>5, <1>6, <1>7

\* A batch cut where the collector's room ends: each event is on one side.
LEMMA CutInTwo ==
  ASSUME NEW a \in Nat, NEW b \in Nat, NEW A \in Seq(a..b), Ascends(A), NEW r \in Nat
  PROVE  LET K == SubSeq(A, 1, IF Len(A) < r THEN Len(A) ELSE r)
             R == SubSeq(A, r + 1, Len(A))
         IN  /\ K \in Seq(a..b) /\ Ascends(K) /\ Len(K) <= r /\ Len(K) <= Len(A)
             /\ ToSet(K) \cup ToSet(R) = ToSet(A) /\ ToSet(K) \cap ToSet(R) = {}
             /\ Len(A) <= r => ToSet(R) = {}
<1>. DEFINE n == Len(A)
            k == IF n < r THEN n ELSE r
            K == SubSeq(A, 1, k)
            R == SubSeq(A, r + 1, n)
<1>0. DOMAIN A = 1..n
  BY LenProperties
<1>1. n \in Nat /\ \A i \in 1..n : A[i] \in a..b
  BY LenProperties, ElementOfSeq
<1>2. k \in Nat /\ k <= n /\ k <= r /\ (k = r \/ k = n)
  BY <1>1
<1>. HIDE DEF k, n
<1>3. K \in Seq(a..b) /\ Len(K) = k /\ \A i \in 1..k : K[i] = A[i]
  <2>1. \A i \in 1..k : A[i] \in a..b
    BY <1>1, <1>2
  <2>2. /\ K \in Seq(a..b) /\ Len(K) = k - 1 + 1 /\ \A i \in 1..k - 1 + 1 : K[i] = A[1 + i - 1]
    BY <1>2, <2>1, SubSeqProperties
  <2> QED BY <1>2, <2>2
<1>4. DOMAIN K = 1..k
  BY <1>3, LenProperties
<1>5. ASSUME n <= r PROVE DOMAIN R = {}
  <2>1. R = <<>>
    BY <1>1, <1>5, SubSeqEmpty
  <2>2. DOMAIN <<>> = {}
    OBVIOUS
  <2>. HIDE DEF R
  <2> QED BY <2>1, <2>2
<1>6. ASSUME r < n PROVE DOMAIN R = 1..n - r /\ \A i \in 1..n - r : R[i] = A[r + i]
  <2>1. \A i \in r + 1..n : A[i] \in a..b
    BY <1>1
  <2>2. /\ R \in Seq(a..b) /\ Len(R) = n - (r + 1) + 1
        /\ \A i \in 1..n - (r + 1) + 1 : R[i] = A[(r + 1) + i - 1]
    BY <1>1, <1>6, <2>1, SubSeqProperties
  <2>3. DOMAIN R = 1..Len(R)
    BY <2>2, LenProperties
  <2>4. n - (r + 1) + 1 = n - r /\ \A i \in 1..n - r : (r + 1) + i - 1 = r + i
    BY <1>1
  <2> QED BY <2>2, <2>3, <2>4
<1>. HIDE DEF K, R
<1>7. Ascends(K)
  <2> SUFFICES ASSUME NEW i \in 1..k, NEW j \in 1..k, i < j PROVE K[i] < K[j]
    BY <1>4 DEF Ascends
  <2>1. i \in 1..n /\ j \in 1..n
    BY <1>1, <1>2
  <2>2. A[i] < A[j]
    BY <1>0, <2>1 DEF Ascends
  <2> QED BY <1>3, <2>2
<1>8. ToSet(K) = {A[i] : i \in 1..k}
  BY <1>3, <1>4 DEF ToSet
<1>9. ToSet(R) = {A[i] : i \in k + 1..n}
  <2>1. CASE n <= r
    <3>1. k = n
      BY <1>1, <1>2, <2>1
    <3>2. k + 1..n = {}
      BY <1>1, <3>1
    <3> QED BY <1>5, <2>1, <3>2 DEF ToSet
  <2>2. CASE r < n
    <3>1. k = r
      BY <1>1, <1>2, <2>2
    <3>2. ASSUME NEW i \in 1..n - r PROVE r + i \in k + 1..n /\ R[i] = A[r + i]
      BY <1>1, <1>6, <2>2, <3>1
    <3>3. ASSUME NEW j \in k + 1..n PROVE \E i \in 1..n - r : R[i] = A[j]
      <4>1. j - r \in 1..n - r /\ r + (j - r) = j
        BY <1>1, <3>1
      <4> QED BY <1>6, <2>2, <4>1
    <3>4. DOMAIN R = 1..n - r
      BY <1>6, <2>2
    <3>5. ToSet(R) = {R[i] : i \in 1..n - r}
      BY <3>4 DEF ToSet
    <3>6. ToSet(R) \subseteq {A[i] : i \in k + 1..n}
      BY <3>2, <3>5
    <3>7. {A[i] : i \in k + 1..n} \subseteq ToSet(R)
      BY <3>3, <3>5
    <3> QED BY <3>6, <3>7
  <2> QED BY <1>1, <2>1, <2>2
<1>10. \A i \in 1..k, j \in k + 1..n : A[i] # A[j]
  <2> SUFFICES ASSUME NEW i \in 1..k, NEW j \in k + 1..n PROVE A[i] # A[j]
    OBVIOUS
  <2>1. i \in 1..n /\ j \in 1..n /\ i < j
    BY <1>1, <1>2
  <2>2. A[i] < A[j]
    BY <1>0, <2>1 DEF Ascends
  <2>3. A[i] \in a..b
    BY <1>1, <2>1
  <2> QED BY <2>2, <2>3
<1>11. ToSet(K) \cup ToSet(R) = ToSet(A)
  <2>1. \A i : i \in 1..n <=> (i \in 1..k \/ i \in k + 1..n)
    BY <1>1, <1>2
  <2>2. ToSet(A) = {A[i] : i \in 1..n}
    BY <1>0 DEF ToSet
  <2> QED BY <1>8, <1>9, <2>1, <2>2
<1>12. ToSet(K) \cap ToSet(R) = {}
  BY <1>8, <1>9, <1>10
<1>13. n <= r => ToSet(R) = {}
  BY <1>5 DEF ToSet
<1> QED BY <1>2, <1>3, <1>7, <1>11, <1>12, <1>13 DEF K, R, k, n

\* A sequence of elements of a set is one of a wider set.
LEMMA Wider == ASSUME NEW S, NEW T, S \subseteq T, NEW x \in Seq(S) PROVE x \in Seq(T)
OBVIOUS

\* One ascending sequence after another.
LEMMA Joined ==
  ASSUME NEW m \in Nat, NEW n \in Nat, NEW S \in Seq(Nat), NEW K \in Seq(m + 1..m + n),
         Ascends(S), ToSet(S) \subseteq 1..m, Ascends(K)
  PROVE  /\ Ascends(S \o K) /\ ToSet(S \o K) = ToSet(S) \cup ToSet(K)
         /\ Len(S \o K) = Len(S) + Len(K)
<1>. DEFINE p == Len(S)
            q == Len(K)
            J == S \o K
<1>1. DOMAIN S = 1..p /\ DOMAIN K = 1..q
  BY LenProperties
<1>2. p \in Nat /\ q \in Nat /\ \A i \in 1..q : K[i] \in m + 1..m + n
  BY LenProperties, ElementOfSeq
<1>3. K \in Seq(Nat)
  <2>1. m + 1..m + n \subseteq Nat
    OBVIOUS
  <2> QED BY <2>1
<1>4. /\ J \in Seq(Nat) /\ Len(J) = p + q
      /\ \A i \in 1..p + q : J[i] = IF i <= p THEN S[i] ELSE K[i - p]
  BY <1>3, ConcatProperties
<1>5. DOMAIN J = 1..p + q
  BY <1>4, LenProperties
<1>. HIDE DEF p, q, J
<1>6. \A i \in 1..p : J[i] = S[i] /\ S[i] \in 1..m
  <2> SUFFICES ASSUME NEW i \in 1..p PROVE J[i] = S[i] /\ S[i] \in 1..m
    OBVIOUS
  <2>1. J[i] = S[i]
    BY <1>2, <1>4
  <2>2. S[i] \in ToSet(S)
    BY <1>1 DEF ToSet
  <2> QED BY <2>1, <2>2
<1>7. \A i \in 1..q : p + i \in p + 1..p + q /\ J[p + i] = K[i]
  <2> SUFFICES ASSUME NEW i \in 1..q PROVE p + i \in p + 1..p + q /\ J[p + i] = K[i]
    OBVIOUS
  <2>1. p + i \in 1..p + q /\ ~(p + i <= p) /\ (p + i) - p = i
    BY <1>2
  <2> QED BY <1>2, <1>4, <2>1
<1>8. \A j \in p + 1..p + q : j - p \in 1..q /\ J[j] = K[j - p]
  <2> SUFFICES ASSUME NEW j \in p + 1..p + q PROVE j - p \in 1..q /\ J[j] = K[j - p]
    OBVIOUS
  <2>1. j \in 1..p + q /\ ~(j <= p) /\ j - p \in 1..q
    BY <1>2
  <2> QED BY <1>4, <2>1
<1>9. Ascends(J)
  <2> SUFFICES ASSUME NEW i \in 1..p + q, NEW j \in 1..p + q, i < j PROVE J[i] < J[j]
    BY <1>5 DEF Ascends
  <2>1. CASE i \in 1..p /\ j \in 1..p
    <3>1. S[i] < S[j]
      BY <1>1, <2>1 DEF Ascends
    <3> QED BY <1>6, <2>1, <3>1
  <2>2. CASE i \in 1..p /\ j \in p + 1..p + q
    <3>1. J[i] \in 1..m /\ J[j] \in m + 1..m + n
      BY <1>2, <1>6, <1>8, <2>2
    <3> QED BY <3>1
  <2>3. CASE i \in p + 1..p + q /\ j \in p + 1..p + q
    <3>1. /\ i - p \in 1..q /\ j - p \in 1..q /\ i - p < j - p
      BY <1>2, <2>3
    <3>2. K[i - p] < K[j - p]
      BY <1>1, <3>1 DEF Ascends
    <3> QED BY <1>8, <2>3, <3>2
  <2>4. i \in 1..p \/ i \in p + 1..p + q
    BY <1>2
  <2>5. j \in 1..p \/ j \in p + 1..p + q
    BY <1>2
  <2>6. ~(i \in p + 1..p + q /\ j \in 1..p)
    BY <1>2
  <2> QED BY <2>1, <2>2, <2>3, <2>4, <2>5, <2>6
<1>10. ToSet(J) = ToSet(S) \cup ToSet(K)
  <2>1. ToSet(J) = {J[i] : i \in 1..p + q} /\ ToSet(S) = {S[i] : i \in 1..p} /\ ToSet(K) = {K[i] : i \in 1..q}
    BY <1>1, <1>5 DEF ToSet
  <2>2. \A i \in 1..p + q : i \in 1..p \/ i \in p + 1..p + q
    BY <1>2
  <2>3. (\A i \in 1..p : i \in 1..p + q) /\ \A i \in p + 1..p + q : i \in 1..p + q
    BY <1>2
  <2>4. ToSet(J) \subseteq ToSet(S) \cup ToSet(K)
    BY <1>6, <1>8, <2>1, <2>2
  <2>5. ToSet(S) \subseteq ToSet(J)
    BY <1>6, <2>1, <2>3
  <2>6. ToSet(K) \subseteq ToSet(J)
    BY <1>7, <2>1, <2>3
  <2> QED BY <2>4, <2>5, <2>6
<1> QED BY <1>4, <1>9, <1>10 DEF J, p, q

\* Emitting the n events after the first m delivers them.
LEMMA EmitDelivers ==
  ASSUME NEW lg \in Seq(Level), NEW m \in Nat, NEW n \in Nat, m + n <= MaxEvents,
         taken \in [Sink -> Seq(Event)], Len(taken[Collector]) <= MaxRecords,
         refused \subseteq 1..m, failed \in [Sink -> SUBSET (1..m)],
         Delivered(lg, m, taken, refused, failed),
         NEW failing \in SUBSET Sink, Emit(lg, [i \in 1..n |-> m + i], failing)
  PROVE  /\ taken' \in [Sink -> Seq(Event)] /\ Len(taken'[Collector]) <= MaxRecords
         /\ refused' \subseteq 1..m + n /\ failed' \in [Sink -> SUBSET (1..m + n)]
         /\ Delivered(lg, m + n, taken', refused', failed')
<1>. DEFINE batch == [i \in 1..n |-> m + i]
            A(s) == Accepted(lg, s, batch)
            R == ToSet(Left(Collector, A(Collector)))
<1>1. ToSet(batch) = m + 1..m + n
  <2>1. \A e \in m + 1..m + n : e - m \in 1..n /\ m + (e - m) = e
    OBVIOUS
  <2>2. m + 1..m + n \subseteq ToSet(batch)
    <3> SUFFICES ASSUME NEW e \in m + 1..m + n PROVE e \in ToSet(batch)
      OBVIOUS
    <3>1. e - m \in DOMAIN batch /\ batch[e - m] = e
      BY <2>1
    <3>. HIDE DEF batch
    <3> QED BY <3>1 DEF ToSet
  <2>3. ToSet(batch) \subseteq m + 1..m + n
    <3>1. \A i \in 1..n : m + i \in m + 1..m + n
      OBVIOUS
    <3> QED BY <3>1 DEF ToSet
  <2> QED BY <2>2, <2>3
<1>2. \A s : /\ A(s) \in Seq(m + 1..m + n) /\ Len(A(s)) \in 0..n /\ Ascends(A(s))
             /\ ToSet(A(s)) = Above(lg, s, m + 1, m + n)
  <2> SUFFICES ASSUME NEW s
               PROVE  /\ A(s) \in Seq(m + 1..m + n) /\ Len(A(s)) \in 0..n /\ Ascends(A(s))
                      /\ ToSet(A(s)) = Above(lg, s, m + 1, m + n)
    OBVIOUS
  <2>1. batch = [i \in 1..n |-> m + i]
    OBVIOUS
  <2>. HIDE DEF batch
  <2> QED BY <2>1, AcceptedOfBatch
<1>3. /\ taken' = [s \in Sink |-> IF s \in failing THEN taken[s] ELSE taken[s] \o Kept(s, A(s))]
      /\ refused' = IF Collector \in failing THEN refused ELSE refused \cup R
      /\ failed' = [s \in Sink |-> failed[s] \cup IF s \in failing THEN ToSet(batch) ELSE {}]
  BY DEF Emit
<1>. HIDE DEF batch, A
<1>4. MaxEvents \in Nat /\ MaxRecords \in Nat /\ Collector \in Sink
  BY Sizes, ReportAssumption DEF ReportAssumption
<1>5. \A s \in Sink : Len(taken[s]) \in Nat /\ taken[s] \in Seq(Nat) /\ ToSet(taken[s]) \subseteq 1..m /\ Ascends(taken[s])
  <2> SUFFICES ASSUME NEW s \in Sink
               PROVE  Len(taken[s]) \in Nat /\ taken[s] \in Seq(Nat) /\ ToSet(taken[s]) \subseteq 1..m /\ Ascends(taken[s])
    OBVIOUS
  <2>1. taken[s] \in Seq(Event)
    OBVIOUS
  <2>2. Event \subseteq Nat
    BY <1>4 DEF Event
  <2>3. Len(taken[s]) \in Nat /\ taken[s] \in Seq(Nat)
    <3>1. Len(taken[s]) \in Nat
      BY <2>1, LenProperties
    <3>2. taken[s] \in Seq(Nat)
      BY <2>1, <2>2, Wider
    <3> QED BY <3>1, <3>2
  <2>4. ToSet(taken[s]) \subseteq 1..m
    BY DEF Delivered, Due
  <2> QED BY <2>3, <2>4 DEF Delivered
<1>6. \A s \in Sink : Room(s) \in Nat /\ (s # Collector => Room(s) = MaxEvents)
                      /\ (s = Collector => Room(s) = MaxRecords - Len(taken[s]))
  BY <1>4, <1>5 DEF Room
<1>7. ASSUME NEW s \in Sink
      PROVE  /\ Kept(s, A(s)) \in Seq(m + 1..m + n) /\ Ascends(Kept(s, A(s)))
             /\ Len(Kept(s, A(s))) <= Room(s)
             /\ ToSet(Kept(s, A(s))) \cup ToSet(Left(s, A(s))) = ToSet(A(s))
             /\ ToSet(Kept(s, A(s))) \cap ToSet(Left(s, A(s))) = {}
             /\ s # Collector => ToSet(Left(s, A(s))) = {}
  <2>1. m + 1 \in Nat /\ m + n \in Nat /\ A(s) \in Seq(m + 1..m + n) /\ Ascends(A(s)) /\ Room(s) \in Nat
    BY <1>2, <1>6
  <2>2. s # Collector => Len(A(s)) <= Room(s)
    BY <1>2, <1>4, <1>6
  <2> QED BY <2>1, <2>2, CutInTwo DEF Kept, Left
<1>8. ASSUME NEW s \in Sink
      PROVE  /\ Ascends(taken[s] \o Kept(s, A(s)))
             /\ ToSet(taken[s] \o Kept(s, A(s))) = ToSet(taken[s]) \cup ToSet(Kept(s, A(s)))
             /\ Len(taken[s] \o Kept(s, A(s))) = Len(taken[s]) + Len(Kept(s, A(s)))
  BY <1>5, <1>7, Joined
<1>9. taken' \in [Sink -> Seq(Event)]
  <2>1. m + 1..m + n \subseteq Event
    BY <1>4 DEF Event
  <2>2. ASSUME NEW s \in Sink PROVE taken[s] \o Kept(s, A(s)) \in Seq(Event)
    <3>1. Kept(s, A(s)) \in Seq(m + 1..m + n)
      BY <1>7
    <3>2. Kept(s, A(s)) \in Seq(Event)
      BY <2>1, <3>1
    <3>3. taken[s] \in Seq(Event)
      OBVIOUS
    <3> QED BY <3>2, <3>3
  <2> QED BY <1>3, <2>2
<1>10. Len(taken'[Collector]) <= MaxRecords
  <2>1. CASE Collector \in failing
    BY <1>3, <1>4, <2>1
  <2>2. CASE Collector \notin failing
    <3>1. taken'[Collector] = taken[Collector] \o Kept(Collector, A(Collector))
      BY <1>3, <1>4, <2>2
    <3>2. Kept(Collector, A(Collector)) \in Seq(m + 1..m + n)
      BY <1>4, <1>7
    <3>3. Len(Kept(Collector, A(Collector))) \in Nat
      BY <3>2, LenProperties
    <3>4. /\ Len(taken'[Collector]) = Len(taken[Collector]) + Len(Kept(Collector, A(Collector)))
          /\ Len(Kept(Collector, A(Collector))) <= MaxRecords - Len(taken[Collector])
          /\ Len(taken[Collector]) \in Nat
      BY <1>4, <1>5, <1>6, <1>7, <1>8, <3>1
    <3> QED BY <1>4, <3>3, <3>4
  <2> QED BY <2>1, <2>2
<1>11. R \subseteq m + 1..m + n /\ refused' \subseteq 1..m + n
  <2>1. R \subseteq ToSet(A(Collector))
    BY <1>4, <1>7
  <2>2. R \subseteq m + 1..m + n
    BY <1>2, <2>1 DEF Above
  <2>3. \A e \in m + 1..m + n : e \in 1..m + n
    OBVIOUS
  <2>4. \A e \in 1..m : e \in 1..m + n
    OBVIOUS
  <2>. HIDE DEF R
  <2> QED BY <1>3, <2>2, <2>3, <2>4
<1>12. failed' \in [Sink -> SUBSET (1..m + n)]
  <2> SUFFICES ASSUME NEW s \in Sink
               PROVE  (failed[s] \cup IF s \in failing THEN ToSet(batch) ELSE {}) \subseteq 1..m + n
    BY <1>3
  <2>1. failed[s] \subseteq 1..m
    OBVIOUS
  <2>2. 1..m \subseteq 1..m + n /\ m + 1..m + n \subseteq 1..m + n
    OBVIOUS
  <2> QED BY <1>1, <2>1, <2>2
<1>13. ASSUME NEW s \in Sink
       PROVE  Ascends(taken'[s]) /\ ToSet(taken'[s]) = Due(lg, m + n, s, refused', failed')
  <2>. DEFINE Old == Due(lg, m, s, refused, failed)
              All == Due(lg, m + n, s, refused', failed')
  <2>0. /\ \A e : e \in Old <=> /\ e \in 1..m /\ lg[e] >= Floor[s] /\ e \notin failed[s]
                                /\ s = Collector => e \notin refused
        /\ \A e : e \in All <=> /\ e \in 1..m + n /\ lg[e] >= Floor[s] /\ e \notin failed'[s]
                                /\ s = Collector => e \notin refused'
    BY DEF Due
  <2>. HIDE DEF Old, All
  <2>1. ToSet(taken[s]) = Old /\ Ascends(taken[s])
    BY DEF Delivered, Old
  <2>2. \A e : e \in 1..m + n <=> (e \in 1..m \/ e \in m + 1..m + n)
    OBVIOUS
  <2>3. \A e : ~(e \in 1..m /\ e \in m + 1..m + n)
    OBVIOUS
  <2>4. failed[s] \subseteq 1..m
    OBVIOUS
  <2>5. CASE s \in failing
    <3>1. taken'[s] = taken[s] /\ failed'[s] = failed[s] \cup (m + 1..m + n)
      BY <1>1, <1>3, <2>5
    <3>2. s = Collector => refused' = refused
      BY <1>3, <2>5
    <3>3. All = Old
      BY <2>0, <2>2, <2>3, <3>1, <3>2
    <3> QED BY <2>1, <3>1, <3>3 DEF All
  <2>6. CASE s \notin failing
    <3>1. taken'[s] = taken[s] \o Kept(s, A(s)) /\ failed'[s] = failed[s]
      BY <1>3, <2>6
    <3>2. s = Collector => refused' = refused \cup R
      BY <1>3, <2>6
    <3>3. \A e \in m + 1..m + n : e \in All <=> e \in ToSet(Kept(s, A(s)))
      <4>1. CASE s = Collector
        <5>1. \A e \in m + 1..m + n : e \in All <=> (lg[e] >= Floor[s] /\ e \notin R)
          BY <2>0, <2>2, <2>3, <2>4, <3>1, <3>2, <4>1
        <5>2. \A e \in m + 1..m + n : e \in ToSet(A(s)) <=> lg[e] >= Floor[s]
          BY <1>2 DEF Above
        <5>3. R = ToSet(Left(s, A(s)))
          BY <4>1
        <5>. HIDE DEF R
        <5> QED BY <1>7, <5>1, <5>2, <5>3
      <4>2. CASE s # Collector
        <5>1. \A e \in m + 1..m + n : e \in All <=> lg[e] >= Floor[s]
          BY <2>0, <2>2, <2>3, <2>4, <3>1, <4>2
        <5>2. \A e \in m + 1..m + n : e \in ToSet(A(s)) <=> lg[e] >= Floor[s]
          BY <1>2 DEF Above
        <5>3. ToSet(Kept(s, A(s))) = ToSet(A(s))
          BY <1>7, <4>2
        <5> QED BY <5>1, <5>2, <5>3
      <4> QED BY <4>1, <4>2
    <3>4. \A e \in 1..m : e \in All <=> e \in Old
      <4>1. \A e \in 1..m : e \in 1..m + n /\ e \notin R
        BY <1>11, <2>2, <2>3
      <4>2. \A e \in 1..m : s = Collector => (e \in refused' <=> e \in refused)
        BY <3>2, <4>1
      <4> QED BY <2>0, <3>1, <4>1, <4>2
    <3>5. ToSet(Kept(s, A(s))) \subseteq m + 1..m + n
      <4>1. ToSet(Kept(s, A(s))) \subseteq ToSet(A(s))
        BY <1>7
      <4> QED BY <1>2, <4>1 DEF Above
    <3>6. All \subseteq 1..m + n /\ Old \subseteq 1..m
      BY <2>0
    <3>7. All = Old \cup ToSet(Kept(s, A(s)))
      BY <2>2, <2>3, <3>3, <3>4, <3>5, <3>6
    <3>8. ToSet(taken'[s]) = All /\ Ascends(taken'[s])
      BY <1>8, <2>1, <3>1, <3>7
    <3> QED BY <3>8 DEF All
  <2> QED BY <2>5, <2>6
<1> QED BY <1>9, <1>10, <1>11, <1>12, <1>13 DEF Delivered

(* The n events after the first m.                                        *)
After(m, n) == [i \in 1..n |-> m + i]

\* The ring's last n events, when it holds the last c of L.
LEMMA WindowIsLast ==
  ASSUME NEW sl, NEW w \in 0..Capacity - 1, NEW c \in 0..Capacity, NEW L \in Nat, c <= L,
         Holds(sl, w, c, L), NEW n \in 0..c
  PROVE  Window(sl, w, n) = After(L - n, n)
<1>1. ASSUME NEW i \in 1..n PROVE sl[(w + Capacity - n + i - 1) % Capacity] = (L - n) + i
  <2>1. c - n + i \in 1..c
    OBVIOUS
  <2>2. sl[(w + Capacity - c + (c - n + i) - 1) % Capacity] = L - c + (c - n + i)
    BY <2>1 DEF Holds
  <2>3. w + Capacity - c + (c - n + i) - 1 = w + Capacity - n + i - 1 /\ L - c + (c - n + i) = (L - n) + i
    BY Sizes
  <2> QED BY <2>2, <2>3
<1> QED BY <1>1 DEF Window, After

\* An event put over the oldest one.
LEMMA RingTurns ==
  ASSUME NEW w \in 0..Capacity - 1, NEW c \in 0..Capacity, NEW L \in Nat,
         slots \in [0..Capacity - 1 -> 0..L],
         Holds(slots, w, c, L),
         NEW sl, sl = [slots EXCEPT ![w] = L + 1],
         NEW v, v = IF w + 1 = Capacity THEN 0 ELSE w + 1,
         NEW d, d = IF c = Capacity THEN c ELSE c + 1
  PROVE  /\ sl \in [0..Capacity - 1 -> 0..L + 1] /\ v \in 0..Capacity - 1 /\ d \in 1..Capacity
         /\ Holds(sl, v, d, L + 1)
<1>1. v = IF w + 1 = Capacity THEN 0 ELSE w + 1
  OBVIOUS
<1>2. v \in 0..Capacity - 1 /\ d \in 1..Capacity
  BY <1>1, Sizes
<1>3. sl \in [0..Capacity - 1 -> 0..L + 1]
  <2>1. \A k \in 0..Capacity - 1 : slots[k] \in 0..L + 1
    <3> SUFFICES ASSUME NEW k \in 0..Capacity - 1 PROVE slots[k] \in 0..L + 1
      OBVIOUS
    <3>1. slots[k] \in 0..L
      OBVIOUS
    <3> QED BY <3>1
  <2> QED BY <2>1
<1>4. sl[w] = L + 1 /\ \A k \in 0..Capacity - 1 : k # w => sl[k] = slots[k]
  BY Sizes
<1>5. ASSUME NEW i \in 1..d PROVE sl[(v + Capacity - d + i - 1) % Capacity] = (L + 1) - d + i
  <2>. DEFINE x == v + Capacity - d + i - 1
  <2>1. CASE i = d
    <3>1. x = v + Capacity - 1
      BY <1>2, <2>1, Sizes
    <3>2. x % Capacity = w
      <4>1. CASE v = 0
        <5>1. x \in 0..Capacity - 1 /\ x = Capacity - 1 /\ w = Capacity - 1
          BY <1>1, <3>1, <4>1, Sizes
        <5> QED BY <5>1, Sizes, Wraps
      <4>2. CASE v # 0
        <5>1. x \in Capacity..2 * Capacity - 1 /\ x - Capacity = w
          BY <1>1, <1>2, <3>1, <4>2, Sizes
        <5>. HIDE DEF x
        <5> QED BY <5>1, Sizes, Wraps
      <4> QED BY <4>1, <4>2
    <3> QED BY <1>2, <1>4, <2>1, <3>2
  <2>2. CASE i # d
    <3>. DEFINE j == IF c = Capacity THEN i + 1 ELSE i
                y == w + Capacity - c + j - 1
    <3>1. j \in 1..c /\ L - c + j = (L + 1) - d + i
      BY <1>2, <2>2, Sizes
    <3>2. slots[y % Capacity] = L - c + j
      BY <3>1 DEF Holds
    <3>3. y \in 0..2 * Capacity - 1 /\ y # w /\ y # w + Capacity
      BY <3>1, Sizes
    <3>4. /\ x \in 0..2 * Capacity - 1
          /\ x = y \/ x + Capacity = y \/ x = y + Capacity
      BY <1>1, <1>2, <2>2, Sizes
    <3>. HIDE DEF x, y
    <3>5. y % Capacity \in 0..Capacity - 1 /\ y % Capacity # w
      <4>1. CASE y \in 0..Capacity - 1
        BY <3>3, <4>1, Sizes, Wraps
      <4>2. CASE y \in Capacity..2 * Capacity - 1
        <5>1. y % Capacity = y - Capacity
          BY <4>2, Wraps
        <5> QED BY <3>3, <4>2, <5>1, Sizes
      <4>3. y \in 0..Capacity - 1 \/ y \in Capacity..2 * Capacity - 1
        BY <3>3, Sizes
      <4> QED BY <4>1, <4>2, <4>3
    <3>6. x % Capacity = y % Capacity
      <4>1. CASE x = y
        BY <4>1
      <4>2. CASE x + Capacity = y
        <5>1. x \in 0..Capacity - 1 /\ y \in Capacity..2 * Capacity - 1 /\ y - Capacity = x
          BY <3>3, <3>4, <4>2, Sizes
        <5> QED BY <5>1, Sizes, Wraps
      <4>3. CASE x = y + Capacity
        <5>1. y \in 0..Capacity - 1 /\ x \in Capacity..2 * Capacity - 1 /\ x - Capacity = y
          BY <3>3, <3>4, <4>3, Sizes
        <5> QED BY <5>1, Sizes, Wraps
      <4> QED BY <3>4, <4>1, <4>2, <4>3
    <3> QED BY <1>4, <3>1, <3>2, <3>5, <3>6 DEF x
  <2> QED BY <2>1, <2>2
<1> QED BY <1>2, <1>3, <1>5 DEF Holds

\* A flush keeps the invariant.
LEMMA FlushKeeps ==
  ASSUME ReportInv, NEW failing \in SUBSET Sink, Flush(failing)
  PROVE  ReportInv'
<1>. DEFINE L == Len(log)
            m == L - pending
            batch == Drain(slots, write, count, pending)
<1>1. /\ log \in Seq(Level) /\ L \in Nat /\ L <= MaxEvents
      /\ write \in 0..Capacity - 1 /\ count \in 0..Capacity /\ pending \in 0..FlushEvents
      /\ overrun \in Nat /\ counter \in Nat
      /\ taken \in [Sink -> Seq(Event)] /\ failed \in [Sink -> SUBSET Event] /\ refused \subseteq Event
  BY LenProperties DEF ReportInv, ReportTypeOK
<1>2. pending < FlushEvents /\ pending <= L /\ count = IF L < Capacity THEN L ELSE Capacity
  BY DEF ReportInv
<1>3. m \in Nat /\ m + pending = L /\ L - pending = m /\ pending \in 0..count /\ count <= L
  BY <1>1, <1>2, Sizes
<1>4. batch = [i \in 1..pending |-> m + i]
  <2>1. (IF pending < count THEN pending ELSE count) = pending
    BY <1>1, <1>3
  <2>2. batch = Window(slots, write, pending)
    BY <2>1, Zenon DEF Drain
  <2>3. Holds(slots, write, count, L)
    BY DEF ReportInv
  <2>. HIDE DEF L, m, batch
  <2>4. Window(slots, write, pending) = After(L - pending, pending)
    BY <1>1, <1>3, <2>3, WindowIsLast
  <2> QED BY <1>3, <2>2, <2>4 DEF After
<1>5. /\ pending' = 0 /\ Emit(log, batch, failing)
      /\ counter' = IF overrun > 0 THEN overrun ELSE counter + Failures(failing, batch)
      /\ UNCHANGED <<log, slots, write, count, overrun>>
  BY DEF Flush
<1>6. /\ Len(taken[Collector]) <= MaxRecords /\ refused \subseteq 1..m
      /\ failed \in [Sink -> SUBSET (1..m)]
      /\ Delivered(log, m, taken, refused, failed)
  BY <1>1 DEF ReportInv
<1>. HIDE DEF m, L
<1>7. /\ taken' \in [Sink -> Seq(Event)] /\ Len(taken'[Collector]) <= MaxRecords
      /\ refused' \subseteq 1..m + pending /\ failed' \in [Sink -> SUBSET (1..m + pending)]
      /\ Delivered(log, m + pending, taken', refused', failed')
  <2>1. Emit(log, [i \in 1..pending |-> m + i], failing)
    BY <1>4, <1>5
  <2>2. pending \in Nat /\ m + pending <= MaxEvents
    BY <1>1, <1>3, Sizes
  <2> QED BY <1>1, <1>3, <1>6, <2>1, <2>2, EmitDelivers
<1>8. Failures(failing, batch) \in Nat
  <2>1. IsFiniteSet(Sink)
    BY ReportAssumption DEF ReportAssumption
  <2>2. IsFiniteSet(failing)
    BY <2>1, FS_Subset
  <2>3. Cardinality(failing) \in Nat
    BY <2>2, FS_CardinalityType
  <2>4. Len(batch) \in Nat
    <3>1. batch \in Seq(Int)
      <4>1. [i \in 1..pending |-> m + i] \in Seq(Int)
        BY <1>1, <1>3
      <4> QED BY <1>4, <4>1
    <3>. HIDE DEF batch
    <3> QED BY <3>1, LenProperties
  <2>. HIDE DEF batch
  <2> QED BY <2>3, <2>4 DEF Failures
<1>9. Len(log') - pending' = m + pending /\ Len(log') = L /\ log' = log
  BY <1>1, <1>3, <1>5 DEF L
<1>10. \A e \in 1..m + pending : e \in Event
  BY <1>1, <1>3, Sizes DEF Event
<1>11. ReportTypeOK'
  <2>1. counter' \in Nat
    BY <1>1, <1>5, <1>8
  <2>2. pending' \in 0..FlushEvents
    BY <1>5, Sizes
  <2>3. refused' \subseteq Event /\ failed' \in [Sink -> SUBSET Event]
    BY <1>7, <1>10
  <2> QED BY <1>5, <1>7, <2>1, <2>2, <2>3 DEF ReportInv, ReportTypeOK
<1>12. \A e \in Len(log') - pending' + 1..Len(log') : log'[e] < WARNING
  <2>1. Len(log') - pending' + 1..Len(log') = {}
    BY <1>1, <1>3, <1>9
  <2> QED BY <2>1
<1>13. pending' < FlushEvents /\ pending' <= Len(log')
  BY <1>1, <1>5, <1>9, Sizes
<1>14. \A s \in Sink : failed'[s] \subseteq 1..m + pending
  BY <1>7
<1> QED BY <1>5, <1>7, <1>9, <1>11, <1>12, <1>13, <1>14 DEF ReportInv

\* What holds of the ring after an event went over the oldest one.
LEMMA RingAfterReport ==
  ASSUME ReportInv, NEW l \in Level, NEW failing \in SUBSET Sink, Report(l, failing)
  PROVE  /\ log \in Seq(Level) /\ Len(log) \in Nat
         /\ log' = Append(log, l) /\ log' \in Seq(Level) /\ Len(log') = Len(log) + 1
         /\ Len(log) + 1 <= MaxEvents
         /\ \A e \in 1..Len(log) : log'[e] = log[e]
         /\ log'[Len(log) + 1] = l
         /\ slots' \in [0..Capacity - 1 -> 0..Len(log) + 1]
         /\ write' \in 0..Capacity - 1 /\ count' \in 1..Capacity
         /\ count' = IF Len(log) + 1 < Capacity THEN Len(log) + 1 ELSE Capacity
         /\ Holds(slots', write', count', Len(log) + 1)
         /\ pending \in Nat /\ pending + 1 <= count' /\ pending < FlushEvents
         /\ Len(log) - pending \in Nat
<1>. DEFINE L == Len(log)
<1>1. /\ log \in Seq(Level) /\ L \in Nat /\ L + 1 <= MaxEvents /\ log' = Append(log, l)
      /\ write \in 0..Capacity - 1 /\ count \in 0..Capacity /\ pending \in Nat
      /\ slots \in [0..Capacity - 1 -> 0..L]
      /\ pending < FlushEvents /\ pending <= L
      /\ count = IF L < Capacity THEN L ELSE Capacity
      /\ Holds(slots, write, count, L)
  <2>1. log \in Seq(Level)
    BY DEF ReportInv, ReportTypeOK
  <2>2. L \in Nat
    BY <2>1, LenProperties
  <2>3. L + 1 <= MaxEvents /\ log' = Append(log, l)
    BY <2>2, Sizes DEF Report
  <2>4. slots \in [0..Capacity - 1 -> 0..L] /\ write \in DOMAIN slots
    BY DEF ReportInv, ReportTypeOK
  <2>5. write \in 0..Capacity - 1
    BY <2>4
  <2>. HIDE DEF L
  <2> QED BY <2>1, <2>2, <2>3, <2>4, <2>5, Sizes DEF ReportInv, ReportTypeOK, L
<1>2. /\ log' \in Seq(Level) /\ Len(log') = L + 1 /\ log'[L + 1] = l
      /\ \A e \in 1..L : log'[e] = log[e]
  <2>1. /\ Append(log, l) \in Seq(Level) /\ Len(Append(log, l)) = Len(log) + 1
        /\ Append(log, l)[Len(log) + 1] = l
        /\ \A e \in 1..Len(log) : Append(log, l)[e] = log[e]
    BY <1>1, AppendProperties
  <2> QED BY <1>1, <2>1
<1>3. PICK v : v = IF write + 1 = Capacity THEN 0 ELSE write + 1
  OBVIOUS
<1>4. PICK d : d = IF count = Capacity THEN count ELSE count + 1
  OBVIOUS
<1>5. PICK sl : sl = [slots EXCEPT ![write] = L + 1]
  OBVIOUS
<1>6. slots' = sl /\ count' = d
  BY <1>1, <1>2, <1>4, <1>5 DEF Report
<1>7. write' = v
  <2>1. write' = (write + 1) % Capacity
    BY DEF Report
  <2>2. CASE write + 1 = Capacity
    <3>1. Capacity \in Capacity..2 * Capacity - 1 /\ Capacity - Capacity = 0
      BY Sizes
    <3> QED BY <1>3, <2>1, <2>2, <3>1, Wraps
  <2>3. CASE write + 1 # Capacity
    <3>1. write + 1 \in 0..Capacity - 1
      BY <1>1, <2>3, Sizes
    <3> QED BY <1>3, <2>1, <2>3, <3>1, Wraps
  <2> QED BY <2>2, <2>3
<1>. HIDE DEF L
<1>8. /\ sl \in [0..Capacity - 1 -> 0..L + 1] /\ v \in 0..Capacity - 1 /\ d \in 1..Capacity
      /\ Holds(sl, v, d, L + 1)
  BY <1>1, <1>3, <1>4, <1>5, RingTurns
<1>9. d = IF L + 1 < Capacity THEN L + 1 ELSE Capacity
  BY <1>1, <1>4, Sizes
<1>10. pending + 1 <= d /\ L - pending \in Nat
  BY <1>1, <1>9, Sizes
<1> QED BY <1>1, <1>2, <1>6, <1>7, <1>8, <1>9, <1>10 DEF L

\* Reporting an event keeps the invariant.
LEMMA ReportKeeps ==
  ASSUME ReportInv, NEW l \in Level, NEW failing \in SUBSET Sink, Report(l, failing)
  PROVE  ReportInv'
<1>. DEFINE L == Len(log)
            m == L - pending
            n == pending + 1
            batch == Drain(slots', write', count', n)
<1>1. /\ log \in Seq(Level) /\ L \in Nat
      /\ log' = Append(log, l) /\ log' \in Seq(Level) /\ Len(log') = L + 1
      /\ L + 1 <= MaxEvents
      /\ \A e \in 1..L : log'[e] = log[e]
      /\ log'[L + 1] = l
      /\ slots' \in [0..Capacity - 1 -> 0..L + 1]
      /\ write' \in 0..Capacity - 1 /\ count' \in 1..Capacity
      /\ count' = IF L + 1 < Capacity THEN L + 1 ELSE Capacity
      /\ Holds(slots', write', count', L + 1)
      /\ pending \in Nat /\ n <= count' /\ pending < FlushEvents
      /\ m \in Nat
  BY RingAfterReport
<1>2. m \in Nat /\ n \in Nat /\ m + n = L + 1 /\ n \in 1..FlushEvents /\ (L + 1) - n = m
  BY <1>1, Sizes
<1>3. /\ taken \in [Sink -> Seq(Event)] /\ failed \in [Sink -> SUBSET Event] /\ refused \subseteq Event
      /\ overrun \in Nat /\ counter \in Nat
      /\ Len(taken[Collector]) <= MaxRecords
      /\ refused \subseteq 1..m /\ \A s \in Sink : failed[s] \subseteq 1..m
      /\ Delivered(log, m, taken, refused, failed)
      /\ \A e \in m + 1..L : log[e] < WARNING
  BY DEF ReportInv, ReportTypeOK
<1>4. overrun' \in Nat
  BY <1>3 DEF Report
<1>5. Delivered(log', m, taken, refused, failed)
  <2>1. \A e \in 1..m : log'[e] = log[e]
    <3>1. \A e \in 1..m : e \in 1..L
      BY <1>1
    <3> QED BY <1>1, <3>1
  <2> QED BY <1>3, <2>1 DEF Delivered, Due
<1>. HIDE DEF L, m, n
<1>6. batch = [i \in 1..n |-> m + i]
  <2>1. n \in 0..count' /\ count' \in 0..Capacity /\ L + 1 \in Nat /\ count' <= L + 1
    BY <1>1, <1>2, Sizes
  <2>2. (IF n < count' THEN n ELSE count') = n
    BY <2>1
  <2>3. batch = Window(slots', write', n)
    BY <2>2, Zenon DEF Drain
  <2>. HIDE DEF batch
  <2>4. Window(slots', write', n) = After((L + 1) - n, n)
    BY <1>1, <2>1, WindowIsLast
  <2> QED BY <1>2, <2>3, <2>4 DEF After
<1>7. CASE FlushDue(l, n)
  <2>1. /\ pending' = 0 /\ Emit(log', batch, failing)
        /\ counter' = counter + Failures(failing, batch)
    BY <1>1, <1>7 DEF Report, L, n
  <2>2. /\ taken' \in [Sink -> Seq(Event)] /\ Len(taken'[Collector]) <= MaxRecords
        /\ refused' \subseteq 1..m + n /\ failed' \in [Sink -> SUBSET (1..m + n)]
        /\ Delivered(log', m + n, taken', refused', failed')
    <3>1. Emit(log', [i \in 1..n |-> m + i], failing)
      BY <1>6, <2>1
    <3>2. failed \in [Sink -> SUBSET (1..m)] /\ m + n <= MaxEvents
      BY <1>1, <1>2, <1>3
    <3> QED BY <1>1, <1>2, <1>3, <1>5, <3>1, <3>2, EmitDelivers
  <2>3. Failures(failing, batch) \in Nat
    <3>1. IsFiniteSet(Sink)
      BY ReportAssumption DEF ReportAssumption
    <3>2. IsFiniteSet(failing)
      BY <3>1, FS_Subset
    <3>3. Cardinality(failing) \in Nat
      BY <3>2, FS_CardinalityType
    <3>4. batch \in Seq(Int)
      <4>1. [i \in 1..n |-> m + i] \in Seq(Int)
        BY <1>2
      <4> QED BY <1>6, <4>1
    <3>. HIDE DEF batch
    <3>5. Len(batch) \in Nat
      BY <3>4, LenProperties
    <3> QED BY <3>3, <3>5 DEF Failures
  <2>. HIDE DEF batch
  <2>4. \A e \in 1..m + n : e \in Event
    BY <1>1, <1>2, Sizes DEF Event
  <2>5. ReportTypeOK'
    <3>1. counter' \in Nat
      BY <1>3, <2>1, <2>3
    <3>2. pending' \in 0..FlushEvents
      BY <2>1, Sizes
    <3>3. refused' \subseteq Event /\ failed' \in [Sink -> SUBSET Event]
      BY <2>2, <2>4
    <3>4. Len(log') <= MaxEvents /\ slots' \in [0..Capacity - 1 -> 0..Len(log')] /\ write' \in DOMAIN slots'
      BY <1>1
    <3>5. count' \in 0..Capacity
      BY <1>1
    <3> QED BY <1>1, <1>4, <2>2, <3>1, <3>2, <3>3, <3>4, <3>5 DEF ReportTypeOK
  <2>6. Len(log') - pending' = m + n /\ Len(log') = m + n
    BY <1>1, <1>2, <2>1
  <2>7. \A e \in Len(log') - pending' + 1..Len(log') : log'[e] < WARNING
    <3>1. Len(log') - pending' + 1..Len(log') = {}
      BY <1>2, <2>6
    <3> QED BY <3>1
  <2>8. pending' < FlushEvents /\ pending' <= Len(log')
    BY <1>1, <2>1, Sizes
  <2>9. count' = IF Len(log') < Capacity THEN Len(log') ELSE Capacity
    BY <1>1
  <2>10. \A s \in Sink : failed'[s] \subseteq 1..m + n
    BY <2>2
  <2>11. Holds(slots', write', count', Len(log'))
    BY <1>1
  <2> QED BY <2>2, <2>5, <2>6, <2>7, <2>8, <2>9, <2>10, <2>11 DEF ReportInv
<1>8. CASE ~FlushDue(l, n)
  <2>1. pending' = n /\ UNCHANGED <<taken, refused, failed, counter>>
    BY <1>8 DEF Report, n
  <2>2. n < FlushEvents /\ l < WARNING
    BY <1>2, <1>8, Sizes DEF FlushDue, Level, DEBUG, ERROR, WARNING
  <2>3. Len(log') - pending' = m /\ Len(log') = L + 1
    BY <1>1, <1>2, <2>1
  <2>4. ReportTypeOK'
    <3>1. pending' \in 0..FlushEvents
      BY <1>2, <2>1, <2>2, Sizes
    <3>2. Len(log') <= MaxEvents /\ slots' \in [0..Capacity - 1 -> 0..Len(log')] /\ write' \in DOMAIN slots'
      BY <1>1
    <3>3. count' \in 0..Capacity
      BY <1>1
    <3> QED BY <1>1, <1>3, <1>4, <2>1, <3>1, <3>2, <3>3 DEF ReportTypeOK
  <2>5. \A e \in Len(log') - pending' + 1..Len(log') : log'[e] < WARNING
    <3> SUFFICES ASSUME NEW e \in m + 1..L + 1 PROVE log'[e] < WARNING
      BY <2>3
    <3>1. CASE e = L + 1
      BY <1>1, <2>2, <3>1
    <3>2. CASE e # L + 1
      <4>1. e \in m + 1..L /\ e \in 1..L
        BY <1>1, <3>2
      <4> QED BY <1>1, <1>3, <4>1
    <3> QED BY <3>1, <3>2
  <2>6. pending' < FlushEvents /\ pending' <= Len(log')
    BY <1>1, <1>2, <2>1, <2>2
  <2>7. count' = IF Len(log') < Capacity THEN Len(log') ELSE Capacity
    BY <1>1
  <2>8. Holds(slots', write', count', Len(log'))
    BY <1>1
  <2> QED BY <1>3, <1>5, <2>1, <2>3, <2>4, <2>5, <2>6, <2>7, <2>8 DEF ReportInv
<1> QED BY <1>7, <1>8

\* A step of the facility keeps the invariant.
LEMMA ReportStep == ReportInv /\ [ReportNext]_reportVars => ReportInv'
<1> SUFFICES ASSUME ReportInv, [ReportNext]_reportVars PROVE ReportInv'
  OBVIOUS
<1>1. ASSUME NEW failing \in SUBSET Sink, NEW l \in Level, Report(l, failing) PROVE ReportInv'
  BY <1>1, ReportKeeps
<1>2. ASSUME NEW failing \in SUBSET Sink, Flush(failing) PROVE ReportInv'
  BY <1>2, FlushKeeps
<1>3. CASE UNCHANGED reportVars
  BY <1>3 DEF reportVars, ring, ReportInv, ReportTypeOK
<1> QED BY <1>1, <1>2, <1>3 DEF ReportNext

\* The ring, the sinks' events and the counters keep their types, the pending
\* events those of at most one batch (EventRing, flush_when).
THEOREM ReportIsTyped == ReportSpec => []ReportTypeOK
<1>1. ReportInv => ReportTypeOK
  BY DEF ReportInv
<1> QED BY <1>1, ReportStarts, ReportStep, PTL DEF ReportSpec

\* For sinks of any number, levels and failures, and a ring of any capacity that
\* holds a batch: each sink takes the events of its level once and in order but
\* those of batches it failed on or had no room for, no warning waits, and the
\* ring holds the last events however often it wrapped (EventRing, _emit).
THEOREM DeliversAll == ReportSpec => []DeliversInOrder
<1> QED BY InvTells, ReportStarts, ReportStep, PTL DEF ReportSpec
=============================================================================
