-------------------------- MODULE BaselineWorkflow --------------------------
(***************************************************************************)
(* The baseline of one Project (codess/baseline_operations.py,             *)
(* baseline_validation.py, baseline_catalog.py, acceptance.py): rebuild    *)
(* its stores as a candidate snapshot, validate it, rebuild it again and   *)
(* compare the two, publish, report, and freeze what was reported.  Any    *)
(* step may fail or be killed; between commands the Source changes,        *)
(* ordinary ingests publish and the released package changes.              *)
(***************************************************************************)
EXTENDS Integers, Sequences

CONSTANTS
  MaxSource,    \* bound: revisions of the Source
  MaxBuilds,    \* bound: snapshots built
  MaxPackage    \* bound: released packages

BaselineAssumption ==
  MaxSource \in Nat \ {0} /\ MaxBuilds \in Nat /\ MaxPackage \in Nat \ {0}

ASSUME BaselineBounds == BaselineAssumption

VARIABLES
  origin,      \* the Source: [revision, meaning]; meaning: what it normalizes to
  release,     \* the package in use
  working,     \* the working stores: [release, marks]; release 0: there are
               \*   none; marks: the revision the state file holds, 0 for none
  builds,      \* snapshots, by age: [release, revision, meaning, sound]
  published,   \* the one current.json names, 0 for none
  receipt,     \* validation-report.json: [build, fixed, release]; build 0: none
  approved,    \* approved-baselines: the snapshot it names, 0 for none
  reviewed,    \* reviewed-baselines: [build, release]
  matched,     \* history: builds a repeated rebuild agreed with
  apply,       \* apply_project: [step, repeat, drift, first, second]
  freeze       \* freeze_reviewed_catalogs: [step, approved, reviewed]: what it replaces

baselineVars == <<origin, release, working, builds, published, receipt, approved, reviewed,
                  matched, apply, freeze>>

Unfrozen == [build |-> 0, release |-> 0]
NoApply == [step |-> "none", repeat |-> FALSE, drift |-> FALSE, first |-> 0, second |-> 0]
NoFreeze == [step |-> "none", approved |-> 0, reviewed |-> Unfrozen]
Build == 0..MaxBuilds

BaselineTypeOK ==
  /\ origin \in [revision : 1..MaxSource, meaning : 1..MaxSource]
  /\ release \in 1..MaxPackage
  /\ working \in [release : 0..MaxPackage, marks : 0..MaxSource]
  /\ \A i \in DOMAIN builds :
       builds[i] \in [release : 1..MaxPackage, revision : 1..MaxSource,
                      meaning : 1..MaxSource, sound : BOOLEAN]
  /\ published \in 0..Len(builds) /\ approved \in 0..Len(builds)
  /\ receipt \in [build : 0..Len(builds), fixed : BOOLEAN, release : 0..MaxPackage]
  /\ reviewed \in [build : 0..Len(builds), release : 0..MaxPackage]
  /\ matched \subseteq DOMAIN builds
  /\ apply \in [step : {"none", "archive", "drop_marks", "reset", "ingest", "validate",
                        "again", "drop_again", "ingest_again", "validate_again", "compare",
                        "publish", "approve", "report"},
                repeat : BOOLEAN, drift : BOOLEAN, first : Build, second : Build]
  /\ freeze.step \in {"none", "reviewed", "verify"}

BaselineInit ==
  /\ origin = [revision |-> 1, meaning |-> 1] /\ release = 1
  /\ working = [release |-> 0, marks |-> 0]
  /\ builds = <<>> /\ published = 0 /\ matched = {}
  /\ receipt = [build |-> 0, fixed |-> FALSE, release |-> 0]
  /\ approved = 0 /\ reviewed = Unfrozen
  /\ apply = NoApply /\ freeze = NoFreeze

-----------------------------------------------------------------------------
(*                           Between commands                              *)

Quiet == apply.step = "none" /\ freeze.step = "none"

SourceChanges(meaning) ==
  /\ origin.revision < MaxSource
  /\ origin' = [revision |-> origin.revision + 1, meaning |-> meaning]
  /\ UNCHANGED <<release, working, builds, published, receipt, approved, reviewed,
                 matched, apply, freeze>>

PackageChanges ==
  /\ Quiet /\ release < MaxPackage /\ release' = release + 1
  /\ UNCHANGED <<origin, working, builds, published, receipt, approved, reviewed,
                 matched, apply, freeze>>

(* The snapshot of the Source as it is now.                                *)
BuildNow(sound) ==
  [release |-> release, revision |-> origin.revision, meaning |-> origin.meaning, sound |-> sound]

(* An ordinary ingest refuses stores of another package, skips a Source it *)
(* has marked, and publishes what it decoded.                              *)
OrdinaryIngest ==
  /\ Quiet /\ Len(builds) < MaxBuilds
  /\ working.release \in {0, release}
  /\ working.marks # origin.revision
  /\ builds' = Append(builds, BuildNow(TRUE))
  /\ published' = Len(builds')
  /\ working' = [release |-> release, marks |-> origin.revision]
  /\ UNCHANGED <<origin, release, receipt, approved, reviewed, matched, apply, freeze>>

-----------------------------------------------------------------------------
(*                                Apply                                    *)

(* A policy that requires a fixed point is refused without a repeat.       *)
BeginApply(repeat, drift, fixed) ==
  /\ Quiet /\ (fixed => repeat)
  /\ apply' = [NoApply EXCEPT !.step = "archive", !.repeat = repeat, !.drift = drift]
  /\ UNCHANGED <<origin, release, working, builds, published, receipt, approved, reviewed,
                 matched, freeze>>

(* Stores of another package are moved aside while a snapshot, of whatever *)
(* package, is retained.  The state file follows in a step of its own.     *)
\* Faulty variant: the retained snapshot is not looked for.
RetainsNothing(anyRelease) == TRUE

RetainsSnapshot(anyRelease) ==
  published # 0 /\ (anyRelease \/ builds[published].release = release)

Step(s) == [apply EXCEPT !.step = s]

ArchiveStaleStores ==
  /\ apply.step = "archive"
  /\ IF working.release \in {0, release}
     THEN apply' = Step("reset") /\ UNCHANGED working
     ELSE /\ RetainsSnapshot(TRUE) /\ apply' = Step("drop_marks")
          /\ working' = [working EXCEPT !.release = 0]
  /\ UNCHANGED <<origin, release, builds, published, receipt, approved, reviewed,
                 matched, freeze>>

(* Stores that can be rebuilt are deleted while a snapshot of this very    *)
(* package is retained; without stores there is nothing to do.             *)
ResetWorkingStores ==
  /\ apply.step \in {"reset", "again"}
  /\ IF working.release = 0
     THEN /\ apply' = Step(IF apply.step = "reset" THEN "ingest" ELSE "ingest_again")
          /\ UNCHANGED working
     ELSE /\ RetainsSnapshot(FALSE)
          /\ apply' = Step(IF apply.step = "reset" THEN "drop_marks" ELSE "drop_again")
          /\ working' = [working EXCEPT !.release = 0]
  /\ UNCHANGED <<origin, release, builds, published, receipt, approved, reviewed,
                 matched, freeze>>

DropState ==
  /\ apply.step \in {"drop_marks", "drop_again"}
  /\ working' = [working EXCEPT !.marks = 0]
  /\ apply' = Step(IF apply.step = "drop_marks" THEN "ingest" ELSE "ingest_again")
  /\ UNCHANGED <<origin, release, builds, published, receipt, approved, reviewed,
                 matched, freeze>>

(* A forced ingest in a child process builds a candidate; nothing names it.*)
RunIngest(sound) ==
  /\ apply.step \in {"ingest", "ingest_again"} /\ Len(builds) < MaxBuilds
  /\ builds' = Append(builds, BuildNow(sound))
  /\ working' = [release |-> release, marks |-> origin.revision]
  /\ apply' = IF apply.step = "ingest"
              THEN [Step("validate") EXCEPT !.first = Len(builds')]
              ELSE [Step("validate_again") EXCEPT !.second = Len(builds')]
  /\ UNCHANGED <<origin, release, published, receipt, approved, reviewed, matched, freeze>>

(* A snapshot is rejected for the package it was built with, for what its  *)
(* stores, counts and diagnostics hold against the policy, and, where no   *)
(* drift is allowed, for a Source that has moved on.                       *)
Rejected(b, drift) ==
  \/ builds[b].release # release
  \/ ~builds[b].sound
  \/ ~drift /\ builds[b].revision # origin.revision

ValidateProject ==
  /\ apply.step \in {"validate", "validate_again"}
  /\ ~Rejected(IF apply.step = "validate" THEN apply.first ELSE apply.second, apply.drift)
  /\ apply' = Step(IF apply.step = "validate_again" THEN "compare"
                   ELSE IF apply.repeat THEN "again" ELSE "publish")
  /\ UNCHANGED <<origin, release, working, builds, published, receipt, approved, reviewed,
                 matched, freeze>>

(* Two rebuilds agree when they normalize to the same rows; without drift  *)
(* they must also have read the same revision.                             *)
Agree(a, b, drift) ==
  a.meaning = b.meaning /\ (drift \/ a.revision = b.revision)

CompareRebuilds ==
  /\ apply.step = "compare"
  /\ Agree(builds[apply.first], builds[apply.second], apply.drift)
  /\ matched' = matched \cup {apply.second}
  /\ apply' = Step("publish")
  /\ UNCHANGED <<origin, release, working, builds, published, receipt, approved, reviewed,
                 freeze>>

(* The snapshot that is queried, published and reported.                   *)
Final == IF apply.second # 0 THEN apply.second ELSE apply.first

Publish ==
  /\ apply.step = "publish" /\ published' = Final
  /\ \E approves \in BOOLEAN : apply' = Step(IF approves THEN "approve" ELSE "report")
  /\ UNCHANGED <<origin, release, working, builds, receipt, approved, reviewed, matched, freeze>>

Approve ==
  /\ apply.step = "approve" /\ approved' = Final
  /\ apply' = Step("report")
  /\ UNCHANGED <<origin, release, working, builds, published, receipt, reviewed, matched, freeze>>

WriteReport ==
  /\ apply.step = "report"
  /\ receipt' = [build |-> Final, fixed |-> apply.second # 0, release |-> release]
  /\ apply' = NoApply
  /\ UNCHANGED <<origin, release, working, builds, published, approved, reviewed, matched, freeze>>

(* Every refusal raises, every step may be the last: what is done stays.   *)
FailApply ==
  /\ apply.step # "none" /\ apply' = NoApply
  /\ UNCHANGED <<origin, release, working, builds, published, receipt, approved, reviewed,
                 matched, freeze>>

-----------------------------------------------------------------------------
(*                                Freeze                                   *)

(* The report must be of an accepted fixed point, of this package, and of  *)
(* the snapshot that is current and still validates.                       *)
\* Faulty variant: the report need not be of a fixed point.
AcceptedFromOnce ==
  /\ receipt.build # 0 /\ receipt.release = release
  /\ published # 0 /\ ~Rejected(published, TRUE)
  /\ published = receipt.build

AcceptedFromReports ==
  /\ receipt.build # 0 /\ receipt.fixed /\ receipt.release = release
  /\ published # 0 /\ ~Rejected(published, TRUE)
  /\ published = receipt.build

FreezeApproved ==
  /\ Quiet /\ AcceptedFromReports
  /\ freeze' = [step |-> "reviewed", approved |-> approved, reviewed |-> reviewed]
  /\ approved' = published
  /\ UNCHANGED <<origin, release, working, builds, published, receipt, reviewed, matched, apply>>

FreezeReviewed ==
  /\ freeze.step = "reviewed"
  /\ reviewed' = [build |-> approved, release |-> release]
  /\ freeze' = [freeze EXCEPT !.step = "verify"]
  /\ UNCHANGED <<origin, release, working, builds, published, receipt, approved, matched, apply>>

(* What was written is validated again.                                    *)
VerifyReviewed ==
  /\ freeze.step = "verify" /\ ~Rejected(reviewed.build, TRUE)
  /\ freeze' = NoFreeze
  /\ UNCHANGED <<origin, release, working, builds, published, receipt, approved, reviewed,
                 matched, apply>>

(* A failure puts both catalogs back; a kill puts neither.                 *)
RollBackFreeze ==
  /\ freeze.step # "none" /\ freeze' = NoFreeze
  /\ approved' = freeze.approved /\ reviewed' = freeze.reviewed
  /\ UNCHANGED <<origin, release, working, builds, published, receipt, matched, apply>>

KillFreeze ==
  /\ freeze.step # "none" /\ freeze' = NoFreeze
  /\ UNCHANGED <<origin, release, working, builds, published, receipt, approved, reviewed,
                 matched, apply>>

BaselineNext ==
  \/ \E v \in 1..MaxSource : SourceChanges(v)
  \/ PackageChanges \/ OrdinaryIngest
  \/ \E repeat, drift, fixed \in BOOLEAN : BeginApply(repeat, drift, fixed)
  \/ ArchiveStaleStores \/ ResetWorkingStores \/ DropState
  \/ \E sound \in BOOLEAN : RunIngest(sound)
  \/ ValidateProject \/ CompareRebuilds \/ Publish \/ Approve \/ WriteReport \/ FailApply
  \/ FreezeApproved \/ FreezeReviewed \/ VerifyReviewed \/ RollBackFreeze \/ KillFreeze

BaselineSpec == BaselineInit /\ [][BaselineNext]_baselineVars

-----------------------------------------------------------------------------
(* A frozen baseline is a fixed point of the package it was frozen under:  *)
(* it was built twice and the two builds normalize to the same, whatever   *)
(* applies, ingests, crashes and upgrades came before.                     *)
ReviewedIsAFixedPoint ==
  reviewed.build # 0 =>
    /\ reviewed.build \in matched
    /\ \E b \in 1..(reviewed.build - 1) :
         /\ builds[b].meaning = builds[reviewed.build].meaning
         /\ builds[b].release = builds[reviewed.build].release
    /\ builds[reviewed.build].release = reviewed.release

(* Working stores are given up only while a published snapshot holds what  *)
(* can be queried, so an apply that dies afterwards costs a rebuild only.  *)
DiscardLeavesASnapshot ==
  [][working.release # 0 /\ working'.release = 0 => published # 0]_baselineVars
=============================================================================
