------------------------------ MODULE Discovery ------------------------------
(***************************************************************************)
(* What finds Projects and keeps account of them: the scan for Sessions    *)
(* (SessionScan), what is noted of paths (ProjectRegistry), the candidates *)
(* and the decisions on them (CandidateReview), and the validation of a    *)
(* snapshot (SnapshotValidation).  They share no state: their composition  *)
(* is that every one of them behaves as it does alone.                     *)
(***************************************************************************)
EXTENDS SessionScan, ProjectRegistry, CandidateReview, SnapshotValidation

DiscoverySpec == ScanSpec /\ RegistrySpec /\ ReviewSpec /\ ValidationSpec /\ DigestSpec

\* Every component is well typed (the type invariants of the four modules).
DiscoveryTypeOK == ScanTypeOK /\ RegistryTypeOK /\ ReviewTypeOK /\ ValidationTypeOK

\* What is looked for is found or accounted for: sessions are counted once, and
\* none is left out of a report without a word; a traversal finds every
\* repository it may enter, unless it says that it was cut short (walk_sessions,
\* discover_git_roots).
DiscoveryAccounts == CountsOnce /\ NothingIsLost /\ TraversalIsComplete

\* What was recorded of a path stays on record: the facts of the registry, and a
\* reviewer's decision (registry_store, review_project).
RecordsOutlast == RegistryRemembers /\ DecisionsOutlast

\* What a report says is so: which of several places is the original and how
\* many Projects a window hides, the verdict on a snapshot, and that two
\* rebuilds agree (project_lifecycle, walk_sessions, baseline_validation).
ReportsTellTheTruth ==
  OnePlaceIsTheOriginal /\ HiddenAreCounted /\ VerdictIsTheSnapshots /\ DigestIsOfTheRows
=============================================================================
