-------------------------- MODULE RefreshReceipts --------------------------
(***************************************************************************)
(* Routine refreshes of catalog Projects and the receipts they leave.      *)
(*                                                                         *)
(* A refresh resolves its plan, validates every Project of it in a child   *)
(* process, compares the plan with the catalog once more, and ingests one  *)
(* Project after the other; the receipt is written after every step.  An   *)
(* ingest publishes first and leaves its report in the Project later, and  *)
(* nothing keeps the ingests of other refreshes out meanwhile.  The result *)
(* of a child is read from the report found there when it has ended, which *)
(* is that of another ingest when this one left none or was written over.  *)
(* catalog_readiness tells what became of a Project from the newest        *)
(* receipts.  Of time only the order is kept: in which order receipts were *)
(* last written, and in which order the results of a Project were obtained.*)
(***************************************************************************)
EXTENDS Integers, FiniteSets, Sequences, SequencesExt

CONSTANTS
  Target,          \* Projects of the catalog, numbered in the order of names
  Plans,           \* selections of Projects that are refreshed
  Refresh,         \* refreshes that may be started
  MaxSnapshot,     \* bound on the snapshots of a Project
  ReceiptLimit     \* how many receipts a reader looks at

ASSUME RefreshAssumption ==
  /\ Target \subseteq Nat /\ IsFiniteSet(Target)
  /\ Plans \subseteq (SUBSET Target) \ {{}}
  /\ MaxSnapshot \in Nat
  /\ ReceiptLimit \in Nat \ {0}

Snapshot == 0..MaxSnapshot        \* 0: no snapshot
Missing == [status |-> "missing", snapshot |-> 0]
Result  == [status : {"passed", "failed"}, snapshot : Snapshot]
Results == [Target -> Result \cup {Missing}]
Receipt == [status : {"planned", "preflight_rejected", "preflight_accepted",
                      "apply_blocked", "applied", "partial_failure",
                      "apply_failed"},
            plan : SUBSET Target,
            preflight : Results, apply : Results]

VARIABLES
  current,    \* current snapshot of each Project
  report,     \* snapshot named by the ingest report in each Project
  obtained,   \* of each Project, where its results were obtained, in order
  stage,      \* where each refresh is
  stale,      \* refreshes whose plan no longer matches the catalog
  child,      \* the ingest of each refresh whose result is not on record
  held,       \* the receipt each refresh holds
  receipts,   \* the receipts on disk
  written,    \* refreshes in the order in which their receipts were last written
  ended,      \* history: Projects whose ingest each refresh has seen through
  together    \* history: whether two refreshes were ever at work at once

targets  == <<current, report>>
records  == <<held, receipts, written>>
refreshVars == <<targets, obtained, stage, stale, child, records, ended, together>>

NoResults == [p \in Target |-> Missing]
NoReceipt == [status |-> "planned", plan |-> {},
              preflight |-> NoResults, apply |-> NoResults]
NoChild   == [target |-> -1, status |-> "failed", found |-> 0, floor |-> 0]
\* An ingest: the snapshot it published or found current, and (history) the oldest
\* snapshot that was then published and not yet reported.
Child == [target : Target \cup {-1}, status : {"begun", "published", "passed", "failed"},
          found : Snapshot, floor : Snapshot]

RefreshTypeOK ==
  /\ current \in [Target -> Snapshot] /\ report \in [Target -> Snapshot]
  /\ obtained \in [Target -> Seq(Refresh \X {"preflight", "apply"})]
  /\ stage \in [Refresh -> {"none", "preflight", "compare", "apply", "done"}]
  /\ stale \subseteq Refresh
  /\ child \in [Refresh -> Child]
  /\ held \in [Refresh -> Receipt] /\ receipts \in [Refresh -> Receipt]
  /\ written \in Seq(Refresh)
  /\ ended \in [Refresh -> SUBSET Target] /\ together \in BOOLEAN

RefreshInit ==
  /\ current = [p \in Target |-> 0] /\ report = [p \in Target |-> 0]
  /\ obtained = [p \in Target |-> <<>>]
  /\ stage = [r \in Refresh |-> "none"] /\ stale = {}
  /\ child = [r \in Refresh |-> NoChild]
  /\ held = [r \in Refresh |-> NoReceipt]
  /\ receipts = [r \in Refresh |-> NoReceipt] /\ written = <<>>
  /\ ended = [r \in Refresh |-> {}] /\ together = FALSE

-----------------------------------------------------------------------------
\* The receipts in the order of their last writes, once that of r is written.
LastWritten(r) ==
  Append(IF r \in ToSet(written)
         THEN RemoveAt(written, CHOOSE k \in DOMAIN written : written[k] = r)
         ELSE written, r)

\* The receipt is changed and written as a whole (checkpoint).
\* Faulty variant: a receipt is not written before the apply.
CheckpointLazy(r, new) ==
  /\ held' = [held EXCEPT ![r] = new]
  /\ receipts' = IF new.status = "preflight_accepted" THEN receipts
                                                     ELSE [receipts EXCEPT ![r] = new]
  /\ written' = LastWritten(r)
Checkpoint(r, new) ==
  /\ held' = [held EXCEPT ![r] = new]
  /\ receipts' = [receipts EXCEPT ![r] = new]
  /\ written' = LastWritten(r)

Obtain(r, p, kind) == obtained' = [obtained EXCEPT ![p] = Append(@, <<r, kind>>)]

\* A refresh goes on to a stage; the catalog matters until it was compared.
GoTo(r, s) ==
  /\ stage' = [stage EXCEPT ![r] = s]
  /\ stale' = IF s \in {"preflight", "compare"} THEN stale ELSE stale \ {r}

\* Another command or ingest changes the catalog.
EditCatalog ==
  /\ stale' = {r \in Refresh : stage[r] \in {"preflight", "compare"}}
  /\ UNCHANGED <<targets, obtained, stage, child, records, ended, together>>

StartRefresh(r, plan) ==
  /\ stage[r] = "none"
  /\ GoTo(r, "preflight")
  /\ Checkpoint(r, [NoReceipt EXCEPT !.plan = plan])
  /\ together' = (together \/ \E q \in Refresh : stage[q] \notin {"none", "done"})
  /\ UNCHANGED <<targets, obtained, child, ended>>

\* Projects are taken in the order of their names.
IsNext(p, results, plan) ==
  /\ p \in plan /\ results[p] = Missing
  /\ \A q \in plan : results[q] = Missing => p <= q

\* The child validates without touching the Project.
Preflight(r, p, status) ==
  /\ stage[r] = "preflight" /\ IsNext(p, held[r].preflight, held[r].plan)
  /\ Checkpoint(r, [held[r] EXCEPT !.preflight[p] = [status |-> status, snapshot |-> 0]])
  /\ Obtain(r, p, "preflight")
  /\ UNCHANGED <<targets, stage, stale, child, ended, together>>

\* Every Project has to have passed; a refresh may be asked for no more.
\* Faulty variant: one Project that passed is enough.
PreflightPassedAny(r) == \E p \in held[r].plan : held[r].preflight[p].status = "passed"
PreflightPassed(r) == \A p \in held[r].plan : held[r].preflight[p].status = "passed"

EndPreflight(r) ==
  /\ stage[r] = "preflight"
  /\ \A p \in held[r].plan : held[r].preflight[p] # Missing
  /\ Checkpoint(r, [held[r] EXCEPT !.status = IF PreflightPassed(r)
                      THEN "preflight_accepted" ELSE "preflight_rejected"])
  /\ GoTo(r, "done") \/ (PreflightPassed(r) /\ GoTo(r, "compare"))
  /\ UNCHANGED <<targets, obtained, child, ended, together>>

\* The plan is resolved again and compared once.
Compare(r) ==
  /\ stage[r] = "compare" /\ r \notin stale
  /\ GoTo(r, "apply")
  /\ UNCHANGED <<targets, obtained, child, records, ended, together>>

BlockApply(r) ==
  /\ stage[r] = "compare" /\ r \in stale
  /\ Checkpoint(r, [held[r] EXCEPT !.status = "apply_blocked"])
  /\ GoTo(r, "done")
  /\ UNCHANGED <<targets, obtained, child, ended, together>>

-----------------------------------------------------------------------------
IngestBegins(r, p) ==
  /\ stage[r] = "apply" /\ child[r] = NoChild
  /\ IsNext(p, held[r].apply, held[r].plan)
  /\ child' = [child EXCEPT ![r] = [NoChild EXCEPT !.target = p, !.status = "begun"]]
  /\ UNCHANGED <<targets, obtained, stage, stale, records, ended, together>>

\* Snapshots of a Project that ingests are still to report.
Unreported(p) ==
  {child[q].found : q \in {q \in Refresh : child[q].target = p /\ child[q].status = "published"}}

\* A snapshot is published, or nothing is due and the current one is found.
IngestPublishes(r) ==
  /\ child[r].status = "begun"
  /\ \E s \in {current[child[r].target], current[child[r].target] + 1} \cap Snapshot :
       /\ current' = [current EXCEPT ![child[r].target] = s]
       /\ child' = [child EXCEPT ![r].status = "published", ![r].found = s,
                                 ![r].floor = Min({s} \cup Unreported(child[r].target))]
  /\ UNCHANGED <<report, obtained, stage, stale, records, ended, together>>

\* What the report of the Project may name once an ingest ended: one that passed
\* has written it, one that failed after it published may have.
\* Faulty variant: the report stays that of an earlier ingest.
ReportedNever(r, status) == {report[child[r].target]}
Reported(r, status) ==
  (IF child[r].status = "published" THEN {child[r].found} ELSE {}) \cup
  (IF status = "failed" THEN {report[child[r].target]} ELSE {})

\* It writes its report and ends, or it fails or is killed at any moment.
IngestEnds(r, status) ==
  /\ child[r].status = "published" \/ (child[r].status = "begun" /\ status = "failed")
  /\ \E named \in Reported(r, status) :
       report' = [report EXCEPT ![child[r].target] = named]
  /\ child' = [child EXCEPT ![r].status = status]
  /\ Obtain(r, child[r].target, "apply")
  /\ ended' = [ended EXCEPT ![r] = @ \cup {child[r].target}]
  /\ UNCHANGED <<current, stage, stale, records, together>>

\* Its result is completed from the report found now and put on record.
CollectResult(r) ==
  /\ child[r] # NoChild /\ child[r].status \in {"passed", "failed"}
  /\ Checkpoint(r, [held[r] EXCEPT !.apply[child[r].target] =
                      [status |-> child[r].status, snapshot |-> report[child[r].target]]])
  /\ child' = [child EXCEPT ![r] = NoChild]
  /\ UNCHANGED <<targets, obtained, stage, stale, ended, together>>

Verdict(r) ==
  LET passed == {p \in held[r].plan : held[r].apply[p].status = "passed"}
  IN  IF passed = held[r].plan THEN "applied"
      ELSE IF passed # {} THEN "partial_failure" ELSE "apply_failed"

EndApply(r) ==
  /\ stage[r] = "apply" /\ child[r] = NoChild
  /\ \A p \in held[r].plan : held[r].apply[p] # Missing
  /\ Checkpoint(r, [held[r] EXCEPT !.status = Verdict(r)])
  /\ GoTo(r, "done")
  /\ UNCHANGED <<targets, obtained, child, ended, together>>

\* The refresh is interrupted: its ingest is killed with it, and one that ended
\* is not recorded any more.
Interrupt(r) ==
  /\ stage[r] \notin {"none", "done"}
  /\ GoTo(r, "done")
  /\ child' = [child EXCEPT ![r] = NoChild]
  /\ UNCHANGED <<targets, obtained, records, ended, together>>

RefreshNext ==
  \/ EditCatalog
  \/ \E r \in Refresh :
       \/ \E plan \in Plans : StartRefresh(r, plan)
       \/ \E p \in Target, status \in {"passed", "failed"} :
            Preflight(r, p, status) \/ IngestEnds(r, status)
       \/ \E p \in Target : IngestBegins(r, p)
       \/ IngestPublishes(r)
       \/ EndPreflight(r) \/ Compare(r) \/ BlockApply(r)
       \/ CollectResult(r) \/ EndApply(r) \/ Interrupt(r)

RefreshSpec == RefreshInit /\ [][RefreshNext]_refreshVars

-----------------------------------------------------------------------------
\* latest_refresh_observations: the receipts last written, and among the results
\* they hold for a Project the one obtained last (0 if there is none).
Newest == {written[i] : i \in {k \in DOMAIN written : k + ReceiptLimit > Len(written)}}

OnRecord(p, among) ==
  {i \in DOMAIN obtained[p] :
     LET r == obtained[p][i][1]
     IN  r \in among /\ IF obtained[p][i][2] = "apply"
                         THEN receipts[r].apply[p] # Missing
                         ELSE receipts[r].preflight[p] # Missing}

\* Faulty variant: the first result on record, not the last.
LatestFirst(p) == IF OnRecord(p, Newest) = {} THEN 0
                  ELSE CHOOSE i \in OnRecord(p, Newest) :
                         \A j \in OnRecord(p, Newest) : j >= i
Latest(p) == IF OnRecord(p, Newest) = {} THEN 0
             ELSE CHOOSE i \in OnRecord(p, Newest) :
                    \A j \in OnRecord(p, Newest) : j <= i

\* A refresh that ingested a Project has on disk that every Project of its plan
\* passed, whatever became of it, and its receipt lacks the result of at most
\* one ingest that was seen through (refresh_projects checkpoints each).
ReceiptCoversWork ==
  \A r \in Refresh : ended[r] # {} =>
    /\ \A p \in receipts[r].plan : /\ receipts[r].preflight[p] # Missing
                                   /\ receipts[r].preflight[p].status = "passed"
    /\ Cardinality({p \in ended[r] : receipts[r].apply[p] = Missing}) <= 1

\* A result that passed names the snapshot its ingest published or found, or a
\* newer one; an older one only if another ingest of the Project had published
\* that and not yet reported it when this one published: each writes over the
\* report the result is read from, later than it published (_publish_project,
\* _write_runtime_report, _result_summary).
NamesItsSnapshot ==
  [][\A r \in Refresh : CollectResult(r) /\ child[r].status = "passed" =>
       receipts'[r].apply[child[r].target].snapshot \in
         child[r].floor..current[child[r].target]]_refreshVars

\* While refreshes do not overlap, what is said of a Project is the last result
\* any receipt holds for it, or nothing: the limit on receipts never brings an
\* older one back (latest_refresh_observations).
NeverOutdated ==
  ~together => \A p \in Target : Latest(p) # 0 =>
    \A i \in OnRecord(p, Refresh) : i <= Latest(p)

\* The receipts on disk tell what was done, and their readers the last of it.
ReceiptsTellWhatWasDone == ReceiptCoversWork /\ NeverOutdated
=============================================================================
