-------------------------- MODULE CandidateReview --------------------------
(***************************************************************************)
(* The candidate catalog: a refresh reads it, adds what the scan of the    *)
(* work roots saw of Sessions and what a bounded traversal found of        *)
(* repositories, recommends, and writes the whole of it back; a reviewer   *)
(* records decisions in the same file meanwhile.                           *)
(*                                                                         *)
(* A directory is the sequence of the names below "/".  The traversal is   *)
(* that of os.walk, depth first, links not followed, in any order of       *)
(* siblings.                                                               *)
(***************************************************************************)
EXTENDS Integers, FiniteSets, Sequences, SequencesExt

CONSTANTS
  Trees,         \* [dirs, repos, noise, excluded, mounted, worked]: sets of directories
  Traversals,    \* [roots, depth, budget, timed, sameFilesystem, csv, update]
  Undecided,     \* "no decision"
  Decisions,     \* approved, deferred, excluded
  MaxRefreshes,  \* bound on the refreshes
  MaxDecisions   \* bound on the decisions

AllDirs == UNION {t.dirs : t \in Trees}
Names   == UNION {ToSet(d) : d \in AllDirs}

\* A directory stands in its parent; repositories and Sessions in directories.
ASSUME ReviewAssumption ==
  /\ Undecided \notin Decisions
  /\ MaxRefreshes \in Nat /\ MaxDecisions \in Nat
  /\ AllDirs \subseteq Seq(Names)
  /\ \A t \in Trees : /\ t.repos \subseteq t.dirs /\ t.worked \subseteq AllDirs
                      /\ \A d \in t.dirs : \A n \in 1..Len(d) : SubSeq(d, 1, n) \in t.dirs
  /\ \A q \in Traversals : /\ q.roots \in Seq(Seq(Names)) /\ q.csv \subseteq AllDirs
                           /\ q.depth \in Nat /\ q.budget \in Nat
                           /\ q.timed \in BOOLEAN

VARIABLES
  tree,        \* the directories, and the vendors' Sessions in them
  candidates,  \* the catalog file: path -> [decision, sessions, outcome]
  request,         \* options of the refresh
  pass,        \* "idle", "sessions", "walk", "write"
  draft,       \* what the refresh holds of the catalog
  walking,     \* which root is walked; 0: none yet
  waiting,     \* directories of it still to be visited
  spent,       \* directories visited, ScanBudget.directories
  partial,     \* ScanBudget.stopped_reason is set
  roots,       \* repositories found
  refreshes,
  decided,     \* history: the last decision on each path
  raced        \* history: paths decided on while a refresh was under way

reviewVars == <<tree, candidates, request, pass, draft, walking, waiting, spent, partial,
                roots, refreshes, decided, raced>>
traversal == <<walking, waiting, spent, partial, roots>>

Candidate == [decision : Decisions \cup {Undecided}, sessions : 0..1,
              outcome : {"none", "exclude", "consider", "defer"}]
Blank == [decision |-> Undecided, sessions |-> 0, outcome |-> "none"]
CandidateLists == UNION {[D -> Candidate] : D \in SUBSET AllDirs}

ReviewTypeOK ==
  /\ tree \in Trees /\ request \in Traversals
  /\ DOMAIN candidates \subseteq AllDirs /\ \A d \in DOMAIN candidates : candidates[d] \in Candidate
  /\ DOMAIN draft \subseteq AllDirs /\ \A d \in DOMAIN draft : draft[d] \in Candidate
  /\ pass \in {"idle", "sessions", "walk", "write"}
  /\ walking \in Nat /\ waiting \subseteq AllDirs
  /\ spent \in Nat /\ partial \in BOOLEAN /\ roots \subseteq AllDirs
  /\ refreshes \in 0..MaxRefreshes
  /\ DOMAIN decided \subseteq AllDirs /\ raced \subseteq AllDirs

ReviewInit ==
  /\ tree \in Trees /\ request \in Traversals
  /\ candidates = <<>> /\ draft = <<>> /\ pass = "idle"
  /\ walking = 0 /\ waiting = {} /\ spent = 0 /\ partial = FALSE /\ roots = {}
  /\ refreshes = 0 /\ decided = <<>> /\ raced = {}

Merged(under, over) ==
  [d \in DOMAIN under \cup DOMAIN over |-> IF d \in DOMAIN over THEN over[d] ELSE under[d]]

\* The rows of a candidate CSV, and over them the entries of the catalog.
ReadCatalog ==
  /\ pass = "idle" /\ refreshes < MaxRefreshes
  /\ draft' = Merged([d \in request.csv |-> Blank], candidates)
  /\ refreshes' = refreshes + 1 /\ pass' = "sessions"
  /\ walking' = 0 /\ waiting' = {} /\ spent' = 0 /\ partial' = FALSE /\ roots' = {}
  /\ UNCHANGED <<tree, candidates, request, decided, raced>>

\* The rows of walk_sessions; an entry without one keeps what was seen earlier.
ObserveSessions ==
  /\ pass = "sessions" /\ pass' = "walk"
  /\ draft' = Merged(draft, [d \in tree.worked |->
       [(IF d \in DOMAIN draft THEN draft[d] ELSE Blank) EXCEPT !.sessions = 1]])
  /\ UNCHANGED <<tree, candidates, request, traversal, refreshes, decided, raced>>

\* The next root, if there is such a directory and it is not too broad a one.
EnterRoot ==
  /\ pass = "walk" /\ ~partial /\ waiting = {} /\ walking < Len(request.roots)
  /\ walking' = walking + 1
  /\ waiting' = {request.roots[walking + 1]} \cap tree.dirs
  /\ UNCHANGED <<tree, candidates, request, pass, draft, spent, partial, roots,
                 refreshes, decided, raced>>

Root == request.roots[walking]
Depth(d) == Len(d) - Len(Root)
Children(d) == {e \in tree.dirs : Len(e) = Len(d) + 1 /\ IsPrefix(d, e)}

\* Not entered: what is too deep, beyond a mount, or excluded.
Closed(d) ==
  \/ Depth(d) > request.depth
  \/ request.sameFilesystem /\ d \in tree.mounted
  \/ d \in tree.excluded

\* One directory: over the budget or the time, the whole traversal ends; a
\* repository is one candidate, and nothing below it is looked at.
VisitDirectory(d) ==
  /\ pass = "walk" /\ ~partial
  /\ d \in waiting /\ \A e \in waiting : Len(e) <= Len(d)
  /\ spent' = spent + 1
  /\ \/ /\ (request.budget > 0 /\ spent' > request.budget) \/ request.timed
        /\ partial' = TRUE /\ UNCHANGED <<waiting, roots>>
     \/ /\ ~(request.budget > 0 /\ spent' > request.budget)
        /\ roots' = IF ~Closed(d) /\ d \in tree.repos THEN roots \cup {d} ELSE roots
        /\ waiting' = (waiting \ {d}) \cup
             IF Closed(d) \/ d \in tree.repos THEN {} ELSE Children(d) \ tree.noise
        /\ UNCHANGED partial
  /\ UNCHANGED <<tree, candidates, request, pass, draft, walking, refreshes, decided, raced>>

Recommend(d, c) ==
  IF d \notin tree.dirs THEN "exclude"
  ELSE IF c.sessions > 0 \/ d \in tree.repos THEN "consider" ELSE "defer"

\* The repositories found are added, and every entry gets its recommendation.
EndTraversal ==
  /\ pass = "walk" /\ (partial \/ (waiting = {} /\ walking = Len(request.roots)))
  /\ LET all == Merged([d \in roots |-> Blank], draft)
     IN  draft' = [d \in DOMAIN all |-> [all[d] EXCEPT !.outcome = Recommend(d, all[d])]]
  /\ pass' = "write"
  /\ UNCHANGED <<tree, candidates, request, traversal, refreshes, decided, raced>>

\* The report is written over the catalog, when that was asked for.
WriteCatalog ==
  /\ pass = "write" /\ pass' = "idle"
  /\ candidates' = IF request.update THEN draft ELSE candidates
  /\ UNCHANGED <<tree, request, draft, traversal, refreshes, decided, raced>>

\* record_decision reads and replaces the catalog.
Decide(d, choice) ==
  /\ d \in DOMAIN candidates /\ Cardinality(DOMAIN decided) < MaxDecisions
  /\ candidates' = [candidates EXCEPT ![d].decision = choice]
  /\ decided' = Merged(decided, [e \in {d} |-> choice])
  /\ raced' = IF pass = "idle" THEN raced \ {d} ELSE raced \cup {d}
  /\ UNCHANGED <<tree, request, pass, draft, traversal, refreshes>>

\* Directories go and come, and Sessions with them, between refreshes; the next
\* refresh may be asked otherwise.
ChangeTree ==
  /\ pass = "idle" /\ tree' \in Trees /\ request' \in Traversals
  /\ refreshes > 0 /\ refreshes < MaxRefreshes
  /\ UNCHANGED <<candidates, pass, draft, traversal, refreshes, decided, raced>>

ReviewNext ==
  \/ ReadCatalog \/ ObserveSessions \/ EnterRoot \/ EndTraversal \/ WriteCatalog
  \/ ChangeTree
  \/ \E d \in AllDirs : VisitDirectory(d) \/ \E x \in Decisions : Decide(d, x)

ReviewSpec == ReviewInit /\ [][ReviewNext]_reviewVars

-----------------------------------------------------------------------------
\* The repositories below a root that no repository, exclusion, noise, mount or
\* depth keeps out.
Discoverable(root) ==
  {g \in tree.repos :
     /\ IsPrefix(root, g) /\ Len(g) - Len(root) <= request.depth
     /\ \A d \in {a \in tree.dirs : IsPrefix(root, a) /\ IsPrefix(a, g)} :
          /\ d \notin tree.excluded /\ (request.sameFilesystem => d \notin tree.mounted)
          /\ d # g => d \notin tree.repos
          /\ d # root => d \notin tree.noise}

\* A traversal that was not cut short finds them all, one that was finds some of
\* them, within one directory of its budget (discover_git_roots, ScanBudget).
TraversalIsComplete ==
  pass = "write" =>
    LET all == UNION {Discoverable(r) : r \in ToSet(request.roots) \cap tree.dirs}
    IN  /\ roots \subseteq all
        /\ partial \/ roots = all
        /\ request.budget > 0 => spent <= request.budget + 1
        /\ roots \subseteq DOMAIN draft

\* A decision outlasts the refreshes that began after it, and no refresh drops
\* an entry; one that was recorded during a refresh may be written over
\* (refresh_candidates, record_decision).
DecisionsOutlast ==
  \A d \in DOMAIN decided :
    /\ d \in DOMAIN candidates
    /\ d \notin raced => candidates[d].decision = decided[d]
=============================================================================
