----------------------------- MODULE QueryScope -----------------------------
(***************************************************************************)
(* One query command: which Projects it selects, which snapshots of them   *)
(* it resolves, how it opens them one after another while others publish,  *)
(* curate and prune, and the reports it then makes (cli/query_cmd.py,      *)
(* query_reports.py, project_catalog.resolve_project_query_scopes).        *)
(*                                                                         *)
(* The stores of one snapshot are taken together; the central and local    *)
(* bases of a Project keep the same snapshots (SnapshotPublication is      *)
(* about their differences).  The release a Project has before its first   *)
(* snapshot, number 0, stands for its working stores.                      *)
(***************************************************************************)
EXTENDS Integers, Sequences, FiniteSets, SequencesExt, Orders

CONSTANTS
  Project,        \* Projects, numbered in the order of their paths
  Release,        \* snapshots that may be published, of the form ReleaseRow
  ScopeRequest,   \* BOUND: the selections commands make, of the form Selector
  MaxCommands     \* BOUND: commands run

NoSnapshot == 0
AnyNumber == -1
Utterance == [does : {"call", "result"}, link : Nat]     \* link 0: no identifier recorded
SessionRow == [id : Nat, vendor : Nat, ended : Nat,      \* ended 0: no time recorded
               says : Seq(Utterance)]
ReleaseRow == [project : Project, name : Nat,
               matches : BOOLEAN,                        \* written under this contract
               sessions : SUBSET SessionRow]
Selector == [by : {"projects", "set", "all", "paths"},
             items : SUBSET (Project \X Nat),            \* the snapshot, or 0 for the current one
             snapshot : Nat,                             \* --snapshot-id, or 0
             vendors : SUBSET Nat,                       \* --source, or {} for all
             compatible : BOOLEAN]                       \* --snapshot-policy read-compatible

\* A store holds a Session of a vendor once.
SessionsTellApart(sessions) ==
  \A s, t \in sessions : s.id = t.id /\ s.vendor = t.vendor => s = t

ASSUME QueryScopeAssumption ==
  /\ Project \subseteq Nat /\ IsFiniteSet(Project) /\ MaxCommands \in Nat
  /\ Release \subseteq ReleaseRow
  /\ \A r, s \in Release : r.project = s.project /\ r.name = s.name => r = s
  /\ \A r \in Release : IsFiniteSet(r.sessions) /\ SessionsTellApart(r.sessions)
  /\ ScopeRequest \subseteq Selector
  /\ \A q \in ScopeRequest : IsFiniteSet(q.items) /\ (q.by = "all" => q.items = {})

VARIABLES
  disposition,    \* of each Project in the catalog: "absent", "active", "excluded"
  serving,        \* the snapshot each Project serves, or NoSnapshot
  available,           \* the releases that can be opened
  selector,       \* the selection of the command
  scopes,         \* Projects (with snapshots) still to open
  opened,         \* releases opened, in order
  command,        \* "none", "opening", "answered", "refused"
  registry,       \* counts of each Project in the registry
  doubled,        \* HISTORY: Projects counted from two observations at once
  listing,        \* the last numbered listing
  shown,          \* the Session the command showed
  request,        \* a typed request saved
  replayed,       \* the command answered the saved request
  lineage,        \* the calls and results the command paired
  commands

scopeVars == <<disposition, serving, available, selector, scopes, opened, command, registry, doubled,
               listing, shown, request, replayed, lineage, commands>>
worldVars == <<disposition, serving, available>>
outputVars == <<listing, shown, request, replayed, lineage>>

NoCounts  == [sessions |-> -1, events |-> -1]
NoListing == [made |-> FALSE, reading |-> <<>>, rows |-> <<>>]
NoRow     == [made |-> FALSE, reading |-> <<>>, number |-> 0, row |-> <<>>]
NoSaved   == [made |-> FALSE, by |-> "paths", snapshot |-> 0, projects |-> {}, snapshots |-> {}, read |-> {}]
NoLineage == [made |-> FALSE, rows |-> {}]
NoSelector == [by |-> "paths", items |-> {}, snapshot |-> 0, vendors |-> {}, compatible |-> FALSE]

QueryScopeTypeOK ==
  /\ disposition \in [Project -> {"absent", "active", "excluded"}]
  /\ serving \in [Project -> Nat] /\ available \subseteq Release
  /\ scopes \in Seq(Project \X Nat) /\ opened \in Seq(Release)
  /\ command \in {"none", "opening", "answered", "refused"}
  /\ \A p \in Project : registry[p].sessions >= -1 /\ registry[p].events >= -1
  /\ doubled \subseteq Project /\ commands \in 0..MaxCommands
  /\ {listing.made, shown.made, request.made, lineage.made, replayed} \subseteq BOOLEAN

QueryScopeInit ==
  /\ disposition = [p \in Project |-> "absent"]
  /\ serving = [p \in Project |-> NoSnapshot]
  /\ available = {r \in Release : r.name = NoSnapshot}
  /\ selector = NoSelector /\ scopes = <<>> /\ opened = <<>> /\ command = "none"
  /\ registry = [p \in Project |-> NoCounts] /\ doubled = {}
  /\ listing = NoListing /\ shown = NoRow /\ request = NoSaved /\ replayed = FALSE
  /\ lineage = NoLineage /\ commands = 0

---------------------------------------------------------------------------
\* What other commands do meanwhile.

\* A snapshot becomes the current one of its Project, which enters the catalog.
Publish(r) ==
  /\ r.name > serving[r.project]
  /\ serving' = [serving EXCEPT ![r.project] = r.name]
  /\ available' = available \cup {r}
  /\ disposition' = [disposition EXCEPT ![r.project] = IF @ = "absent" THEN "active" ELSE @]

\* A Project in the catalog is excluded or taken back.
Curate(p) ==
  /\ disposition[p] # "absent"
  /\ disposition' = [disposition EXCEPT ![p] = IF @ = "active" THEN "excluded" ELSE "active"]
  /\ UNCHANGED <<serving, available>>

\* Retention removes a superseded snapshot.
PruneRelease(r) ==
  /\ r \in available /\ r.name \notin {NoSnapshot, serving[r.project]}
  /\ available' = available \ {r}
  /\ UNCHANGED <<disposition, serving>>

Meanwhile ==
  /\ \/ \E r \in Release : Publish(r) \/ PruneRelease(r)
     \/ \E p \in Project : Curate(p)
  /\ UNCHANGED <<selector, scopes, opened, command, registry, doubled, commands, outputVars>>

---------------------------------------------------------------------------
\* Resolving and opening.

Openable(r, q) == r \in available /\ (r.matches \/ q.compatible)
ReleaseOf(p, n) == CHOOSE r \in Release : r.project = p /\ r.name = n

\* All that is current: Projects not excluded, with a snapshot that can be opened.
AllCurrent(q) ==
  {<<p, serving[p]>> : p \in
     {x \in Project : /\ disposition[x] = "active" /\ serving[x] # NoSnapshot
                      /\ Openable(ReleaseOf(x, serving[x]), q)}}

Requested(q) == IF q.by = "all" THEN AllCurrent(q) ELSE q.items

\* A Project asked for without a snapshot is asked for at its current one; items
\* that come to be the same stay two.
AtCurrent(item) == <<item[1], IF item[2] = NoSnapshot THEN serving[item[1]] ELSE item[2]>>
RootBefore(x, y) == x[1] < y[1] \/ (x[1] = y[1] /\ x[2] < y[2])
ItemBefore(x, y) ==
  \/ RootBefore(AtCurrent(x), AtCurrent(y))
  \/ AtCurrent(x) = AtCurrent(y) /\ x[2] < y[2]
RootsInOrder(items) == ListOf(items, RootBefore)
InOrder(items) ==
  LET order == ListOf(items, ItemBefore)
  IN [i \in DOMAIN order |-> AtCurrent(order[i])]

Refusable(q) ==
  \/ Requested(q) = {}
  \/ q.by # "paths" /\ \E x \in Requested(q) : disposition[x[1]] = "absent"
                                              \/ AtCurrent(x)[2] = NoSnapshot
  \/ q.snapshot # 0 /\ (q.by \in {"set", "all"} \/ Cardinality(Requested(q)) # 1)

\* A command begins: Projects selected by identity are resolved to snapshots now,
\* those selected by path when they are opened.
Resolve(q) ==
  /\ command # "opening" /\ commands < MaxCommands
  /\ commands' = commands + 1
  /\ selector' = q /\ opened' = <<>>
  /\ IF Refusable(q) THEN command' = "refused" /\ scopes' = <<>>
     ELSE /\ command' = "opening"
          /\ scopes' = IF q.by = "paths" THEN RootsInOrder(q.items) ELSE InOrder(Requested(q))
  /\ shown' = NoRow /\ replayed' = FALSE /\ lineage' = NoLineage
  /\ UNCHANGED <<worldVars, registry, doubled, listing, request>>

\* What is opened for a Project: the snapshot asked for, or else the one resolved,
\* or else (a path) the one that is current now; its working stores if there is none.
Wanted(scope) ==
  IF selector.snapshot # 0 THEN selector.snapshot
  ELSE IF selector.by = "paths" THEN serving[scope[1]] ELSE scope[2]

\* The policy does not apply to the current snapshot of a path.
PolicyApplies == selector.by # "paths" \/ selector.snapshot # 0
MayOpen(r) == r \in available /\ (r.matches \/ (selector.compatible /\ PolicyApplies))

RefuseCommand == command' = "refused" /\ scopes' = <<>> /\ opened' = <<>>

OpenNext ==
  /\ command = "opening" /\ scopes # <<>>
  /\ LET p == Head(scopes)[1]
         n == Wanted(Head(scopes))
         found == {r \in Release : r.project = p /\ r.name = n}
     IN \/ /\ \E r \in found : MayOpen(r) /\ opened' = Append(opened, r)
           /\ scopes' = Tail(scopes) /\ UNCHANGED command
        \/ /\ found = {} /\ n = NoSnapshot       \* a path without stores
           /\ scopes' = Tail(scopes) /\ UNCHANGED <<opened, command>>
        \/ /\ (found = {} /\ n # NoSnapshot) \/ (\E r \in found : ~MayOpen(r))
           /\ RefuseCommand
  /\ UNCHANGED <<worldVars, selector, registry, doubled, commands, outputVars>>

NoStore ==
  /\ command = "opening" /\ scopes = <<>> /\ opened = <<>>
  /\ RefuseCommand
  /\ UNCHANGED <<worldVars, selector, registry, doubled, commands, outputVars>>

Ready == command = "opening" /\ scopes = <<>> /\ opened # <<>>
Done == command' = "answered" /\ UNCHANGED <<worldVars, selector, scopes, opened, commands>>

---------------------------------------------------------------------------
\* Reports on Sessions.

Ours(s) == selector.vendors = {} \/ s.vendor \in selector.vendors
Found(i) == {[of |-> i, project |-> opened[i].project, session |-> s] :
               s \in {x \in opened[i].sessions : Ours(x)}}
AllFound == UNION {Found(i) : i \in DOMAIN opened}

\* The latest first, those without a time last; then by Project, vendor, Session and store.
SortKey(x) == <<-x.session.ended, x.project, x.session.vendor, x.session.id, x.of>>
SortsBefore(k, l) == \E i \in DOMAIN k : k[i] < l[i] /\ \A j \in 1..i - 1 : k[j] = l[j]

FirstOf(list, n) == IF n = AnyNumber \/ Len(list) <= n THEN list ELSE SubSeq(list, 1, n)
ListedBefore(x, y) == SortsBefore(SortKey(x), SortKey(y))
Sorted(found) == ListOf(found, ListedBefore)

\* The limit is applied once all rows of all stores are in order.
SessionsInOrder(n) == FirstOf(Sorted(AllFound), n)

\* What a report reads: the snapshots opened and the vendors kept.
Reading == <<[i \in DOMAIN opened |-> <<opened[i].project, opened[i].name>>], selector.vendors>>

ListSessions(n) ==
  /\ Ready /\ Done
  /\ listing' = [made |-> TRUE, reading |-> Reading, rows |-> SessionsInOrder(n)]
  /\ UNCHANGED <<registry, doubled, shown, request, replayed, lineage>>

\* A Session is shown by its number, which asks for that many rows, or by an
\* identity that only one row has.
ShowNumber(n) ==
  /\ Ready
  /\ LET list == SessionsInOrder(n)
     IN IF n \in DOMAIN list
        THEN /\ Done
             /\ shown' = [made |-> TRUE, reading |-> Reading, number |-> n, row |-> <<list[n]>>]
        ELSE RefuseCommand /\ UNCHANGED <<worldVars, selector, commands, shown>>
  /\ UNCHANGED <<registry, doubled, listing, request, replayed, lineage>>

ShowIdentified(id) ==
  /\ Ready
  /\ LET same == {x \in AllFound : x.session.id = id}
     IN IF Cardinality(same) = 1
        THEN /\ Done
             /\ shown' = [made |-> TRUE, reading |-> Reading, number |-> 0, row |-> SetToSeq(same)]
        ELSE RefuseCommand /\ UNCHANGED <<worldVars, selector, commands, shown>>
  /\ UNCHANGED <<registry, doubled, listing, request, replayed, lineage>>

---------------------------------------------------------------------------
\* Counts, and what of them the registry remembers.

ProjectsOpened == {opened[i].project : i \in DOMAIN opened}
Roots == IF selector.by = "paths" THEN {x[1] : x \in selector.items} ELSE ProjectsOpened
CountsOf(found) ==
  [sessions |-> Cardinality(found),
   events   |-> Cardinality(UNION {{x} \X DOMAIN x.session.says : x \in found})]

\* Counts of a snapshot named, or of some vendors only, are not remembered.
Remembers == selector.snapshot = 0 /\ selector.vendors = {}

\* A Project without stores counts nothing.
CountStats ==
  /\ Ready /\ Done
  /\ IF ~Remembers THEN UNCHANGED <<registry, doubled>>
     ELSE /\ registry' = [p \in Project |->
               IF p \in Roots THEN CountsOf({x \in AllFound : x.project = p}) ELSE registry[p]]
          /\ doubled' = doubled \cup {p \in Project : \E i, j \in DOMAIN opened :
                                        i # j /\ opened[i].project = p /\ opened[j].project = p}
  /\ UNCHANGED outputVars

---------------------------------------------------------------------------
\* Typed requests, saved and answered again.

\* The observations a request names: a path's stores do not know their snapshot.
Observations ==
  {<<opened[i].project, IF selector.by = "paths" THEN NoSnapshot ELSE opened[i].name>> :
     i \in DOMAIN opened}

SaveRequest ==
  /\ Ready /\ Done
  /\ request' = [made |-> TRUE, by |-> selector.by, snapshot |-> selector.snapshot,
                 projects |-> ProjectsOpened, snapshots |-> Observations, read |-> ToSet(opened)]
  /\ UNCHANGED <<registry, doubled, listing, shown, replayed, lineage>>

\* A saved request takes no other filter, and fits the stores it is answered over.
SameScope ==
  /\ selector.vendors = {}
  /\ request.snapshot = selector.snapshot /\ request.projects = ProjectsOpened
  /\ request.snapshots = {} \/ request.snapshots = Observations

Replay ==
  /\ Ready /\ request.made
  /\ IF SameScope THEN Done /\ replayed' = TRUE
     ELSE RefuseCommand /\ UNCHANGED <<worldVars, selector, commands, replayed>>
  /\ UNCHANGED <<registry, doubled, listing, shown, request, lineage>>

---------------------------------------------------------------------------
\* Calls and their results.

Said(does) ==
  UNION {{[of |-> x.of, session |-> x.session.id, at |-> k, link |-> x.session.says[k].link] :
            k \in {j \in DOMAIN x.session.says : x.session.says[j].does = does}} : x \in AllFound}

Together(x, y) == x.of = y.of /\ x.session = y.session /\ x.link = y.link
Place(x, S) == Cardinality({y \in S : Together(x, y) /\ y.at <= x.at})

\* Of the calls and results with one identifier in one Session, the first call
\* goes with the first result, and so on.
Paired(c, r) == c.link # 0 /\ Together(c, r) /\ Place(c, Said("call")) = Place(r, Said("result"))

Lineage ==
  LET calls == Said("call")
      results == Said("result")
      outcome(c, rs) == IF rs # {} THEN "result" ELSE IF c.link # 0 THEN "missing_result" ELSE "unlinked_call"
  IN {LET rs == {r \in results : Paired(c, r)}
      IN [call |-> {c}, result |-> rs, outcome |-> outcome(c, rs)] : c \in calls}
     \cup {[call |-> {}, result |-> {r}, outcome |-> "unlinked_result"] :
             r \in {x \in results : \A c \in calls : ~Paired(c, x)}}

PairCalls ==
  /\ Ready /\ Done
  /\ lineage' = [made |-> TRUE, rows |-> Lineage]
  /\ UNCHANGED <<registry, doubled, listing, shown, request, replayed>>

QueryScopeNext ==
  \/ Meanwhile
  \/ \E q \in ScopeRequest : Resolve(q)
  \/ OpenNext \/ NoStore
  \/ \E n \in {AnyNumber, 1, 2} : ListSessions(n)
  \/ \E n \in 1..3 : ShowNumber(n)
  \/ \E id \in {s.id : s \in UNION {r.sessions : r \in Release}} : ShowIdentified(id)
  \/ CountStats \/ SaveRequest \/ Replay \/ PairCalls

QueryScopeSpec == QueryScopeInit /\ [][QueryScopeNext]_scopeVars

---------------------------------------------------------------------------
\* The number a listing gives a Session names the same Session in a later command
\* that reads the same snapshots, whatever the limits of the two were
\* (query_cmd._session_by_number).
NumbersNameTheListed ==
  shown.made /\ shown.number \in DOMAIN listing.rows /\ shown.reading = listing.reading =>
    shown.row = <<listing.rows[shown.number]>>

\* What the registry remembers of a Project is all of one snapshot of it, whatever
\* was published or selected meanwhile, unless a Project set named two of them
\* (query_cmd._merge_stats_into_registry).
RegistryCountsOneObservation ==
  \A p \in Project \ doubled : registry[p] \in
    {NoCounts, [sessions |-> 0, events |-> 0]} \cup
    {[sessions |-> Cardinality(r.sessions),
      events   |-> Cardinality(UNION {{s} \X DOMAIN s.says : s \in r.sessions})] :
       r \in {x \in Release : x.project = p}}

\* A saved request for Projects by identity is answered again only over the very
\* snapshots it was made of (query_cmd._typed_output).
ReplayReadsTheSame ==
  replayed /\ "paths" \notin {request.by, selector.by} => request.read = ToSet(opened)

\* Every call and every result is in exactly one row, a row pairs what belongs
\* together, and no call lacks a result that is left over (query_reports.tool_lineage).
LineageAccountsForAll ==
  lineage.made =>
    /\ \A c \in Said("call") : Cardinality({x \in lineage.rows : c \in x.call}) = 1
    /\ \A r \in Said("result") : Cardinality({x \in lineage.rows : r \in x.result}) = 1
    /\ \A x \in lineage.rows : \A c \in x.call, r \in x.result : Together(c, r) /\ c.link # 0
    /\ \A x, y \in lineage.rows :
         x.outcome = "missing_result" /\ y.outcome = "unlinked_result" =>
           \A c \in x.call, r \in y.result : ~Together(c, r)

\* A query command tells of the snapshots it selected (the four above).
CommandsReadTheirSnapshots ==
  /\ NumbersNameTheListed /\ RegistryCountsOneObservation
  /\ ReplayReadsTheSame /\ LineageAccountsForAll
=============================================================================
