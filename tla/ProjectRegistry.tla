-------------------------- MODULE ProjectRegistry --------------------------
(***************************************************************************)
(* projects_state.json: what scans, ingests and queries noted of a path,   *)
(* and what became of each Project, told from it and from the catalog.     *)
(*                                                                         *)
(* Every command loads the whole file, changes one entry (a scan makes one *)
(* such update for each path it reports) or drops some, and writes the     *)
(* whole file over; nothing keeps two of them apart, and a command that is *)
(* killed while it writes leaves a file that reads as empty.               *)
(***************************************************************************)
EXTENDS Integers, FiniteSets, Sequences, SequencesExt

CONSTANTS
  Path,          \* paths that are noted
  Pseudo,        \* the pseudo-path "(global)" of former scans
  Writer,        \* commands that may run at once
  Catalogs,      \* catalogs: sequences of entries, see Entry
  MaxUpdates,    \* bound on the commands
  MaxMoves       \* bound on directories that come and go

Fact  == {"scan", "ingest", "query"}      \* last_scan, last_ingestion, last_query
Entry == [disposition : {"active", "excluded", "worktree"},
          locations : Seq([path : Path, retired : BOOLEAN])]
NoCommand  == [kind |-> "none", path |-> Pseudo, seen |-> <<>>, gone |-> {}]

ASSUME RegistryAssumption ==
  /\ Pseudo \notin Path /\ MaxUpdates \in Nat /\ MaxMoves \in Nat
  /\ Catalogs \subseteq Seq(Entry)

VARIABLES
  present,   \* paths that exist
  catalog,   \* projects.json
  registry,  \* the file: path -> facts of its entry
  torn,      \* whether the file was left half written
  command,   \* what each command loaded and means to write
  updates, moves,
  noted,     \* history: facts written and not pruned
  alone      \* history: whether no two commands overlapped and none was killed

registryVars == <<present, catalog, registry, torn, command, updates, moves, noted, alone>>

Entries == UNION {[D -> SUBSET Fact] : D \in SUBSET (Path \cup {Pseudo})}

RegistryTypeOK ==
  /\ present \subseteq Path /\ catalog \in Catalogs
  /\ registry \in Entries /\ torn \in BOOLEAN
  /\ DOMAIN command = Writer
  /\ updates \in 0..MaxUpdates /\ moves \in 0..MaxMoves
  /\ noted \subseteq (Path \cup {Pseudo}) \X Fact /\ alone \in BOOLEAN

\* A file of an earlier version may hold the pseudo-path.
RegistryInit ==
  /\ present = Path /\ catalog \in Catalogs
  /\ registry = [p \in {Pseudo} |-> {"scan"}] /\ torn = FALSE
  /\ command = [w \in Writer |-> NoCommand]
  /\ updates = 0 /\ moves = 0 /\ noted = {} /\ alone = TRUE

\* A file that does not parse is as good as none.
Loaded == IF torn THEN <<>> ELSE registry

Gone == DOMAIN Loaded \ present

\* A command loads the file, and a prune looks which paths are gone.
LoadRegistry(w, kind, p) ==
  /\ updates < MaxUpdates /\ command[w].kind = "none"
  /\ kind \in Fact => p \in present
  /\ kind \notin Fact => p = Pseudo
  /\ command' = [command EXCEPT ![w] =
       [kind |-> kind, path |-> p, seen |-> Loaded,
        gone |-> CASE kind = "prune" -> Gone
                   [] kind = "legacy" ->
                        {q \in DOMAIN Loaded : q = Pseudo /\ Loaded[q] \subseteq {"scan"}}
                   [] OTHER -> {}]]
  /\ alone' = (alone /\ \A v \in Writer : command[v].kind = "none")
  /\ updates' = updates + 1
  /\ UNCHANGED <<present, catalog, registry, torn, moves, noted>>

\* Faulty variant: an entry is written anew.
NotingAnew(seen, p, fact) ==
  [q \in DOMAIN seen \cup {p} |-> IF q = p THEN {fact} ELSE seen[q]]

\* What it writes: the entry, found or created, with the new fact beside the
\* others; or all entries but those to be dropped.
Noting(seen, p, fact) ==
  [q \in DOMAIN seen \cup {p} |->
     (IF q \in DOMAIN seen THEN seen[q] ELSE {}) \cup (IF q = p THEN {fact} ELSE {})]

Dropping(seen, gone) == [q \in DOMAIN seen \ gone |-> seen[q]]

Outcome(c) == IF c.kind \in Fact THEN Noting(c.seen, c.path, c.kind)
                                 ELSE Dropping(c.seen, c.gone)

SaveRegistry(w) ==
  LET c == command[w] IN
  /\ c.kind # "none" /\ (c.kind \in {"prune", "legacy"} => c.gone # {})
  /\ registry' = Outcome(c) /\ torn' = FALSE
  /\ noted' = IF c.kind \in Fact THEN noted \cup {<<c.path, c.kind>>}
              ELSE {n \in noted : n[1] \notin c.gone}
  /\ command' = [command EXCEPT ![w] = NoCommand]
  /\ UNCHANGED <<present, catalog, updates, moves, alone>>

\* Nothing to drop, or only asked what would be (--dry-run).
LeaveRegistry(w) ==
  /\ command[w].kind \in {"prune", "legacy"}
  /\ command[w].kind = "legacy" => command[w].gone = {}
  /\ command' = [command EXCEPT ![w] = NoCommand]
  /\ UNCHANGED <<present, catalog, registry, torn, updates, moves, noted, alone>>

TearRegistry(w) ==
  /\ command[w].kind # "none" /\ (command[w].kind \in {"prune", "legacy"} => command[w].gone # {})
  /\ torn' = TRUE /\ alone' = FALSE
  /\ command' = [command EXCEPT ![w] = NoCommand]
  /\ UNCHANGED <<present, catalog, registry, updates, moves, noted>>

\* A directory is removed, unmounted, or comes back.
MovePath(p) ==
  /\ moves < MaxMoves /\ moves' = moves + 1
  /\ present' = IF p \in present THEN present \ {p} ELSE present \cup {p}
  /\ UNCHANGED <<catalog, registry, torn, command, updates, noted, alone>>

RegistryNext ==
  \/ \E w \in Writer : \/ SaveRegistry(w) \/ LeaveRegistry(w) \/ TearRegistry(w)
                       \/ \E kind \in Fact \cup {"prune", "legacy"}, p \in Path \cup {Pseudo} :
                            LoadRegistry(w, kind, p)
  \/ \E p \in Path : MovePath(p)

RegistrySpec == RegistryInit /\ [][RegistryNext]_registryVars

-----------------------------------------------------------------------------
\* What became of a path: the entry that speaks for it (a current one before an
\* excluded one), the locations given up, and of the locations of one Project
\* that exist the first, the others being copies of it.
Holding(p) == {i \in DOMAIN catalog : \E l \in ToSet(catalog[i].locations) : l.path = p}

Speaking(p) ==
  LET speaking == {i \in Holding(p) : catalog[i].disposition # "excluded"}
  IN  IF speaking # {} THEN {CHOOSE i \in speaking : \A j \in speaking : i <= j}
      ELSE IF Holding(p) = {} THEN {} ELSE {CHOOSE i \in Holding(p) : \A j \in Holding(p) : j <= i}

Retired(p) == \E i \in DOMAIN catalog :
                [path |-> p, retired |-> TRUE] \in ToSet(catalog[i].locations)

At(i, k) == catalog[i].locations[k].path

LivePlaces(i) ==
  {k \in DOMAIN catalog[i].locations : ~catalog[i].locations[k].retired /\ At(i, k) \in present}

Original(i) == CHOOSE k \in LivePlaces(i) : \A l \in LivePlaces(i) : k <= l

CopyOf(p) ==
  {At(i, Original(i)) : i \in {j \in DOMAIN catalog :
     \E k \in LivePlaces(j) : k # Original(j) /\ At(j, k) = p}}

State(p) ==
  LET disposition == {catalog[i].disposition : i \in Speaking(p)}
  IN  IF "worktree" \in disposition THEN "worktree"
      ELSE IF "excluded" \in disposition THEN "retired"
      ELSE IF Retired(p) THEN "moved"
      ELSE IF CopyOf(p) # {} THEN "copy"
      ELSE IF p \notin present THEN "removed"
      ELSE IF "ingest" \in Loaded[p] THEN "ingested" ELSE "scanned"

-----------------------------------------------------------------------------
\* Commands that do not overlap forget nothing that was noted, but for paths
\* that were gone when a prune looked, and the file says nothing else
\* (update_project_entry, prune_stale_entries).
RegistryRemembers ==
  alone => \A n \in (Path \cup {Pseudo}) \X Fact :
    n # <<Pseudo, "scan">> =>
      (n \in noted <=> n[1] \in DOMAIN Loaded /\ n[2] \in Loaded[n[1]])

\* An active Project that has its places to itself: it lists none twice, and
\* another entry lists one of them only as the one place of an excluded Project
\* (a retired duplicate beside the current one).
Undisputed(i) ==
  LET listed == catalog[i].locations
  IN  /\ catalog[i].disposition = "active"
      /\ \A k, l \in DOMAIN listed : listed[k].path = listed[l].path => k = l
      /\ \A k \in DOMAIN listed : \A j \in Holding(listed[k].path) \ {i} :
           catalog[j].disposition = "excluded" /\ Len(catalog[j].locations) = 1

\* Of the places of such a Project that exist, and that no entry gave up, one
\* is no copy, and every copy names that one (project_lifecycle).
OnePlaceIsTheOriginal ==
  \A i \in DOMAIN catalog : Undisputed(i) =>
    LET live   == {At(i, k) : k \in LivePlaces(i)}
        places == {p \in live : p \in DOMAIN Loaded /\ ~Retired(p)}
        first  == At(i, Original(i))
    IN  /\ \A p \in places : State(p) = "copy" => CopyOf(p) = {first} /\ CopyOf(first) = {}
        /\ places = live /\ places # {} =>
             Cardinality({p \in places : State(p) \in {"ingested", "scanned"}}) = 1
=============================================================================
