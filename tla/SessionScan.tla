---------------------------- MODULE SessionScan ----------------------------
(***************************************************************************)
(* codess scan: which directories below the work roots are Projects, and   *)
(* how many Sessions each vendor holds of them.                            *)
(*                                                                         *)
(* A directory is the sequence of the names below "/".  Claude keeps one   *)
(* folder for each encoded path, and paths may share an encoding; a folder *)
(* has files and perhaps an index of them.  Codex keeps transcripts that   *)
(* name their directory, live and archived.  Cursor keeps workspaces, each *)
(* of one directory with a database and an index of composers, and a       *)
(* central store that binds composers to workspaces; a Project may link    *)
(* the workspace of another directory to itself.  Age is 0 (before the     *)
(* window, or not known) or 1; a composer may be NotDated.                 *)
(***************************************************************************)
EXTENDS Integers, FiniteSets, Sequences, SequencesExt, Orders

CONSTANTS
  Machines,     \* what may stand on a machine, see ScanTypeOK
  ScanOptions   \* options of scans: [roots, window, subagent, stop, vendors]

Dirs  == UNION {m.live \cup {w.dir : w \in m.cursor} : m \in Machines}
Parts == UNION {ToSet(d) : d \in Dirs}

\* A workspace is known by its id and a file stands in one folder; what an index
\* says of a Session is not the file.
ASSUME ScanAssumption ==
  /\ Dirs \subseteq Seq(Parts)
  /\ \A q \in ScanOptions : Len(q.roots) \in Nat /\ DOMAIN q.roots = 1..Len(q.roots)
  /\ \A m \in Machines :
       /\ IsFiniteSet(m.live) /\ \A t \in m.codex : t.age \in 0..1
       /\ \A v, w \in m.cursor : v.id = w.id => v = w
       /\ \A b \in m.central.bound : b = <<b[1], b[2]>>
       /\ \A f, g \in DOMAIN m.files : f # g => m.files[f] \cap m.files[g] = {}
       /\ \A f \in DOMAIN m.files, g \in DOMAIN m.index : m.files[f] \cap m.index[g] = {}
       /\ \A p \in m.live :
            m.folder[p] \subseteq DOMAIN m.files /\ m.folder[p] \subseteq DOMAIN m.index

VARIABLES
  machine,      \* directories, settings and vendor stores
  asked,        \* options of the scan
  scanned,      \* roots walked so far
  missed,       \* those of them that could not be walked: failed_roots
  rows,         \* set of [root, path, claude, codex, cursor, sources]
  reported,     \* rows of the report: the first of each path
  hidden,       \* projects_outside_recency_window
  issues,       \* sources recorded as failed, once per command
  scanState     \* "idle", "walking", "done", "stopped"

scanVars == <<machine, asked, scanned, missed, rows, reported, hidden, issues, scanState>>

Central  == "central"
NotDated == -1

Beneath(d, r) == IsPrefix(r, d)
Below(d, r)   == IsStrictPrefix(r, d)

ScanTypeOK ==
  /\ asked \in ScanOptions
  /\ scanned \in 0..Len(asked.roots) /\ missed \subseteq 1..scanned /\ hidden \in Nat
  /\ reported \subseteq rows /\ issues \subseteq machine.failed
  /\ scanState \in {"idle", "walking", "done", "stopped"}

ScanInit ==
  /\ machine \in Machines /\ asked \in ScanOptions
  /\ scanned = 0 /\ missed = {} /\ rows = {} /\ reported = {} /\ hidden = 0 /\ issues = {}
  /\ scanState = "idle"

-----------------------------------------------------------------------------
\* An included tree outranks an excluded one; then directories whose name is
\* traversal noise or a backup convention, below the root.
Excluded(d, root) ==
  /\ ~ \E i \in machine.include : Beneath(d, i)
  /\ \/ \E x \in machine.exclude : Beneath(d, x)
     \/ \E n \in machine.noise : Beneath(d, n) /\ Below(n, root)

\* The nearest repository around a path, within the root; else the path.
Boundary(d, root) ==
  LET around == {g \in machine.repos : Beneath(d, g) /\ Beneath(g, root)}
  IN  IF around = {} THEN d ELSE CHOOSE g \in around : \A h \in around : Beneath(g, h)

\* Faulty variant: an outer Project is kept beside the ones in it.
CanonicalAll(paths, root) == {d \in paths : d \in machine.live /\ ~Excluded(d, root)}

\* The most specific of the paths that exist and are not excluded.
Canonical(paths, root) ==
  LET admitted == {d \in paths : d \in machine.live /\ ~Excluded(d, root)}
  IN  {d \in admitted : ~ \E e \in admitted : Below(e, d)}

-----------------------------------------------------------------------------
\* Nothing is read of a source that fails; an index of Claude may be malformed.
Read(x, held) == IF x \in machine.failed THEN {} ELSE held
Indexed(f) == IF f \in machine.malformed THEN {} ELSE Read(f, machine.index[f])

\* Workspaces of a directory: of it, of one beneath it, and those its approved
\* source links name.
WorkspacesOf(p) ==
  {w \in machine.cursor : Beneath(w.dir, p) \/ <<p, w.id>> \in machine.links}

\* Directories each vendor names below a root.  A folder of Claude names those
\* of its index, when that can be read, and the one its name decodes to; a root
\* that has workspaces is named itself.
Named(root) ==
  [cc     |-> {d \in UNION {{e.project : e \in Indexed(f)} \cup {machine.decodes[f]} :
                              f \in DOMAIN machine.index} : Beneath(d, root)}
                \cup IF machine.folder[root] # {} THEN {root} ELSE {},
   codex  |-> {s.cwd : s \in {t \in machine.codex : Beneath(t.cwd, root)}},
   cursor |-> {w.dir : w \in {x \in machine.cursor : Beneath(x.dir, root)}}
                \cup IF WorkspacesOf(root) # {} THEN {root} ELSE {}]

Candidates(root) ==
  [v \in {"cc", "codex", "cursor"} |->
     IF v \in asked.vendors THEN {Boundary(d, root) : d \in Named(root)[v]} ELSE {}]

\* Sessions of a Project: those of its folder's index that are still there, or
\* else its files; the transcripts that ran in it, the live copy of each.
Selected(items, recent) ==
  {e \in items : (recent => e.age = 1) /\ (e.side => asked.subagent)}

ClaudeSessions(p, recent) ==
  LET kept(f)  == {e \in Indexed(f) : e.project = p /\ e.here}
      found(f) == IF Selected(kept(f), recent) # {} THEN Selected(kept(f), recent)
                  ELSE Selected(machine.files[f], recent)
  IN  UNION {found(f) : f \in machine.folder[p]}

CodexSessions(p, recent) ==
  LET within == {s \in machine.codex : Beneath(s.cwd, p)}
      best   == {s \in within : \A t \in within : t.id = s.id => s.copy <= t.copy}
  IN  {s \in best : s.cwd = p /\ (recent => s.age = 1)}

\* Composers the central store counts for a Project: those it binds to one of its
\* workspaces, and those that one of their indexes lists and no other.
Attributed(p) ==
  LET mine == WorkspacesOf(p)
      listed(w) == Read(w.id, w.listed)
  IN  {b[1] : b \in {c \in Read(Central, machine.central.bound) : \E w \in mine : w.id = c[2]}}
        \cup {n \in UNION {listed(w) : w \in mine} :
                \E w \in mine : n \in listed(w) /\ \A v \in mine : n \in listed(v) => v = w}

\* What Cursor holds of a Project, whatever its age.  Every database counts on its
\* own: a composer with rows in two is two of these.
InPlace(x, held) == {[place |-> x, name |-> e.name, age |-> e.age] : e \in Read(x, held)}

CursorSessions(p) ==
  (UNION {InPlace(w.id, w.rows) : w \in WorkspacesOf(p)})
    \cup InPlace(Central, {e \in machine.central.rows : e.name \in Attributed(p)})

\* A row, unless no vendor holds anything of the Project within the window.
Row(p, root, recent) ==
  LET named == Candidates(root)
      cc    == IF p \in named["cc"] THEN ClaudeSessions(p, recent) ELSE {}
      codex == IF p \in named["codex"] THEN CodexSessions(p, recent) ELSE {}
  IN  [root |-> root, path |-> p, claude |-> cc, codex |-> codex,
       cursor |-> IF p \in named["cursor"] THEN CursorSessions(p) ELSE {},
       sources |-> {v \in {"cc", "codex", "cursor"} :
                      CASE v = "cc" -> cc # {} [] v = "codex" -> codex # {}
                        [] v = "cursor" -> p \in named["cursor"]}]

\* A row of the window: Sessions of it, or no composer of it is dated.
Recent(row) ==
  \/ row.claude # {} \/ row.codex # {}
  \/ "cursor" \in row.sources /\ \A c \in row.cursor : c.age = NotDated
  \/ \E c \in row.cursor : c.age = 1

Projects(root) ==
  LET c == Candidates(root) IN Canonical(c["cc"] \cup c["codex"] \cup c["cursor"], root)

Shown(root, recent) ==
  {r \in {Row(p, root, recent) : p \in Projects(root)} :
     r.sources # {} /\ (recent => Recent(r))}

\* Projects with Sessions, none of them within the window.
HasAny(p, root) ==
  LET r == Row(p, root, FALSE)
  IN  r.claude # {} \/ r.codex # {} \/ r.cursor # {}

Outside(root) ==
  {p \in Projects(root) :
     LET r == Row(p, root, TRUE)
     IN  IF r.sources = {} THEN HasAny(p, root) ELSE ~Recent(r)}

-----------------------------------------------------------------------------
StartScan ==
  /\ scanState = "idle" /\ scanState' = "walking"
  /\ UNCHANGED <<machine, asked, scanned, missed, rows, reported, hidden, issues>>

\* Sources a walk of a root fails to read: indexes of Claude, the databases of the
\* Projects that have workspaces, and the central store, which the first walk
\* measures in any case.
Failing(root) ==
  LET held == Projects(root) \cap Candidates(root)["cursor"]
      dbs  == UNION {{w.id : w \in WorkspacesOf(p)} : p \in held}
      all  == IF "cursor" \in asked.vendors /\ (scanned = 0 \/ \E p \in held : Attributed(p) # {})
              THEN {Central} ELSE {}
  IN  machine.failed \cap
        (all \cup dbs \cup IF "cc" \in asked.vendors THEN DOMAIN machine.index ELSE {})

\* The next root: its rows, of which those of a path not reported yet are kept,
\* and the sources that could not be read.  One that was not recorded before may
\* stop the scan; a malformed index does not.
WalkRoot ==
  /\ scanState = "walking" /\ scanned < Len(asked.roots)
  /\ LET root == asked.roots[scanned + 1]
         new  == Shown(root, asked.window)
     IN  /\ scanned' = scanned + 1
         /\ issues' = issues \cup Failing(root)
         /\ hidden' = IF asked.window THEN hidden + Cardinality(Outside(root)) ELSE hidden
         /\ IF asked.stop /\ issues' # issues
            THEN scanState' = "stopped" /\ UNCHANGED <<rows, reported>>
            ELSE /\ rows' = rows \cup new
                 /\ reported' = reported \cup
                      {r \in new : ~ \E q \in reported : q.path = r.path}
                 /\ UNCHANGED scanState
  /\ UNCHANGED <<machine, asked, missed>>

\* A root that cannot be walked leaves no rows, but may have recorded sources.
MissRoot ==
  /\ scanState = "walking" /\ scanned < Len(asked.roots)
  /\ scanned' = scanned + 1 /\ missed' = missed \cup {scanned + 1}
  /\ scanState' = IF asked.stop THEN "stopped" ELSE scanState
  /\ \E met \in SUBSET Failing(asked.roots[scanned + 1]) : issues' = issues \cup met
  /\ UNCHANGED <<machine, asked, rows, reported, hidden>>

\* The report is written; a scan that stopped early leaves none.
FinishScan ==
  /\ scanState = "walking" /\ scanned = Len(asked.roots)
  /\ scanState' = "done"
  /\ UNCHANGED <<machine, asked, scanned, missed, rows, reported, hidden, issues>>

ScanNext == StartScan \/ WalkRoot \/ MissRoot \/ FinishScan

ScanSpec == ScanInit /\ [][ScanNext]_scanVars

-----------------------------------------------------------------------------
\* A workspace gives a Project what its database holds, and what the central store
\* holds of the composers it lists or is bound to.
Gives(w, e) ==
  \/ e.place = w.id
  \/ e.place = Central
       /\ (<<e.name, w.id>> \in machine.central.bound \/ e.name \in w.listed)

\* Projects of one root stand apart, and a transcript of Codex is in one row.  A
\* file of Claude is in two only when the two paths are encoded alike.  What
\* Cursor holds is in two only when a source link takes a workspace from where
\* it is, or two workspaces claim one composer (canonicalize, walk_sessions).
CountsOnce ==
  \A r, s \in rows : r.root = s.root /\ r.path # s.path =>
    /\ ~Below(r.path, s.path)
    /\ r.codex \cap s.codex = {}
    /\ r.claude \cap s.claude # {} =>
         machine.folder[r.path] \cap machine.folder[s.path] # {}
    /\ \A e \in r.cursor \cap s.cursor :
         \E v \in WorkspacesOf(r.path), w \in WorkspacesOf(s.path) :
           /\ Gives(v, e) /\ Gives(w, e)
           /\ v = w => {<<r.path, v.id>>, <<s.path, v.id>>} \cap machine.links # {}

\* A transcript of Codex, of a directory that is its own boundary, is not lost
\* without a word: it is in a row, or in a more specific Project's place, or
\* before the window (canonicalize, walk_sessions).
Own(d, root) == /\ Beneath(d, root) /\ d \in machine.live
                /\ ~Excluded(d, root) /\ Boundary(d, root) = d
Walked == {i \in DOMAIN asked.roots : i \notin missed}

NothingIsLost ==
  scanState = "done" =>
    \A s \in machine.codex, i \in Walked :
      LET root == asked.roots[i]
          live == \A t \in machine.codex : t.id = s.id => s.copy <= t.copy
      IN  live /\ Own(s.cwd, root) /\ "codex" \in asked.vendors =>
            \/ \E r \in rows : r.root = root /\ s \in r.codex
            \/ \E p \in Projects(root) : Below(p, s.cwd)
            \/ asked.window /\ s.age = 0

\* A window says how many Projects it hides (_has_any_sessions,
\* projects_outside_recency_window).
HiddenAreCounted ==
  scanState = "done" =>
    LET without(root) == {r.path : r \in Shown(root, FALSE)}
                           \ {r.path : r \in {q \in rows : q.root = root}}
    IN  hidden = IF asked.window
                 THEN Weight(Walked, [i \in Walked |-> Cardinality(without(asked.roots[i]))])
                 ELSE 0
=============================================================================
