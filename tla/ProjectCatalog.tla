-------------------------- MODULE ProjectCatalog --------------------------
(***************************************************************************)
(* Which Project a directory belongs to.                                   *)
(*                                                                         *)
(* Three documents say so: the catalog (projects.json) with the locations  *)
(* of every Project, the index (project-bindings.json) from directory to   *)
(* Project, and the binding file inside the directory.  An ingest resolves *)
(* the identity from all three and writes them one after another; the      *)
(* catalog commands add, retire and relocate locations.  Every writer      *)
(* replaces a document by its own changed copy of what it read earlier,    *)
(* and no lock keeps two processes apart.  Working trees are cleaned,      *)
(* copied and moved by their owners.                                       *)
(*                                                                         *)
(* Projects are numbered in the order their identities are minted; 0 is    *)
(* "none".                                                                 *)
(***************************************************************************)
EXTENDS Naturals, FiniteSets

CONSTANTS
  Directory,   \* the directories that may hold a Project
  Nowhere,     \* "no directory"
  Worker,      \* the processes that may be at work at a time
  MaxProject,  \* bound on the identities ever minted
  Operations,  \* "ingest", "add", "retire", "relocate"
  Alone,       \* those no other process is started beside
  Faults       \* "crash", "fail", "clean", "copy", "move", "damage"

ASSUME CatalogAssumption ==
  /\ Nowhere \notin Directory
  /\ MaxProject \in Nat
  /\ Operations \subseteq {"ingest", "add", "retire", "relocate"}
  /\ Alone \subseteq Operations
  /\ Faults \subseteq {"crash", "fail", "clean", "copy", "move", "damage"}

VARIABLES
  catalog,     \* how each directory stands with each Project
  index,       \* the Project of each directory, as the registry has it
  binding,     \* the Project each directory's own file names
  minted,      \* the identities minted so far
  known,       \* history: the identity a directory is owed
  past,        \* history: what became of its working tree
  overlapped,  \* history: two processes have been at work at once
  phase,       \* where each worker is
  op,          \* what it does
  id,          \* the Project it works for
  dir,         \* the directory it binds
  from,        \* the location it retires
  seen,        \* the binding it has read
  cat,         \* the catalog it has read
  idx,         \* the index it has read
  prior        \* the catalog a relocation would put back

documents == <<catalog, index, binding, minted>>
history   == <<known, past, overlapped>>
work      == <<phase, op, id, dir, from, seen, cat, idx, prior>>
vars      == <<documents, history, work>>

Project  == 1..MaxProject
Standing == {"none", "active", "retired"}
Catalog  == [Project -> [Directory -> Standing]]
Index    == [Directory -> 0..MaxProject]
Phase    == {"idle", "load", "resolve", "enter", "look", "record", "bind", "open",
             "link", "relink", "claim", "save", "adopt", "verify", "drop", "undo"}
\* Working trees in order of how little their binding can be trusted: never
\* touched, cleaned, with a file from elsewhere, or bound by workers that may not
\* have seen each other's writes.
Past     == {"own", "cleaned", "stray", "contested"}

Blank    == [i \in Project |-> [d \in Directory |-> "none"]]
NoIndex  == [d \in Directory |-> 0]

TypeOK ==
  /\ catalog \in Catalog /\ index \in Index /\ binding \in Index
  /\ minted \in 0..MaxProject
  /\ known \in Index /\ past \in [Directory -> Past]
  /\ overlapped \in BOOLEAN
  /\ phase \in [Worker -> Phase]
  /\ op \in [Worker -> {"none", "ingest", "add", "retire", "relocate"}]
  /\ id \in [Worker -> 0..MaxProject]
  /\ dir \in [Worker -> Directory \cup {Nowhere}]
  /\ from \in [Worker -> Directory \cup {Nowhere}]
  /\ seen \in [Worker -> 0..MaxProject]
  /\ cat \in [Worker -> Catalog] /\ idx \in [Worker -> Index]
  /\ prior \in [Worker -> Catalog]
  /\ \A w \in Worker :
       /\ phase[w] \notin {"idle", "load", "resolve"} => id[w] \in Project
       /\ phase[w] \notin {"idle", "verify", "drop"} => dir[w] \in Directory
       /\ phase[w] \in {"verify", "drop", "undo"} => from[w] \in Directory
       /\ op[w] = "relocate" => dir[w] \in Directory /\ from[w] \in Directory

Init ==
  /\ catalog = Blank /\ index = NoIndex /\ binding = NoIndex /\ minted = 0
  /\ known = NoIndex /\ past = [d \in Directory |-> "own"]
  /\ overlapped = FALSE
  /\ phase = [w \in Worker |-> "idle"] /\ op = [w \in Worker |-> "none"]
  /\ id = [w \in Worker |-> 0] /\ seen = [w \in Worker |-> 0]
  /\ dir = [w \in Worker |-> Nowhere] /\ from = [w \in Worker |-> Nowhere]
  /\ cat = [w \in Worker |-> Blank] /\ idx = [w \in Worker |-> NoIndex]
  /\ prior = [w \in Worker |-> Blank]

\* A worker that is done, or dies, keeps nothing in memory.
EndWork(w) ==
  /\ phase' = [phase EXCEPT ![w] = "idle"] /\ op' = [op EXCEPT ![w] = "none"]
  /\ id' = [id EXCEPT ![w] = 0] /\ seen' = [seen EXCEPT ![w] = 0]
  /\ dir' = [dir EXCEPT ![w] = Nowhere] /\ from' = [from EXCEPT ![w] = Nowhere]
  /\ cat' = [cat EXCEPT ![w] = Blank] /\ idx' = [idx EXCEPT ![w] = NoIndex]
  /\ prior' = [prior EXCEPT ![w] = Blank]

Goto(w, p) == phase' = [phase EXCEPT ![w] = p]

-----------------------------------------------------------------------------
Claimants(c, d) == {i \in Project : c[i][d] # "none"}
Actives(c, i)   == {d \in Directory : c[i][d] = "active"}
Entry(c, i)     == i \in Project /\ \E d \in Directory : c[i][d] # "none"

Listed(c, i, d, s) == [c EXCEPT ![i] = [@ EXCEPT ![d] = s]]

\* Faulty variant: the directory's own file is asked before the index.
ResolvedLocally(retained, c, x, d) ==
  IF retained # 0 THEN {retained}
  ELSE IF x[d] # 0 THEN {x[d]}
  ELSE Claimants(c, d)

\* The identity of a directory, by falling authority; none means a new one.
\* Which of several claimants comes first depends on how identities sort.
Resolved(retained, c, x, d) ==
  IF x[d] # 0 THEN {x[d]}
  ELSE IF retained # 0 THEN {retained}
  ELSE Claimants(c, d)

\* History: what is known of the working tree only ever gets worse.
Worse(d, p) ==
  IF past[d] = "contested" \/ (past[d] = "stray" /\ p = "cleaned")
  THEN past[d] ELSE p

\* History: where a binding file came from elsewhere and the index does not list
\* the directory, nothing is owed.
Owed(i, p, x) == IF p = "stray" /\ x = 0 THEN 0 ELSE i

\* A worker starts, beside others unless one of them must be alone.
Start(w, o, d) ==
  LET others == {v \in Worker \ {w} : phase[v] # "idle"} IN
  /\ phase[w] = "idle" /\ o \in Operations
  /\ others # {} => o \notin Alone /\ \A v \in others : op[v] \notin Alone
  /\ op' = [op EXCEPT ![w] = o]
  /\ overlapped' = (overlapped \/ others # {})
  /\ past' = IF \E v \in others : dir[v] = d
             THEN [past EXCEPT ![d] = "contested"] ELSE past
  /\ UNCHANGED <<documents, known>>

-----------------------------------------------------------------------------
\* An ingest reads the binding file.
BeginIngest(w, d) ==
  /\ Start(w, "ingest", d)
  /\ Goto(w, "load") /\ dir' = [dir EXCEPT ![w] = d]
  /\ seen' = [seen EXCEPT ![w] = binding[d]]
  /\ UNCHANGED <<id, from, cat, idx, prior>>

\* It reads the catalog.
Load(w) ==
  /\ phase[w] = "load"
  /\ Goto(w, "resolve") /\ cat' = [cat EXCEPT ![w] = catalog]
  /\ UNCHANGED <<documents, history, op, id, dir, from, seen, idx, prior>>

\* Faulty variant: a minted identity is not counted.
MintStale == minted

Mint == minted + 1

\* Faulty variant: the index is written before the catalog.
ResolveRecorded(w) ==
  LET found == Resolved(seen[w], cat[w], index, dir[w]) IN
  /\ phase[w] = "resolve"
  /\ \/ \E i \in found : id' = [id EXCEPT ![w] = i] /\ UNCHANGED minted
     \/ /\ found = {} /\ minted < MaxProject
        /\ id' = [id EXCEPT ![w] = Mint] /\ minted' = minted + 1
  /\ Goto(w, "enter")
  /\ index' = [index EXCEPT ![dir[w]] = id'[w]]
  /\ UNCHANGED <<catalog, binding, history, op, dir, from, seen, cat, idx, prior>>

\* It reads the index and settles the identity.
Resolve(w) ==
  LET found == Resolved(seen[w], cat[w], index, dir[w]) IN
  /\ phase[w] = "resolve"
  /\ \/ \E i \in found : id' = [id EXCEPT ![w] = i] /\ UNCHANGED minted
     \/ /\ found = {} /\ minted < MaxProject
        /\ id' = [id EXCEPT ![w] = Mint] /\ minted' = minted + 1
  /\ Goto(w, "enter")
  /\ UNCHANGED <<catalog, index, binding, history, op, dir, from, seen, cat, idx, prior>>

\* It writes its copy of the catalog with the location active.
Enter(w) ==
  /\ phase[w] = "enter"
  /\ Goto(w, "look")
  /\ catalog' = Listed(cat[w], id[w], dir[w], "active")
  /\ UNCHANGED <<index, binding, minted, history, op, id, dir, from, seen, cat, idx, prior>>

\* It reads the index again, and writes it when the directory is new to it.
Look(w) ==
  /\ phase[w] = "look"
  /\ idx' = [idx EXCEPT ![w] = index]
  /\ Goto(w, IF index[dir[w]] = id[w] THEN "bind" ELSE "record")
  /\ UNCHANGED <<documents, history, op, id, dir, from, seen, cat, prior>>

Record(w) ==
  /\ phase[w] = "record"
  /\ Goto(w, "bind")
  /\ index' = [idx[w] EXCEPT ![dir[w]] = id[w]]
  /\ UNCHANGED <<catalog, binding, minted, history, op, id, dir, from, seen, cat, idx, prior>>

\* Faulty variant: a binding file is refreshed but never created.
BindRefreshed(w) ==
  /\ phase[w] = "bind"
  /\ Goto(w, "open")
  /\ binding' = [binding EXCEPT ![dir[w]] = IF @ = 0 THEN 0 ELSE id[w]]
  /\ known' = [known EXCEPT ![dir[w]] = Owed(id[w], past[dir[w]], index[dir[w]])]
  /\ UNCHANGED <<catalog, index, minted, past, overlapped,
                 op, id, dir, from, seen, cat, idx, prior>>

\* The binding file is written last.
Bind(w) ==
  /\ phase[w] = "bind"
  /\ Goto(w, "open")
  /\ binding' = [binding EXCEPT ![dir[w]] = id[w]]
  /\ known' = [known EXCEPT ![dir[w]] = Owed(id[w], past[dir[w]], index[dir[w]])]
  /\ UNCHANGED <<catalog, index, minted, past, overlapped,
                 op, id, dir, from, seen, cat, idx, prior>>

\* It looks the Project up again, and fails when it is no longer there.
Open(w) ==
  /\ phase[w] = "open"
  /\ IF Entry(catalog, id[w])
     THEN Goto(w, "link") /\ UNCHANGED <<op, id, dir, from, seen, cat, idx, prior>>
     ELSE EndWork(w)
  /\ UNCHANGED <<documents, history>>

\* Cursor workspaces it finds are written to the catalog as well.
Link(w) ==
  /\ phase[w] = "link" /\ Entry(catalog, id[w])
  /\ Goto(w, "relink") /\ cat' = [cat EXCEPT ![w] = catalog]
  /\ UNCHANGED <<documents, history, op, id, dir, from, seen, idx, prior>>

Relink(w) ==
  /\ phase[w] = "relink"
  /\ catalog' = cat[w]
  /\ EndWork(w)
  /\ UNCHANGED <<index, binding, minted, history>>

\* It finds none, or the Project is gone.
IngestDone(w) ==
  /\ phase[w] = "link"
  /\ EndWork(w)
  /\ UNCHANGED <<documents, history>>

-----------------------------------------------------------------------------
\* A directory is added to a Project by the operator.
BeginAdd(w, i, d) ==
  /\ Start(w, "add", d) /\ i <= minted
  /\ Goto(w, "claim")
  /\ id' = [id EXCEPT ![w] = i] /\ dir' = [dir EXCEPT ![w] = d]
  /\ UNCHANGED <<from, seen, cat, idx, prior>>

\* A relocation keeps the catalog, to put it back.
BeginRelocate(w, i, p, q) ==
  /\ Start(w, "relocate", q) /\ i <= minted
  /\ Goto(w, "claim")
  /\ id' = [id EXCEPT ![w] = i] /\ dir' = [dir EXCEPT ![w] = q]
  /\ from' = [from EXCEPT ![w] = p] /\ prior' = [prior EXCEPT ![w] = catalog]
  /\ UNCHANGED <<seen, cat, idx>>

\* A step that cannot be done ends a command; a relocation is undone.
Refused(w) ==
  IF op[w] = "relocate"
  THEN Goto(w, "undo") /\ UNCHANGED <<op, id, dir, from, seen, cat, idx, prior>>
  ELSE EndWork(w)

\* Faulty variant: retired locations of others are not looked at.
FreeUnlessActive(c, i, d) == \A j \in Project \ {i} : c[j][d] # "active"

\* No other Project has the directory among its locations, however it stands.
Free(c, i, d) == Claimants(c, d) \subseteq {i}

\* The catalog is read: the Project must be there and the directory free.
Claim(w) ==
  /\ phase[w] = "claim"
  /\ IF Entry(catalog, id[w]) /\ Free(catalog, id[w], dir[w])
     THEN /\ Goto(w, "save") /\ cat' = [cat EXCEPT ![w] = catalog]
          /\ UNCHANGED <<op, id, dir, from, seen, idx, prior>>
     ELSE Refused(w)
  /\ UNCHANGED <<documents, history>>

Save(w) ==
  /\ phase[w] = "save"
  /\ Goto(w, "adopt")
  /\ catalog' = Listed(cat[w], id[w], dir[w], "active")
  /\ UNCHANGED <<index, binding, minted, history, op, id, dir, from, seen, cat, idx, prior>>

\* The binding file is written; the index is not.
Adopt(w) ==
  /\ phase[w] = "adopt"
  /\ binding' = [binding EXCEPT ![dir[w]] = id[w]]
  /\ known' = [known EXCEPT ![dir[w]] = Owed(id[w], past[dir[w]], index[dir[w]])]
  /\ past' = IF overlapped THEN [past EXCEPT ![dir[w]] = "contested"] ELSE past
  /\ IF op[w] = "relocate"
     THEN Goto(w, "verify") /\ UNCHANGED <<op, id, dir, from, seen, cat, idx, prior>>
     ELSE EndWork(w)
  /\ UNCHANGED <<catalog, index, minted, overlapped>>

\* A location is retired by the operator.
BeginRetire(w, i, d) ==
  /\ Start(w, "retire", d)
  /\ Entry(catalog, i)
  /\ Goto(w, "verify")
  /\ id' = [id EXCEPT ![w] = i] /\ from' = [from EXCEPT ![w] = d]
  /\ UNCHANGED <<dir, seen, cat, idx, prior>>

\* The last active location is kept unless the Project is excluded, or all its
\* evidence is captured; a relocation makes no exception.
MayRetire(c, i, d, allow) ==
  /\ c[i][d] # "none"
  /\ Actives(c, i) = {d} => allow

\* The catalog is read for the location to retire.
Verify(w) ==
  /\ phase[w] = "verify"
  /\ \E allow \in BOOLEAN :
       /\ op[w] = "relocate" => ~allow
       /\ IF MayRetire(catalog, id[w], from[w], allow)
          THEN /\ Goto(w, "drop") /\ cat' = [cat EXCEPT ![w] = catalog]
               /\ UNCHANGED <<op, id, dir, from, seen, idx, prior>>
          ELSE Refused(w)
  /\ UNCHANGED <<documents, history>>

Drop(w) ==
  /\ phase[w] = "drop"
  /\ catalog' = Listed(cat[w], id[w], from[w], "retired")
  /\ EndWork(w)
  /\ UNCHANGED <<index, binding, minted, history>>

\* A write, or the check that the new location can be read, fails.
Fail(w) ==
  /\ "fail" \in Faults /\ op[w] = "relocate"
  /\ phase[w] \in {"claim", "save", "adopt", "verify", "drop"}
  /\ Goto(w, "undo")
  /\ UNCHANGED <<documents, history, op, id, dir, from, seen, cat, idx, prior>>

\* The catalog is put back as it was; the new binding file stays.  The directory
\* is owed no more than the old catalog says.
Undo(w) ==
  /\ phase[w] = "undo"
  /\ catalog' = prior[w]
  /\ past' = [past EXCEPT ![dir[w]] = Worse(dir[w], "stray")]
  /\ known' = [known EXCEPT ![dir[w]] =
                IF prior[w][id[w]][dir[w]] = "none" THEN 0
                ELSE Owed(@, past'[dir[w]], index[dir[w]])]
  /\ EndWork(w)
  /\ UNCHANGED <<index, binding, minted, overlapped>>

\* A worker dies, or an error ends it.
Crash(w) ==
  /\ phase[w] # "idle" /\ "crash" \in Faults
  /\ past' = IF overlapped /\ dir[w] \in Directory
             THEN [past EXCEPT ![dir[w]] = "contested"] ELSE past
  /\ EndWork(w)
  /\ UNCHANGED <<documents, known, overlapped>>

-----------------------------------------------------------------------------
\* A working tree is cleaned or cloned afresh.
Clean(d) ==
  /\ "clean" \in Faults /\ binding[d] # 0
  /\ binding' = [binding EXCEPT ![d] = 0]
  /\ past' = [past EXCEPT ![d] = Worse(d, "cleaned")]
  /\ UNCHANGED <<catalog, index, minted, known, overlapped, work>>

\* It is copied over another directory, with what it holds.
Copy(p, q) ==
  /\ "copy" \in Faults /\ p # q /\ binding[p] # 0
  /\ binding' = [binding EXCEPT ![q] = binding[p]]
  /\ past' = [past EXCEPT ![q] = Worse(q, "stray")]
  /\ known' = [known EXCEPT ![q] = Owed(@, past'[q], index[q])]
  /\ UNCHANGED <<catalog, index, minted, overlapped, work>>

\* It is moved.
Move(p, q) ==
  /\ "move" \in Faults /\ p # q /\ binding[p] # 0
  /\ binding' = [binding EXCEPT ![q] = binding[p], ![p] = 0]
  /\ past' = [past EXCEPT ![q] = Worse(q, "stray"), ![p] = Worse(p, "cleaned")]
  /\ known' = [known EXCEPT ![q] = Owed(@, past'[q], index[q])]
  /\ UNCHANGED <<catalog, index, minted, overlapped, work>>

\* An index that cannot be read counts as empty, until it is written again.
Damage ==
  /\ "damage" \in Faults /\ index # NoIndex
  /\ index' = NoIndex
  /\ known' = [d \in Directory |-> Owed(known[d], past[d], 0)]
  /\ UNCHANGED <<catalog, binding, minted, past, overlapped, work>>

-----------------------------------------------------------------------------
IngestStep(w) ==
  \/ Load(w) \/ Resolve(w) \/ Enter(w) \/ Look(w) \/ Record(w) \/ Bind(w)
  \/ Open(w) \/ Link(w) \/ Relink(w) \/ IngestDone(w)

CommandStep(w) ==
  Claim(w) \/ Save(w) \/ Adopt(w) \/ Verify(w) \/ Drop(w) \/ Fail(w) \/ Undo(w)

Next ==
  \/ \E w \in Worker :
       \/ \E d \in Directory : BeginIngest(w, d)
       \/ \E i \in Project, d \in Directory : BeginAdd(w, i, d) \/ BeginRetire(w, i, d)
       \/ \E i \in Project, p, q \in Directory : BeginRelocate(w, i, p, q)
       \/ IngestStep(w) \/ CommandStep(w) \/ Crash(w)
  \/ \E d \in Directory : Clean(d)
  \/ \E p, q \in Directory : Copy(p, q) \/ Move(p, q)
  \/ Damage

Spec == Init /\ [][Next]_vars

-----------------------------------------------------------------------------
(* Correctness properties. *)

\* The index never says more than the catalog: while processes do not overlap,
\* a directory it lists is a location of that Project (ensure_project_binding
\* writes the catalog first, relocate_project may put an old one back).
IndexBacked ==
  ~overlapped => \A d \in Directory : index[d] # 0 => catalog[index[d]][d] # "none"

\* While processes do not overlap, no two Projects claim a directory, unless a
\* binding file was brought there from elsewhere (add_project_location,
\* _resolve_project_id).
OneOwner ==
  ~overlapped => \A d \in Directory :
    past[d] # "stray" => Cardinality(Claimants(catalog, d)) <= 1

\* While processes do not overlap, an ingest begun now would give a directory the
\* identity it is owed, the one the last ingest or command gave it: when its tree
\* was cleaned or the index lost, and when a foreign binding file came into a
\* directory the index lists (_resolve_project_id, ensure_project_binding).
IdentityIsKept(d) ==
  known[d] # 0 => Resolved(binding[d], catalog, index, d) = {known[d]}
KeepsIdentity == ~overlapped => \A d \in Directory : IdentityIsKept(d)

\* So it would when ingests of other directories overlap and lose each other's
\* writes, as long as the directory's own tree is left alone and none of its own
\* ingests met another or died (ensure_project_binding, record_binding).
OwnTreeKeepsIdentity == \A d \in Directory : past[d] = "own" => IdentityIsKept(d)
=============================================================================
