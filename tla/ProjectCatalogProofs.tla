----------------------- MODULE ProjectCatalogProofs -----------------------
(***************************************************************************)
(* Proofs about ProjectCatalog: as long as processes have not overlapped,  *)
(* the three documents agree on whose a directory is.                      *)
(***************************************************************************)
EXTENDS ProjectCatalog, FiniteSetTheorems, TLAPS

-----------------------------------------------------------------------------
(* The inductive invariant. *)

\* Whom index x names for a directory has a claim to it in catalog c.
Backed(x, c) == \A d \in Directory : x[d] # 0 => c[x[d]][d] # "none"

Sole(c, d, i) == \A j \in Project : c[j][d] # "none" => j = i

\* Two Projects claim a directory only where a binding file came from elsewhere.
Owner == \A d \in Directory : past[d] # "stray" =>
           \A i \in Project : catalog[i][d] # "none" => Sole(catalog, d, i)

\* A directory's own binding file names a claimant of it.
Bound == \A d \in Directory : past[d] # "stray" /\ binding[d] # 0 =>
           catalog[binding[d]][d] # "none"

\* What a directory is owed rests on the catalog or, under a foreign binding
\* file, on the index.
Owing == \A d \in Directory : known[d] # 0 =>
           IF past[d] = "stray" THEN index[d] = known[d]
           ELSE catalog[known[d]][d] # "none"

Lone == \A v, w \in Worker : phase[v] # "idle" /\ phase[w] # "idle" => v = w

\* What a worker that is alone has in memory is still so.
Memory(w) ==
  /\ phase[w] = "idle" => op[w] = "none"
  /\ phase[w] = "undo" => op[w] = "relocate"
  /\ phase[w] \in {"load", "resolve", "enter", "look", "record", "bind", "open",
                   "link", "relink"} => op[w] = "ingest"
  /\ phase[w] \in {"resolve", "enter", "relink", "save", "drop"} => cat[w] = catalog
  /\ phase[w] \in {"load", "resolve"} /\ seen[w] # 0 /\ past[dir[w]] # "stray" =>
       catalog[seen[w]][dir[w]] # "none"
  /\ phase[w] = "enter" /\ past[dir[w]] # "stray" =>
       Sole(catalog, dir[w], id[w]) /\ binding[dir[w]] \in {0, id[w]}
  /\ phase[w] \in {"look", "record", "bind", "adopt"} =>
       catalog[id[w]][dir[w]] # "none"
  /\ phase[w] \in {"enter", "look", "record", "bind", "save", "adopt"} =>
       index[dir[w]] \in {0, id[w]}
  /\ phase[w] = "record" =>
       /\ Backed(idx[w], catalog)
       /\ \A d \in Directory : index[d] # 0 => idx[w][d] = index[d]
  /\ phase[w] = "save" => Sole(catalog, dir[w], id[w])
  /\ phase[w] = "drop" => catalog[id[w]][from[w]] # "none"
  /\ op[w] = "relocate" =>
       /\ Backed(index, prior[w])
       /\ \A i \in Project, d \in Directory :
            i # id[w] \/ d # dir[w] => prior[w][i][d] = catalog[i][d]

\* The documents agree with each other and with what is owed.
Agreed == /\ \A d \in Directory : past[d] # "contested"
          /\ Owner /\ Bound /\ Owing /\ Backed(index, catalog)

Serial == Agreed /\ Lone /\ \A w \in Worker : Memory(w)

IInv == TypeOK /\ (~overlapped => Serial)

-----------------------------------------------------------------------------
(* Types. *)

\* What a changed catalog says: the one standing is new, the others are kept.
LEMMA ListedValue ==
  ASSUME NEW c \in Catalog, NEW i \in Project, NEW d \in Directory, NEW s \in Standing
  PROVE  /\ Listed(c, i, d, s) \in Catalog
         /\ \A j \in Project, e \in Directory :
              Listed(c, i, d, s)[j][e] = IF j = i /\ e = d THEN s ELSE c[j][e]
BY DEF Listed, Catalog

\* The empty documents have their types.
LEMMA BlankType == Blank \in Catalog /\ NoIndex \in Index
BY CatalogAssumption DEF Blank, NoIndex, Catalog, Index, Standing

\* The initial state satisfies the invariant.
LEMMA InitInv == Init => IInv
<1> SUFFICES ASSUME Init PROVE IInv
  OBVIOUS
<1>1. TypeOK
  <2>1. \A w \in Worker :
          phase[w] = "idle" /\ op[w] = "none" /\ id[w] = 0 /\ dir[w] = Nowhere
    BY DEF Init
  <2>2. \A w \in Worker :
          /\ phase[w] \notin {"idle", "load", "resolve"} => id[w] \in Project
          /\ phase[w] \notin {"idle", "verify", "drop"} => dir[w] \in Directory
          /\ phase[w] \in {"verify", "drop", "undo"} => from[w] \in Directory
          /\ op[w] = "relocate" => dir[w] \in Directory /\ from[w] \in Directory
    BY <2>1
  <2>3. phase \in [Worker -> Phase] /\ past \in [Directory -> Past]
    BY DEF Init, Phase, Past
  <2>4. known \in Index /\ 0 \in 0..MaxProject
    BY BlankType, CatalogAssumption DEF Init
  <2> QED BY <2>2, <2>3, <2>4, BlankType DEF Init, TypeOK
<1>2. Serial
  <2>1. Owner /\ Bound /\ Owing /\ Backed(index, catalog)
    BY DEF Init, Owner, Sole, Bound, Owing, Backed, Blank, NoIndex, Project
  <2>2. \A w \in Worker : Memory(w)
    BY DEF Init, Memory, Blank, NoIndex, Backed
  <2> QED BY <2>1, <2>2 DEF Init, Serial, Agreed, Lone, Past
<1> QED BY <1>1, <1>2 DEF IInv

\* What a worker holds keeps its type when the worker ends.
LEMMA EndWorkType ==
  ASSUME TypeOK, NEW w \in Worker, EndWork(w),
         catalog' \in Catalog, index' \in Index, binding' \in Index,
         minted' \in 0..MaxProject, known' \in Index,
         past' \in [Directory -> Past], overlapped' \in BOOLEAN
  PROVE  TypeOK'
BY BlankType, CatalogAssumption DEF TypeOK, EndWork, Phase, Index, Project

\* A starting worker leaves the documents alone.
LEMMA StartType ==
  ASSUME TypeOK, NEW w \in Worker, NEW d \in Directory, NEW o, Start(w, o, d)
  PROVE  /\ op' \in [Worker -> {"none", "ingest", "add", "retire", "relocate"}]
         /\ op' = [op EXCEPT ![w] = o]
         /\ past' \in [Directory -> Past]
         /\ overlapped' \in BOOLEAN
         /\ UNCHANGED <<catalog, index, binding, minted, known>>
BY CatalogAssumption DEF TypeOK, Start, Past, documents

\* Every step keeps the types.
LEMMA TypeStep == TypeOK /\ [Next]_vars => TypeOK'
<1> SUFFICES ASSUME TypeOK, [Next]_vars PROVE TypeOK'
  OBVIOUS
<1> USE CatalogAssumption DEF documents, history
<1>1. CASE UNCHANGED vars
  BY <1>1 DEF vars, work, TypeOK
<1>2. ASSUME NEW w \in Worker, NEW d \in Directory, BeginIngest(w, d) PROVE TypeOK'
  BY <1>2, StartType DEF BeginIngest, Goto, TypeOK, Index, Phase, Project
<1>3. ASSUME NEW w \in Worker, NEW i \in Project, NEW d \in Directory, BeginAdd(w, i, d)
      PROVE TypeOK'
  BY <1>3, StartType DEF BeginAdd, Goto, TypeOK, Phase, Project
<1>4. ASSUME NEW w \in Worker, NEW i \in Project, NEW d \in Directory, BeginRetire(w, i, d)
      PROVE TypeOK'
  BY <1>4, StartType DEF BeginRetire, Goto, TypeOK, Phase, Project
<1>5. ASSUME NEW w \in Worker, NEW i \in Project, NEW p \in Directory,
             NEW q \in Directory, BeginRelocate(w, i, p, q)
      PROVE TypeOK'
  BY <1>5, StartType DEF BeginRelocate, Goto, TypeOK, Phase, Project
<1>6. ASSUME NEW w \in Worker, Load(w) \/ Look(w) PROVE TypeOK'
  BY <1>6 DEF Load, Look, Goto, TypeOK, Phase
<1>7. ASSUME NEW w \in Worker, Resolve(w) PROVE TypeOK'
  <2>1. id' \in [Worker -> 0..MaxProject] /\ minted' \in 0..MaxProject
        /\ id'[w] \in Project /\ id' = [id EXCEPT ![w] = id'[w]]
    <3>1. index[dir[w]] \in 0..MaxProject /\ seen[w] \in 0..MaxProject
      BY <1>7 DEF Resolve, TypeOK, Index
    <3>2. Resolved(seen[w], cat[w], index, dir[w]) \subseteq Project
      BY <3>1 DEF Resolved, Claimants, Project
    <3> QED BY <1>7, <3>2 DEF Resolve, Mint, TypeOK, Project
  <2> QED BY <1>7, <2>1 DEF Resolve, Goto, TypeOK, Phase
<1>8. ASSUME NEW w \in Worker, Enter(w) \/ Save(w) PROVE TypeOK'
  <2>1. catalog' \in Catalog
    <3>1. id[w] \in Project /\ dir[w] \in Directory /\ cat[w] \in Catalog
      BY <1>8 DEF Enter, Save, TypeOK
    <3> QED BY <1>8, <3>1, ListedValue DEF Enter, Save, Standing
  <2> QED BY <1>8, <2>1 DEF Enter, Save, Goto, TypeOK, Phase
<1>9. ASSUME NEW w \in Worker, Record(w) PROVE TypeOK'
  BY <1>9 DEF Record, Goto, TypeOK, Phase, Index
<1>10. ASSUME NEW w \in Worker, Bind(w) PROVE TypeOK'
  BY <1>10 DEF Bind, Owed, Goto, TypeOK, Phase, Index
<1>11. ASSUME NEW w \in Worker, Open(w) PROVE TypeOK'
  <2>1. CASE EndWork(w)
    BY <1>11, <2>1, EndWorkType DEF Open, TypeOK
  <2>2. CASE ~EndWork(w)
    BY <1>11, <2>2 DEF Open, Goto, TypeOK, Phase
  <2> QED BY <2>1, <2>2
<1>12. ASSUME NEW w \in Worker, Link(w) PROVE TypeOK'
  BY <1>12 DEF Link, Goto, TypeOK, Phase
<1>13. ASSUME NEW w \in Worker, Relink(w) \/ IngestDone(w) PROVE TypeOK'
  BY <1>13, EndWorkType DEF Relink, IngestDone, TypeOK
<1>14. ASSUME NEW w \in Worker, Claim(w) PROVE TypeOK'
  <2>1. CASE EndWork(w)
    BY <1>14, <2>1, EndWorkType DEF Claim, TypeOK
  <2>2. CASE ~EndWork(w)
    BY <1>14, <2>2 DEF Claim, Refused, Goto, TypeOK, Phase
  <2> QED BY <2>1, <2>2
<1>15. ASSUME NEW w \in Worker, Adopt(w) PROVE TypeOK'
  <2>1. /\ binding' \in Index /\ known' \in Index /\ past' \in [Directory -> Past]
        /\ UNCHANGED <<catalog, index, minted, overlapped>>
    BY <1>15 DEF Adopt, Owed, TypeOK, Index, Past
  <2>2. CASE EndWork(w)
    BY <2>1, <2>2, EndWorkType DEF TypeOK
  <2>3. CASE ~EndWork(w)
    BY <1>15, <2>1, <2>3 DEF Adopt, Goto, TypeOK, Phase
  <2> QED BY <2>2, <2>3
<1>16. ASSUME NEW w \in Worker, Verify(w) PROVE TypeOK'
  <2>1. CASE EndWork(w)
    BY <1>16, <2>1, EndWorkType DEF Verify, TypeOK
  <2>2. CASE ~EndWork(w)
    BY <1>16, <2>2 DEF Verify, Refused, Goto, TypeOK, Phase
  <2> QED BY <2>1, <2>2
<1>17. ASSUME NEW w \in Worker, Drop(w) PROVE TypeOK'
  <2>1. catalog' \in Catalog
    BY <1>17, ListedValue DEF Drop, TypeOK, Standing
  <2> QED BY <1>17, <2>1, EndWorkType DEF Drop, TypeOK
<1>18. ASSUME NEW w \in Worker, Fail(w) PROVE TypeOK'
  BY <1>18 DEF Fail, Goto, TypeOK, Phase
<1>19. ASSUME NEW w \in Worker, Undo(w) PROVE TypeOK'
  <2>1. /\ catalog' \in Catalog /\ past' \in [Directory -> Past] /\ known' \in Index
    <3>1. dir[w] \in Directory /\ prior[w] \in Catalog
      BY <1>19 DEF Undo, TypeOK
    <3>2. Worse(dir[w], "stray") \in Past
      BY <3>1 DEF Worse, TypeOK, Past
    <3>3. past' \in [Directory -> Past] /\ catalog' \in Catalog
      BY <1>19, <3>1, <3>2 DEF Undo, TypeOK
    <3>4. ASSUME NEW p, NEW x PROVE Owed(known[dir[w]], p, x) \in 0..MaxProject
      BY <3>1 DEF Owed, TypeOK, Index
    <3>5. known' = [known EXCEPT ![dir[w]] = known'[dir[w]]]
          /\ known'[dir[w]] \in 0..MaxProject
      BY <1>19, <3>1, <3>4 DEF Undo, TypeOK, Index
    <3> QED BY <3>3, <3>5 DEF TypeOK, Index
  <2> QED BY <1>19, <2>1, EndWorkType DEF Undo, TypeOK
<1>20. ASSUME NEW w \in Worker, Crash(w) PROVE TypeOK'
  <2>1. past' \in [Directory -> Past]
    BY <1>20 DEF Crash, TypeOK, Past
  <2> QED BY <1>20, <2>1, EndWorkType DEF Crash, TypeOK
<1>21. ASSUME NEW d \in Directory, Clean(d) PROVE TypeOK'
  BY <1>21 DEF Clean, Worse, TypeOK, Index, Past, work
<1>22. ASSUME NEW p \in Directory, NEW q \in Directory, Copy(p, q) PROVE TypeOK'
  BY <1>22 DEF Copy, Worse, Owed, TypeOK, Index, Past, work
<1>23. ASSUME NEW p \in Directory, NEW q \in Directory, Move(p, q) PROVE TypeOK'
  <2>1. Worse(q, "stray") \in Past /\ Worse(p, "cleaned") \in Past
    BY DEF Worse, TypeOK, Past
  <2>2. past' \in [Directory -> Past]
    BY <1>23, <2>1 DEF Move, TypeOK
  <2>3. binding' \in Index
    BY <1>23 DEF Move, TypeOK, Index
  <2>4. Owed(known[q], past'[q], index[q]) \in 0..MaxProject
    BY DEF Owed, TypeOK, Index
  <2>5. known' \in Index
    BY <1>23, <2>4 DEF Move, TypeOK, Index
  <2> QED BY <1>23, <2>2, <2>3, <2>5 DEF Move, TypeOK, work
<1>24. CASE Damage
  BY <1>24, BlankType DEF Damage, Owed, TypeOK, Index, Past, work
<1> QED
  BY <1>1, <1>2, <1>3, <1>4, <1>5, <1>6, <1>7, <1>8, <1>9, <1>10, <1>11, <1>12,
     <1>13, <1>14, <1>15, <1>16, <1>17, <1>18, <1>19, <1>20, <1>21, <1>22, <1>23,
     <1>24 DEF Next, IngestStep, CommandStep
-----------------------------------------------------------------------------
(* A worker that is alone keeps the documents in agreement. *)

\* A worker alone at work disturbs no other's memory.
LEMMA WorkerStep ==
  ASSUME TypeOK, Serial, NEW w \in Worker,
         phase[w] # "idle" \/ \A v \in Worker : phase[v] = "idle",
         \A v \in Worker \ {w} : phase'[v] = phase[v] /\ op'[v] = op[v],
         Agreed', Memory(w)'
  PROVE  Serial'
<1>1. ASSUME NEW v \in Worker \ {w} PROVE phase'[v] = "idle" /\ op'[v] = "none"
  BY <1>1 DEF Serial, Lone, Memory
<1>2. Lone'
  BY <1>1 DEF Lone
<1>3. ASSUME NEW v \in Worker \ {w} PROVE Memory(v)'
  BY <1>1, <1>3 DEF Memory
<1> QED BY <1>2, <1>3 DEF Serial

\* Where the documents and what is owed are left alone, they still agree.
LEMMA SameDocuments ==
  ASSUME Agreed, UNCHANGED <<catalog, index, binding, known, past>>
  PROVE  Agreed'
BY DEF Agreed, Owner, Bound, Owing, Backed, Sole

\* A worker that ends has nothing to remember.
LEMMA EndWorkMemory ==
  ASSUME TypeOK, NEW w \in Worker, EndWork(w)
  PROVE  /\ Memory(w)'
         /\ \A v \in Worker \ {w} : phase'[v] = phase[v] /\ op'[v] = op[v]
BY DEF EndWork, Memory, TypeOK

\* A worker that starts while none is at work leaves the documents in agreement.
LEMMA StartAlone ==
  ASSUME TypeOK, Serial, ~overlapped', NEW w \in Worker, NEW d \in Directory, NEW o,
         Start(w, o, d)
  PROVE  /\ \A v \in Worker : phase[v] = "idle"
         /\ op'[w] = o /\ \A v \in Worker \ {w} : op'[v] = op[v]
         /\ UNCHANGED <<catalog, index, binding, known, past>>
         /\ Agreed'
<1>1. {v \in Worker \ {w} : phase[v] # "idle"} = {} /\ phase[w] = "idle"
  BY DEF Start
<1>2. UNCHANGED <<catalog, index, binding, known, past>>
  BY <1>1 DEF Start, documents
<1> QED BY <1>1, <1>2, SameDocuments DEF Start, Serial, TypeOK

\* A Project that is the only one to claim a directory can be listed there.
LEMMA ListedAgrees ==
  ASSUME TypeOK, Agreed, NEW i \in Project, NEW d \in Directory,
         past[d] # "stray" => Sole(catalog, d, i),
         catalog' = Listed(catalog, i, d, "active"),
         UNCHANGED <<index, binding, known, past>>
  PROVE  Agreed' /\ catalog'[i][d] # "none"
<1>1. \A j \in Project, e \in Directory :
        catalog'[j][e] = IF j = i /\ e = d THEN "active" ELSE catalog[j][e]
  <2>1. catalog \in Catalog /\ "active" \in Standing
    BY DEF TypeOK, Standing
  <2>2. \A j \in Project, e \in Directory : Listed(catalog, i, d, "active")[j][e]
          = IF j = i /\ e = d THEN "active" ELSE catalog[j][e]
    BY <2>1, ListedValue
  <2> QED BY <2>2
<1>2. Owner'
  BY <1>1 DEF Agreed, Owner, Sole
<1>3. \A e \in Directory, j \in Project : catalog[j][e] # "none" => catalog'[j][e] # "none"
  BY <1>1
<1>4. \A e \in Directory : index[e] \in 0..MaxProject /\ binding[e] \in 0..MaxProject
                           /\ known[e] \in 0..MaxProject
  BY DEF TypeOK, Index
<1>5. \A e \in Directory :
        /\ index[e] # 0 => index[e] \in Project
        /\ binding[e] # 0 => binding[e] \in Project
        /\ known[e] # 0 => known[e] \in Project
  BY <1>4, CatalogAssumption DEF Project
<1>6. Bound'
  BY <1>3, <1>5 DEF Agreed, Bound
<1>7. Owing'
  BY <1>3, <1>5 DEF Agreed, Owing
<1>8. Backed(index, catalog)'
  BY <1>3, <1>5 DEF Agreed, Backed
<1> QED BY <1>1, <1>2, <1>6, <1>7, <1>8 DEF Agreed

\* A claimant's binding file can be written where the index names no other.
LEMMA BoundAgrees ==
  ASSUME TypeOK, Agreed, NEW i \in Project, NEW d \in Directory,
         catalog[i][d] # "none", index[d] \in {0, i},
         binding' = [binding EXCEPT ![d] = i],
         known' = [known EXCEPT ![d] = Owed(i, past[d], index[d])],
         UNCHANGED <<catalog, index, past>>
  PROVE  Agreed'
<1>1. Owner' /\ Backed(index, catalog)'
  BY DEF Agreed, Owner, Sole, Backed
<1>2. Bound'
  BY DEF Agreed, Bound, TypeOK, Index
<1>3. Owing'
  BY DEF Agreed, Owing, Owed, TypeOK, Index
<1> QED BY <1>1, <1>2, <1>3 DEF Agreed
\* A command or ingest that starts alone.
LEMMA BeginStep ==
  ASSUME TypeOK, Serial, ~overlapped', NEW w \in Worker,
         \/ \E d \in Directory : BeginIngest(w, d)
         \/ \E i \in Project, d \in Directory : BeginAdd(w, i, d) \/ BeginRetire(w, i, d)
         \/ \E i \in Project, p, q \in Directory : BeginRelocate(w, i, p, q)
  PROVE  Serial'
<1>1. ASSUME NEW d \in Directory, BeginIngest(w, d) PROVE Serial'
  <2>1. Start(w, "ingest", d)
    BY <1>1 DEF BeginIngest
  <2>2. Memory(w)'
    BY <1>1, <2>1, StartAlone DEF BeginIngest, Goto, Memory, TypeOK, Serial, Agreed, Bound
  <2> QED BY <1>1, <2>1, <2>2, StartAlone, WorkerStep DEF BeginIngest, Goto, TypeOK
<1>2. ASSUME NEW i \in Project, NEW d \in Directory, BeginAdd(w, i, d) PROVE Serial'
  <2>1. Start(w, "add", d)
    BY <1>2 DEF BeginAdd
  <2>2. Memory(w)'
    BY <1>2, <2>1, StartAlone DEF BeginAdd, Goto, Memory, TypeOK
  <2> QED BY <1>2, <2>1, <2>2, StartAlone, WorkerStep DEF BeginAdd, Goto, TypeOK
<1>3. ASSUME NEW i \in Project, NEW d \in Directory, BeginRetire(w, i, d) PROVE Serial'
  <2>1. Start(w, "retire", d)
    BY <1>3 DEF BeginRetire
  <2>2. Memory(w)'
    BY <1>3, <2>1, StartAlone DEF BeginRetire, Goto, Memory, TypeOK
  <2> QED BY <1>3, <2>1, <2>2, StartAlone, WorkerStep DEF BeginRetire, Goto, TypeOK
<1>4. ASSUME NEW i \in Project, NEW p \in Directory, NEW q \in Directory,
             BeginRelocate(w, i, p, q)
      PROVE Serial'
  <2>1. Start(w, "relocate", q)
    BY <1>4 DEF BeginRelocate
  <2>2. prior'[w] = catalog /\ phase'[w] = "claim"
    BY <1>4 DEF BeginRelocate, Goto, TypeOK
  <2>3. Memory(w)'
    BY <2>1, <2>2, StartAlone DEF Memory, Serial, Agreed, Backed
  <2> QED BY <1>4, <2>1, <2>3, StartAlone, WorkerStep DEF BeginRelocate, Goto, TypeOK
<1> QED BY <1>1, <1>2, <1>3, <1>4

\* The identity an ingest settles on is the only one with a claim.
LEMMA ResolveStep ==
  ASSUME TypeOK, TypeOK', Serial, NEW w \in Worker, Resolve(w)
  PROVE  Serial'
<1> DEFINE d == dir[w]
           i == id'[w]
           found == Resolved(seen[w], cat[w], index, d)
<1>1. /\ d \in Directory /\ cat[w] = catalog /\ op[w] = "ingest" /\ phase[w] # "idle"
      /\ seen[w] # 0 /\ past[d] # "stray" => catalog[seen[w]][d] # "none"
  BY DEF Resolve, TypeOK, Serial, Memory
<1>2. /\ UNCHANGED <<catalog, index, binding, known, past, op, dir>>
      /\ phase' = [phase EXCEPT ![w] = "enter"] /\ cat' = cat
  BY DEF Resolve, Goto, history
<1>3. phase'[w] = "enter" /\ i \in Project
  BY <1>2 DEF TypeOK
<1>4. i \in found \/ found = {}
  BY DEF Resolve, TypeOK
<1>5. index[d] \in {0, i}
  BY <1>4 DEF Resolved
<1>6. ASSUME past[d] # "stray" PROVE Sole(catalog, d, i) /\ binding[d] \in {0, i}
  <2>1. /\ index[d] # 0 => index[d] \in Project /\ catalog[index[d]][d] # "none"
        /\ binding[d] # 0 => binding[d] \in Project /\ catalog[binding[d]][d] # "none"
        /\ seen[w] # 0 => seen[w] \in Project
    BY <1>1, <1>6, CatalogAssumption
       DEF Serial, Agreed, Backed, Bound, TypeOK, Index, Project
  <2>2. catalog[i][d] # "none" \/ Claimants(catalog, d) = {}
    BY <1>1, <1>4, <1>6, <2>1 DEF Resolved, Claimants
  <2>3. Sole(catalog, d, i)
    BY <1>1, <1>3, <1>6, <2>2 DEF Serial, Agreed, Owner, Sole, Claimants
  <2> QED BY <2>1, <2>3 DEF Sole
<1>7. Memory(w)'
  BY <1>1, <1>2, <1>3, <1>5, <1>6 DEF Memory
<1>8. Agreed'
  BY <1>2, SameDocuments DEF Serial
<1> QED BY <1>1, <1>2, <1>7, <1>8, WorkerStep DEF TypeOK

\* The writes of an ingest keep the documents in agreement.
LEMMA IngestWrites ==
  ASSUME TypeOK, TypeOK', Serial, NEW w \in Worker, Enter(w) \/ Record(w) \/ Bind(w)
  PROVE  Serial'
<1>1. CASE Enter(w)
  <2>1. /\ id[w] \in Project /\ dir[w] \in Directory /\ cat[w] = catalog
        /\ op[w] = "ingest" /\ index[dir[w]] \in {0, id[w]}
        /\ past[dir[w]] # "stray" => Sole(catalog, dir[w], id[w])
    BY <1>1 DEF Enter, TypeOK, Serial, Memory
  <2>2. /\ catalog' = Listed(catalog, id[w], dir[w], "active")
        /\ phase'[w] = "look"
        /\ UNCHANGED <<index, binding, known, past, op, id, dir>>
    BY <1>1, <2>1 DEF Enter, Goto, TypeOK, history
  <2>3. Agreed' /\ catalog'[id[w]][dir[w]] # "none"
    BY <2>1, <2>2, ListedAgrees DEF Serial
  <2>4. Memory(w)'
    BY <2>1, <2>2, <2>3 DEF Memory
  <2> QED BY <1>1, <2>3, <2>4, WorkerStep DEF Enter, Goto, TypeOK
<1>2. CASE Record(w)
  <2>1. /\ id[w] \in Project /\ dir[w] \in Directory /\ idx[w] \in Index
        /\ op[w] = "ingest" /\ index[dir[w]] \in {0, id[w]}
        /\ catalog[id[w]][dir[w]] # "none" /\ Backed(idx[w], catalog)
        /\ \A d \in Directory : index[d] # 0 => idx[w][d] = index[d]
    BY <1>2 DEF Record, TypeOK, Serial, Memory
  <2>2. /\ \A d \in Directory : index'[d] = IF d = dir[w] THEN id[w] ELSE idx[w][d]
        /\ phase'[w] = "bind"
        /\ UNCHANGED <<catalog, binding, known, past, op, id, dir>>
    BY <1>2, <2>1 DEF Record, Goto, TypeOK, history, Index
  <2>3. Backed(index, catalog)'
    BY <2>1, <2>2 DEF Backed
  <2>4. Owing'
    BY <2>1, <2>2 DEF Serial, Agreed, Owing
  <2>5. Agreed'
    BY <2>2, <2>3, <2>4 DEF Serial, Agreed, Owner, Bound, Sole
  <2>6. Memory(w)'
    BY <2>1, <2>2 DEF Memory
  <2> QED BY <1>2, <2>5, <2>6, WorkerStep DEF Record, Goto, TypeOK
<1>3. CASE Bind(w)
  <2>1. /\ id[w] \in Project /\ dir[w] \in Directory /\ op[w] = "ingest"
        /\ catalog[id[w]][dir[w]] # "none" /\ index[dir[w]] \in {0, id[w]}
    BY <1>3 DEF Bind, TypeOK, Serial, Memory
  <2>2. Agreed'
    BY <1>3, <2>1, BoundAgrees DEF Bind, Serial
  <2>3. Memory(w)'
    BY <1>3, <2>1 DEF Bind, Goto, Memory, TypeOK
  <2> QED BY <1>3, <2>2, <2>3, WorkerStep DEF Bind, Goto, TypeOK
<1> QED BY <1>1, <1>2, <1>3
\* The steps of an ingest that only read keep the agreement.
LEMMA IngestReads ==
  ASSUME TypeOK, TypeOK', Serial, NEW w \in Worker,
         Load(w) \/ Look(w) \/ Open(w) \/ Link(w) \/ Relink(w) \/ IngestDone(w)
  PROVE  Serial'
<1>1. /\ phase[w] # "idle"
      /\ UNCHANGED <<index, binding, known, past>>
      /\ catalog' = catalog \/ (phase[w] = "relink" /\ catalog' = cat[w])
  BY DEF Load, Look, Open, Link, Relink, IngestDone, documents, history
<1>2. Agreed'
  <2>1. catalog' = catalog
    BY <1>1 DEF Serial, Memory
  <2> QED BY <1>1, <2>1, SameDocuments DEF Serial
<1>3. CASE EndWork(w)
  BY <1>1, <1>2, <1>3, EndWorkMemory, WorkerStep
<1>4. CASE Load(w)
  <2>1. /\ phase'[w] = "resolve" /\ cat'[w] = catalog' /\ op[w] = "ingest"
        /\ UNCHANGED <<catalog, past, op, dir, seen>>
    BY <1>4 DEF Load, Goto, TypeOK, documents, history, Serial, Memory
  <2>2. Memory(w)'
    BY <1>4, <2>1 DEF Load, Memory, Serial
  <2> QED BY <1>1, <1>2, <1>4, <2>2, WorkerStep DEF Load, Goto, TypeOK
<1>5. CASE Look(w)
  <2>1. /\ phase'[w] \in {"bind", "record"} /\ idx'[w] = index /\ op[w] = "ingest"
        /\ UNCHANGED <<catalog, index, past, op, id, dir>>
    BY <1>5 DEF Look, Goto, TypeOK, documents, history, Serial, Memory
  <2>2. Memory(w)'
    BY <1>5, <2>1 DEF Look, Memory, Serial, Agreed, Backed
  <2> QED BY <1>1, <1>2, <1>5, <2>2, WorkerStep DEF Look, Goto, TypeOK
<1>6. CASE Open(w) /\ ~EndWork(w)
  <2>1. phase'[w] = "link" /\ op[w] = "ingest" /\ op' = op
    BY <1>6 DEF Open, Goto, TypeOK, Serial, Memory
  <2>2. Memory(w)'
    BY <2>1 DEF Memory
  <2> QED BY <1>1, <1>2, <1>6, <2>2, WorkerStep DEF Open, Goto, TypeOK
<1>7. CASE Link(w)
  <2>1. /\ phase'[w] = "relink" /\ op[w] = "ingest" /\ op' = op /\ cat'[w] = catalog'
    BY <1>7 DEF Link, Goto, TypeOK, documents, Serial, Memory
  <2>2. Memory(w)'
    BY <2>1 DEF Memory
  <2> QED BY <1>1, <1>2, <1>7, <2>2, WorkerStep DEF Link, Goto, TypeOK
<1> QED BY <1>3, <1>4, <1>5, <1>6, <1>7 DEF Relink, IngestDone

\* A command that looks whether it may go on keeps the agreement.
LEMMA CommandReads ==
  ASSUME TypeOK, TypeOK', Serial, NEW w \in Worker, Claim(w) \/ Verify(w) \/ Fail(w)
  PROVE  Serial'
<1>1. /\ phase[w] # "idle" /\ UNCHANGED <<catalog, index, binding, known, past>>
  BY DEF Claim, Verify, Fail, documents, history
<1>2. Agreed'
  BY <1>1, SameDocuments DEF Serial
<1>3. CASE EndWork(w)
  BY <1>1, <1>2, <1>3, EndWorkMemory, WorkerStep
<1>4. CASE ~EndWork(w)
  <2>1. /\ UNCHANGED <<op, id, dir, from, prior>>
        /\ \A v \in Worker \ {w} : phase'[v] = phase[v]
    BY <1>4 DEF Claim, Verify, Fail, Refused, Goto, TypeOK
  <2>2. CASE phase'[w] = "undo"
    <3>1. op[w] = "relocate"
      BY <1>4, <2>2 DEF Claim, Verify, Fail, Refused, Goto, TypeOK
    <3>2. Memory(w)'
      BY <1>1, <2>1, <2>2, <3>1 DEF Memory, Serial
    <3> QED BY <1>1, <1>2, <2>1, <3>2, WorkerStep
  <2>3. CASE phase'[w] = "save" /\ Claim(w)
    <3>1. Free(catalog, id[w], dir[w]) /\ cat'[w] = catalog
      BY <1>4, <2>3 DEF Claim, Refused, Goto, TypeOK
    <3>2. id[w] \in Project /\ dir[w] \in Directory
      BY <2>3 DEF Claim, TypeOK
    <3>3. Sole(catalog, dir[w], id[w])
      BY <3>1 DEF Free, Claimants, Sole
    <3>4. index[dir[w]] \in {0, id[w]}
      <4>1. index[dir[w]] # 0 => index[dir[w]] \in Project
                                 /\ catalog[index[dir[w]]][dir[w]] # "none"
        BY <3>2, CatalogAssumption DEF TypeOK, Index, Project, Serial, Agreed, Backed
      <4> QED BY <3>3, <4>1 DEF Sole
    <3>5. Memory(w)'
      BY <1>1, <2>1, <2>3, <3>1, <3>3, <3>4 DEF Memory, Serial
    <3> QED BY <1>1, <1>2, <2>1, <3>5, WorkerStep
  <2>4. CASE phase'[w] = "drop" /\ Verify(w)
    <3>1. cat'[w] = catalog /\ catalog[id[w]][from[w]] # "none"
      BY <1>4, <2>4 DEF Verify, MayRetire, Refused, Goto, TypeOK
    <3>2. Memory(w)'
      BY <1>1, <2>1, <2>4, <3>1 DEF Memory, Serial
    <3> QED BY <1>1, <1>2, <2>1, <3>2, WorkerStep
  <2>5. \/ phase'[w] = "undo" \/ (phase'[w] = "save" /\ Claim(w))
        \/ (phase'[w] = "drop" /\ Verify(w))
    BY <1>4 DEF Claim, Verify, Fail, Refused, Goto, TypeOK
  <2> QED BY <2>2, <2>3, <2>4, <2>5
<1> QED BY <1>3, <1>4
\* The writes of a command keep the documents in agreement.
LEMMA CommandWrites ==
  ASSUME TypeOK, TypeOK', Serial, ~overlapped, NEW w \in Worker,
         Save(w) \/ Adopt(w) \/ Drop(w)
  PROVE  Serial'
<1>1. CASE Save(w)
  <2>1. /\ id[w] \in Project /\ dir[w] \in Directory /\ cat[w] = catalog
        /\ index[dir[w]] \in {0, id[w]} /\ Sole(catalog, dir[w], id[w])
    BY <1>1 DEF Save, TypeOK, Serial, Memory
  <2>2. /\ catalog' = Listed(catalog, id[w], dir[w], "active")
        /\ phase'[w] = "adopt"
        /\ UNCHANGED <<index, binding, known, past, op, id, dir, prior>>
    BY <1>1, <2>1 DEF Save, Goto, TypeOK, history
  <2>3. Agreed' /\ catalog'[id[w]][dir[w]] # "none"
    BY <2>1, <2>2, ListedAgrees DEF Serial
  <2>4. \A j \in Project, e \in Directory :
          j # id[w] \/ e # dir[w] => catalog'[j][e] = catalog[j][e]
    <3>1. catalog \in Catalog /\ "active" \in Standing
      BY DEF TypeOK, Standing
    <3> QED BY <2>1, <2>2, <3>1, ListedValue
  <2>5. Memory(w)'
    BY <1>1, <2>1, <2>2, <2>3, <2>4 DEF Save, Memory, Serial
  <2> QED BY <1>1, <2>3, <2>5, WorkerStep DEF Save, Goto, TypeOK
<1>2. CASE Adopt(w)
  <2>1. /\ id[w] \in Project /\ dir[w] \in Directory
        /\ catalog[id[w]][dir[w]] # "none" /\ index[dir[w]] \in {0, id[w]}
    BY <1>2 DEF Adopt, TypeOK, Serial, Memory
  <2>2. Agreed'
    BY <1>2, <2>1, BoundAgrees DEF Adopt, Serial
  <2>3. CASE EndWork(w)
    BY <1>2, <2>2, <2>3, EndWorkMemory, WorkerStep DEF Adopt
  <2>4. CASE ~EndWork(w)
    <3>1. /\ phase' = [phase EXCEPT ![w] = "verify"]
          /\ UNCHANGED <<catalog, index, op, id, dir, prior>>
      BY <1>2, <2>4 DEF Adopt, Goto
    <3>2. Memory(w)'
      BY <1>2, <3>1 DEF Adopt, Memory, Serial, TypeOK
    <3> QED BY <1>2, <2>2, <3>1, <3>2, WorkerStep DEF Adopt, TypeOK
  <2> QED BY <2>3, <2>4
<1>3. CASE Drop(w)
  <2>1. /\ id[w] \in Project /\ from[w] \in Directory /\ cat[w] = catalog
        /\ catalog[id[w]][from[w]] # "none"
    BY <1>3 DEF Drop, TypeOK, Serial, Memory
  <2>2. /\ \A j \in Project, e \in Directory :
             catalog'[j][e] # "none" <=> catalog[j][e] # "none"
        /\ UNCHANGED <<index, binding, known, past>>
    <3>1. catalog \in Catalog /\ "retired" \in Standing
      BY DEF TypeOK, Standing
    <3>2. catalog' = Listed(catalog, id[w], from[w], "retired")
      BY <1>3, <2>1 DEF Drop
    <3>3. \A j \in Project, e \in Directory : catalog'[j][e]
            = IF j = id[w] /\ e = from[w] THEN "retired" ELSE catalog[j][e]
      BY <2>1, <3>1, <3>2, ListedValue
    <3> QED BY <1>3, <2>1, <3>3 DEF Drop, history
  <2>3. \A e \in Directory :
        /\ index[e] # 0 => index[e] \in Project
        /\ binding[e] # 0 => binding[e] \in Project
        /\ known[e] # 0 => known[e] \in Project
    BY CatalogAssumption DEF TypeOK, Index, Project
  <2>4. Owner'
    BY <2>2 DEF Serial, Agreed, Owner, Sole
  <2>5. Bound' /\ Owing' /\ Backed(index, catalog)'
    BY <2>2, <2>3 DEF Serial, Agreed, Bound, Owing, Backed
  <2>6. Agreed'
    BY <2>2, <2>4, <2>5 DEF Serial, Agreed
  <2> QED BY <1>3, <2>6, EndWorkMemory, WorkerStep DEF Drop
<1> QED BY <1>1, <1>2, <1>3

\* A relocation that is undone puts back a catalog the other documents agree with.
LEMMA UndoStep ==
  ASSUME TypeOK, TypeOK', Serial, NEW w \in Worker, Undo(w)
  PROVE  Serial'
<1> DEFINE d == dir[w]
<1>1. /\ d \in Directory /\ id[w] \in Project /\ prior[w] \in Catalog
      /\ Backed(index, prior[w])
      /\ \A j \in Project, e \in Directory :
           j # id[w] \/ e # d => prior[w][j][e] = catalog[j][e]
  BY DEF Undo, TypeOK, Serial, Memory
<1>2. Worse(d, "stray") = "stray"
  BY <1>1 DEF Worse, Serial, Agreed
<1>3. /\ catalog' = prior[w] /\ UNCHANGED <<index, binding>>
      /\ past'[d] = "stray" /\ \A e \in Directory \ {d} : past'[e] = past[e]
      /\ \A e \in Directory \ {d} : known'[e] = known[e]
  BY <1>1, <1>2 DEF Undo, TypeOK, Index
<1>4. known'[d] # 0 => index[d] # 0 /\ known'[d] = known[d]
  BY <1>1, <1>3 DEF Undo, Owed, TypeOK, Index
<1>5. \A e \in Directory :
      /\ index[e] # 0 => index[e] \in Project
      /\ binding[e] # 0 => binding[e] \in Project
      /\ known[e] # 0 => known[e] \in Project
  BY CatalogAssumption DEF TypeOK, Index, Project
<1>6. known'[d] # 0 => index[d] = known[d]
  <2> SUFFICES ASSUME known'[d] # 0, past[d] # "stray" PROVE index[d] = known[d]
    BY <1>1, <1>4 DEF Serial, Agreed, Owing
  <2>1. catalog[index[d]][d] # "none" /\ catalog[known[d]][d] # "none"
    BY <1>1, <1>4 DEF Serial, Agreed, Owing, Backed
  <2> QED BY <1>1, <1>4, <1>5, <2>1 DEF Serial, Agreed, Owner, Sole
<1>7. Owner'
  BY <1>1, <1>3 DEF Serial, Agreed, Owner, Sole
<1>8. Bound'
  BY <1>1, <1>3, <1>5 DEF Serial, Agreed, Bound
<1>9. Owing'
  BY <1>1, <1>3, <1>4, <1>5, <1>6 DEF Serial, Agreed, Owing
<1>10. Agreed'
  BY <1>1, <1>3, <1>7, <1>8, <1>9 DEF Serial, Agreed
<1> QED BY <1>10, EndWorkMemory, WorkerStep DEF Undo

\* A worker that dies leaves the documents as they are.
LEMMA CrashStep ==
  ASSUME TypeOK, Serial, ~overlapped, NEW w \in Worker, Crash(w)
  PROVE  Serial'
<1>1. UNCHANGED <<catalog, index, binding, known, past>>
  BY DEF Crash, documents
<1> QED BY <1>1, SameDocuments, EndWorkMemory, WorkerStep DEF Crash, Serial

\* Whatever becomes of the working trees and the index, the documents agree with
\* what is owed.
LEMMA OutsideStep ==
  ASSUME TypeOK, TypeOK', Serial,
         \/ \E d \in Directory : Clean(d)
         \/ \E p, q \in Directory : Copy(p, q) \/ Move(p, q)
         \/ Damage
  PROVE  Serial'
<1>1. UNCHANGED <<catalog, phase, op, id, dir, from, seen, cat, idx, prior>>
  BY DEF Clean, Copy, Move, Damage, work
<1>2. \A e \in Directory :
      /\ past'[e] # "contested"
      /\ past[e] = "stray" => past'[e] = "stray"
      /\ index'[e] \in {0, index[e]}
      /\ past'[e] # "stray" => binding'[e] \in {0, binding[e]} /\ known'[e] = known[e]
      /\ known'[e] # 0 => known'[e] = known[e] /\ (past'[e] = "stray" => index'[e] # 0)
  <2> SUFFICES ASSUME NEW e \in Directory
               PROVE /\ past'[e] # "contested"
                     /\ past[e] = "stray" => past'[e] = "stray"
                     /\ index'[e] \in {0, index[e]}
                     /\ past'[e] # "stray" => binding'[e] \in {0, binding[e]}
                                              /\ known'[e] = known[e]
                     /\ known'[e] # 0 => known'[e] = known[e]
                                         /\ (past'[e] = "stray" => index'[e] # 0)
    OBVIOUS
  <2>1. past[e] # "contested" /\ (past[e] = "stray" /\ known[e] # 0 => index[e] # 0)
    BY DEF Serial, Agreed, Owing
  <2>2. ASSUME NEW d \in Directory, Clean(d)
        PROVE  /\ UNCHANGED <<index, known>> /\ binding'[e] \in {0, binding[e]}
               /\ past'[e] = past[e] \/ past'[e] = Worse(e, "cleaned")
    BY <2>2 DEF Clean, TypeOK, Index
  <2>3. ASSUME NEW p \in Directory, NEW q \in Directory, Copy(p, q)
        PROVE  /\ index' = index
               /\ \/ /\ past'[e] = past[e] /\ known'[e] = known[e]
                     /\ binding'[e] = binding[e]
                  \/ /\ past'[e] = Worse(e, "stray")
                     /\ known'[e] = Owed(known[e], past'[e], index[e])
    BY <2>3 DEF Copy, TypeOK, Index
  <2>4. ASSUME NEW p \in Directory, NEW q \in Directory, Move(p, q)
        PROVE  /\ index' = index
               /\ \/ /\ past'[e] \in {past[e], Worse(e, "cleaned")}
                     /\ known'[e] = known[e] /\ binding'[e] \in {0, binding[e]}
                  \/ /\ past'[e] = Worse(e, "stray")
                     /\ known'[e] = Owed(known[e], past'[e], index[e])
    BY <2>4 DEF Move, TypeOK, Index
  <2>5. CASE Damage
    BY <2>1, <2>5 DEF Damage, NoIndex, Owed, TypeOK, Index
  <2> QED BY <2>1, <2>2, <2>3, <2>4, <2>5 DEF Worse, Owed
<1>3. Owner'
  BY <1>1, <1>2 DEF Serial, Agreed, Owner, Sole
<1>4. Bound'
  BY <1>1, <1>2 DEF Serial, Agreed, Bound
<1>5. Backed(index, catalog)'
  BY <1>1, <1>2 DEF Serial, Agreed, Backed
<1>6. Owing'
  <2> SUFFICES ASSUME NEW e \in Directory, known'[e] # 0
               PROVE IF past'[e] = "stray" THEN index'[e] = known'[e]
                     ELSE catalog[known'[e]][e] # "none"
    BY <1>1 DEF Owing
  <2>1. known'[e] = known[e] /\ known[e] \in Project
    BY <1>2, CatalogAssumption DEF TypeOK, Index, Project
  <2>2. CASE past'[e] # "stray"
    BY <1>2, <2>1, <2>2 DEF Serial, Agreed, Owing
  <2>3. CASE past'[e] = "stray"
    <3>1. index'[e] = index[e] /\ index[e] # 0 /\ index[e] \in Project
      BY <1>2, <2>1, <2>3, CatalogAssumption DEF TypeOK, Index, Project
    <3>2. catalog[index[e]][e] # "none"
      BY <3>1 DEF Serial, Agreed, Backed
    <3> QED BY <2>1, <2>3, <3>1, <3>2 DEF Serial, Agreed, Owing, Owner, Sole
  <2> QED BY <2>2, <2>3
<1>7. ASSUME NEW v \in Worker PROVE Memory(v)'
  <2>1. Memory(v)
    BY DEF Serial
  <2>2. phase[v] \notin {"idle", "verify", "drop"} => dir[v] \in Directory
    BY DEF TypeOK
  <2>3. op[v] = "relocate" => Backed(index', prior[v])
    BY <1>2, <2>1 DEF Memory, Backed
  <2>4. phase[v] = "record" => \A e \in Directory : index'[e] # 0 => idx[v][e] = index'[e]
    BY <1>2, <2>1 DEF Memory
  <2>5. phase[v] \in {"enter", "look", "record", "bind", "save", "adopt"} =>
          index'[dir[v]] \in {0, id[v]}
    BY <1>2, <2>1, <2>2 DEF Memory
  <2>6. phase[v] = "enter" /\ past'[dir[v]] # "stray" =>
          Sole(catalog, dir[v], id[v]) /\ binding'[dir[v]] \in {0, id[v]}
    BY <1>2, <2>1, <2>2 DEF Memory
  <2>7. phase[v] \in {"load", "resolve"} /\ seen[v] # 0 /\ past'[dir[v]] # "stray" =>
          catalog[seen[v]][dir[v]] # "none"
    BY <1>2, <2>1, <2>2 DEF Memory
  <2> QED BY <1>1, <2>1, <2>3, <2>4, <2>5, <2>6, <2>7 DEF Memory, Backed, Sole
<1>8. Agreed'
  BY <1>2, <1>3, <1>4, <1>5, <1>6 DEF Agreed
<1>9. Lone'
  BY <1>1 DEF Serial, Lone
<1> QED BY <1>7, <1>8, <1>9 DEF Serial
\* Every step that leaves no two workers at once keeps the invariant.
LEMMA InvStep == IInv /\ [Next]_vars => IInv'
<1> SUFFICES ASSUME IInv, [Next]_vars PROVE IInv'
  OBVIOUS
<1>1. TypeOK /\ TypeOK'
  BY TypeStep DEF IInv
<1> SUFFICES ASSUME ~overlapped' PROVE Serial'
  BY <1>1 DEF IInv
<1>2. ~overlapped
  BY <1>1 DEF Next, vars, TypeOK, history, BeginIngest, BeginAdd, BeginRetire,
       BeginRelocate, Start, IngestStep, CommandStep, Load, Resolve, Enter, Look, Record,
       Bind, Open, Link, Relink, IngestDone, Claim, Save, Adopt, Verify, Drop, Fail,
       Undo, Crash, Clean, Copy, Move, Damage
<1>3. Serial
  BY <1>2 DEF IInv
<1>4. CASE UNCHANGED vars
  BY <1>3, <1>4 DEF vars, documents, history, work, Serial, Agreed, Owner, Bound,
       Owing, Backed, Sole, Lone, Memory
<1>5. CASE \E w \in Worker :
             \/ \E d \in Directory : BeginIngest(w, d)
             \/ \E i \in Project, d \in Directory : BeginAdd(w, i, d) \/ BeginRetire(w, i, d)
             \/ \E i \in Project, p, q \in Directory : BeginRelocate(w, i, p, q)
  BY <1>1, <1>3, <1>5, BeginStep
<1>6. CASE \E w \in Worker : IngestStep(w)
  BY <1>1, <1>3, <1>6, ResolveStep, IngestWrites, IngestReads DEF IngestStep
<1>7. CASE \E w \in Worker : CommandStep(w)
  BY <1>1, <1>2, <1>3, <1>7, CommandReads, CommandWrites, UndoStep DEF CommandStep
<1>8. CASE \E w \in Worker : Crash(w)
  BY <1>1, <1>2, <1>3, <1>8, CrashStep
<1>9. CASE \/ \E d \in Directory : Clean(d)
           \/ \E p, q \in Directory : Copy(p, q) \/ Move(p, q)
           \/ Damage
  BY <1>1, <1>3, <1>9, OutsideStep
<1> QED BY <1>4, <1>5, <1>6, <1>7, <1>8, <1>9 DEF Next

\* The invariant holds of every behaviour.
LEMMA InvHolds == Spec => []IInv
BY InitInv, InvStep, PTL DEF Spec

-----------------------------------------------------------------------------
(* What follows for every number of directories, Projects and workers. *)

\* The documents and what the workers hold keep their types (load_catalog,
\* load_binding_index), however the workers overlap.
THEOREM CatalogTypes == Spec => []TypeOK
<1>1. IInv => TypeOK
  BY DEF IInv
<1> QED BY <1>1, InvHolds, PTL

\* The index never says more than the catalog while processes do not overlap,
\* whatever dies, fails, is copied, moved or undone between two writes
\* (ensure_project_binding, relocate_project).
THEOREM IndexIsBacked == Spec => []IndexBacked
<1>1. IInv => IndexBacked
  BY DEF IInv, Serial, Agreed, Backed, IndexBacked
<1> QED BY <1>1, InvHolds, PTL

\* No two Projects claim a directory into which no foreign binding file came,
\* while processes do not overlap (add_project_location, _resolve_project_id).
THEOREM DirectoryHasOneOwner == Spec => []OneOwner
<1>1. IInv => OneOwner
  <2> SUFFICES ASSUME IInv, ~overlapped, NEW d \in Directory, past[d] # "stray"
               PROVE Cardinality(Claimants(catalog, d)) <= 1
    BY DEF OneOwner
  <2>1. CASE Claimants(catalog, d) = {}
    BY <2>1, FS_EmptySet
  <2>2. ASSUME NEW i \in Claimants(catalog, d)
        PROVE Cardinality(Claimants(catalog, d)) <= 1
    <3>1. Claimants(catalog, d) = {i}
      BY <2>2 DEF Claimants, IInv, Serial, Agreed, Owner, Sole
    <3> QED BY <3>1, FS_Singleton
  <2> QED BY <2>1, <2>2
<1> QED BY <1>1, InvHolds, PTL

\* An ingest begun now gives every directory the identity it is owed, through
\* crashes between the writes of the three documents, failed relocations, cleaned,
\* copied and moved trees and a lost index, while processes do not overlap
\* (_resolve_project_id, ensure_project_binding).
THEOREM IdentityIsSettled == Spec => []KeepsIdentity
<1>1. IInv => KeepsIdentity
  <2> SUFFICES ASSUME IInv, ~overlapped, NEW d \in Directory, known[d] # 0
               PROVE Resolved(binding[d], catalog, index, d) = {known[d]}
    BY DEF KeepsIdentity, IdentityIsKept
  <2>1. Agreed
    BY DEF IInv, Serial
  <2>2. /\ known[d] \in Project
        /\ index[d] # 0 => index[d] \in Project
        /\ binding[d] # 0 => binding[d] \in Project
    BY CatalogAssumption DEF IInv, TypeOK, Index, Project
  <2>3. CASE past[d] = "stray"
    BY <2>1, <2>3 DEF Agreed, Owing, Resolved
  <2>4. CASE past[d] # "stray"
    <3>1. catalog[known[d]][d] # "none"
      BY <2>1, <2>4 DEF Agreed, Owing
    <3>2. \A i \in Project : catalog[i][d] # "none" => i = known[d]
      BY <2>1, <2>2, <2>4, <3>1 DEF Agreed, Owner, Sole
    <3>3. index[d] # 0 => index[d] = known[d]
      BY <2>1, <2>2, <3>2 DEF Agreed, Backed
    <3>4. binding[d] # 0 => binding[d] = known[d]
      BY <2>1, <2>2, <2>4, <3>2 DEF Agreed, Bound
    <3>5. Claimants(catalog, d) = {known[d]}
      BY <2>2, <3>1, <3>2 DEF Claimants
    <3> QED BY <3>3, <3>4, <3>5 DEF Resolved
  <2> QED BY <2>3, <2>4
<1> QED BY <1>1, InvHolds, PTL

-----------------------------------------------------------------------------
(* What workers that overlap leave alone: a tree that is its owner's own. *)

\* No two workers are in its directory.
Met(d) == \A v, w \in Worker : dir[v] = d /\ dir[w] = d => v = w

\* Once an identity is settled, whatever is written of the directory names it:
\* its own file, the index, and every copy of the index about to be written.
Settled(d) ==
  known[d] # 0 =>
    /\ binding[d] = known[d] /\ index[d] \in {0, known[d]}
    /\ \A w \in Worker : phase[w] = "record" => idx[w][d] \in {0, known[d]}

\* Until then all copies of the index say of it what the index does, but for the
\* time between the writes of its first ingest.
Unsettled(d) ==
  known[d] = 0 =>
    /\ binding[d] = 0
    /\ (\A w \in Worker : dir[w] = d => phase[w] # "bind") =>
         \A w \in Worker : phase[w] = "record" => idx[w][d] = index[d]

\* What the worker in the directory holds.
Read(d) == \A w \in Worker : dir[w] = d /\ phase[w] \in {"load", "resolve"} =>
             seen[w] = binding[d]

Naming(d, i) ==
  /\ index[d] \in {0, i} /\ known[d] \in {0, i}
  /\ \A v \in Worker : phase[v] = "record" => idx[v][d] \in {0, i}

Written(d) == \A w \in Worker :
  dir[w] = d /\ phase[w] \in {"enter", "look", "record", "bind"} => Naming(d, id[w])

Owned(d) == Met(d) /\ Settled(d) /\ Unsettled(d) /\ Read(d) /\ Written(d)

Absent == \A w \in Worker : phase[w] = "idle" => dir[w] = Nowhere

OwnInv == Absent /\ \A d \in Directory : past[d] = "own" => Owned(d)

\* No directory is owed anything at first.
LEMMA OwnInit == Init => OwnInv
BY CatalogAssumption DEF Init, OwnInv, Absent, Owned, Met, Settled, Unsettled, Read, Written, NoIndex

\* A worker that ends leaves what is known of a directory it did not write.
LEMMA OwnEnd ==
  ASSUME TypeOK, OwnInv, NEW w \in Worker, EndWork(w),
         phase[w] \notin {"record", "bind"},
         NEW d \in Directory, past[d] = "own",
         index'[d] = index[d], binding'[d] = binding[d], known'[d] = known[d]
  PROVE  Owned(d)'
<1>1. /\ \A v \in Worker \ {w} : /\ phase'[v] = phase[v] /\ dir'[v] = dir[v] /\ id'[v] = id[v]
                                 /\ seen'[v] = seen[v] /\ idx'[v] = idx[v]
      /\ phase'[w] = "idle" /\ dir'[w] = Nowhere
  BY DEF EndWork, TypeOK
<1>2. Owned(d) /\ d # Nowhere
  BY CatalogAssumption DEF OwnInv
<1>3. Met(d)'
  BY <1>1, <1>2 DEF Owned, Met
<1>4. Settled(d)'
  BY <1>1, <1>2 DEF Owned, Settled
<1>5. Unsettled(d)'
  BY <1>1, <1>2 DEF Owned, Unsettled
<1>6. Read(d)'
  BY <1>1, <1>2 DEF Owned, Read
<1>7. Written(d)'
  BY <1>1, <1>2 DEF Owned, Written, Naming
<1> QED BY <1>3, <1>4, <1>5, <1>6, <1>7 DEF Owned

\* An idle worker is nowhere, also after a worker ends.
LEMMA AbsentEnd ==
  ASSUME TypeOK, Absent, NEW w \in Worker, EndWork(w)
  PROVE  Absent'
BY DEF EndWork, TypeOK, Absent

\* A step of a worker that only changes where it is, among places where it holds
\* nothing of the index.
LEMMA OwnGoto ==
  ASSUME TypeOK, OwnInv, NEW w \in Worker, NEW p, Goto(w, p), phase[w] # "idle",
         phase[w] \notin {"record", "bind"}, p \notin {"idle", "load", "resolve", "record", "bind"},
         p \in {"enter", "look"} => phase[w] \in {"enter", "look"},
         UNCHANGED <<dir, id, seen, idx>>,
         NEW d \in Directory, past[d] = "own",
         index'[d] = index[d], binding'[d] = binding[d], known'[d] = known[d]
  PROVE  Owned(d)'
<1>1. /\ \A v \in Worker \ {w} : phase'[v] = phase[v]
      /\ phase'[w] = p
  BY DEF Goto, TypeOK
<1>2. Owned(d)
  BY DEF OwnInv
<1>3. Met(d)'
  BY <1>1, <1>2 DEF Owned, Met
<1>4. Settled(d)'
  BY <1>1, <1>2 DEF Owned, Settled
<1>5. Unsettled(d)'
  BY <1>1, <1>2 DEF Owned, Unsettled
<1>6. Read(d)'
  BY <1>1, <1>2 DEF Owned, Read
<1>7. Written(d)'
  BY <1>1, <1>2 DEF Owned, Written, Naming
<1> QED BY <1>3, <1>4, <1>5, <1>6, <1>7 DEF Owned

\* A worker that starts in a directory is alone there, or its tree is contested.
LEMMA OwnBegin ==
  ASSUME TypeOK, OwnInv, NEW w \in Worker, NEW e \in Directory, NEW o, Start(w, o, e),
         NEW p, Goto(w, p), p \in {"load", "claim", "verify"},
         dir' = [dir EXCEPT ![w] = e] \/ (UNCHANGED dir /\ p = "verify"),
         p = "load" => seen' = [seen EXCEPT ![w] = binding[e]],
         p # "load" => UNCHANGED seen,
         UNCHANGED idx, id' = [id EXCEPT ![w] = id'[w]],
         p = "load" => id'[w] = id[w]
  PROVE  OwnInv'
<1>1. /\ \A v \in Worker \ {w} : phase'[v] = phase[v] /\ dir'[v] = dir[v] /\ seen'[v] = seen[v]
      /\ phase[w] = "idle" /\ phase'[w] = p /\ dir[w] = Nowhere /\ dir'[w] \in {e, Nowhere}
      /\ p = "load" => seen'[w] = binding[e]
      /\ UNCHANGED <<index, binding, known>>
      /\ \A v \in Worker \ {w} : id'[v] = id[v]
  BY CatalogAssumption DEF Start, Goto, TypeOK, OwnInv, Absent, documents
<1>2. \A d \in Directory : past'[d] = "own" =>
        past[d] = "own" /\ (d = e => \A v \in Worker \ {w} : phase[v] # "idle" => dir[v] # d)
  BY DEF Start, TypeOK
<1>3. Absent'
  BY <1>1 DEF OwnInv, Absent
<1>4. ASSUME NEW d \in Directory, past'[d] = "own" PROVE Owned(d)'
  <2>1. Owned(d) /\ d # Nowhere /\ Absent
    BY <1>2, <1>4, CatalogAssumption DEF OwnInv
  <2>2. Met(d)'
    BY <1>1, <1>2, <1>4, <2>1 DEF Owned, Met, Absent
  <2>3. Settled(d)'
    BY <1>1, <2>1 DEF Owned, Settled
  <2>4. Unsettled(d)'
    BY <1>1, <2>1 DEF Owned, Unsettled
  <2>5. Read(d)'
    BY <1>1, <2>1 DEF Owned, Read
  <2>6. Written(d)'
    BY <1>1, <2>1 DEF Owned, Written, Naming
  <2> QED BY <2>2, <2>3, <2>4, <2>5, <2>6 DEF Owned
<1> QED BY <1>3, <1>4 DEF OwnInv

\* The identity an ingest settles on is the one everybody has of its directory.
LEMMA OwnResolve ==
  ASSUME TypeOK, OwnInv, NEW w \in Worker, Load(w) \/ Resolve(w)
  PROVE  OwnInv'
<1>1. /\ \A v \in Worker \ {w} : phase'[v] = phase[v] /\ id'[v] = id[v]
      /\ dir[w] \in Directory
      /\ UNCHANGED <<index, binding, known, past, dir, seen, idx>>
      /\ phase[w] \in {"load", "resolve"} /\ phase'[w] \in {"resolve", "enter"}
      /\ phase'[w] = "resolve" => id'[w] = id[w]
  BY DEF Load, Resolve, Goto, TypeOK, documents, history
<1>2. Absent'
  BY <1>1 DEF OwnInv, Absent
<1>3. ASSUME NEW d \in Directory, past[d] = "own" PROVE Owned(d)'
  <2>1. Owned(d)
    BY <1>3 DEF OwnInv
  <2>2. Met(d)' /\ Read(d)'
    BY <1>1, <2>1 DEF Owned, Met, Read
  <2>3. Settled(d)'
    BY <1>1, <2>1 DEF Owned, Settled
  <2>4. Unsettled(d)'
    BY <1>1, <2>1 DEF Owned, Unsettled
  <2>5. CASE dir[w] # d \/ phase'[w] = "resolve"
    BY <1>1, <2>1, <2>2, <2>3, <2>4, <2>5 DEF Owned, Written, Naming
  <2>6. CASE dir[w] = d /\ phase'[w] # "resolve"
    <3>1. Resolve(w) /\ seen[w] = binding[d] /\ \A v \in Worker : dir[v] = d => phase[v] # "bind"
      BY <1>1, <2>1, <2>6 DEF Load, Goto, TypeOK, Owned, Met, Read
    <3>2. DEFINE found == Resolved(seen[w], cat[w], index, dir[w])
    <3>3. id'[w] \in found \/ found = {}
      BY <1>1, <3>1 DEF Resolve, TypeOK
    <3>4. CASE known[d] # 0
      <4>1. found = {known[d]}
        BY <2>1, <2>6, <3>1, <3>4 DEF Owned, Settled, Resolved
      <4>2. Naming(d, id'[w])
        BY <2>1, <3>3, <3>4, <4>1 DEF Owned, Settled, Naming
      <4> QED BY <1>1, <2>1, <2>2, <2>3, <2>4, <2>6, <4>2 DEF Owned, Met, Written, Naming
    <3>5. CASE known[d] = 0
      <4>1. binding[d] = 0 /\ \A v \in Worker : phase[v] = "record" => idx[v][d] = index[d]
        BY <2>1, <3>1, <3>5 DEF Owned, Unsettled
      <4>2. index[d] # 0 => id'[w] = index[d]
        <5>1. index[d] # 0 => found = {index[d]}
          BY <2>6 DEF Resolved
        <5> QED BY <3>3, <5>1
      <4>3. Naming(d, id'[w])
        BY <3>5, <4>1, <4>2 DEF Naming
      <4> QED BY <1>1, <2>1, <2>2, <2>3, <2>4, <2>6, <4>3 DEF Owned, Met, Written, Naming
    <3> QED BY <3>4, <3>5
  <2> QED BY <2>5, <2>6
<1> QED BY <1>1, <1>2, <1>3 DEF OwnInv

\* A copy of the index is taken.
LEMMA OwnLook ==
  ASSUME TypeOK, OwnInv, NEW w \in Worker, Look(w)
  PROVE  OwnInv'
<1>1. /\ \A v \in Worker \ {w} : phase'[v] = phase[v] /\ idx'[v] = idx[v]
      /\ dir[w] \in Directory /\ idx'[w] = index
      /\ UNCHANGED <<index, binding, known, past, dir, id, seen>>
      /\ phase[w] = "look" /\ phase'[w] \in {"record", "bind"}
      /\ phase'[w] = "bind" => index[dir[w]] = id[w]
  BY DEF Look, Goto, TypeOK, documents, history
<1>2. Absent'
  BY <1>1 DEF OwnInv, Absent
<1>3. ASSUME NEW d \in Directory, past[d] = "own" PROVE Owned(d)'
  <2>1. Owned(d)
    BY <1>3 DEF OwnInv
  <2>2. Met(d)' /\ Read(d)'
    BY <1>1, <2>1 DEF Owned, Met, Read
  <2>3. Settled(d)'
    BY <1>1, <2>1 DEF Owned, Settled
  <2>4. Unsettled(d)'
    BY <1>1, <2>1 DEF Owned, Unsettled
  <2>5. Written(d)'
    BY <1>1, <2>1 DEF Owned, Written, Naming
  <2> QED BY <2>2, <2>3, <2>4, <2>5 DEF Owned
<1> QED BY <1>1, <1>2, <1>3 DEF OwnInv

\* A copy of the index is written over it: the directory it was written for gets
\* its identity, and no other loses one that was settled.
LEMMA OwnRecord ==
  ASSUME TypeOK, OwnInv, NEW w \in Worker, Record(w)
  PROVE  OwnInv'
<1>1. /\ \A v \in Worker \ {w} : phase'[v] = phase[v]
      /\ dir[w] \in Directory /\ id[w] \in Project
      /\ index'[dir[w]] = id[w]
      /\ \A d \in Directory : d # dir[w] => index'[d] = idx[w][d]
      /\ UNCHANGED <<binding, known, past, dir, id, seen, idx>>
      /\ phase[w] = "record" /\ phase'[w] = "bind"
  BY DEF Record, Goto, TypeOK, Index, history
<1>2. Absent'
  BY <1>1 DEF OwnInv, Absent
<1>3. ASSUME NEW d \in Directory, past[d] = "own" PROVE Owned(d)'
  <2>1. Owned(d)
    BY <1>3 DEF OwnInv
  <2>2. Met(d)' /\ Read(d)'
    BY <1>1, <2>1 DEF Owned, Met, Read
  <2>3. Settled(d)'
    BY <1>1, <2>1 DEF Owned, Settled, Written, Naming
  <2>4. Unsettled(d)'
    <3>1. CASE d = dir[w]
      BY <1>1, <2>1, <3>1 DEF Owned, Unsettled
    <3>2. CASE d # dir[w]
      BY <1>1, <2>1, <3>2 DEF Owned, Unsettled
    <3> QED BY <3>1, <3>2
  <2>5. Written(d)'
    <3>1. CASE d = dir[w]
      BY <1>1, <2>1, <3>1 DEF Owned, Met, Written, Naming
    <3>2. CASE d # dir[w]
      BY <1>1, <2>1, <3>2 DEF Owned, Written, Naming
    <3> QED BY <3>1, <3>2
  <2> QED BY <2>2, <2>3, <2>4, <2>5 DEF Owned
<1> QED BY <1>1, <1>2, <1>3 DEF OwnInv

\* The binding file settles the identity.
LEMMA OwnBind ==
  ASSUME TypeOK, OwnInv, NEW w \in Worker, Bind(w)
  PROVE  OwnInv'
<1>1. /\ \A v \in Worker \ {w} : phase'[v] = phase[v]
      /\ dir[w] \in Directory /\ id[w] \in Project /\ id[w] # 0
      /\ binding'[dir[w]] = id[w] /\ (past[dir[w]] = "own" => known'[dir[w]] = id[w])
      /\ \A d \in Directory : d # dir[w] => binding'[d] = binding[d] /\ known'[d] = known[d]
      /\ UNCHANGED <<index, past, dir, id, seen, idx>>
      /\ phase[w] = "bind" /\ phase'[w] = "open"
  <2>1. phase[w] = "bind" /\ dir[w] \in Directory /\ id[w] \in Project
    BY DEF Bind, TypeOK
  <2>2. id[w] # 0
    BY <2>1 DEF Project
  <2>3. past[dir[w]] = "own" => Owed(id[w], past[dir[w]], index[dir[w]]) = id[w]
    BY DEF Owed
  <2> QED BY <2>1, <2>2, <2>3 DEF Bind, Goto, TypeOK, Index
<1>2. Absent'
  BY <1>1 DEF OwnInv, Absent
<1>3. ASSUME NEW d \in Directory, past[d] = "own" PROVE Owned(d)'
  <2>1. Owned(d)
    BY <1>3 DEF OwnInv
  <2>2. Met(d)'
    BY <1>1, <2>1 DEF Owned, Met
  <2>3. CASE d = dir[w]
    <3>1. Naming(d, id[w])
      BY <1>1, <2>1, <2>3 DEF Owned, Written
    <3>2. Settled(d)' /\ Unsettled(d)'
      BY <1>1, <1>3, <2>3, <3>1 DEF Naming, Settled, Unsettled
    <3>3. Read(d)' /\ Written(d)'
      BY <1>1, <2>1, <2>3 DEF Owned, Met, Read, Written
    <3> QED BY <2>2, <3>2, <3>3 DEF Owned
  <2>4. CASE d # dir[w]
    <3>1. Settled(d)' /\ Unsettled(d)'
      BY <1>1, <2>1, <2>4 DEF Owned, Settled, Unsettled
    <3>2. Read(d)' /\ Written(d)'
      BY <1>1, <2>1, <2>4 DEF Owned, Read, Written, Naming
    <3> QED BY <2>2, <3>1, <3>2 DEF Owned
  <2> QED BY <2>3, <2>4
<1> QED BY <1>1, <1>2, <1>3 DEF OwnInv

\* The catalog commands: where they overlap with others they contest the tree
\* they bind, and where they do not all documents agree.
LEMMA OwnAdopt ==
  ASSUME IInv, OwnInv, NEW w \in Worker, Adopt(w)
  PROVE  OwnInv'
<1>1. /\ \A v \in Worker \ {w} : /\ phase'[v] = phase[v] /\ dir'[v] = dir[v] /\ id'[v] = id[v]
                                 /\ seen'[v] = seen[v] /\ idx'[v] = idx[v]
      /\ dir[w] \in Directory /\ id[w] \in Project
      /\ phase[w] = "adopt"
      /\ \/ phase'[w] = "idle" /\ dir'[w] = Nowhere
         \/ phase'[w] = "verify" /\ dir'[w] = dir[w]
  <2>1. phase[w] = "adopt" /\ dir[w] \in Directory /\ id[w] \in Project
    BY DEF Adopt, IInv, TypeOK
  <2>2. CASE op[w] = "relocate"
    <3>1. Goto(w, "verify") /\ UNCHANGED <<dir, id, seen, idx>>
      BY <2>2 DEF Adopt
    <3> QED BY <2>1, <3>1 DEF Goto, IInv, TypeOK
  <2>3. CASE op[w] # "relocate"
    <3>1. EndWork(w)
      BY <2>3 DEF Adopt
    <3> QED BY <2>1, <3>1 DEF EndWork, IInv, TypeOK
  <2> QED BY <2>2, <2>3
<1>2. /\ UNCHANGED index
      /\ \A d \in Directory : d # dir[w] => binding'[d] = binding[d] /\ known'[d] = known[d]
      /\ \A d \in Directory : past'[d] = "own" => past[d] = "own"
      /\ overlapped => past'[dir[w]] # "own"
      /\ ~overlapped => UNCHANGED past
  BY <1>1 DEF Adopt, IInv, TypeOK, Index
<1>3. Absent'
  BY <1>1 DEF OwnInv, Absent
<1>4. ASSUME NEW d \in Directory, past'[d] = "own" PROVE Owned(d)'
  <2>1. Owned(d) /\ d # Nowhere /\ past[d] = "own"
    BY <1>2, <1>4, CatalogAssumption DEF OwnInv
  <2>2. Met(d)'
    BY <1>1, <2>1 DEF Owned, Met
  <2>3. CASE d # dir[w]
    <3>1. Settled(d)' /\ Unsettled(d)'
      BY <1>1, <1>2, <2>1, <2>3 DEF Owned, Settled, Unsettled
    <3>2. Read(d)' /\ Written(d)'
      BY <1>1, <1>2, <2>1, <2>3 DEF Owned, Read, Written, Naming
    <3> QED BY <2>2, <3>1, <3>2 DEF Owned
  <2>4. CASE d = dir[w]
    <3>1. ~overlapped /\ Serial
      BY <1>2, <1>4, <2>4 DEF IInv
    <3>2. index[d] \in {0, id[w]}
      BY <1>1, <2>4, <3>1 DEF Serial, Memory
    <3>3. binding'[d] = id[w] /\ known'[d] = id[w] /\ id[w] # 0
      <4>1. id[w] # 0
        BY <1>1 DEF Project
      <4>2. Owed(id[w], past[d], index[d]) = id[w]
        BY <2>1 DEF Owed
      <4> QED BY <1>1, <2>4, <4>1, <4>2 DEF Adopt, IInv, TypeOK, Index
    <3>4. \A v \in Worker : phase'[v] \notin {"load", "resolve", "enter", "look", "record", "bind"}
      BY <1>1, <3>1 DEF Serial, Lone
    <3>5. Settled(d)' /\ Unsettled(d)'
      BY <1>2, <3>2, <3>3, <3>4 DEF Settled, Unsettled
    <3>6. Read(d)' /\ Written(d)'
      BY <3>4 DEF Read, Written
    <3> QED BY <2>2, <3>5, <3>6 DEF Owned
  <2> QED BY <2>3, <2>4
<1> QED BY <1>3, <1>4 DEF OwnInv

\* The other steps of an ingest or a command only read, write the catalog, or end.
LEMMA OwnOther ==
  ASSUME TypeOK, OwnInv, NEW w \in Worker,
         \/ Enter(w) \/ Open(w) \/ Link(w) \/ Relink(w) \/ IngestDone(w)
         \/ Claim(w) \/ Save(w) \/ Verify(w) \/ Drop(w) \/ Fail(w)
  PROVE  OwnInv'
<1>1. UNCHANGED <<index, binding, known, past>>
  BY DEF Enter, Open, Link, Relink, IngestDone, Claim, Save, Verify, Drop, Fail, documents, history
<1>2. phase[w] \notin {"record", "bind", "idle"}
  BY DEF Enter, Open, Link, Relink, IngestDone, Claim, Save, Verify, Drop, Fail
<1>3. CASE EndWork(w)
  <2>1. Absent'
    BY <1>3, AbsentEnd DEF OwnInv
  <2>2. ASSUME NEW d \in Directory, past[d] = "own" PROVE Owned(d)'
    BY <1>1, <1>2, <1>3, <2>2, OwnEnd
  <2> QED BY <1>1, <2>1, <2>2 DEF OwnInv
<1>4. CASE ~EndWork(w)
  <2>1. /\ UNCHANGED <<dir, id, seen, idx>>
        /\ \E p \in {"look", "link", "relink", "save", "undo", "adopt", "drop"} :
             Goto(w, p) /\ (p = "look" => phase[w] = "enter")
    BY <1>4 DEF Enter, Open, Link, Relink, IngestDone, Claim, Save, Verify, Drop, Fail, Refused
  <2>2. PICK p \in {"look", "link", "relink", "save", "undo", "adopt", "drop"} :
          Goto(w, p) /\ (p = "look" => phase[w] = "enter")
    BY <2>1
  <2>3. Absent'
    BY <2>1, <2>2 DEF Goto, TypeOK, OwnInv, Absent
  <2>4. ASSUME NEW d \in Directory, past[d] = "own" PROVE Owned(d)'
    BY <1>1, <1>2, <2>1, <2>2, <2>4, OwnGoto
  <2> QED BY <1>1, <2>3, <2>4 DEF OwnInv
<1> QED BY <1>3, <1>4

\* A relocation that is undone gives its directory up.
LEMMA OwnUndo ==
  ASSUME TypeOK, OwnInv, NEW w \in Worker, Undo(w)
  PROVE  OwnInv'
<1>1. /\ EndWork(w) /\ phase[w] = "undo" /\ dir[w] \in Directory
      /\ UNCHANGED <<index, binding>>
      /\ past'[dir[w]] # "own"
      /\ \A d \in Directory : d # dir[w] => past'[d] = past[d] /\ known'[d] = known[d]
  BY DEF Undo, Worse, TypeOK, Index
<1>2. Absent'
  BY <1>1, AbsentEnd DEF OwnInv
<1>3. ASSUME NEW d \in Directory, past'[d] = "own" PROVE Owned(d)'
  BY <1>1, <1>3, OwnEnd
<1> QED BY <1>2, <1>3 DEF OwnInv

\* A worker that dies among others contests its directory.
LEMMA OwnCrash ==
  ASSUME IInv, OwnInv, NEW w \in Worker, Crash(w)
  PROVE  OwnInv'
<1>1. /\ EndWork(w) /\ TypeOK
      /\ UNCHANGED <<index, binding, known>>
      /\ overlapped => /\ \A d \in Directory : d # dir[w] => past'[d] = past[d]
                       /\ dir[w] \in Directory => past'[dir[w]] # "own"
      /\ ~overlapped => UNCHANGED past
  BY DEF Crash, documents, IInv, TypeOK
<1>2. Absent'
  BY <1>1, AbsentEnd DEF OwnInv
<1>3. /\ \A v \in Worker \ {w} : /\ phase'[v] = phase[v] /\ dir'[v] = dir[v] /\ id'[v] = id[v]
                                 /\ seen'[v] = seen[v] /\ idx'[v] = idx[v]
      /\ phase'[w] = "idle" /\ dir'[w] = Nowhere
  BY <1>1 DEF EndWork, TypeOK
<1>4. ASSUME NEW d \in Directory, past'[d] = "own" PROVE Owned(d)'
  <2>1. past[d] = "own" /\ Owned(d) /\ d # Nowhere
    BY <1>1, <1>4, CatalogAssumption DEF OwnInv
  <2>2. Met(d)' /\ Read(d)'
    BY <1>1, <1>3, <2>1 DEF Owned, Met, Read
  <2>3. Settled(d)'
    BY <1>1, <1>3, <2>1 DEF Owned, Settled
  <2>4. Written(d)'
    BY <1>1, <1>3, <2>1 DEF Owned, Written, Naming
  <2>5. CASE overlapped
    <3>1. d # dir[w]
      BY <1>1, <1>4, <2>5
    <3>2. Unsettled(d)'
      BY <1>1, <1>3, <2>1, <3>1 DEF Owned, Unsettled
    <3> QED BY <2>2, <2>3, <2>4, <3>2 DEF Owned
  <2>6. CASE ~overlapped
    <3>1. \A v \in Worker : phase'[v] = "idle"
      BY <1>3, <2>6 DEF Crash, IInv, Serial, Lone
    <3>2. Unsettled(d)'
      BY <1>1, <2>1, <3>1 DEF Owned, Unsettled
    <3> QED BY <2>2, <2>3, <2>4, <3>2 DEF Owned
  <2> QED BY <2>5, <2>6
<1> QED BY <1>2, <1>4 DEF OwnInv

\* What happens to other trees does not touch one that is its owner's own.
LEMMA OwnOutside ==
  ASSUME TypeOK, OwnInv,
         \/ \E d \in Directory : Clean(d)
         \/ \E p, q \in Directory : Copy(p, q) \/ Move(p, q)
  PROVE  OwnInv'
<1>1. UNCHANGED <<index, phase, dir, id, seen, idx>>
  BY DEF Clean, Copy, Move, work
<1>2. ASSUME NEW d \in Directory, past'[d] = "own"
      PROVE  past[d] = "own" /\ binding'[d] = binding[d] /\ known'[d] = known[d]
  BY <1>2 DEF Clean, Copy, Move, Worse, TypeOK, Index
<1>3. Absent'
  BY <1>1 DEF OwnInv, Absent
<1>4. ASSUME NEW d \in Directory, past'[d] = "own" PROVE Owned(d)'
  BY <1>1, <1>2, <1>4 DEF OwnInv, Owned, Met, Settled, Unsettled, Read, Written, Naming
<1> QED BY <1>3, <1>4 DEF OwnInv

\* As long as the index is not lost, every step keeps what was settled.
LEMMA OwnStep == "damage" \notin Faults /\ IInv /\ OwnInv /\ [Next]_vars => OwnInv'
<1> SUFFICES ASSUME "damage" \notin Faults, IInv, OwnInv, [Next]_vars PROVE OwnInv'
  OBVIOUS
<1>1. TypeOK
  BY DEF IInv
<1>2. CASE UNCHANGED vars
  BY <1>2 DEF vars, documents, history, work, OwnInv, Absent, Owned, Met, Settled, Unsettled,
       Read, Written, Naming
<1>3. ASSUME NEW w \in Worker, NEW d \in Directory, BeginIngest(w, d) PROVE OwnInv'
  <2>1. /\ Start(w, "ingest", d) /\ Goto(w, "load") /\ dir' = [dir EXCEPT ![w] = d]
        /\ seen' = [seen EXCEPT ![w] = binding[d]] /\ UNCHANGED idx
        /\ id' = [id EXCEPT ![w] = id'[w]] /\ id'[w] = id[w]
    BY <1>1, <1>3 DEF BeginIngest, TypeOK
  <2> QED BY <1>1, <2>1, OwnBegin
<1>4. ASSUME NEW w \in Worker, NEW i \in Project, NEW d \in Directory, BeginAdd(w, i, d)
      PROVE OwnInv'
  <2>1. /\ Start(w, "add", d) /\ Goto(w, "claim") /\ dir' = [dir EXCEPT ![w] = d]
        /\ UNCHANGED seen /\ UNCHANGED idx /\ id' = [id EXCEPT ![w] = id'[w]]
    BY <1>1, <1>4 DEF BeginAdd, TypeOK
  <2> QED BY <1>1, <2>1, OwnBegin
<1>5. ASSUME NEW w \in Worker, NEW i \in Project, NEW d \in Directory, BeginRetire(w, i, d)
      PROVE OwnInv'
  <2>1. /\ Start(w, "retire", d) /\ Goto(w, "verify") /\ UNCHANGED dir
        /\ UNCHANGED seen /\ UNCHANGED idx /\ id' = [id EXCEPT ![w] = id'[w]]
    BY <1>1, <1>5 DEF BeginRetire, TypeOK
  <2> QED BY <1>1, <2>1, OwnBegin
<1>6. ASSUME NEW w \in Worker, NEW i \in Project, NEW p \in Directory, NEW q \in Directory,
             BeginRelocate(w, i, p, q)
      PROVE OwnInv'
  <2>1. /\ Start(w, "relocate", q) /\ Goto(w, "claim") /\ dir' = [dir EXCEPT ![w] = q]
        /\ UNCHANGED seen /\ UNCHANGED idx /\ id' = [id EXCEPT ![w] = id'[w]]
    BY <1>1, <1>6 DEF BeginRelocate, TypeOK
  <2> QED BY <1>1, <2>1, OwnBegin
<1>7. ASSUME NEW w \in Worker, IngestStep(w) PROVE OwnInv'
  BY <1>1, <1>7, OwnResolve, OwnLook, OwnRecord, OwnBind, OwnOther DEF IngestStep
<1>8. ASSUME NEW w \in Worker, CommandStep(w) PROVE OwnInv'
  BY <1>1, <1>8, OwnAdopt, OwnUndo, OwnOther DEF CommandStep
<1>9. ASSUME NEW w \in Worker, Crash(w) PROVE OwnInv'
  BY <1>9, OwnCrash
<1>10. CASE \/ \E d \in Directory : Clean(d)
            \/ \E p, q \in Directory : Copy(p, q) \/ Move(p, q)
  BY <1>1, <1>10, OwnOutside
<1>11. ~Damage
  BY DEF Damage
<1> QED
  BY <1>2, <1>3, <1>4, <1>5, <1>6, <1>7, <1>8, <1>9, <1>10, <1>11 DEF Next

\* An ingest begun now gives a directory whose tree was left alone the identity
\* it is owed, even if workers in other directories overlap, write over each
\* other's catalog and index and die; only the loss of the whole index, which
\* reads as empty, is left out (ensure_project_binding, record_binding,
\* _resolve_project_id).
THEOREM OwnTreeIsSettled == "damage" \notin Faults => (Spec => []OwnTreeKeepsIdentity)
<1> SUFFICES ASSUME "damage" \notin Faults PROVE Spec => []OwnTreeKeepsIdentity
  OBVIOUS
<1>1. OwnInv => OwnTreeKeepsIdentity
  <2> SUFFICES ASSUME OwnInv, NEW d \in Directory, past[d] = "own", known[d] # 0
               PROVE Resolved(binding[d], catalog, index, d) = {known[d]}
    BY DEF OwnTreeKeepsIdentity, IdentityIsKept
  <2>1. Settled(d)
    BY DEF OwnInv, Owned
  <2> QED BY <2>1 DEF Settled, Resolved
<1>2. IInv /\ OwnInv /\ [Next]_vars => OwnInv'
  BY OwnStep
<1> QED BY <1>1, <1>2, OwnInit, InvHolds, PTL DEF Spec
=============================================================================
