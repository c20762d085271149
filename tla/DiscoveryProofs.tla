--------------------------- MODULE DiscoveryProofs ---------------------------
(***************************************************************************)
(* What is proved of the scan, the review of candidates, the registry and  *)
(* the validation of snapshots, for every machine, tree, request, number   *)
(* of writers and policy: the reports count sessions once and lose none, a *)
(* traversal is complete or says that it was cut short, what was recorded  *)
(* of a path stays on record, one place of a Project is the original, a    *)
(* verdict is the one that the snapshot deserves, and digests are of the   *)
(* rows.  Last, the composition of these with the components around an     *)
(* ingest: every behaviour of Upkeep is one of each of them.               *)
(***************************************************************************)
EXTENDS Upkeep, UpkeepProofs, SequenceTheorems, FiniteSetTheorems, WellFoundedInduction, TLAPS

(* Directories as sequences of names. *)

\* A prefix is no longer, and agrees part by part.
LEMMA PrefixMeans ==
  ASSUME NEW Part, NEW s \in Seq(Part), NEW t \in Seq(Part)
  PROVE  /\ IsPrefix(s, t) => Len(s) <= Len(t) /\ \A i \in 1..Len(s) : s[i] = t[i]
         /\ Len(s) <= Len(t) /\ (\A i \in 1..Len(s) : s[i] = t[i]) => IsPrefix(s, t)
<1>1. Len(s) \in Nat /\ Len(t) \in Nat /\ s \in Seq(Part) /\ t \in Seq(Part)
  BY LenProperties
<1>2. \A i \in 1..Len(s) : s[i] \in Part
  BY <1>1, ElementOfSeq
<1>3. SubSeq(s, 1, Len(s)) = s
  BY <1>1, SubSeqFull
<1>4. ASSUME Len(s) <= Len(t)
      PROVE  /\ Len(SubSeq(t, 1, Len(s))) = Len(s) /\ SubSeq(t, 1, Len(s)) \in Seq(Part)
             /\ \A i \in 1..Len(s) : SubSeq(t, 1, Len(s))[i] = t[i]
  <2>1. \A i \in 1..Len(s) : t[i] \in Part
    BY <1>1, <1>4, ElementOfSeq
  <2> QED BY <1>1, <1>4, <2>1, SubSeqProperties
<1>5. ASSUME IsPrefix(s, t) PROVE Len(s) <= Len(t) /\ \A i \in 1..Len(s) : s[i] = t[i]
  BY <1>3, <1>4, <1>5 DEF IsPrefix
<1>6. ASSUME Len(s) <= Len(t), \A i \in 1..Len(s) : s[i] = t[i] PROVE IsPrefix(s, t)
  <2>1. SubSeq(t, 1, Len(s)) = s
    BY <1>1, <1>4, <1>6, SeqEqual
  <2> QED BY <1>3, <1>6, <2>1 DEF IsPrefix
<1> QED BY <1>5, <1>6

\* Prefixes are ordered, and two of one path are comparable.
LEMMA PrefixOrder ==
  ASSUME NEW Part, NEW r \in Seq(Part), NEW s \in Seq(Part), NEW t \in Seq(Part)
  PROVE  /\ IsPrefix(s, s)
         /\ IsPrefix(r, s) /\ IsPrefix(s, t) => IsPrefix(r, t)
         /\ IsPrefix(r, s) /\ IsPrefix(s, r) => r = s
         /\ IsPrefix(r, s) => Len(r) <= Len(s)
         /\ IsPrefix(r, s) /\ Len(s) <= Len(r) => r = s
         /\ IsPrefix(r, t) /\ IsPrefix(s, t) /\ Len(r) <= Len(s) => IsPrefix(r, s)
<1>1. Len(r) \in Nat /\ Len(s) \in Nat /\ Len(t) \in Nat
      /\ r \in Seq(Part) /\ s \in Seq(Part) /\ t \in Seq(Part)
  BY LenProperties
<1>2. IsPrefix(s, s)
  BY <1>1, PrefixMeans
<1>3. ASSUME IsPrefix(r, s), IsPrefix(s, t) PROVE IsPrefix(r, t)
  <2>1. /\ Len(r) <= Len(s) /\ \A i \in 1..Len(r) : r[i] = s[i]
        /\ Len(s) <= Len(t) /\ \A i \in 1..Len(s) : s[i] = t[i]
    BY <1>3, PrefixMeans
  <2>2. Len(r) <= Len(t) /\ \A i \in 1..Len(r) : r[i] = t[i]
    BY <1>1, <2>1
  <2> QED BY <2>2, PrefixMeans
<1>4. ASSUME IsPrefix(r, s), Len(s) <= Len(r) PROVE r = s
  <2>1. Len(r) <= Len(s) /\ \A i \in 1..Len(r) : r[i] = s[i]
    BY <1>4, PrefixMeans
  <2>2. Len(r) = Len(s)
    BY <1>1, <1>4, <2>1
  <2> QED BY <1>1, <2>1, <2>2, SeqEqual
<1>5. IsPrefix(r, s) => Len(r) <= Len(s)
  BY PrefixMeans
<1>6. IsPrefix(r, s) /\ IsPrefix(s, r) => r = s
  BY <1>4, PrefixMeans
<1>7. ASSUME IsPrefix(r, t), IsPrefix(s, t), Len(r) <= Len(s) PROVE IsPrefix(r, s)
  <2>1. /\ \A i \in 1..Len(r) : r[i] = t[i]
        /\ \A i \in 1..Len(s) : s[i] = t[i]
    BY <1>7, PrefixMeans
  <2>2. \A i \in 1..Len(r) : r[i] = s[i]
    BY <1>1, <1>7, <2>1
  <2> QED BY <1>7, <2>2, PrefixMeans
<1> QED BY <1>2, <1>3, <1>4, <1>5, <1>6, <1>7

\* The name below: the next directory on the way to one that is deeper.
LEMMA NextBelow ==
  ASSUME NEW Part, NEW s \in Seq(Part), NEW t \in Seq(Part), IsPrefix(s, t), s # t
  PROVE  /\ SubSeq(t, 1, Len(s) + 1) \in Seq(Part)
         /\ Len(SubSeq(t, 1, Len(s) + 1)) = Len(s) + 1 /\ Len(s) + 1 \in 1..Len(t)
         /\ IsPrefix(s, SubSeq(t, 1, Len(s) + 1)) /\ IsPrefix(SubSeq(t, 1, Len(s) + 1), t)
<1>. DEFINE u == SubSeq(t, 1, Len(s) + 1)
<1>1. Len(s) \in Nat /\ Len(t) \in Nat /\ s \in Seq(Part) /\ t \in Seq(Part)
  BY LenProperties
<1>2. Len(s) <= Len(t) /\ \A i \in 1..Len(s) : s[i] = t[i]
  BY PrefixMeans
<1>3. ~(Len(t) <= Len(s))
  BY PrefixOrder
<1>4. Len(s) + 1 \in Nat /\ Len(s) + 1 >= 1 /\ Len(s) + 1 <= Len(t)
  BY <1>1, <1>3
<1>5. u \in Seq(Part) /\ Len(u) = Len(s) + 1 /\ \A i \in 1..(Len(s) + 1) : u[i] = t[i]
  <2>1. \A i \in 1..(Len(s) + 1) : t[i] \in Part
    BY <1>1, <1>4, ElementOfSeq
  <2> QED BY <1>1, <1>4, <2>1, SubSeqProperties
<1>. HIDE DEF u
<1>6. IsPrefix(s, u)
  <2>1. \A i \in 1..Len(s) : s[i] = u[i]
    BY <1>1, <1>2, <1>5
  <2> QED BY <1>1, <1>5, <2>1, PrefixMeans
<1>7. IsPrefix(u, t)
  BY <1>4, <1>5, PrefixMeans
<1> QED BY <1>1, <1>4, <1>5, <1>6, <1>7 DEF u

-----------------------------------------------------------------------------
(* The scan for Sessions. *)

ScanInv ==
  /\ ScanTypeOK /\ machine \in Machines
  /\ \A r \in rows : r \in {Row(p, r.root, asked.window) : p \in Projects(r.root)}

\* What a machine's directories, files and workspaces are.
LEMMA MachineFacts ==
  ASSUME NEW m \in Machines
  PROVE  /\ IsFiniteSet(m.live) /\ (\A t \in m.codex : t.age \in 0..1) /\ m.live \subseteq Seq(Parts)
         /\ \A w \in m.cursor : w.dir \in Seq(Parts)
         /\ \A b \in m.central.bound : b = <<b[1], b[2]>>
         /\ \A v, w \in m.cursor : v.id = w.id => v = w
         /\ \A f, g \in DOMAIN m.files : f # g => m.files[f] \cap m.files[g] = {}
         /\ \A f \in DOMAIN m.files, g \in DOMAIN m.index : m.files[f] \cap m.index[g] = {}
         /\ \A p \in m.live :
              m.folder[p] \subseteq DOMAIN m.files /\ m.folder[p] \subseteq DOMAIN m.index
<1>1. m.live \cup {w.dir : w \in m.cursor} \subseteq Dirs
  BY DEF Dirs
<1> QED BY <1>1, ScanAssumption DEF ScanAssumption

\* Projects found under a root are live, and none is below another.
LEMMA ProjectsStand ==
  ASSUME machine \in Machines, NEW root
  PROVE  /\ Projects(root) \subseteq machine.live
         /\ \A p, q \in Projects(root) : ~Below(p, q)
         /\ IsFiniteSet(Outside(root))
<1>1. /\ Projects(root) \subseteq machine.live
      /\ \A p, q \in Projects(root) : ~Below(p, q)
  BY DEF Projects, Canonical
<1>2. Outside(root) \subseteq machine.live
  BY <1>1 DEF Outside
<1>3. IsFiniteSet(machine.live)
  BY MachineFacts
<1>4. IsFiniteSet(Outside(root))
  BY <1>2, <1>3, FS_Subset
<1> QED BY <1>1, <1>4

\* What the central store counts for a Project, a workspace of it claims.
LEMMA Bindings ==
  ASSUME machine \in Machines, NEW p, NEW n \in Attributed(p)
  PROVE  \E w \in WorkspacesOf(p) : <<n, w.id>> \in machine.central.bound \/ n \in w.listed
<1>1. CASE \E b \in machine.central.bound : n = b[1] /\ \E w \in WorkspacesOf(p) : w.id = b[2]
  <2>1. PICK b \in machine.central.bound : n = b[1] /\ \E w \in WorkspacesOf(p) : w.id = b[2]
    BY <1>1
  <2>2. b = <<b[1], b[2]>>
    BY MachineFacts
  <2> QED BY <2>1, <2>2
<1>2. CASE \E w \in WorkspacesOf(p) : n \in w.listed
  BY <1>2
<1> QED BY <1>1, <1>2 DEF Attributed, Read

\* What a row holds.
LEMMA RowHolds ==
  ASSUME machine \in Machines, NEW p, NEW root, NEW recent, NEW r, r = Row(p, root, recent)
  PROVE  /\ r.root = root /\ r.path = p
         /\ \A s \in r.codex : s.cwd = p
         /\ \A e \in r.cursor : \E w \in WorkspacesOf(p) : Gives(w, e)
         /\ \A x \in r.claude : \E f \in machine.folder[p] :
              x \in machine.files[f] \/ (x \in machine.index[f] /\ x.project = p)
<1>1. r.root = root /\ r.path = p
  BY DEF Row
<1>2. \A s \in r.codex : s \in CodexSessions(p, recent)
  BY DEF Row
<1>3. \A s \in r.codex : s.cwd = p
  BY <1>2 DEF CodexSessions
<1>4. \A e \in r.cursor : e \in CursorSessions(p)
  BY DEF Row
<1>5. ASSUME NEW e \in CursorSessions(p) PROVE \E w \in WorkspacesOf(p) : Gives(w, e)
  <2>1. CASE \E w \in WorkspacesOf(p) : e \in InPlace(w.id, w.rows)
    BY <2>1 DEF InPlace, Gives
  <2>2. CASE e \in InPlace(Central, {x \in machine.central.rows : x.name \in Attributed(p)})
    <3>1. e.place = Central /\ e.name \in Attributed(p)
      BY <2>2 DEF InPlace, Read
    <3>2. ASSUME NEW n \in Attributed(p)
          PROVE  \E w \in WorkspacesOf(p) : <<n, w.id>> \in machine.central.bound \/ n \in w.listed
      BY Bindings, <3>2
    <3> QED BY <3>1, <3>2 DEF Gives
  <2>. DEFINE own == UNION {InPlace(w.id, w.rows) : w \in WorkspacesOf(p)}
              all == InPlace(Central, {x \in machine.central.rows : x.name \in Attributed(p)})
  <2>3. e \in own \/ e \in all
    <3>1. CursorSessions(p) = own \cup all
      BY DEF CursorSessions
    <3>. HIDE DEF own, all
    <3> QED BY <1>5, <3>1
  <2>4. e \in own => \E w \in WorkspacesOf(p) : e \in InPlace(w.id, w.rows)
    OBVIOUS
  <2> QED BY <2>1, <2>2, <2>3, <2>4
<1>6. \A x \in r.claude : x \in ClaudeSessions(p, recent)
  BY DEF Row
<1>7. ASSUME NEW x \in ClaudeSessions(p, recent)
      PROVE  \E f \in machine.folder[p] :
               x \in machine.files[f] \/ (x \in machine.index[f] /\ x.project = p)
  BY DEF ClaudeSessions, Selected, Indexed, Read
<1>8. \A e \in r.cursor : \E w \in WorkspacesOf(p) : Gives(w, e)
  BY <1>4, <1>5
<1> QED BY <1>1, <1>3, <1>6, <1>7, <1>8

\* The invariant of the scan holds at first.
LEMMA ScanStarts == ScanInit => ScanInv
<1> SUFFICES ASSUME ScanInit PROVE ScanInv
  OBVIOUS
<1>1. 0 \in 0..Len(asked.roots)
  BY ScanAssumption DEF ScanAssumption, ScanInit
<1> QED BY <1>1 DEF ScanInit, ScanInv, ScanTypeOK

\* The rows of a root depend on the machine and the request only.
LEMMA RowsStay ==
  ASSUME machine' = machine, asked' = asked, NEW r
  PROVE  (r \in {Row(p, r.root, asked.window) : p \in Projects(r.root)})'
           <=> r \in {Row(p, r.root, asked.window) : p \in Projects(r.root)}
<1>1. Projects(r.root)' = Projects(r.root)
  BY DEF Projects, Candidates, Named, Indexed, Read, WorkspacesOf, Boundary, Canonical, Excluded, Beneath, Below
<1>2. ASSUME NEW p PROVE Row(p, r.root, asked.window)' = Row(p, r.root, asked.window)
  <2>1. Candidates(r.root)' = Candidates(r.root)
    BY DEF Candidates, Named, Indexed, Read, WorkspacesOf, Boundary, Beneath
  <2>2. ClaudeSessions(p, asked.window)' = ClaudeSessions(p, asked.window)
    BY DEF ClaudeSessions, Selected, Indexed, Read
  <2>3. CodexSessions(p, asked.window)' = CodexSessions(p, asked.window)
    BY DEF CodexSessions, Beneath
  <2>4. CursorSessions(p)' = CursorSessions(p)
    BY DEF CursorSessions, InPlace, Attributed, Read, WorkspacesOf, Beneath
  <2> QED BY <2>1, <2>2, <2>3, <2>4 DEF Row
<1> QED BY <1>1, <1>2

\* Every step keeps the invariant of the scan.
LEMMA ScanStep == ScanInv /\ [ScanNext]_scanVars => ScanInv'
<1> SUFFICES ASSUME ScanInv, [ScanNext]_scanVars PROVE ScanInv'
  OBVIOUS
<1>0. machine' = machine /\ asked' = asked
  BY DEF ScanNext, scanVars, StartScan, WalkRoot, MissRoot, FinishScan
<1>L. Len(asked.roots) \in Nat /\ machine \in Machines /\ scanned \in 0..Len(asked.roots)
  BY ScanAssumption DEF ScanAssumption, ScanInv, ScanTypeOK
<1>1. ASSUME rows' = rows
      PROVE  \A r \in rows' : (r \in {Row(p, r.root, asked.window) : p \in Projects(r.root)})'
  BY <1>0, <1>1, RowsStay DEF ScanInv
<1>2. CASE StartScan
  BY <1>0, <1>1, <1>2 DEF StartScan, ScanInv, ScanTypeOK
<1>3. CASE FinishScan
  BY <1>0, <1>1, <1>3 DEF FinishScan, ScanInv, ScanTypeOK
<1>4. CASE UNCHANGED scanVars
  BY <1>0, <1>1, <1>4 DEF scanVars, ScanInv, ScanTypeOK
<1>5. CASE MissRoot
  <2>1. scanned' \in 0..Len(asked.roots) /\ missed' \subseteq 1..scanned'
    <3>1. scanned' = scanned + 1 /\ scanned < Len(asked.roots) /\ missed' = missed \cup {scanned + 1}
          /\ missed \subseteq 1..scanned
      BY <1>5 DEF MissRoot, ScanInv, ScanTypeOK
    <3>2. scanned' \in 0..Len(asked.roots) /\ scanned + 1 \in 1..scanned'
      BY <1>L, <3>1
    <3>3. \A i \in 1..scanned : i \in 1..scanned'
      BY <1>L, <3>1
    <3> QED BY <3>1, <3>2, <3>3
  <2>2. scanState' \in {"idle", "walking", "done", "stopped"}
    BY <1>5 DEF MissRoot, ScanInv, ScanTypeOK
  <2>3. issues' \subseteq machine.failed
    BY <1>5 DEF MissRoot, Failing, ScanInv, ScanTypeOK
  <2> QED BY <1>0, <1>1, <1>5, <2>1, <2>2, <2>3 DEF MissRoot, ScanInv, ScanTypeOK
<1>6. CASE WalkRoot
  <2>. DEFINE root == asked.roots[scanned + 1]
              new  == Shown(root, asked.window)
  <2>1. /\ scanned' = scanned + 1 /\ scanned < Len(asked.roots) /\ missed' = missed
        /\ issues' \subseteq issues \cup machine.failed
        /\ rows' \subseteq rows \cup new /\ rows \subseteq rows'
        /\ reported' \subseteq reported \cup (rows' \cap new)
        /\ scanState' \in {"walking", "stopped"}
        /\ hidden' \in {hidden, hidden + Cardinality(Outside(root))}
    BY <1>6 DEF WalkRoot, Failing
  <2>2. scanned' \in 0..Len(asked.roots) /\ missed' \subseteq 1..scanned'
    <3>1. missed \subseteq 1..scanned
      BY DEF ScanInv, ScanTypeOK
    <3>2. scanned' \in 0..Len(asked.roots)
      BY <1>L, <2>1
    <3>3. \A i \in 1..scanned : i \in 1..scanned'
      BY <1>L, <2>1
    <3> QED BY <2>1, <3>1, <3>2, <3>3
  <2>3. hidden' \in Nat
    <3>1. Cardinality(Outside(root)) \in Nat
      BY <1>L, ProjectsStand, FS_CardinalityType
    <3>2. hidden \in Nat
      BY DEF ScanInv, ScanTypeOK
    <3> QED BY <2>1, <3>1, <3>2
  <2>4. ASSUME NEW r \in rows' PROVE (r \in {Row(p, r.root, asked.window) : p \in Projects(r.root)})'
    <3>1. CASE r \in rows
      BY <1>0, <3>1, RowsStay DEF ScanInv
    <3>2. CASE r \in new
      <4>1. PICK p \in Projects(root) : r = Row(p, root, asked.window)
        BY <3>2 DEF Shown
      <4>2. r.root = root
        BY <1>L, <4>1, RowHolds
      <4>3. r \in {Row(q, r.root, asked.window) : q \in Projects(r.root)}
        BY <4>1, <4>2
      <4> QED BY <1>0, <4>3, RowsStay
    <3> QED BY <2>1, <3>1, <3>2
  <2>5. reported' \subseteq rows' /\ issues' \subseteq machine.failed
    BY <2>1 DEF ScanInv, ScanTypeOK
  <2> QED BY <1>0, <1>L, <2>1, <2>2, <2>3, <2>4, <2>5 DEF ScanInv, ScanTypeOK
<1> QED BY <1>2, <1>3, <1>4, <1>5, <1>6 DEF ScanNext

\* Rows that are those of Projects count a session once.
LEMMA RowsCountOnce == ScanInv => CountsOnce
<1> SUFFICES ASSUME ScanInv, NEW r \in rows, NEW s \in rows, r.root = s.root, r.path # s.path
             PROVE  /\ ~Below(r.path, s.path)
                    /\ r.codex \cap s.codex = {}
                    /\ r.claude \cap s.claude # {} =>
                         machine.folder[r.path] \cap machine.folder[s.path] # {}
                    /\ \A e \in r.cursor \cap s.cursor :
                         \E v \in WorkspacesOf(r.path), w \in WorkspacesOf(s.path) :
                           /\ Gives(v, e) /\ Gives(w, e)
                           /\ v = w => {<<r.path, v.id>>, <<s.path, v.id>>} \cap machine.links # {}
  BY DEF CountsOnce
<1>. DEFINE root == r.root
<1>1. machine \in Machines
  BY DEF ScanInv
<1>2. PICK p \in Projects(root) : r = Row(p, root, asked.window)
  BY DEF ScanInv
<1>3. PICK q \in Projects(root) : s = Row(q, root, asked.window)
  BY DEF ScanInv
<1>. HIDE DEF root
<1>4. /\ r.path = p /\ \A x \in r.codex : x.cwd = p
      /\ \A e \in r.cursor : \E w \in WorkspacesOf(p) : Gives(w, e)
      /\ \A x \in r.claude : \E f \in machine.folder[p] :
           x \in machine.files[f] \/ (x \in machine.index[f] /\ x.project = p)
  BY <1>1, <1>2, RowHolds
<1>5. /\ s.path = q /\ \A x \in s.codex : x.cwd = q
      /\ \A e \in s.cursor : \E w \in WorkspacesOf(q) : Gives(w, e)
      /\ \A x \in s.claude : \E f \in machine.folder[q] :
           x \in machine.files[f] \/ (x \in machine.index[f] /\ x.project = q)
  BY <1>1, <1>3, RowHolds
<1>6. ~Below(p, q) /\ ~Below(q, p) /\ p \in machine.live /\ q \in machine.live /\ p # q
  BY <1>1, <1>4, <1>5, ProjectsStand
<1>7. r.codex \cap s.codex = {}
  BY <1>4, <1>5, <1>6
<1>8. ASSUME NEW e \in r.cursor \cap s.cursor
      PROVE  \E v \in WorkspacesOf(p), w \in WorkspacesOf(q) :
               /\ Gives(v, e) /\ Gives(w, e)
               /\ v = w => {<<p, v.id>>, <<q, v.id>>} \cap machine.links # {}
  <2>1. PICK v \in WorkspacesOf(p) : Gives(v, e)
    BY <1>4, <1>8
  <2>2. PICK w \in WorkspacesOf(q) : Gives(w, e)
    BY <1>5, <1>8
  <2>3. ASSUME v = w, <<p, v.id>> \notin machine.links, <<q, v.id>> \notin machine.links
        PROVE  FALSE
    <3>1. v \in machine.cursor /\ Beneath(v.dir, p) /\ Beneath(v.dir, q)
      BY <2>3 DEF WorkspacesOf
    <3>2. v.dir \in Seq(Parts) /\ p \in Seq(Parts) /\ q \in Seq(Parts) /\ Len(p) \in Nat /\ Len(q) \in Nat
      BY <1>1, <1>6, <3>1, MachineFacts, LenProperties
    <3>3. Len(p) <= Len(q) \/ Len(q) <= Len(p)
      BY <3>2
    <3>4. IsPrefix(p, q) \/ IsPrefix(q, p)
      BY <3>1, <3>2, <3>3, PrefixOrder DEF Beneath
    <3> QED BY <1>6, <3>4 DEF Below, IsStrictPrefix
  <2> QED BY <2>1, <2>2, <2>3
<1>9. ASSUME r.claude \cap s.claude # {} PROVE machine.folder[p] \cap machine.folder[q] # {}
  <2>1. PICK x \in r.claude : x \in s.claude
    BY <1>9
  <2>2. PICK f \in machine.folder[p] : x \in machine.files[f] \/ (x \in machine.index[f] /\ x.project = p)
    BY <1>4, <2>1
  <2>3. PICK g \in machine.folder[q] : x \in machine.files[g] \/ (x \in machine.index[g] /\ x.project = q)
    BY <1>5, <2>1
  <2>4. p \in machine.live /\ q \in machine.live
    BY <1>6
  <2>5. /\ f \in DOMAIN machine.files /\ f \in DOMAIN machine.index
        /\ g \in DOMAIN machine.files /\ g \in DOMAIN machine.index
    BY <1>1, <2>4, MachineFacts
  <2>6. x \in machine.files[f] /\ x \in machine.files[g]
    BY <1>1, <1>6, <2>2, <2>3, <2>5, MachineFacts
  <2>7. f = g
    BY <1>1, <2>5, <2>6, MachineFacts
  <2> QED BY <2>7
<1> QED BY <1>4, <1>5, <1>6, <1>7, <1>8, <1>9

\* The rows and the progress of the scan are always well typed.
THEOREM ScanIsTyped == ScanSpec => []ScanTypeOK
<1>1. ScanInv => ScanTypeOK
  BY DEF ScanInv
<1> QED BY <1>1, ScanStarts, ScanStep, PTL DEF ScanSpec

\* In one root's rows no Project is below another, and a session is in two rows
\* only where two Projects share a folder of Claude transcripts, a source link
\* gives a Project the workspace of another, or two workspaces claim one composer
\* (walk_sessions, canonicalize, get_workspace_ids).
THEOREM SessionsCountOnce == ScanSpec => []CountsOnce
BY ScanStarts, ScanStep, RowsCountOnce, PTL DEF ScanSpec

CountBelow(S, e) == Cardinality({f \in S : Below(f, e)})

\* Of finitely many directories below one, some has none of them below it.
LEMMA MostSpecific ==
  ASSUME NEW S, IsFiniteSet(S), S \subseteq Seq(Parts), NEW d \in Seq(Parts), NEW e0 \in S, Below(e0, d)
  PROVE  \E e \in S : Below(e, d) /\ ~ \E f \in S : Below(f, e)
<1>. DEFINE B == {e \in S : Below(e, d)}
            N == {CountBelow(S, e) : e \in B}
<1>1. \A e \in S : IsFiniteSet({f \in S : Below(f, e)}) /\ CountBelow(S, e) \in Nat
  BY FS_Subset, FS_CardinalityType DEF CountBelow
<1>2. N \subseteq Nat /\ N # {}
  BY <1>1
<1>3. IsWellFoundedOn(Less, Nat)
  BY NatLessThanWellFounded DEF Less
<1>4. PICK n \in N : \A m \in N : ~(<<m, n>> \in Less)
  BY <1>2, <1>3, WFMin
<1>5. \A m \in N : ~(m < n)
  BY <1>2, <1>4, Zenon DEF Less, OpToRel
<1>6. PICK e \in B : n = CountBelow(S, e)
  BY <1>4
<1>7. ASSUME NEW f \in S, Below(f, e) PROVE FALSE
  <2>. DEFINE F == {g \in S : Below(g, f)}
              E == {g \in S : Below(g, e)}
  <2>1. e \in Seq(Parts) /\ f \in Seq(Parts) /\ IsPrefix(e, f) /\ e # f /\ IsPrefix(d, e) /\ d # e
    BY <1>6, <1>7 DEF Below, IsStrictPrefix
  <2>2. ASSUME NEW g \in F PROVE g \in E
    <3>1. g \in Seq(Parts) /\ IsPrefix(f, g) /\ f # g
      BY <2>2 DEF Below, IsStrictPrefix
    <3>2. IsPrefix(e, g)
      BY <2>1, <3>1, PrefixOrder
    <3>3. e # g
      BY <2>1, <3>1, PrefixOrder
    <3> QED BY <2>2, <3>2, <3>3 DEF Below, IsStrictPrefix
  <2>3. f \in E /\ f \notin F
    BY <1>7 DEF Below, IsStrictPrefix
  <2>4. IsFiniteSet(E) /\ F \subseteq E /\ F # E
    BY <1>1, <1>6, <2>2, <2>3
  <2>. HIDE DEF F, E
  <2>5. Cardinality(F) < Cardinality(E)
    <3>1. IsFiniteSet(F) /\ Cardinality(F) <= Cardinality(E)
      BY <2>4, FS_Subset
    <3>2. Cardinality(F) # Cardinality(E)
      BY <2>4, FS_Subset
    <3>3. Cardinality(F) \in Nat /\ Cardinality(E) \in Nat
      BY <2>4, <3>1, FS_CardinalityType
    <3> QED BY <3>1, <3>2, <3>3
  <2>6. Below(f, d)
    <3>1. IsPrefix(d, f) /\ d # f
      BY <2>1, PrefixOrder
    <3> QED BY <3>1 DEF Below, IsStrictPrefix
  <2>7. CountBelow(S, f) \in N
    BY <1>7, <2>6
  <2>8. CountBelow(S, f) < CountBelow(S, e)
    BY <2>5 DEF CountBelow, F, E
  <2> QED BY <1>5, <1>6, <2>7, <2>8
<1> QED BY <1>6, <1>7

\* The rows of a root that was walked are there.
TranscriptsKept ==
  scanState \in {"idle", "walking", "done"} =>
    /\ scanState = "idle" => scanned = 0
    /\ scanState = "done" => scanned = Len(asked.roots)
    /\ \A i \in 1..scanned : i \notin missed => Shown(asked.roots[i], asked.window) \subseteq rows

\* What a root shows depends on the machine and the request only.
LEMMA ShownStays ==
  ASSUME machine' = machine, asked' = asked, NEW root
  PROVE  Shown(root, asked.window)' = Shown(root, asked.window)
<1>1. Projects(root)' = Projects(root)
  BY DEF Projects, Candidates, Named, Indexed, Read, WorkspacesOf, Boundary, Canonical, Excluded, Beneath, Below
<1>2. ASSUME NEW p PROVE Row(p, root, asked.window)' = Row(p, root, asked.window)
  <2>1. Candidates(root)' = Candidates(root)
    BY DEF Candidates, Named, Indexed, Read, WorkspacesOf, Boundary, Beneath
  <2>2. ClaudeSessions(p, asked.window)' = ClaudeSessions(p, asked.window)
    BY DEF ClaudeSessions, Selected, Indexed, Read
  <2>3. CodexSessions(p, asked.window)' = CodexSessions(p, asked.window)
    BY DEF CodexSessions, Beneath
  <2>4. CursorSessions(p)' = CursorSessions(p)
    BY DEF CursorSessions, InPlace, Attributed, Read, WorkspacesOf, Beneath
  <2> QED BY <2>1, <2>2, <2>3, <2>4 DEF Row
<1> QED BY <1>1, <1>2 DEF Shown, Recent

\* Every step keeps the rows of the roots already walked.
LEMMA KeptStep == ASSUME ScanInv, TranscriptsKept, [ScanNext]_scanVars PROVE TranscriptsKept'
<1>0. machine' = machine /\ asked' = asked
  BY DEF ScanNext, scanVars, StartScan, WalkRoot, MissRoot, FinishScan
<1>L. Len(asked.roots) \in Nat /\ scanned \in Nat
  BY ScanAssumption DEF ScanAssumption, ScanInv, ScanTypeOK
<1>1. ASSUME NEW i, Shown(asked.roots[i], asked.window) \subseteq rows'
      PROVE  (Shown(asked.roots[i], asked.window))' \subseteq rows'
  <2>. DEFINE root == asked.roots[i]
  <2>1. root' = root
    BY <1>0
  <2>2. (Shown(asked.roots[i], asked.window))' = Shown(asked.roots[i], asked.window)
    BY <1>0, <2>1, ShownStays DEF Shown, Recent, Row, Projects, Candidates, Named, Indexed, Read, WorkspacesOf, Boundary, Canonical, Excluded, Beneath, Below, ClaudeSessions, Selected, CodexSessions, CursorSessions, InPlace, Attributed
  <2> QED BY <1>1, <2>2
<1>2. CASE StartScan
  BY <1>0, <1>1, <1>2 DEF StartScan, TranscriptsKept
<1>3. CASE FinishScan
  BY <1>0, <1>1, <1>3 DEF FinishScan, TranscriptsKept
<1>4. CASE UNCHANGED scanVars
  BY <1>0, <1>1, <1>4 DEF scanVars, TranscriptsKept
<1>5. CASE MissRoot
  <2>1. /\ scanned' = scanned + 1 /\ missed' = missed \cup {scanned + 1} /\ rows' = rows
        /\ scanState = "walking" /\ scanState' \in {"walking", "stopped"}
    BY <1>5 DEF MissRoot
  <2>2. \A i \in 1..scanned' : i \notin missed' => i \in 1..scanned /\ i \notin missed
    BY <1>L, <2>1
  <2> QED BY <1>1, <2>1, <2>2 DEF TranscriptsKept
<1>6. CASE WalkRoot
  <2>1. /\ scanned' = scanned + 1 /\ missed' = missed /\ rows \subseteq rows'
        /\ scanState = "walking" /\ scanState' \in {"walking", "stopped"}
        /\ scanState' = "walking" => Shown(asked.roots[scanned + 1], asked.window) \subseteq rows'
    BY <1>6 DEF WalkRoot
  <2>2. \A i \in 1..scanned' : i \in 1..scanned \/ i = scanned + 1
    BY <1>L, <2>1
  <2>3. ASSUME scanState' = "walking", NEW i \in 1..scanned', i \notin missed'
        PROVE  Shown(asked.roots[i], asked.window) \subseteq rows'
    BY <2>1, <2>2, <2>3 DEF TranscriptsKept
  <2> QED BY <1>1, <2>1, <2>3 DEF TranscriptsKept
<1> QED BY <1>2, <1>3, <1>4, <1>5, <1>6 DEF ScanNext

\* With these rows there, no session is lost.
LEMMA KeptIsNotLost == ASSUME ScanInv, TranscriptsKept PROVE NothingIsLost
<1> SUFFICES ASSUME scanState = "done", NEW s \in machine.codex, NEW i \in Walked,
                    \A t \in machine.codex : t.id = s.id => s.copy <= t.copy,
                    Own(s.cwd, asked.roots[i]), "codex" \in asked.vendors,
                    ~(asked.window /\ s.age = 0),
                    ~ \E p \in Projects(asked.roots[i]) : Below(p, s.cwd)
             PROVE  \E r \in rows : r.root = asked.roots[i] /\ s \in r.codex
  BY DEF NothingIsLost
<1>. DEFINE root == asked.roots[i]
            d    == s.cwd
            c    == Candidates(root)
            all  == c["cc"] \cup c["codex"] \cup c["cursor"]
            admitted == {e \in all : e \in machine.live /\ ~Excluded(e, root)}
<1>1. machine \in Machines
  BY DEF ScanInv
<1>2. d \in Named(root).codex
  BY DEF Named, Own
<1>3. d \in c["codex"]
  BY <1>2 DEF Candidates, Own
<1>4. d \in admitted
  BY <1>3 DEF Own
<1>5. IsFiniteSet(admitted) /\ admitted \subseteq Seq(Parts)
  <2>1. admitted \subseteq machine.live
    OBVIOUS
  <2> QED BY <1>1, <2>1, MachineFacts, FS_Subset
<1>6. Projects(root) = {e \in admitted : ~ \E f \in admitted : Below(f, e)}
  BY DEF Projects, Canonical
<1>. HIDE DEF admitted, all
<1>7. d \in Projects(root)
  <2> SUFFICES ASSUME NEW e \in admitted, Below(e, d) PROVE FALSE
    BY <1>4, <1>6
  <2>1. \E f \in admitted : Below(f, d) /\ ~ \E g \in admitted : Below(g, f)
    BY <1>4, <1>5, MostSpecific
  <2> QED BY <1>6, <2>1
<1>8. asked.window => s.age = 1
  BY <1>1, MachineFacts
<1>9. s \in CodexSessions(d, asked.window)
  <2>1. Beneath(d, d)
    BY <1>4, <1>5, PrefixOrder DEF Beneath
  <2> QED BY <1>8, <2>1 DEF CodexSessions
<1>. DEFINE r == Row(d, root, asked.window)
<1>10. s \in r.codex /\ r.root = root /\ "codex" \in r.sources
  BY <1>3, <1>9 DEF Row
<1>11. Recent(r)
  BY <1>10 DEF Recent
<1>. HIDE DEF r
<1>12. r \in Shown(root, asked.window)
  BY <1>7, <1>10, <1>11 DEF Shown, r
<1>13. i \in 1..scanned /\ i \notin missed
  BY ScanAssumption DEF ScanAssumption, Walked, TranscriptsKept, ScanInv, ScanTypeOK
<1>14. r \in rows
  BY <1>12, <1>13 DEF TranscriptsKept
<1> QED BY <1>10, <1>14

\* When the scan is done, the newest copy of a Codex transcript of a directory
\* that is its own boundary is in a row of every root walked, or has its place in
\* a more specific Project, or is before the window (canonicalize, walk_sessions).
THEOREM NoTranscriptIsLost == ScanSpec => []NothingIsLost
<1>1. ScanInit => TranscriptsKept
  BY DEF ScanInit, TranscriptsKept
<1>2. ScanInv /\ TranscriptsKept /\ [ScanNext]_scanVars => TranscriptsKept'
  BY KeptStep
<1>3. ScanInv /\ TranscriptsKept => NothingIsLost
  BY KeptIsNotLost
<1> QED BY <1>1, <1>2, <1>3, ScanStarts, ScanStep, PTL DEF ScanSpec

-----------------------------------------------------------------------------
(* What a window hides. *)

\* The units a sum counts.
Units(S, w) == UNION {{x} \X (1..w[x]) : x \in S}

\* One more element adds what it weighs.
LEMMA WeightOfOneMore ==
  ASSUME NEW S, NEW w, NEW y, IsFiniteSet(Units(S, w)), y \notin S, w[y] \in Nat
  PROVE  IsFiniteSet(Units(S \cup {y}, w)) /\ Weight(S \cup {y}, w) = Weight(S, w) + w[y]
<1>. DEFINE k == w[y]
            A == Units(S, w)
            B == {y} \X (1..k)
            I == 1..k
            C == A \cup B
<1>1. Units(S \cup {y}, w) = C
  BY DEF Units
<1>0. k \in Nat
  OBVIOUS
<1>2. IsFiniteSet({y}) /\ Cardinality({y}) = 1
  BY FS_Singleton
<1>3. IsFiniteSet(I) /\ Cardinality(I) = k
  BY FS_Interval
<1>4. A \cap B = {}
  BY DEF Units
<1>. HIDE DEF I
<1>5. IsFiniteSet({y} \X I) /\ Cardinality({y} \X I) = Cardinality({y}) * Cardinality(I)
  BY <1>2, <1>3, FS_Product
<1>6. IsFiniteSet(B) /\ Cardinality(B) = k
  BY <1>2, <1>3, <1>5 DEF I
<1>. HIDE DEF A, B, k
<1>7. IsFiniteSet(A) /\ Cardinality(A) \in Nat
  BY FS_CardinalityType DEF A
<1>8. IsFiniteSet(C) /\ Cardinality(C) = Cardinality(A) + Cardinality(B) - Cardinality(A \cap B)
  BY <1>6, <1>7, FS_Union
<1>9. Cardinality(A \cap B) = 0
  BY <1>4, FS_EmptySet
<1>10. Cardinality(C) = Cardinality(A) + k
  BY <1>0, <1>6, <1>7, <1>8, <1>9
<1>11. Weight(S, w) = Cardinality(A) /\ Weight(S \cup {y}, w) = Cardinality(C)
  BY <1>1 DEF Weight, Units, A
<1> QED BY <1>1, <1>7, <1>8, <1>10, <1>11 DEF k

\* What a sum counts depends on the weights of its elements only.
LEMMA WeightOfTheSame ==
  ASSUME NEW S, NEW v, NEW w, \A x \in S : v[x] = w[x]
  PROVE  Weight(S, v) = Weight(S, w)
<1>1. \A x \in S : {x} \X (1..v[x]) = {x} \X (1..w[x])
  OBVIOUS
<1>. DEFINE p(x) == {x} \X (1..v[x])
            q(x) == {x} \X (1..w[x])
<1>2. {p(x) : x \in S} = {q(x) : x \in S}
  BY <1>1
<1> QED BY <1>2 DEF Weight

\* A Project with no Sessions within a window has none on record or some before it.
LEMMA WindowOnlyHides ==
  ASSUME NEW p, NEW root
  PROVE  Row(p, root, TRUE).sources # {} => Row(p, root, FALSE).sources # {}
<1>. DEFINE named == Candidates(root)
<1>1. CodexSessions(p, TRUE) \subseteq CodexSessions(p, FALSE)
  BY DEF CodexSessions
<1>2. ASSUME ClaudeSessions(p, TRUE) # {} PROVE ClaudeSessions(p, FALSE) # {}
  <2>. DEFINE kept(f) == {e \in Indexed(f) : e.project = p /\ e.here}
              now(S) == Selected(S, TRUE)
              all(S) == Selected(S, FALSE)
              new(f) == IF now(kept(f)) # {} THEN now(kept(f)) ELSE now(machine.files[f])
              any(f) == IF all(kept(f)) # {} THEN all(kept(f)) ELSE all(machine.files[f])
              D == machine.folder[p]
  <2>1. \A S : now(S) \subseteq all(S)
    BY DEF Selected
  <2>2. ClaudeSessions(p, TRUE) = UNION {new(f) : f \in D}
    BY DEF ClaudeSessions
  <2>3. ClaudeSessions(p, FALSE) = UNION {any(f) : f \in D}
    BY DEF ClaudeSessions
  <2>. HIDE DEF kept, now, all, D
  <2>4. \A f : new(f) # {} => any(f) # {}
    BY <2>1
  <2>. HIDE DEF new, any
  <2>5. PICK f \in D : new(f) # {}
    <3>1. PICK t : t \in UNION {new(f) : f \in D}
      BY <1>2, <2>2, Zenon
    <3>2. PICK f \in D : t \in new(f)
      BY <3>1
    <3> QED BY <3>2
  <2> QED BY <2>3, <2>4, <2>5
<1>3. CASE p \in named["cursor"]
  <2>1. "cursor" \in Row(p, root, FALSE).sources
    BY <1>3 DEF Row
  <2> QED BY <2>1
<1>4. CASE p \notin named["cursor"]
  <2>. DEFINE cc == IF p \in named["cc"] THEN ClaudeSessions(p, TRUE) ELSE {}
              cx == IF p \in named["codex"] THEN CodexSessions(p, TRUE) ELSE {}
              c2 == IF p \in named["cc"] THEN ClaudeSessions(p, FALSE) ELSE {}
              x2 == IF p \in named["codex"] THEN CodexSessions(p, FALSE) ELSE {}
  <2>1. Row(p, root, TRUE).sources # {} => cc # {} \/ cx # {}
    BY <1>4 DEF Row
  <2>2. /\ c2 # {} => "cc" \in Row(p, root, FALSE).sources
        /\ x2 # {} => "codex" \in Row(p, root, FALSE).sources
    BY DEF Row
  <2>3. (cc # {} => c2 # {}) /\ (cx # {} => x2 # {})
    BY <1>1, <1>2
  <2>. HIDE DEF cc, cx, c2, x2
  <2> QED BY <2>1, <2>2, <2>3
<1> QED BY <1>3, <1>4

\* What has no source within the window has Sessions exactly if it has sources
\* without it.
LEMMA AnyMeansSources ==
  ASSUME NEW p, NEW root, Row(p, root, TRUE).sources = {}
  PROVE  HasAny(p, root) <=> Row(p, root, FALSE).sources # {}
<1>. DEFINE r == Row(p, root, FALSE)
            named == Candidates(root)
            Kinds == {"cc", "codex", "cursor"}
<1>1. r.sources = {v \in Kinds : CASE v = "cc" -> r.claude # {} [] v = "codex" -> r.codex # {}
                                   [] v = "cursor" -> p \in named["cursor"]}
      /\ r.cursor = IF p \in named["cursor"] THEN CursorSessions(p) ELSE {}
  BY DEF Row
<1>2. p \notin named["cursor"]
  <2>1. p \in named["cursor"] => "cursor" \in Row(p, root, TRUE).sources
    BY DEF Row
  <2> QED BY <2>1
<1>3. HasAny(p, root) <=> r.claude # {} \/ r.codex # {} \/ r.cursor # {}
  BY DEF HasAny
<1>. HIDE DEF r, named
<1>4. r.cursor = {} /\ "cursor" \notin r.sources
  BY <1>1, <1>2
<1>5. "cc" \in r.sources <=> r.claude # {}
  BY <1>1
<1>6. "codex" \in r.sources <=> r.codex # {}
  BY <1>1
<1>7. r.sources \subseteq Kinds
  BY <1>1
<1> QED BY <1>3, <1>4, <1>5, <1>6, <1>7 DEF r

\* What is outside the window is what the report shows only without it.
LEMMA OutsideIsWithout ==
  ASSUME NEW root
  PROVE  Outside(root) = {r.path : r \in Shown(root, FALSE)} \ {r.path : r \in Shown(root, TRUE)}
<1>. DEFINE P == Projects(root)
            old(p) == Row(p, root, FALSE)
            new(p) == Row(p, root, TRUE)
            A == {p \in P : old(p).sources # {}}
            B == {p \in P : new(p).sources # {} /\ Recent(new(p))}
<1>1. \A p : old(p).path = p /\ new(p).path = p
  BY DEF Row
<1>2. Shown(root, FALSE) = {r \in {old(p) : p \in P} : r.sources # {}}
  BY DEF Shown
<1>3. Shown(root, TRUE) = {r \in {new(p) : p \in P} : r.sources # {} /\ Recent(r)}
  BY DEF Shown
<1>4. ASSUME NEW p \in P PROVE p \in Outside(root) <=> p \in A \ B
  <2>1. p \in Outside(root) <=> IF new(p).sources = {} THEN HasAny(p, root) ELSE ~Recent(new(p))
    BY DEF Outside
  <2>2. new(p).sources = {} => (HasAny(p, root) <=> old(p).sources # {})
    BY AnyMeansSources
  <2>3. new(p).sources # {} => old(p).sources # {}
    BY WindowOnlyHides
  <2>. HIDE DEF old, new
  <2> QED BY <2>1, <2>2, <2>3
<1>5. Outside(root) \subseteq P
  BY DEF Outside
<1>. HIDE DEF old, new, P
<1>6. Outside(root) = A \ B
  BY <1>4, <1>5
<1>7. {r.path : r \in Shown(root, FALSE)} = A
  <2>1. ASSUME NEW r \in Shown(root, FALSE) PROVE r.path \in A
    <3>1. PICK p \in P : r = old(p) /\ r.sources # {}
      BY <1>2
    <3> QED BY <1>1, <3>1
  <2>2. ASSUME NEW p \in A PROVE \E r \in Shown(root, FALSE) : p = r.path
    <3>1. old(p) \in Shown(root, FALSE) /\ old(p).path = p
      BY <1>1, <1>2
    <3> QED BY <3>1
  <2>. HIDE DEF A
  <2> QED BY <2>1, <2>2
<1>8. {r.path : r \in Shown(root, TRUE)} = B
  <2>1. ASSUME NEW r \in Shown(root, TRUE) PROVE r.path \in B
    <3>1. PICK p \in P : r = new(p) /\ r.sources # {} /\ Recent(r)
      BY <1>3
    <3> QED BY <1>1, <3>1
  <2>2. ASSUME NEW p \in B PROVE \E r \in Shown(root, TRUE) : p = r.path
    <3>1. new(p) \in Shown(root, TRUE) /\ new(p).path = p
      BY <1>1, <1>3
    <3> QED BY <3>1
  <2>. HIDE DEF B
  <2> QED BY <2>1, <2>2
<1> QED BY <1>6, <1>7, <1>8

\* The rows shown of a root name it.
LEMMA ShownOfRoot ==
  ASSUME NEW root, NEW b, NEW r \in Shown(root, b)
  PROVE  r.root = root
<1>1. PICK p \in Projects(root) : r = Row(p, root, b)
  BY DEF Shown
<1> QED BY <1>1 DEF Row

\* The Projects outside the window, by the root.
OutsideOf == [i \in 1..Len(asked.roots) |-> Cardinality(Outside(asked.roots[i]))]

\* The rows are the ones shown of their roots, and the count is of the roots that
\* were walked.
HiddenInv ==
  /\ \A r \in rows : r \in Shown(r.root, asked.window)
  /\ IsFiniteSet(Units((1..scanned) \ missed, OutsideOf))
  /\ scanState \in {"idle", "walking", "done"} =>
       hidden = IF asked.window THEN Weight((1..scanned) \ missed, OutsideOf) ELSE 0

\* What is shown and hidden depends on the machine and the request only.
LEMMA HiddenStays ==
  ASSUME machine' = machine, asked' = asked
  PROVE  /\ OutsideOf' = OutsideOf
         /\ \A r : (r \in Shown(r.root, asked.window))' <=> r \in Shown(r.root, asked.window)
<1>1. ASSUME NEW root PROVE Outside(root)' = Outside(root)
  <2>1. Projects(root)' = Projects(root)
    BY DEF Projects, Candidates, Named, Indexed, Read, WorkspacesOf, Boundary, Canonical, Excluded, Beneath, Below
  <2>2. ASSUME NEW p, NEW b PROVE Row(p, root, b)' = Row(p, root, b)
    <3>1. Candidates(root)' = Candidates(root)
      BY DEF Candidates, Named, Indexed, Read, WorkspacesOf, Boundary, Beneath
    <3>2. ClaudeSessions(p, b)' = ClaudeSessions(p, b)
      BY DEF ClaudeSessions, Selected, Indexed, Read
    <3>3. CodexSessions(p, b)' = CodexSessions(p, b)
      BY DEF CodexSessions, Beneath
    <3>4. CursorSessions(p)' = CursorSessions(p)
      BY DEF CursorSessions, InPlace, Attributed, Read, WorkspacesOf, Beneath
    <3> QED BY <3>1, <3>2, <3>3, <3>4 DEF Row
  <2> QED BY <2>1, <2>2 DEF Outside, HasAny, Recent
<1>2. OutsideOf' = OutsideOf
  BY <1>1 DEF OutsideOf
<1>3. ASSUME NEW r PROVE (r \in Shown(r.root, asked.window))' <=> r \in Shown(r.root, asked.window)
  BY ShownStays
<1> QED BY <1>2, <1>3

\* Every step keeps the count.
LEMMA HiddenStep ==
  ASSUME ScanInv, TranscriptsKept, HiddenInv, [ScanNext]_scanVars
  PROVE  HiddenInv'
<1>. DEFINE W == (1..scanned) \ missed
<1>0. machine' = machine /\ asked' = asked
  BY DEF ScanNext, scanVars, StartScan, WalkRoot, MissRoot, FinishScan
<1>L. /\ Len(asked.roots) \in Nat /\ machine \in Machines /\ scanned \in 0..Len(asked.roots)
      /\ missed \subseteq 1..scanned
  BY ScanAssumption DEF ScanAssumption, ScanInv, ScanTypeOK
<1>1. OutsideOf' = OutsideOf
  BY <1>0, HiddenStays
<1>2. ASSUME \A r \in rows' : r \in Shown(r.root, asked.window)
      PROVE  (\A r \in rows : r \in Shown(r.root, asked.window))'
  BY <1>0, <1>2, HiddenStays
<1>3. ASSUME UNCHANGED <<scanned, missed, rows, hidden>>,
             scanState' \in {"idle", "walking", "done"} => scanState \in {"idle", "walking", "done"}
      PROVE  HiddenInv'
  BY <1>0, <1>1, <1>2, <1>3 DEF HiddenInv
<1>4. CASE StartScan
  BY <1>3, <1>4 DEF StartScan
<1>5. CASE FinishScan
  BY <1>3, <1>5 DEF FinishScan
<1>6. CASE UNCHANGED scanVars
  BY <1>3, <1>6 DEF scanVars
<1>7. CASE MissRoot
  <2>1. /\ scanned' = scanned + 1 /\ missed' = missed \cup {scanned + 1} /\ rows' = rows
        /\ hidden' = hidden /\ scanState = "walking"
    BY <1>7 DEF MissRoot
  <2>2. W' = W
    BY <1>L, <2>1
  <2> QED BY <1>0, <1>1, <1>2, <2>1, <2>2 DEF HiddenInv
<1>8. CASE WalkRoot
  <2>. DEFINE n == scanned + 1
              root == asked.roots[n]
              k == Cardinality(Outside(root))
              new == Shown(root, asked.window)
  <2>1. /\ scanned' = n /\ scanned < Len(asked.roots) /\ missed' = missed /\ scanState = "walking"
        /\ rows' \subseteq rows \cup new
        /\ hidden' = IF asked.window THEN hidden + k ELSE hidden
    BY <1>8 DEF WalkRoot
  <2>2. k \in Nat
    BY <1>L, ProjectsStand, FS_CardinalityType
  <2>3. n \in 1..Len(asked.roots) /\ n \notin W /\ W' = W \cup {n}
    BY <1>L, <2>1
  <2>4. OutsideOf[n] = k
    BY <2>3 DEF OutsideOf
  <2>5. IsFiniteSet(Units(W, OutsideOf))
    BY DEF HiddenInv
  <2>. HIDE DEF W, k, n
  <2>6. /\ IsFiniteSet(Units(W \cup {n}, OutsideOf)) /\ Weight(W \cup {n}, OutsideOf) = Weight(W, OutsideOf) + k
    <3>. DEFINE w == OutsideOf
    <3>1. IsFiniteSet(Units(W, w)) /\ n \notin W /\ w[n] = k /\ w[n] \in Nat
      BY <2>2, <2>3, <2>4, <2>5
    <3>. HIDE DEF w
    <3>2. IsFiniteSet(Units(W \cup {n}, w)) /\ Weight(W \cup {n}, w) = Weight(W, w) + w[n]
      BY <3>1, WeightOfOneMore, Zenon
    <3> QED BY <3>1, <3>2 DEF w
  <2>7. hidden = IF asked.window THEN Weight(W, OutsideOf) ELSE 0
    BY <2>1 DEF HiddenInv, W
  <2>8. \A r \in rows' : r \in Shown(r.root, asked.window)
    <3>1. \A r \in new : r.root = root
      BY ShownOfRoot
    <3>2. \A r \in rows : r \in Shown(r.root, asked.window)
      BY DEF HiddenInv
    <3>. HIDE DEF new, root
    <3>3. ASSUME NEW r \in new PROVE r \in Shown(r.root, asked.window)
      BY <3>1, <3>3 DEF new
    <3> QED BY <2>1, <3>2, <3>3
  <2>9. (\A r \in rows : r \in Shown(r.root, asked.window))'
    BY <1>2, <2>8
  <2>10. IsFiniteSet(Units(W', OutsideOf')) /\ hidden' = IF asked.window THEN Weight(W', OutsideOf') ELSE 0
    BY <1>1, <2>1, <2>3, <2>6, <2>7
  <2> QED BY <1>0, <2>9, <2>10 DEF HiddenInv, W
<1> QED BY <1>4, <1>5, <1>6, <1>7, <1>8 DEF ScanNext

\* The count is of the Projects the report leaves out.
LEMMA HiddenTells == ASSUME ScanInv, TranscriptsKept, HiddenInv PROVE HiddenAreCounted
<1>. SUFFICES ASSUME scanState = "done" PROVE HiddenAreCounted
  BY DEF HiddenAreCounted
<1>. DEFINE without(root) == {r.path : r \in Shown(root, FALSE)} \ {r.path : r \in {q \in rows : q.root = root}}
            W == (1..scanned) \ missed
<1>1. Len(asked.roots) \in Nat /\ DOMAIN asked.roots = 1..Len(asked.roots) /\ scanned = Len(asked.roots)
  BY ScanAssumption DEF ScanAssumption, ScanInv, ScanTypeOK, TranscriptsKept
<1>2. Walked = W
  BY <1>1 DEF Walked
<1>3. ASSUME asked.window, NEW i \in W PROVE without(asked.roots[i]) = Outside(asked.roots[i])
  <2>. DEFINE root == asked.roots[i]
  <2>1. Shown(root, asked.window) \subseteq rows
    BY <1>3 DEF TranscriptsKept
  <2>2. \A r \in rows : r \in Shown(r.root, asked.window)
    BY DEF HiddenInv
  <2>3. \A r \in Shown(root, asked.window) : r.root = root
    BY ShownOfRoot
  <2>4. {q \in rows : q.root = root} = Shown(root, asked.window)
    BY <2>1, <2>2, <2>3
  <2>5. Shown(root, asked.window) = Shown(root, TRUE)
    BY <1>3 DEF Shown
  <2>. HIDE DEF root
  <2>6. without(root) = Outside(root)
    BY <2>4, <2>5, OutsideIsWithout
  <2> QED BY <2>6 DEF root
<1>4. CASE ~asked.window
  BY <1>4 DEF HiddenAreCounted, HiddenInv
<1>5. CASE asked.window
  <2>. DEFINE v == [i \in Walked |-> Cardinality(without(asked.roots[i]))]
  <2>1. \A i \in W : v[i] = OutsideOf[i]
    BY <1>1, <1>2, <1>3, <1>5 DEF OutsideOf
  <2>. HIDE DEF v
  <2>2. Weight(W, v) = Weight(W, OutsideOf)
    BY <2>1, WeightOfTheSame
  <2>3. hidden = Weight(W, OutsideOf)
    BY <1>5 DEF HiddenInv
  <2>4. hidden = Weight(Walked, v)
    BY <1>2, <2>2, <2>3
  <2> QED BY <1>5, <2>4 DEF HiddenAreCounted, v
<1> QED BY <1>4, <1>5

\* A report says how many Projects its window hides, when the scan is done
\* (walk_sessions, projects_outside_recency_window).
THEOREM HiddenProjectsAreCounted == ScanSpec => []HiddenAreCounted
<1>1. ScanInit => TranscriptsKept /\ HiddenInv
  <2> SUFFICES ASSUME ScanInit PROVE TranscriptsKept /\ HiddenInv
    OBVIOUS
  <2>1. TranscriptsKept
    BY DEF ScanInit, TranscriptsKept
  <2>2. (1..scanned) \ missed = {}
    BY DEF ScanInit
  <2>3. Units({}, OutsideOf) = {}
    BY DEF Units
  <2>4. IsFiniteSet(Units({}, OutsideOf)) /\ Weight({}, OutsideOf) = 0
    BY <2>3, FS_EmptySet DEF Weight, Units
  <2> QED BY <2>1, <2>2, <2>4 DEF ScanInit, HiddenInv
<1>2. ScanInv /\ TranscriptsKept /\ HiddenInv /\ [ScanNext]_scanVars => TranscriptsKept' /\ HiddenInv'
  BY KeptStep, HiddenStep
<1>3. ScanInv /\ TranscriptsKept /\ HiddenInv => HiddenAreCounted
  BY HiddenTells
<1> QED BY <1>1, <1>2, <1>3, ScanStarts, ScanStep, PTL DEF ScanSpec

-----------------------------------------------------------------------------
(* Candidates and decisions. *)

\* What EnterRoot and VisitDirectory wait for: a directory below a root that no
\* parent keeps out and that is not itself noise.
Entered(q, t, r, d) ==
  /\ r \in t.dirs /\ d \in t.dirs /\ IsPrefix(r, d)
  /\ \A a \in t.dirs : IsPrefix(r, a) /\ IsPrefix(a, d) =>
       /\ a # r => a \notin t.noise
       /\ a # d => /\ Len(a) - Len(r) <= q.depth
                   /\ ~(q.sameFilesystem /\ a \in t.mounted)
                   /\ a \notin t.excluded /\ a \notin t.repos

\* Discoverable, of a tree and a request.
FoundIn(q, t, root) ==
  {g \in t.repos :
     /\ IsPrefix(root, g) /\ Len(g) - Len(root) <= q.depth
     /\ \A d \in {a \in t.dirs : IsPrefix(root, a) /\ IsPrefix(a, g)} :
          /\ d \notin t.excluded /\ (q.sameFilesystem => d \notin t.mounted)
          /\ d # g => d \notin t.repos
          /\ d # root => d \notin t.noise}

Shut(q, t, r, d) ==
  \/ Len(d) - Len(r) > q.depth
  \/ q.sameFilesystem /\ d \in t.mounted
  \/ d \in t.excluded

ChildrenIn(t, d) == {e \in t.dirs : Len(e) = Len(d) + 1 /\ IsPrefix(d, e)}

\* A tree holds the parents of its directories.
LEMMA TreeFacts ==
  ASSUME NEW t \in Trees
  PROVE  /\ t.dirs \subseteq Seq(Names) /\ t.repos \subseteq t.dirs /\ t.worked \subseteq AllDirs
         /\ t.dirs \subseteq AllDirs
         /\ \A d \in t.dirs : \A n \in 1..Len(d) : SubSeq(d, 1, n) \in t.dirs
<1>1. t.dirs \subseteq AllDirs
  BY DEF AllDirs
<1> QED BY <1>1, ReviewAssumption DEF ReviewAssumption

\* The roots of a traversal are directories.
LEMMA RootFacts ==
  ASSUME NEW q \in Traversals
  PROVE  /\ Len(q.roots) \in Nat /\ q.budget \in Nat /\ q.depth \in Nat
         /\ DOMAIN q.roots = 1..Len(q.roots)
         /\ \A k \in 1..Len(q.roots) : q.roots[k] \in Seq(Names)
<1>1. q.roots \in Seq(Seq(Names)) /\ q.budget \in Nat /\ q.depth \in Nat
  BY ReviewAssumption DEF ReviewAssumption
<1> QED BY <1>1, LenProperties, ElementOfSeq

\* A directory that is entered, open and a repository is one to be found.
LEMMA EnteredIsFound ==
  ASSUME NEW t \in Trees, NEW q \in Traversals, NEW r, NEW d,
         Entered(q, t, r, d), ~Shut(q, t, r, d), d \in t.repos, q.depth \in Nat,
         Len(d) - Len(r) \in Int
  PROVE  d \in FoundIn(q, t, r)
<1>1. Len(d) - Len(r) <= q.depth
  BY DEF Shut
<1>2. ASSUME NEW a \in t.dirs, IsPrefix(r, a), IsPrefix(a, d)
      PROVE  /\ a \notin t.excluded /\ (q.sameFilesystem => a \notin t.mounted)
             /\ a # d => a \notin t.repos
             /\ a # r => a \notin t.noise
  BY <1>2 DEF Entered, Shut
<1> QED BY <1>1, <1>2 DEF FoundIn, Entered

\* The children of an open directory that are not noise are entered too.
LEMMA ChildIsEntered ==
  ASSUME NEW t \in Trees, NEW q \in Traversals, NEW r \in Seq(Names), NEW d,
         Entered(q, t, r, d), ~Shut(q, t, r, d), d \notin t.repos,
         NEW e \in ChildrenIn(t, d), e \notin t.noise
  PROVE  Entered(q, t, r, e)
<1>1. d \in Seq(Names) /\ e \in Seq(Names) /\ d \in t.dirs /\ e \in t.dirs /\ r \in t.dirs
      /\ IsPrefix(r, d) /\ IsPrefix(d, e) /\ Len(e) = Len(d) + 1
  BY TreeFacts DEF Entered, ChildrenIn
<1>2. IsPrefix(r, e)
  BY <1>1, PrefixOrder
<1>3. ASSUME NEW a \in t.dirs, IsPrefix(r, a), IsPrefix(a, e)
      PROVE  /\ a # r => a \notin t.noise
             /\ a # e => /\ Len(a) - Len(r) <= q.depth
                         /\ ~(q.sameFilesystem /\ a \in t.mounted)
                         /\ a \notin t.excluded /\ a \notin t.repos
  <2>1. a \in Seq(Names) /\ Len(a) \in Nat /\ Len(d) \in Nat /\ Len(e) \in Nat /\ Len(r) \in Nat
    BY <1>1, TreeFacts, LenProperties
  <2>2. CASE a = e
    BY <2>2
  <2>3. CASE a # e
    <3>1. ~(Len(e) <= Len(a))
      BY <1>1, <1>3, <2>1, <2>3, PrefixOrder
    <3>2. Len(a) <= Len(d)
      BY <1>1, <2>1, <3>1
    <3>3. IsPrefix(a, d)
      BY <1>1, <1>3, <2>1, <3>2, PrefixOrder
    <3>4. CASE a = d
      <4>1. Len(a) - Len(r) <= q.depth
        <5>1. ~(Len(d) - Len(r) > q.depth)
          BY DEF Shut
        <5> QED BY <2>1, <3>4, <5>1, RootFacts
      <4> QED BY <1>3, <3>3, <3>4, <4>1 DEF Shut, Entered
    <3>5. CASE a # d
      BY <1>3, <3>3, <3>5 DEF Entered
    <3> QED BY <3>4, <3>5
  <2> QED BY <2>2, <2>3
<1> QED BY <1>1, <1>2, <1>3 DEF Entered

\* What is to be found below a directory is it, or below a child of it.
LEMMA FoundBelow ==
  ASSUME NEW t \in Trees, NEW q \in Traversals, NEW r \in Seq(Names), NEW d,
         Entered(q, t, r, d), NEW g \in FoundIn(q, t, r), IsPrefix(d, g)
  PROVE  /\ ~Shut(q, t, r, d)
         /\ d # g => /\ d \notin t.repos
                     /\ \E e \in ChildrenIn(t, d) : e \notin t.noise /\ IsPrefix(e, g)
<1>1. d \in Seq(Names) /\ g \in Seq(Names) /\ d \in t.dirs /\ g \in t.dirs /\ r \in t.dirs /\ IsPrefix(r, d)
  BY TreeFacts DEF Entered, FoundIn
<1>2. /\ Len(d) \in Nat /\ Len(g) \in Nat /\ Len(r) \in Nat /\ q.depth \in Nat
      /\ Len(d) <= Len(g) /\ Len(g) - Len(r) <= q.depth
  BY <1>1, PrefixOrder, LenProperties, RootFacts DEF FoundIn
<1>3. ~Shut(q, t, r, d)
  <2>1. ~(Len(d) - Len(r) > q.depth)
    BY <1>2
  <2> QED BY <1>1, <2>1 DEF Shut, FoundIn
<1>4. ASSUME d # g
      PROVE  /\ d \notin t.repos
             /\ \E e \in ChildrenIn(t, d) : e \notin t.noise /\ IsPrefix(e, g)
  <2>. DEFINE e == SubSeq(g, 1, Len(d) + 1)
  <2>1. /\ e \in Seq(Names) /\ Len(e) = Len(d) + 1 /\ Len(d) + 1 \in 1..Len(g)
        /\ IsPrefix(d, e) /\ IsPrefix(e, g)
    BY <1>1, <1>4, NextBelow
  <2>2. e \in t.dirs
    BY <1>1, <2>1, TreeFacts
  <2>. HIDE DEF e
  <2>3. IsPrefix(r, e) /\ Len(r) <= Len(d)
    BY <1>1, <2>1, PrefixOrder
  <2>4. e # r
    BY <1>2, <2>1, <2>3
  <2>5. e \notin t.noise
    BY <2>1, <2>2, <2>3, <2>4 DEF FoundIn
  <2>6. d \notin t.repos
    BY <1>1, <1>4 DEF FoundIn
  <2>7. e \in ChildrenIn(t, d)
    BY <2>1, <2>2 DEF ChildrenIn
  <2> QED BY <2>1, <2>5, <2>6, <2>7
<1> QED BY <1>3, <1>4

\* What the traversal keeps.
Soundly(q, t, k, found) ==
  \A g \in found : \E j \in 1..k : q.roots[j] \in t.dirs /\ g \in FoundIn(q, t, q.roots[j])

Wholly(q, t, k, w, found) ==
  \A j \in 1..k : q.roots[j] \in t.dirs =>
    \A g \in FoundIn(q, t, q.roots[j]) :
      g \in found \/ (j = k /\ \E d \in w : IsPrefix(d, g))

Queue(q, t, k, w) == \A d \in w : k >= 1 /\ Entered(q, t, q.roots[k], d)

WalkInv ==
  /\ pass = "sessions" => walking = 0 /\ waiting = {} /\ spent = 0 /\ partial = FALSE /\ roots = {}
  /\ pass \in {"sessions", "walk"} =>
       /\ walking \in 0..Len(request.roots)
       /\ Queue(request, tree, walking, waiting)
       /\ Soundly(request, tree, walking, roots)
       /\ ~partial => Wholly(request, tree, walking, waiting, roots)
       /\ request.budget > 0 => spent <= request.budget + (IF partial THEN 1 ELSE 0)

ReviewInv == ReviewTypeOK /\ WalkInv /\ TraversalIsComplete

\* The same, said of a given tree and request.
LEMMA DiscoverableIsFoundIn == \A r : Discoverable(r) = FoundIn(request, tree, r)
BY DEF Discoverable, FoundIn

\* The invariant of the review holds at first.
LEMMA ReviewInvHolds == ReviewInit => ReviewInv
<1> SUFFICES ASSUME ReviewInit PROVE ReviewInv
  OBVIOUS
<1>1. ReviewTypeOK
  <2>1. 0 \in 0..MaxRefreshes
    BY ReviewAssumption DEF ReviewAssumption
  <2>2. DOMAIN <<>> = {}
    OBVIOUS
  <2> QED BY <2>1, <2>2 DEF ReviewInit, ReviewTypeOK
<1>2. WalkInv /\ TraversalIsComplete
  BY DEF ReviewInit, WalkInv, TraversalIsComplete
<1> QED BY <1>1, <1>2 DEF ReviewInv

\* A merge takes the second of two entries.
LEMMA MergedMeans ==
  ASSUME NEW under, NEW over
  PROVE  /\ DOMAIN Merged(under, over) = DOMAIN under \cup DOMAIN over
         /\ \A d \in DOMAIN over : Merged(under, over)[d] = over[d]
         /\ \A d \in DOMAIN under \ DOMAIN over : Merged(under, over)[d] = under[d]
BY DEF Merged

Drafted(f) == DOMAIN f \subseteq AllDirs /\ \A d \in DOMAIN f : f[d] \in Candidate

\* A merge of drafts is a draft.
LEMMA MergedIsDrafted ==
  ASSUME NEW under, NEW over, Drafted(under), Drafted(over)
  PROVE  Drafted(Merged(under, over))
<1>1. DOMAIN under \subseteq AllDirs /\ DOMAIN over \subseteq AllDirs
  BY DEF Drafted
<1>2. DOMAIN Merged(under, over) \subseteq AllDirs
  BY <1>1, MergedMeans
<1>3. ASSUME NEW d \in DOMAIN Merged(under, over) PROVE Merged(under, over)[d] \in Candidate
  <2>1. d \in DOMAIN under \cup DOMAIN over
    BY DEF Merged
  <2>2. Merged(under, over)[d] = IF d \in DOMAIN over THEN over[d] ELSE under[d]
    BY <2>1 DEF Merged
  <2> QED BY <2>1, <2>2 DEF Drafted
<1> QED BY <1>2, <1>3 DEF Drafted

\* Every step keeps the review well typed.
LEMMA ReviewTypeStep == ReviewTypeOK /\ [ReviewNext]_reviewVars => ReviewTypeOK'
<1> SUFFICES ASSUME ReviewTypeOK, [ReviewNext]_reviewVars PROVE ReviewTypeOK'
  OBVIOUS
<1>0. /\ request.csv \subseteq AllDirs /\ tree.worked \subseteq AllDirs /\ tree.dirs \subseteq AllDirs
      /\ tree.repos \subseteq AllDirs /\ Blank \in Candidate /\ MaxRefreshes \in Nat
  BY TreeFacts, ReviewAssumption DEF ReviewAssumption, ReviewTypeOK, Blank, Candidate
<1>t. Drafted(candidates) /\ Drafted(draft) /\ roots \subseteq AllDirs
  BY DEF ReviewTypeOK, Drafted
<1>1. CASE ReadCatalog
  <2>. DEFINE added == [d \in request.csv |-> Blank]
  <2>1. Drafted(added)
    BY <1>0 DEF Drafted
  <2>2. draft' = Merged(added, candidates)
    BY <1>1 DEF ReadCatalog
  <2>. HIDE DEF added
  <2>3. Drafted(draft')
    BY <1>t, <2>1, <2>2, MergedIsDrafted
  <2>4. refreshes' \in 0..MaxRefreshes
    BY <1>0, <1>1 DEF ReadCatalog, ReviewTypeOK
  <2> QED BY <1>1, <2>3, <2>4 DEF ReadCatalog, ReviewTypeOK, Drafted
<1>2. CASE ObserveSessions
  <2>. DEFINE added == [d \in tree.worked |->
         [(IF d \in DOMAIN draft THEN draft[d] ELSE Blank) EXCEPT !.sessions = 1]]
  <2>1. \A d \in tree.worked : added[d] \in Candidate
    BY <1>0 DEF ReviewTypeOK, Candidate
  <2>2. Drafted(added)
    BY <1>0, <2>1 DEF Drafted
  <2>3. draft' = Merged(draft, added)
    BY <1>2 DEF ObserveSessions
  <2>. HIDE DEF added
  <2>4. Drafted(draft')
    BY <1>t, <2>2, <2>3, MergedIsDrafted
  <2> QED BY <1>2, <2>4 DEF ObserveSessions, ReviewTypeOK, traversal, Drafted
<1>3. CASE EnterRoot
  BY <1>0, <1>3 DEF EnterRoot, ReviewTypeOK
<1>4. CASE EndTraversal
  <2>. DEFINE added == [d \in roots |-> Blank]
              all == Merged(added, draft)
  <2>1. Drafted(added)
    BY <1>0, <1>t DEF Drafted
  <2>2. draft' = [d \in DOMAIN all |-> [all[d] EXCEPT !.outcome = Recommend(d, all[d])]]
    BY <1>4 DEF EndTraversal
  <2>. HIDE DEF added
  <2>3. Drafted(all)
    BY <1>t, <2>1, MergedIsDrafted
  <2>. HIDE DEF all
  <2>4. \A d \in DOMAIN all : Recommend(d, all[d]) \in {"exclude", "consider", "defer"}
    BY DEF Recommend
  <2>5. Drafted(draft')
    BY <2>2, <2>3, <2>4 DEF Candidate, Drafted
  <2> QED BY <1>4, <2>5 DEF EndTraversal, ReviewTypeOK, traversal, Drafted
<1>5. CASE WriteCatalog
  BY <1>5 DEF WriteCatalog, ReviewTypeOK, traversal
<1>6. CASE ChangeTree
  BY <1>6 DEF ChangeTree, ReviewTypeOK, traversal
<1>7. ASSUME NEW d \in AllDirs, VisitDirectory(d) PROVE ReviewTypeOK'
  <2>1. Children(d) \subseteq AllDirs
    BY <1>0 DEF Children
  <2>2. waiting \subseteq AllDirs /\ roots \subseteq AllDirs /\ spent \in Nat
    BY DEF ReviewTypeOK
  <2>3. waiting' \subseteq waiting \cup Children(d) /\ roots' \subseteq roots \cup {d}
        /\ partial' \in {TRUE, partial} /\ spent' = spent + 1
    BY <1>7 DEF VisitDirectory
  <2>4. waiting' \subseteq AllDirs /\ roots' \subseteq AllDirs /\ spent' \in Nat /\ partial' \in BOOLEAN
    <3>1. partial \in BOOLEAN
      BY DEF ReviewTypeOK
    <3>2. waiting' \subseteq AllDirs /\ roots' \subseteq AllDirs
      BY <2>1, <2>2, <2>3
    <3>3. spent' \in Nat
      BY <2>2, <2>3
    <3>4. partial' \in BOOLEAN
      BY <2>3, <3>1
    <3> QED BY <3>2, <3>3, <3>4
  <2> QED BY <1>7, <2>4 DEF VisitDirectory, ReviewTypeOK
<1>8. ASSUME NEW d \in AllDirs, NEW x \in Decisions, Decide(d, x) PROVE ReviewTypeOK'
  <2>1. candidates' = [candidates EXCEPT ![d].decision = x] /\ d \in DOMAIN candidates
    BY <1>8 DEF Decide
  <2>2. /\ DOMAIN candidates' \subseteq AllDirs
        /\ \A e \in DOMAIN candidates' : candidates'[e] \in Candidate
    BY <2>1 DEF ReviewTypeOK, Candidate
  <2>. DEFINE row == [e \in {d} |-> x]
  <2>3. decided' = Merged(decided, row) /\ DOMAIN row = {d}
    BY <1>8 DEF Decide
  <2>. HIDE DEF row
  <2>4. DOMAIN decided' = DOMAIN decided \cup {d}
    BY <2>3, MergedMeans
  <2>5. raced' \subseteq AllDirs
    BY <1>8 DEF Decide, ReviewTypeOK
  <2>6. DOMAIN decided' \subseteq AllDirs
    BY <2>4 DEF ReviewTypeOK
  <2> QED BY <1>8, <2>2, <2>6, <2>5 DEF Decide, ReviewTypeOK, traversal
<1>9. CASE UNCHANGED reviewVars
  BY <1>9 DEF reviewVars, traversal, ReviewTypeOK
<1> QED BY <1>1, <1>2, <1>3, <1>4, <1>5, <1>6, <1>7, <1>8, <1>9 DEF ReviewNext

\* Entering a root keeps what the traversal keeps.
LEMMA WalkEnter ==
  ASSUME ReviewTypeOK, WalkInv, EnterRoot
  PROVE  WalkInv'
<1>. DEFINE k == walking + 1
            r == request.roots[walking + 1]
<1>1. /\ tree' = tree /\ request' = request /\ pass = "walk" /\ pass' = "walk" /\ ~partial
      /\ partial' = partial /\ spent' = spent /\ roots' = roots
      /\ walking' = k /\ waiting' = {r} \cap tree.dirs /\ waiting = {}
      /\ walking \in Nat /\ k \in Nat /\ k <= Len(request.roots) /\ k >= 1 /\ Len(request.roots) \in Nat
      /\ request.roots[k] = r /\ r \in Seq(Names)
  <2>1. walking \in Nat /\ Len(request.roots) \in Nat /\ walking < Len(request.roots)
    BY RootFacts DEF EnterRoot, ReviewTypeOK
  <2>2. k \in 1..Len(request.roots)
    BY <2>1
  <2>3. r \in Seq(Names)
    BY <2>2, RootFacts DEF ReviewTypeOK
  <2> QED BY <2>1, <2>2, <2>3 DEF EnterRoot
<1>. HIDE DEF k, r
<1>2. Queue(request, tree, k, waiting')
  <2> SUFFICES ASSUME NEW d \in waiting' PROVE Entered(request, tree, r, d)
    BY <1>1 DEF Queue
  <2>1. d = r /\ r \in tree.dirs
    BY <1>1
  <2>2. \A a \in tree.dirs : IsPrefix(r, a) /\ IsPrefix(a, r) => a = r
    BY <1>1, TreeFacts, PrefixOrder DEF ReviewTypeOK
  <2>3. IsPrefix(r, r)
    BY <1>1, PrefixOrder
  <2> QED BY <2>1, <2>2, <2>3 DEF Entered
<1>3. \A j \in 1..walking : j \in 1..k /\ j # k
  BY <1>1 DEF k
<1>4. \A j \in 1..k : j \in 1..walking \/ j = k
  BY <1>1 DEF k
<1>5. Soundly(request, tree, k, roots)
  BY <1>1, <1>3 DEF WalkInv, Soundly
<1>6. Wholly(request, tree, k, waiting', roots)
  <2> SUFFICES ASSUME NEW j \in 1..k, request.roots[j] \in tree.dirs,
                      NEW g \in FoundIn(request, tree, request.roots[j])
               PROVE  g \in roots \/ (j = k /\ \E d \in waiting' : IsPrefix(d, g))
    BY DEF Wholly
  <2>1. CASE j \in 1..walking
    BY <1>1, <2>1 DEF WalkInv, Wholly
  <2>2. CASE j = k
    <3>1. r \in waiting'
      BY <1>1, <2>2
    <3>2. IsPrefix(r, g)
      BY <1>1, <2>2 DEF FoundIn
    <3> QED BY <2>2, <3>1, <3>2
  <2> QED BY <1>4, <2>1, <2>2
<1>7. request.budget > 0 => spent <= request.budget + (IF partial THEN 1 ELSE 0)
  BY <1>1 DEF WalkInv
<1>8. k \in 0..Len(request.roots)
  BY <1>1
<1> QED BY <1>1, <1>2, <1>5, <1>6, <1>7, <1>8 DEF WalkInv

\* Visiting a directory keeps what the traversal keeps.
LEMMA WalkVisit ==
  ASSUME ReviewTypeOK, WalkInv, NEW d, VisitDirectory(d)
  PROVE  WalkInv'
<1>. DEFINE k == walking
            r == request.roots[walking]
<1>1. /\ tree' = tree /\ request' = request /\ pass = "walk" /\ pass' = "walk" /\ ~partial
      /\ walking' = k /\ walking = k /\ d \in waiting /\ spent' = spent + 1
      /\ k \in 0..Len(request.roots) /\ Len(request.roots) \in Nat
      /\ k \in 1..Len(request.roots) /\ k \in 1..k
      /\ request.roots[k] = r /\ r \in Seq(Names) /\ Entered(request, tree, r, d)
      /\ tree \in Trees /\ request \in Traversals
      /\ request.budget \in Nat /\ request.depth \in Nat /\ spent \in Nat /\ partial \in BOOLEAN
  <2>1. walking \in 0..Len(request.roots) /\ d \in waiting /\ Len(request.roots) \in Nat
        /\ Queue(request, tree, walking, waiting)
    BY RootFacts DEF VisitDirectory, WalkInv, ReviewTypeOK
  <2>2. walking >= 1 /\ Entered(request, tree, r, d)
    BY <2>1 DEF Queue
  <2>3. k \in 1..Len(request.roots) /\ k \in 1..k
    BY <2>1, <2>2
  <2>4. r \in Seq(Names)
    BY <2>3, RootFacts DEF ReviewTypeOK
  <2> QED BY <2>1, <2>2, <2>3, <2>4, RootFacts DEF VisitDirectory, ReviewTypeOK
<1>2. Closed(d) <=> Shut(request, tree, r, d)
  BY DEF Closed, Shut, Depth, Root
<1>3. Children(d) = ChildrenIn(tree, d)
  BY DEF Children, ChildrenIn
<1>. HIDE DEF k, r
<1>4. CASE partial' = TRUE /\ UNCHANGED <<waiting, roots>>
  <2>1. request.budget > 0 => spent <= request.budget
    BY <1>1 DEF WalkInv
  <2>2. request.budget > 0 => spent' <= request.budget + 1
    BY <1>1, <2>1
  <2> QED BY <1>1, <1>4, <2>2 DEF WalkInv
<1>5. CASE /\ ~(request.budget > 0 /\ spent' > request.budget)
           /\ roots' = IF ~Closed(d) /\ d \in tree.repos THEN roots \cup {d} ELSE roots
           /\ waiting' = (waiting \ {d}) \cup
                IF Closed(d) \/ d \in tree.repos THEN {} ELSE Children(d) \ tree.noise
           /\ UNCHANGED partial
  <2>1. Queue(request, tree, k, waiting')
    <3> SUFFICES ASSUME NEW e \in waiting' PROVE k >= 1 /\ Entered(request, tree, request.roots[k], e)
      BY DEF Queue
    <3>1. CASE e \in waiting
      BY <1>1, <3>1 DEF WalkInv, Queue
    <3>2. CASE e \notin waiting
      <4>1. e \in ChildrenIn(tree, d) /\ e \notin tree.noise /\ ~Shut(request, tree, r, d) /\ d \notin tree.repos
        BY <1>2, <1>3, <1>5, <3>2
      <4> QED BY <1>1, <4>1, ChildIsEntered
    <3> QED BY <3>1, <3>2
  <2>2. Soundly(request, tree, k, roots')
    <3>1. Soundly(request, tree, k, roots)
      BY <1>1 DEF WalkInv
    <3>2. ASSUME ~Shut(request, tree, r, d), d \in tree.repos
          PROVE  r \in tree.dirs /\ d \in FoundIn(request, tree, r)
      <4>1. Len(d) \in Nat /\ Len(r) \in Nat
        BY <1>1, TreeFacts, LenProperties DEF Entered
      <4>2. Len(d) - Len(r) \in Int
        BY <4>1
      <4> QED BY <1>1, <3>2, <4>2, EnteredIsFound DEF Entered
    <3> QED BY <1>1, <1>2, <1>5, <3>1, <3>2 DEF Soundly
  <2>3. Wholly(request, tree, k, waiting', roots')
    <3> SUFFICES ASSUME NEW j \in 1..k, request.roots[j] \in tree.dirs,
                        NEW g \in FoundIn(request, tree, request.roots[j])
                 PROVE  g \in roots' \/ (j = k /\ \E e \in waiting' : IsPrefix(e, g))
      BY DEF Wholly
    <3>1. g \in roots \/ (j = k /\ \E e \in waiting : IsPrefix(e, g))
      BY <1>1 DEF WalkInv, Wholly
    <3>2. CASE g \in roots
      BY <1>5, <3>2
    <3>3. ASSUME j = k, NEW e \in waiting, IsPrefix(e, g)
          PROVE  g \in roots' \/ \E f \in waiting' : IsPrefix(f, g)
      <4>1. CASE e # d
        BY <1>5, <3>3, <4>1
      <4>2. CASE e = d
        <5>1. g \in FoundIn(request, tree, r) /\ IsPrefix(d, g)
          BY <1>1, <3>3, <4>2
        <5>2. ~Shut(request, tree, r, d)
          BY <1>1, <5>1, FoundBelow
        <5>3. CASE d = g
          <6>1. d \in tree.repos
            BY <5>1, <5>3 DEF FoundIn
          <6> QED BY <1>2, <1>5, <5>2, <5>3, <6>1
        <5>4. CASE d # g
          <6>1. d \notin tree.repos
            BY <1>1, <5>1, <5>4, FoundBelow
          <6>2. PICK f \in ChildrenIn(tree, d) : f \notin tree.noise /\ IsPrefix(f, g)
            BY <1>1, <5>1, <5>4, FoundBelow
          <6>3. f \in waiting'
            BY <1>2, <1>3, <1>5, <5>2, <6>1, <6>2
          <6> QED BY <6>2, <6>3
        <5> QED BY <5>3, <5>4
      <4> QED BY <4>1, <4>2
    <3> QED BY <3>1, <3>2, <3>3
  <2>4. request.budget > 0 => spent' <= request.budget + (IF partial' THEN 1 ELSE 0)
    <3>1. request.budget > 0 => spent' <= request.budget
      BY <1>1, <1>5
    <3>2. partial' = FALSE
      BY <1>1, <1>5
    <3> QED BY <1>1, <3>1, <3>2
  <2> QED BY <1>1, <1>5, <2>1, <2>2, <2>3, <2>4 DEF WalkInv
<1> QED BY <1>4, <1>5 DEF VisitDirectory

\* Every step keeps what the traversal keeps.
LEMMA WalkStep ==
  ASSUME ReviewTypeOK, WalkInv, [ReviewNext]_reviewVars
  PROVE  WalkInv'
<1>1. CASE ReadCatalog
  <2>1. Len(request.roots) \in Nat /\ request.budget \in Nat
    BY RootFacts DEF ReviewTypeOK
  <2>2. /\ pass' = "sessions" /\ walking' = 0 /\ waiting' = {} /\ spent' = 0 /\ partial' = FALSE
        /\ roots' = {} /\ request' = request /\ tree' = tree
    BY <1>1 DEF ReadCatalog
  <2>3. Queue(request, tree, 0, {}) /\ Soundly(request, tree, 0, {}) /\ Wholly(request, tree, 0, {}, {})
    BY DEF Queue, Soundly, Wholly
  <2>4. 0 \in 0..Len(request.roots) /\ (request.budget > 0 => 0 <= request.budget + 0)
    BY <2>1
  <2> QED BY <2>2, <2>3, <2>4 DEF WalkInv
<1>2. CASE ObserveSessions
  BY <1>2 DEF ObserveSessions, traversal, WalkInv
<1>3. CASE EnterRoot
  BY <1>3, WalkEnter
<1>4. CASE EndTraversal
  BY <1>4 DEF EndTraversal, WalkInv
<1>5. CASE WriteCatalog
  BY <1>5 DEF WriteCatalog, WalkInv
<1>6. CASE ChangeTree
  BY <1>6 DEF ChangeTree, WalkInv
<1>7. ASSUME NEW d \in AllDirs, VisitDirectory(d) PROVE WalkInv'
  BY <1>7, WalkVisit
<1>8. ASSUME NEW d \in AllDirs, NEW x \in Decisions, Decide(d, x) PROVE WalkInv'
  BY <1>8 DEF Decide, traversal, WalkInv
<1>9. CASE UNCHANGED reviewVars
  BY <1>9 DEF reviewVars, traversal, WalkInv
<1> QED BY <1>1, <1>2, <1>3, <1>4, <1>5, <1>6, <1>7, <1>8, <1>9 DEF ReviewNext

\* A traversal that ends is complete, and stays so.
LEMMA CompleteStep ==
  ASSUME ReviewTypeOK, WalkInv, TraversalIsComplete, [ReviewNext]_reviewVars
  PROVE  TraversalIsComplete'
<1>1. CASE EndTraversal
  <2>. DEFINE all == UNION {Discoverable(r) : r \in ToSet(request.roots) \cap tree.dirs}
  <2>1. /\ tree' = tree /\ request' = request /\ roots' = roots /\ partial' = partial /\ spent' = spent
        /\ walking \in 0..Len(request.roots) /\ Len(request.roots) \in Nat /\ partial \in BOOLEAN
        /\ DOMAIN request.roots = 1..Len(request.roots) /\ pass = "walk"
    BY <1>1, RootFacts DEF EndTraversal, traversal, WalkInv, ReviewTypeOK
  <2>2. ToSet(request.roots) = {request.roots[j] : j \in 1..Len(request.roots)}
    BY <2>1 DEF ToSet
  <2>3. \A j \in 1..walking : j \in 1..Len(request.roots)
    BY <2>1
  <2>4. roots \subseteq all
    <3> SUFFICES ASSUME NEW g \in roots PROVE g \in all
      OBVIOUS
    <3>1. PICK j \in 1..walking : request.roots[j] \in tree.dirs /\ g \in FoundIn(request, tree, request.roots[j])
      BY <2>1 DEF WalkInv, Soundly
    <3>2. g \in Discoverable(request.roots[j]) /\ request.roots[j] \in ToSet(request.roots) \cap tree.dirs
      BY <2>2, <2>3, <3>1, DiscoverableIsFoundIn
    <3> QED BY <3>2
  <2>5. partial \/ all \subseteq roots
    <3> SUFFICES ASSUME ~partial, NEW g \in all PROVE g \in roots
      OBVIOUS
    <3>1. PICK r \in ToSet(request.roots) \cap tree.dirs : g \in Discoverable(r)
      OBVIOUS
    <3>2. PICK j \in 1..Len(request.roots) : r = request.roots[j]
      BY <2>2, <3>1
    <3>3. waiting = {} /\ walking = Len(request.roots)
      BY <1>1 DEF EndTraversal
    <3>4. Wholly(request, tree, walking, waiting, roots)
      BY <2>1 DEF WalkInv
    <3> QED BY <3>1, <3>2, <3>3, <3>4, DiscoverableIsFoundIn DEF Wholly
  <2>6. request.budget > 0 => spent <= request.budget + 1
    <3>1. request.budget \in Nat /\ spent \in Nat
      BY RootFacts DEF ReviewTypeOK
    <3> QED BY <2>1, <3>1 DEF WalkInv
  <2>7. roots \subseteq DOMAIN draft'
    <3>. DEFINE added == [d \in roots |-> Blank]
    <3>1. DOMAIN draft' = DOMAIN Merged(added, draft)
      BY <1>1 DEF EndTraversal
    <3>2. DOMAIN added = roots
      OBVIOUS
    <3>. HIDE DEF added
    <3> QED BY <3>1, <3>2, MergedMeans
  <2>8. all' = all
    BY <2>1 DEF Discoverable
  <2> QED BY <2>1, <2>4, <2>5, <2>6, <2>7, <2>8 DEF TraversalIsComplete
<1>2. ASSUME ReadCatalog \/ ObserveSessions \/ EnterRoot \/ WriteCatalog \/ ChangeTree
      PROVE  pass' # "write"
  BY <1>2 DEF ReadCatalog, ObserveSessions, EnterRoot, WriteCatalog, ChangeTree
<1>3. ASSUME NEW d \in AllDirs, VisitDirectory(d) PROVE pass' # "write"
  BY <1>3 DEF VisitDirectory
<1>4. ASSUME NEW d \in AllDirs, NEW x \in Decisions, Decide(d, x) PROVE TraversalIsComplete'
  BY <1>4 DEF Decide, traversal, TraversalIsComplete, Discoverable
<1>5. CASE UNCHANGED reviewVars
  BY <1>5 DEF reviewVars, traversal, TraversalIsComplete, Discoverable
<1>6. pass' # "write" => TraversalIsComplete'
  BY DEF TraversalIsComplete
<1> QED BY <1>1, <1>2, <1>3, <1>4, <1>5, <1>6 DEF ReviewNext

\* The candidates, and what a refresh holds of them, are always well typed.
THEOREM ReviewIsTyped == ReviewSpec => []ReviewTypeOK
<1>1. ReviewInit => ReviewTypeOK
  BY ReviewInvHolds DEF ReviewInv
<1> QED BY <1>1, ReviewTypeStep, PTL DEF ReviewSpec

\* A traversal finds only repositories it may enter, and all of them unless it
\* says that it was cut short; it overruns its budget by one directory at most
\* (discover_git_roots, ScanBudget).
THEOREM TraversalFindsAll == ReviewSpec => []TraversalIsComplete
<1>1. ReviewInit => WalkInv /\ TraversalIsComplete
  BY ReviewInvHolds DEF ReviewInv
<1>2. ReviewTypeOK /\ (WalkInv /\ TraversalIsComplete) /\ [ReviewNext]_reviewVars
        => (WalkInv /\ TraversalIsComplete)'
  BY WalkStep, CompleteStep
<1> QED BY <1>1, <1>2, ReviewIsTyped, PTL DEF ReviewSpec

Decided(f) == \A d \in DOMAIN decided : d \notin raced => f[d].decision = decided[d]

\* What a refresh holds has every entry of the file, and the decisions that were
\* recorded before it began.
DecisionInv ==
  /\ DOMAIN decided \subseteq DOMAIN candidates /\ Decided(candidates)
  /\ pass # "idle" => DOMAIN candidates \subseteq DOMAIN draft /\ Decided(draft)

\* Every step keeps the decisions, in the file and in what a refresh holds.
LEMMA DecisionStep ==
  ASSUME ReviewTypeOK, DecisionInv, [ReviewNext]_reviewVars
  PROVE  DecisionInv'
<1>1. CASE ReadCatalog
  <2>. DEFINE under == [d \in request.csv |-> Blank]
  <2>1. draft' = Merged(under, candidates)
    BY <1>1 DEF ReadCatalog
  <2>. HIDE DEF under
  <2>2. DOMAIN candidates \subseteq DOMAIN draft' /\ \A d \in DOMAIN candidates : draft'[d] = candidates[d]
    BY <2>1 DEF Merged
  <2> QED BY <1>1, <2>2 DEF ReadCatalog, DecisionInv, Decided
<1>2. CASE ObserveSessions
  <2>. DEFINE over == [d \in tree.worked |->
         [(IF d \in DOMAIN draft THEN draft[d] ELSE Blank) EXCEPT !.sessions = 1]]
  <2>1. draft' = Merged(draft, over) /\ DOMAIN over = tree.worked
    BY <1>2 DEF ObserveSessions
  <2>2. \A d \in DOMAIN draft : d \in DOMAIN over => over[d].decision = draft[d].decision
    BY DEF ReviewTypeOK, Candidate
  <2>. HIDE DEF over
  <2>3. DOMAIN draft \subseteq DOMAIN draft'
        /\ \A d \in DOMAIN draft : draft'[d] = IF d \in DOMAIN over THEN over[d] ELSE draft[d]
    BY <2>1 DEF Merged
  <2>4. \A d \in DOMAIN draft : draft'[d].decision = draft[d].decision
    BY <2>2, <2>3
  <2> QED BY <1>2, <2>3, <2>4 DEF ObserveSessions, DecisionInv, Decided
<1>3. CASE EnterRoot
  BY <1>3 DEF EnterRoot, DecisionInv, Decided
<1>4. CASE EndTraversal
  <2>. DEFINE added == [d \in roots |-> Blank]
              all == Merged(added, draft)
  <2>1. draft' = [d \in DOMAIN all |-> [all[d] EXCEPT !.outcome = Recommend(d, all[d])]]
    BY <1>4 DEF EndTraversal
  <2>. HIDE DEF added
  <2>2. DOMAIN draft \subseteq DOMAIN all /\ \A d \in DOMAIN draft : all[d] = draft[d]
    BY DEF Merged
  <2>. HIDE DEF all
  <2>3. \A d \in DOMAIN draft : draft'[d] = [draft[d] EXCEPT !.outcome = Recommend(d, draft[d])]
    BY <2>1, <2>2
  <2>4. \A d \in DOMAIN draft : draft'[d].decision = draft[d].decision
    BY <2>3 DEF ReviewTypeOK, Candidate
  <2>5. DOMAIN draft \subseteq DOMAIN draft'
    BY <2>1, <2>2
  <2> QED BY <1>4, <2>4, <2>5 DEF EndTraversal, DecisionInv, Decided
<1>5. CASE WriteCatalog
  BY <1>5 DEF WriteCatalog, DecisionInv, Decided
<1>6. CASE ChangeTree
  BY <1>6 DEF ChangeTree, DecisionInv, Decided
<1>7. ASSUME NEW d \in AllDirs, VisitDirectory(d) PROVE DecisionInv'
  BY <1>7 DEF VisitDirectory, DecisionInv, Decided
<1>8. ASSUME NEW d \in AllDirs, NEW x \in Decisions, Decide(d, x) PROVE DecisionInv'
  <2>. DEFINE over == [e \in {d} |-> x]
  <2>1. /\ candidates' = [candidates EXCEPT ![d].decision = x] /\ d \in DOMAIN candidates
        /\ decided' = Merged(decided, over) /\ DOMAIN over = {d} /\ over[d] = x
        /\ pass' = pass /\ draft' = draft
        /\ raced' = IF pass = "idle" THEN raced \ {d} ELSE raced \cup {d}
    BY <1>8 DEF Decide
  <2>. HIDE DEF over
  <2>2. /\ DOMAIN decided' = DOMAIN decided \cup {d}
        /\ decided'[d] = x
        /\ \A e \in DOMAIN decided : e # d => decided'[e] = decided[e]
    BY <2>1 DEF Merged
  <2>3. /\ DOMAIN candidates' = DOMAIN candidates
        /\ candidates'[d].decision = x
        /\ \A e \in DOMAIN candidates : e # d => candidates'[e] = candidates[e]
    BY <2>1 DEF ReviewTypeOK, Candidate
  <2>4. DOMAIN decided' \subseteq DOMAIN candidates'
    BY <2>1, <2>2, <2>3 DEF DecisionInv
  <2>5. Decided(candidates)'
    BY <2>1, <2>2, <2>3 DEF DecisionInv, Decided
  <2>6. pass' # "idle" => DOMAIN candidates' \subseteq DOMAIN draft' /\ Decided(draft)'
    BY <2>1, <2>2, <2>3 DEF DecisionInv, Decided
  <2> QED BY <2>4, <2>5, <2>6 DEF DecisionInv
<1>9. CASE UNCHANGED reviewVars
  BY <1>9 DEF reviewVars, DecisionInv, Decided
<1> QED BY <1>1, <1>2, <1>3, <1>4, <1>5, <1>6, <1>7, <1>8, <1>9 DEF ReviewNext

\* No refresh drops an entry, and a decision stays through every refresh that
\* began after it (refresh_candidates, record_decision).
THEOREM DecisionsAreKept == ReviewSpec => []DecisionsOutlast
<1>1. ReviewInit => DecisionInv
  BY DEF ReviewInit, DecisionInv, Decided
<1>2. ReviewTypeOK /\ DecisionInv /\ [ReviewNext]_reviewVars => DecisionInv'
  BY DecisionStep
<1>3. DecisionInv => DecisionsOutlast
  BY DEF DecisionInv, Decided, DecisionsOutlast
<1> QED BY <1>1, <1>2, <1>3, ReviewIsTyped, PTL DEF ReviewSpec

-----------------------------------------------------------------------------
(* What is noted of paths. *)

Noteds == Path \cup {Pseudo}
Kinds  == Fact \cup {"prune", "legacy", "none"}
Commands == [kind : Kinds, path : Noteds, seen : Entries, gone : SUBSET Noteds]

\* One command at a time: it holds what the file says.
Sole ==
  /\ torn = FALSE
  /\ \A v, w \in Writer : command[v].kind # "none" /\ command[w].kind # "none" => v = w
  /\ \A w \in Writer : command[w].kind # "none" => command[w].seen = registry

\* The file says what was noted, but for the pseudo-path of former scans.
Says(known) ==
  \A p \in Noteds, f \in Fact : (p # Pseudo \/ f # "scan") =>
    (<<p, f>> \in noted <=> p \in DOMAIN known /\ f \in known[p])

RegistryInv ==
  /\ RegistryTypeOK
  /\ command \in [Writer -> Commands]
  /\ alone => Sole /\ Says(registry)

\* Entries are functions from paths to facts.
LEMMA EntriesMean ==
  ASSUME NEW f
  PROVE  /\ f \in Entries => /\ DOMAIN f \subseteq Noteds /\ f = [p \in DOMAIN f |-> f[p]]
                             /\ \A p \in DOMAIN f : f[p] \subseteq Fact
         /\ DOMAIN f \subseteq Noteds /\ f = [p \in DOMAIN f |-> f[p]]
              /\ (\A p \in DOMAIN f : f[p] \subseteq Fact) => f \in Entries
<1>1. ASSUME f \in Entries
      PROVE  /\ DOMAIN f \subseteq Noteds /\ f = [p \in DOMAIN f |-> f[p]]
             /\ \A p \in DOMAIN f : f[p] \subseteq Fact
  <2>1. PICK D \in SUBSET Noteds : f \in [D -> SUBSET Fact]
    BY <1>1 DEF Entries, Noteds
  <2> QED BY <2>1
<1>2. ASSUME DOMAIN f \subseteq Noteds, f = [p \in DOMAIN f |-> f[p]], \A p \in DOMAIN f : f[p] \subseteq Fact
      PROVE  f \in Entries
  <2>1. f \in [DOMAIN f -> SUBSET Fact]
    BY <1>2
  <2> QED BY <1>2, <2>1 DEF Entries, Noteds
<1> QED BY <1>1, <1>2

\* The empty registry is one.
LEMMA NoneIsAnEntry == <<>> \in Entries
<1>1. <<>> \in Seq(SUBSET Fact) /\ Len(<<>>) = 0
  BY EmptySeq
<1>2. <<>> \in [1..Len(<<>>) -> SUBSET Fact]
  BY <1>1, LenProperties
<1>3. 1..Len(<<>>) = {}
  BY <1>1
<1>4. <<>> \in [{} -> SUBSET Fact]
  BY <1>2, <1>3
<1>5. {} \in SUBSET (Path \cup {Pseudo})
  OBVIOUS
<1> QED BY <1>4, <1>5 DEF Entries

\* What a load reads is entries, an unreadable file none.
LEMMA LoadedIsAnEntry == RegistryTypeOK => Loaded \in Entries
BY NoneIsAnEntry DEF RegistryTypeOK, Loaded

\* What a command writes is entries.
LEMMA OutcomeIsAnEntry ==
  ASSUME NEW c \in Commands PROVE Outcome(c) \in Entries
<1>1. /\ DOMAIN c.seen \subseteq Noteds /\ \A p \in DOMAIN c.seen : c.seen[p] \subseteq Fact
      /\ c.path \in Noteds
  BY EntriesMean DEF Commands
<1>2. CASE c.kind \in Fact
  <2>. DEFINE f == Noting(c.seen, c.path, c.kind)
  <2>1. DOMAIN f = DOMAIN c.seen \cup {c.path} /\ f = [p \in DOMAIN f |-> f[p]]
    BY DEF Noting
  <2>2. \A p \in DOMAIN f : f[p] \subseteq Fact
    BY <1>1, <1>2, <2>1 DEF Noting
  <2>. HIDE DEF f
  <2>3. f \in Entries
    BY <1>1, <2>1, <2>2, EntriesMean
  <2> QED BY <1>2, <2>3 DEF Outcome, f
<1>3. CASE c.kind \notin Fact
  <2>. DEFINE f == Dropping(c.seen, c.gone)
  <2>1. DOMAIN f = DOMAIN c.seen \ c.gone /\ f = [p \in DOMAIN f |-> f[p]]
    BY DEF Dropping
  <2>2. \A p \in DOMAIN f : f[p] \subseteq Fact
    BY <1>1, <2>1 DEF Dropping
  <2>. HIDE DEF f
  <2>3. f \in Entries
    BY <1>1, <2>1, <2>2, EntriesMean
  <2> QED BY <1>3, <2>3 DEF Outcome, f
<1> QED BY <1>2, <1>3

\* The invariant of the registry holds at first.
LEMMA RegistryStarts == RegistryInit => RegistryInv
<1> SUFFICES ASSUME RegistryInit PROVE RegistryInv
  OBVIOUS
<1>1. 0 \in 0..MaxUpdates /\ 0 \in 0..MaxMoves
  BY RegistryAssumption DEF RegistryAssumption
<1>2. registry \in Entries
  <2>1. registry = [p \in {Pseudo} |-> {"scan"}]
    BY DEF RegistryInit
  <2> QED BY <2>1, EntriesMean DEF Noteds, Fact
<1>3. NoCommand \in Commands
  BY NoneIsAnEntry DEF NoCommand, Commands, Kinds, Noteds
<1>4. Sole
  BY DEF RegistryInit, Sole, NoCommand
<1>5. Says(registry)
  BY DEF RegistryInit, Says
<1> QED BY <1>1, <1>2, <1>3, <1>4, <1>5 DEF RegistryInit, RegistryInv, RegistryTypeOK

\* Saving what a command makes of the file keeps the invariant.
LEMMA SaveKeeps == ASSUME RegistryInv, NEW w \in Writer, SaveRegistry(w) PROVE RegistryInv'
<1>. DEFINE c == command[w]
<1>1. /\ c.kind # "none" /\ registry' = Outcome(c) /\ torn' = FALSE
      /\ noted' = IF c.kind \in Fact THEN noted \cup {<<c.path, c.kind>>}
                  ELSE {n \in noted : n[1] \notin c.gone}
      /\ command' = [command EXCEPT ![w] = NoCommand] /\ alone' = alone
  BY DEF SaveRegistry
<1>2. c \in Commands /\ NoCommand \in Commands
  BY NoneIsAnEntry DEF RegistryInv, NoCommand, Commands, Kinds, Noteds
<1>3. registry' \in Entries
  BY <1>1, <1>2, OutcomeIsAnEntry
<1>4. command' \in [Writer -> Commands]
  BY <1>1, <1>2 DEF RegistryInv
<1>5. noted' \subseteq Noteds \X Fact
  <2>1. noted \subseteq Noteds \X Fact
    BY DEF RegistryInv, RegistryTypeOK, Noteds
  <2> QED BY <1>1, <1>2, <2>1 DEF Commands
<1>6. RegistryTypeOK'
  BY <1>1, <1>3, <1>4, <1>5 DEF SaveRegistry, RegistryInv, RegistryTypeOK, Noteds
<1>7. ASSUME alone PROVE Sole'
  <2>1. Sole
    BY <1>7 DEF RegistryInv
  <2>2. \A v \in Writer : v # w => command[v].kind = "none"
    BY <1>1, <2>1 DEF Sole
  <2>3. \A v \in Writer : command'[v].kind = "none"
    BY <1>1, <2>2 DEF RegistryInv, NoCommand
  <2> QED BY <1>1, <2>3 DEF Sole
<1>8. ASSUME alone PROVE Says(registry)'
  <2>1. c.seen = registry /\ Says(registry)
    BY <1>1, <1>8 DEF RegistryInv, Sole
  <2>. HIDE DEF c
  <2>2. CASE c.kind \in Fact
    <3>1. registry' = Noting(registry, c.path, c.kind)
      BY <1>1, <2>1, <2>2 DEF Outcome
    <3>2. /\ DOMAIN registry' = DOMAIN registry \cup {c.path}
          /\ \A q \in DOMAIN registry' : registry'[q] =
               (IF q \in DOMAIN registry THEN registry[q] ELSE {}) \cup (IF q = c.path THEN {c.kind} ELSE {})
      BY <3>1 DEF Noting
    <3> SUFFICES ASSUME NEW p \in Noteds, NEW f \in Fact, p # Pseudo \/ f # "scan"
                 PROVE  <<p, f>> \in noted' <=> p \in DOMAIN registry' /\ f \in registry'[p]
      BY DEF Says
    <3>3. <<p, f>> \in noted' <=> <<p, f>> \in noted \/ (p = c.path /\ f = c.kind)
      BY <1>1, <2>2
    <3>4. <<p, f>> \in noted <=> p \in DOMAIN registry /\ f \in registry[p]
      BY <2>1 DEF Says
    <3> QED BY <3>2, <3>3, <3>4
  <2>3. CASE c.kind \notin Fact
    <3>1. registry' = Dropping(registry, c.gone)
      BY <1>1, <2>1, <2>3 DEF Outcome
    <3>2. /\ DOMAIN registry' = DOMAIN registry \ c.gone
          /\ \A q \in DOMAIN registry' : registry'[q] = registry[q]
      BY <3>1 DEF Dropping
    <3> SUFFICES ASSUME NEW p \in Noteds, NEW f \in Fact, p # Pseudo \/ f # "scan"
                 PROVE  <<p, f>> \in noted' <=> p \in DOMAIN registry' /\ f \in registry'[p]
      BY DEF Says
    <3>3. <<p, f>> \in noted' <=> <<p, f>> \in noted /\ p \notin c.gone
      BY <1>1, <2>3
    <3>4. <<p, f>> \in noted <=> p \in DOMAIN registry /\ f \in registry[p]
      BY <2>1 DEF Says
    <3> QED BY <3>2, <3>3, <3>4
  <2> QED BY <2>2, <2>3
<1> QED BY <1>1, <1>4, <1>6, <1>7, <1>8 DEF RegistryInv

\* Loading the registry keeps the invariant.
LEMMA LoadKeeps ==
  ASSUME RegistryInv, NEW w \in Writer, NEW kind \in Fact \cup {"prune", "legacy"},
         NEW p \in Path \cup {Pseudo}, LoadRegistry(w, kind, p)
  PROVE  RegistryInv'
<1>1. PICK g \in SUBSET Noteds :
        command' = [command EXCEPT ![w] = [kind |-> kind, path |-> p, seen |-> Loaded, gone |-> g]]
  <2>1. DOMAIN Loaded \subseteq Noteds
    BY LoadedIsAnEntry, EntriesMean DEF RegistryInv
  <2>2. Gone \subseteq Noteds
    BY <2>1 DEF Gone
  <2>3. PICK g : /\ g = CASE kind = "prune" -> Gone
                          [] kind = "legacy" -> {q \in DOMAIN Loaded : q = Pseudo /\ Loaded[q] \subseteq {"scan"}}
                          [] OTHER -> {}
                 /\ command' = [command EXCEPT ![w] = [kind |-> kind, path |-> p, seen |-> Loaded, gone |-> g]]
    BY DEF LoadRegistry
  <2>4. g \subseteq Noteds
    BY <2>1, <2>2, <2>3
  <2> QED BY <2>3, <2>4
<1>. DEFINE c == [kind |-> kind, path |-> p, seen |-> Loaded, gone |-> g]
<1>2. c \in Commands /\ c.kind = kind /\ c.seen = Loaded /\ kind # "none"
  BY LoadedIsAnEntry DEF RegistryInv, Commands, Kinds, Noteds, Fact
<1>. HIDE DEF c
<1>3. command' = [command EXCEPT ![w] = c] /\ command \in [Writer -> Commands]
  BY <1>1 DEF c, RegistryInv
<1>4. command' \in [Writer -> Commands]
  BY <1>2, <1>3
<1>5. updates' \in 0..MaxUpdates
  BY RegistryAssumption DEF RegistryAssumption, LoadRegistry, RegistryInv, RegistryTypeOK
<1>6. alone' \in BOOLEAN
  BY DEF LoadRegistry, RegistryInv, RegistryTypeOK
<1>7. RegistryTypeOK'
  BY <1>4, <1>5, <1>6 DEF LoadRegistry, RegistryInv, RegistryTypeOK
<1>8. ASSUME alone' PROVE Sole' /\ Says(registry)'
  <2>1. alone /\ (\A v \in Writer : command[v].kind = "none")
    BY <1>8 DEF LoadRegistry
  <2>2. torn' = FALSE /\ registry' = registry /\ noted' = noted /\ Loaded = registry
    BY <2>1 DEF LoadRegistry, RegistryInv, Sole, Loaded
  <2>3. \A v \in Writer : command'[v] = IF v = w THEN c ELSE command[v]
    BY <1>3
  <2>4. \A v \in Writer : command'[v].kind # "none" => v = w
    BY <2>1, <2>3
  <2>5. command'[w].seen = registry'
    BY <1>2, <2>2, <2>3
  <2>6. Sole'
    BY <2>2, <2>4, <2>5 DEF Sole
  <2>7. Says(registry)'
    BY <2>1, <2>2 DEF RegistryInv, Says
  <2> QED BY <2>6, <2>7
<1> QED BY <1>4, <1>7, <1>8 DEF RegistryInv

\* Leaving is LeaveRegistry or TearRegistry: the command is over.
LEMMA EndKeeps ==
  ASSUME RegistryInv, NEW w \in Writer, LeaveRegistry(w) \/ TearRegistry(w)
  PROVE  RegistryInv'
<1>1. /\ command' = [command EXCEPT ![w] = NoCommand] /\ registry' = registry /\ noted' = noted
      /\ alone' \in {alone, FALSE} /\ (alone' => torn' = torn) /\ torn' \in {TRUE, torn}
      /\ UNCHANGED <<present, catalog, updates, moves>>
  BY DEF LeaveRegistry, TearRegistry
<1>2. NoCommand \in Commands /\ command \in [Writer -> Commands]
  BY NoneIsAnEntry DEF RegistryInv, NoCommand, Commands, Kinds, Noteds
<1>3. command' \in [Writer -> Commands]
  BY <1>1, <1>2
<1>4. RegistryTypeOK'
  BY <1>1, <1>3 DEF RegistryInv, RegistryTypeOK
<1>5. ASSUME alone' PROVE Sole' /\ Says(registry)'
  <2>1. alone /\ torn' = torn
    BY <1>1, <1>5
  <2>2. \A v \in Writer : command'[v] = IF v = w THEN NoCommand ELSE command[v]
    BY <1>1, <1>2
  <2>3. \A v \in Writer : command'[v].kind # "none" => command'[v] = command[v]
    BY <2>2 DEF NoCommand
  <2>4. Sole'
    BY <1>1, <2>1, <2>3 DEF RegistryInv, Sole
  <2> QED BY <1>1, <2>1, <2>4 DEF RegistryInv, Says
<1> QED BY <1>3, <1>4, <1>5 DEF RegistryInv

\* Every step keeps the invariant of the registry.
LEMMA RegistryStep == RegistryInv /\ [RegistryNext]_registryVars => RegistryInv'
<1> SUFFICES ASSUME RegistryInv, [RegistryNext]_registryVars PROVE RegistryInv'
  OBVIOUS
<1>1. ASSUME NEW p \in Path, MovePath(p) PROVE RegistryInv'
  <2>1. moves' \in 0..MaxMoves
    BY <1>1, RegistryAssumption DEF RegistryAssumption, MovePath, RegistryInv, RegistryTypeOK
  <2> QED BY <1>1, <2>1 DEF MovePath, RegistryInv, RegistryTypeOK, Sole, Says
<1>2. CASE UNCHANGED registryVars
  BY <1>2 DEF registryVars, RegistryInv, RegistryTypeOK, Sole, Says
<1> QED BY <1>1, <1>2, SaveKeeps, LoadKeeps, EndKeeps DEF RegistryNext

\* The registry, and what each command holds of it, is always well typed.
THEOREM RegistryIsTyped == RegistrySpec => []RegistryTypeOK
<1>1. RegistryInv => RegistryTypeOK
  BY DEF RegistryInv
<1> QED BY <1>1, RegistryStarts, RegistryStep, PTL DEF RegistrySpec

\* While commands do not overlap, the registry says of a path what was noted of
\* it and nothing else, whichever writers noted it (update_project_entry,
\* prune_stale_entries).
THEOREM FactsAreKept == RegistrySpec => []RegistryRemembers
<1>1. RegistryInv => RegistryRemembers
  <2> SUFFICES ASSUME RegistryInv, alone, NEW n \in (Path \cup {Pseudo}) \X Fact, n # <<Pseudo, "scan">>
               PROVE  n \in noted <=> n[1] \in DOMAIN Loaded /\ n[2] \in Loaded[n[1]]
    BY DEF RegistryRemembers
  <2>1. Loaded = registry /\ Says(registry)
    BY DEF RegistryInv, Sole, Loaded
  <2>2. n = <<n[1], n[2]>> /\ n[1] \in Noteds /\ n[2] \in Fact
    BY DEF Noteds
  <2>3. n[1] # Pseudo \/ n[2] # "scan"
    BY <2>2
  <2> QED BY <2>1, <2>2, <2>3 DEF Says
<1> QED BY <1>1, RegistryStarts, RegistryStep, PTL DEF RegistrySpec

-----------------------------------------------------------------------------
(* The places of a Project. *)

\* One of the places that exist comes first.
LEMMA OriginalIsFirst ==
  ASSUME RegistryTypeOK, NEW i \in DOMAIN catalog, LivePlaces(i) # {}
  PROVE  Original(i) \in LivePlaces(i) /\ \A l \in LivePlaces(i) : Original(i) <= l
<1>1. catalog[i] \in Entry
  BY RegistryAssumption, ElementOfSeq DEF RegistryAssumption, RegistryTypeOK
<1>2. LivePlaces(i) \subseteq Nat
  BY <1>1, LenProperties DEF LivePlaces, Entry
<1>3. PICK k \in LivePlaces(i) : \A l \in LivePlaces(i) : k <= l
  <2>. DEFINE S == LivePlaces(i)
  <2>1. S \subseteq Nat /\ S # {}
    BY <1>2
  <2>. HIDE DEF S
  <2>2. PICK k \in S : \A l \in S : ~(<<l, k>> \in Less)
    <3>1. IsWellFoundedOn(Less, Nat)
      BY LessIsWellFounded
    <3> QED BY <2>1, <3>1, WFMin, Zenon
  <2>3. \A l \in S : k <= l
    <3> SUFFICES ASSUME NEW l \in S PROVE k <= l
      OBVIOUS
    <3>1. ~(<<l, k>> \in Less) /\ k \in Nat /\ l \in Nat
      BY <2>1, <2>2
    <3>2. ~(l < k)
      BY <3>1, LessIsWellFounded
    <3> QED BY <3>1, <3>2
  <2> QED BY <2>3 DEF S
<1> QED BY <1>3 DEF Original

\* Of a Project that has its places to itself, no other entry says anything.
LEMMA PlacesOfOne ==
  ASSUME RegistryTypeOK, NEW i \in DOMAIN catalog, Undisputed(i), NEW k \in LivePlaces(i)
  PROVE  /\ Speaking(At(i, k)) = {i}
         /\ CopyOf(At(i, k)) = IF k = Original(i) THEN {} ELSE {At(i, Original(i))}
<1>. DEFINE p == At(i, k)
<1>1. catalog \in Seq(Entry) /\ \A j \in DOMAIN catalog : catalog[j] \in Entry
  BY RegistryAssumption, ElementOfSeq DEF RegistryAssumption, RegistryTypeOK
<1>2. k \in DOMAIN catalog[i].locations /\ catalog[i].disposition = "active"
  BY DEF LivePlaces, Undisputed
<1>3. i \in Holding(p)
  <2>1. catalog[i].locations[k] \in ToSet(catalog[i].locations) /\ catalog[i].locations[k].path = p
    BY <1>2 DEF ToSet, At
  <2> QED BY <2>1 DEF Holding
<1>4. \A j \in Holding(p) \ {i} : catalog[j].disposition = "excluded" /\ Len(catalog[j].locations) = 1
  BY <1>2 DEF Undisputed, At
<1>5. Speaking(p) = {i}
  <2>1. {j \in Holding(p) : catalog[j].disposition # "excluded"} = {i}
    BY <1>2, <1>3, <1>4
  <2>2. i \in Int
    BY <1>1, LenProperties
  <2>3. (CHOOSE j \in {i} : \A l \in {i} : j <= l) = i
    BY <2>2
  <2> QED BY <2>1, <2>3 DEF Speaking
<1>6. ASSUME NEW j \in DOMAIN catalog, NEW l \in LivePlaces(j), l # Original(j), At(j, l) = p
      PROVE  j = i /\ l = k
  <2>1. l \in DOMAIN catalog[j].locations /\ catalog[j] \in Entry
    BY <1>1 DEF LivePlaces
  <2>2. j \in Holding(p)
    <3>1. catalog[j].locations[l] \in ToSet(catalog[j].locations) /\ catalog[j].locations[l].path = p
      BY <1>6, <2>1 DEF ToSet, At
    <3> QED BY <3>1 DEF Holding
  <2>3. CASE j # i
    <3>1. DOMAIN catalog[j].locations = 1..1
      BY <1>4, <2>1, <2>2, <2>3, LenProperties DEF Entry
    <3>2. Original(j) \in LivePlaces(j) /\ LivePlaces(j) \subseteq 1..1
      BY <1>6, <3>1, OriginalIsFirst DEF LivePlaces
    <3> QED BY <1>6, <3>2
  <2>4. CASE j = i
    BY <1>2, <1>6, <2>1, <2>4 DEF Undisputed, At
  <2> QED BY <2>3, <2>4
<1>7. CASE k = Original(i)
  <2>1. ~ \E j \in DOMAIN catalog : \E l \in LivePlaces(j) : l # Original(j) /\ At(j, l) = p
    BY <1>6, <1>7
  <2> QED BY <1>5, <1>7, <2>1 DEF CopyOf
<1>8. CASE k # Original(i)
  <2>1. {j \in DOMAIN catalog : \E l \in LivePlaces(j) : l # Original(j) /\ At(j, l) = p} = {i}
    BY <1>6, <1>8
  <2> QED BY <1>5, <1>8, <2>1 DEF CopyOf
<1> QED BY <1>7, <1>8

\* The first of the places that exist is the original.
LEMMA OriginalTells == RegistryTypeOK => OnePlaceIsTheOriginal
<1>. SUFFICES ASSUME RegistryTypeOK, NEW i \in DOMAIN catalog, Undisputed(i)
              PROVE  LET live   == {At(i, k) : k \in LivePlaces(i)}
                         places == {p \in live : p \in DOMAIN Loaded /\ ~Retired(p)}
                         first  == At(i, Original(i))
                     IN  /\ \A p \in places : State(p) = "copy" => CopyOf(p) = {first} /\ CopyOf(first) = {}
                         /\ places = live /\ places # {} =>
                              Cardinality({p \in places : State(p) \in {"ingested", "scanned"}}) = 1
  BY DEF OnePlaceIsTheOriginal
<1>. DEFINE live   == {At(i, k) : k \in LivePlaces(i)}
            places == {p \in live : p \in DOMAIN Loaded /\ ~Retired(p)}
            first  == At(i, Original(i))
            kept   == {p \in places : State(p) \in {"ingested", "scanned"}}
<1>1. ASSUME NEW k \in LivePlaces(i)
      PROVE  /\ Original(i) \in LivePlaces(i) /\ CopyOf(first) = {}
             /\ CopyOf(At(i, k)) = IF k = Original(i) THEN {} ELSE {first}
             /\ {catalog[j].disposition : j \in Speaking(At(i, k))} = {"active"}
             /\ At(i, k) \in present
  <2>1. Original(i) \in LivePlaces(i)
    BY <1>1, OriginalIsFirst
  <2>2. Speaking(At(i, k)) = {i} /\ catalog[i].disposition = "active"
    BY <1>1, PlacesOfOne DEF Undisputed
  <2> QED BY <1>1, <2>1, <2>2, PlacesOfOne DEF LivePlaces
<1>2. ASSUME NEW k \in LivePlaces(i), ~Retired(At(i, k))
      PROVE  State(At(i, k)) = IF k # Original(i) THEN "copy"
                               ELSE IF "ingest" \in Loaded[At(i, k)] THEN "ingested" ELSE "scanned"
  BY <1>1, <1>2 DEF State
<1>3. ASSUME NEW p \in places, State(p) = "copy" PROVE CopyOf(p) = {first} /\ CopyOf(first) = {}
  <2>1. PICK k \in LivePlaces(i) : p = At(i, k) /\ ~Retired(At(i, k))
    BY DEF live
  <2> QED BY <1>1, <1>2, <1>3, <2>1
<1>4. ASSUME places = live, places # {} PROVE Cardinality(kept) = 1
  <2>1. Original(i) \in LivePlaces(i)
    BY <1>1, <1>4
  <2>2. first \in places /\ State(first) \in {"ingested", "scanned"}
    BY <1>2, <1>4, <2>1
  <2>3. ASSUME NEW p \in kept PROVE p = first
    <3>1. PICK k \in LivePlaces(i) : p = At(i, k) /\ ~Retired(At(i, k))
      OBVIOUS
    <3> QED BY <1>2, <2>3, <3>1
  <2>4. kept = {first}
    BY <2>2, <2>3
  <2> QED BY <2>4, FS_Singleton
<1> QED BY <1>3, <1>4

\* One place of a Project is the original, whatever the order in which commands
\* noted it and directories came and went (project_lifecycle).
THEOREM OneOriginal == RegistrySpec => []OnePlaceIsTheOriginal
<1>1. RegistryTypeOK => OnePlaceIsTheOriginal
  BY OriginalTells
<1> QED BY <1>1, RegistryIsTyped, PTL

-----------------------------------------------------------------------------
(* The validation of a snapshot. *)

\* Finitely many numbers have a bound.
LEMMA NumbersAreBounded ==
  ASSUME NEW V \in SUBSET Nat, IsFiniteSet(V)
  PROVE  \E n \in Nat : \A v \in V : v <= n
<1>. DEFINE Unbounded(S) == ~ \E n \in Nat : \A v \in S : v <= n
            Bad == {c \in Nat : \E S \in SUBSET Nat :
                      IsFiniteSet(S) /\ Cardinality(S) = c /\ Unbounded(S)}
<1>0. Bad \subseteq Nat
  OBVIOUS
<1>1. Bad = {}
  <2> SUFFICES ASSUME Bad # {} PROVE FALSE
    OBVIOUS
  <2>1. PICK c \in Bad : \A d \in Bad : ~(<<d, c>> \in Less)
    <3>. HIDE DEF Bad
    <3>1. IsWellFoundedOn(Less, Nat)
      BY NatLessThanWellFounded, Zenon DEF Less
    <3> QED BY <1>0, <3>1, WFMin, Zenon
  <2>2. \A d \in Nat : d < c => d \notin Bad
    <3>1. \A x, y \in Nat : <<x, y>> \in Less <=> x < y
      BY DEF Less, OpToRel
    <3>. HIDE DEF Bad
    <3> QED BY <1>0, <2>1, <3>1
  <2>3. PICK S \in SUBSET Nat : IsFiniteSet(S) /\ Cardinality(S) = c /\ Unbounded(S)
    BY <2>1
  <2>4. PICK v \in S : TRUE
    BY <2>3
  <2>5. IsFiniteSet(S \ {v}) /\ Cardinality(S \ {v}) = c - 1
    <3>1. IsFiniteSet(S)
      BY <2>3
    <3> QED BY <2>3, <3>1, FS_RemoveElement
  <2>6. c - 1 \in Nat
    BY <2>5, FS_CardinalityType
  <2>7. PICK n \in Nat : \A w \in S \ {v} : w <= n
    <3>1. c - 1 \notin Bad
      <4>1. c \in Nat
        BY <1>0, <2>1
      <4>2. c - 1 < c
        BY <4>1
      <4>. HIDE DEF Bad
      <4> QED BY <2>2, <2>6, <4>2
    <3> QED BY <2>3, <2>5, <2>6, <3>1
  <2>8. PICK m \in Nat : m >= n /\ m >= v
    <3>1. v \in Nat
      BY <2>3
    <3> QED BY <3>1
  <2>9. \A w \in S : w <= m
    <3> SUFFICES ASSUME NEW w \in S PROVE w <= m
      OBVIOUS
    <3>1. w \in Nat /\ v \in Nat
      BY <2>3
    <3>2. w = v \/ w <= n
      BY <2>7
    <3> QED BY <2>8, <3>1, <3>2
  <2> QED BY <2>3, <2>9
<1>2. Cardinality(V) \in Nat
  BY FS_CardinalityType
<1> QED BY <1>1, <1>2

\* Finitely many numbers have a least and a greatest one.
LEMMA MinAndMax ==
  ASSUME NEW V \in SUBSET Nat, IsFiniteSet(V), V # {}
  PROVE  /\ Min(V) \in V /\ \A v \in V : Min(V) <= v
         /\ Max(V) \in V /\ \A v \in V : v <= Max(V)
<1>0. IsWellFoundedOn(Less, Nat)
  BY NatLessThanWellFounded, Zenon DEF Less
<1>3. \A x, y \in Nat : <<x, y>> \in Less <=> x < y
  BY DEF Less, OpToRel
<1>1. \E v \in V : \A w \in V : v <= w
  <2>0. V \subseteq Nat /\ V # {}
    OBVIOUS
  <2>1. PICK v \in V : \A w \in V : ~(<<w, v>> \in Less)
    BY <1>0, <2>0, WFMin, Zenon
  <2>2. v \in Nat /\ \A w \in V : w \in Nat
    OBVIOUS
  <2>3. \A w \in V : ~(w < v)
    BY <1>3, <2>1, <2>2
  <2>4. \A w \in V : v <= w
    BY <2>2, <2>3
  <2> QED BY <2>4
<1>2. \E v \in V : \A w \in V : w <= v
  <2>1. PICK n \in Nat : \A v \in V : v <= n
    BY NumbersAreBounded
  <2>. DEFINE T == {k \in Nat : \A w \in V : w <= k}
  <2>2. T \subseteq Nat /\ T # {}
    BY <2>1
  <2>3. PICK m \in T : \A k \in T : ~(<<k, m>> \in Less)
    <3>. HIDE DEF T
    <3> QED BY <1>0, <2>2, WFMin, Zenon
  <2>4. m \in Nat /\ \A w \in V : w <= m
    BY <2>3
  <2>5. m \in V
    <3> SUFFICES ASSUME m \notin V PROVE FALSE
      OBVIOUS
    <3>1. PICK w \in V : TRUE
      OBVIOUS
    <3>2. \A u \in V : u \in Nat /\ u <= m - 1
      <4> SUFFICES ASSUME NEW u \in V PROVE u \in Nat /\ u <= m - 1
        OBVIOUS
      <4>1. u <= m /\ u # m /\ u \in Nat
        BY <2>4
      <4> QED BY <2>4, <4>1
    <3>3. m - 1 \in Nat
      BY <2>4, <3>1, <3>2
    <3>4. m - 1 \in T /\ m - 1 < m
      BY <2>4, <3>2, <3>3
    <3> QED BY <1>3, <2>3, <2>4, <3>3, <3>4
  <2> QED BY <2>4, <2>5
<1> QED BY <1>1, <1>2 DEF Min, Max

\* The numbers of Events, NULL among them.
NumbersOf(E) == {e.seq : e \in E}

\* Events are numbered from one on exactly if the statement finds nothing.
LEMMA NumberingIsChecked ==
  ASSUME NEW E, IsFiniteSet(E), E # {}, \A e \in E : e.seq \in Nat \cup {Unset}
  PROVE  ~Misnumbered(E) <=> NumbersOf(E) = 1..Cardinality(E)
<1>. DEFINE n == Cardinality(E)
            V == Values(E)
<1>0. Unset \notin Nat
  BY ValidationAssumption DEF ValidationAssumption
<1>1. n \in Nat /\ n # 0
  BY FS_CardinalityType, FS_EmptySet
<1>2. V = NumbersOf(E) \ {Unset} /\ V \in SUBSET Nat
  BY DEF Values, NumbersOf
<1>3. IsFiniteSet(V)
  <2>. DEFINE f == [e \in E |-> e.seq]
  <2>1. f \in Surjection(E, NumbersOf(E))
    BY DEF Surjection, NumbersOf
  <2>2. IsFiniteSet(NumbersOf(E))
    BY <2>1, FS_Surjection
  <2> QED BY <1>2, <2>2, FS_Subset
<1>. HIDE DEF n
<1>4. IsFiniteSet(1..n) /\ Cardinality(1..n) = n
  BY <1>1, FS_Interval
<1>5. ASSUME ~Misnumbered(E) PROVE NumbersOf(E) = 1..n
  <2>1. \A e \in E : e.seq # Unset
    BY <1>5 DEF Misnumbered
  <2>2. NumbersOf(E) = V
    BY <1>2, <2>1 DEF NumbersOf
  <2>3. V # {}
    BY <2>2 DEF NumbersOf
  <2>4. Min(V) = 1 /\ Max(V) = n /\ Cardinality(V) = n
    BY <1>5, <2>3 DEF Misnumbered, n
  <2>5. \A v \in V : 1 <= v /\ v <= n
    <3>. HIDE DEF V
    <3> QED BY <1>2, <1>3, <2>3, <2>4, MinAndMax
  <2>6. V \in SUBSET (1..n)
    <3>. HIDE DEF V
    <3> QED BY <1>1, <1>2, <2>5
  <2>7. V = 1..n
    <3>. HIDE DEF V
    <3> QED BY <1>4, <2>4, <2>6, FS_Subset
  <2> QED BY <2>2, <2>7
<1>6. ASSUME NumbersOf(E) = 1..n PROVE ~Misnumbered(E)
  <2>1. V = 1..n
    BY <1>0, <1>2, <1>6
  <2>2. \A e \in E : e.seq # Unset
    <3> SUFFICES ASSUME NEW e \in E PROVE e.seq # Unset
      OBVIOUS
    <3>1. e.seq \in 1..n
      BY <1>6 DEF NumbersOf
    <3> QED BY <1>0, <3>1
  <2>3. 1 \in V /\ n \in V
    BY <1>1, <2>1
  <2>4. /\ Min(V) \in V /\ \A v \in V : Min(V) <= v
        /\ Max(V) \in V /\ \A v \in V : v <= Max(V)
    <3>. HIDE DEF V
    <3> QED BY <1>2, <1>3, <2>3, MinAndMax
  <2>5. Min(V) = 1 /\ Max(V) = n
    <3>. HIDE DEF V
    <3> QED BY <1>1, <2>1, <2>3, <2>4
  <2>6. Cardinality(V) = n
    BY <1>4, <2>1
  <2> QED BY <2>2, <2>5, <2>6 DEF Misnumbered, n
<1> QED BY <1>5, <1>6 DEF n

\* No identity is there twice exactly if there are as many as Events.
LEMMA IdentityIsChecked ==
  ASSUME NEW s, IsFiniteSet(subject.events)
  PROVE  ~Duplicated(s) <=> \A e, f \in EventsIn(s) : e # f => e.entity # f.entity
<1>. DEFINE E == EventsIn(s)
            g == [e \in E |-> e.entity]
            T == {e.entity : e \in E}
<1>1. IsFiniteSet(E)
  BY FS_Subset DEF EventsIn
<1>2. g \in Surjection(E, T)
  BY DEF Surjection
<1>3. Cardinality(T) = Cardinality(E) <=> g \in Injection(E, T)
  BY <1>1, <1>2, FS_Surjection
<1>4. g \in Injection(E, T) <=> \A e, f \in E : e # f => e.entity # f.entity
  BY DEF Injection, IsInjective
<1>5. Duplicated(s) <=> Cardinality(T) # Cardinality(E)
  BY DEF Duplicated, EventsIn
<1> QED BY <1>3, <1>4, <1>5

\* What a store without errors is.
Wholesome(s) ==
  /\ s \in subject.format
  /\ subject.counts[s] = Cardinality(EventsIn(s))
  /\ \A i \in SessionsOf(s) : ~Misnumbered(EventsOf(s, i))
  /\ ~Duplicated(s) /\ ~SharedValue(s)
  /\ \A a \in subject.artifacts : a.store = s => a.row \in subject.links

\* The statements of one store find nothing exactly if it is wholesome.
LEMMA StoreIsChecked ==
  ASSUME NEW s
  PROVE  StoreErrors(s) = {} <=> Wholesome(s)
<1>1. CASE s \notin subject.format
  BY <1>1 DEF StoreErrors, Wholesome
<1>2. CASE s \in subject.format
  <2>. DEFINE Fails(x) ==
                CASE x[2] = "manifest_counts" ->
                       subject.counts[s] # Cardinality({e \in subject.events : e.store = s})
                  [] x[2] = "event_sequence"  -> \E i \in SessionsOf(s) : Misnumbered(EventsOf(s, i))
                  [] x[2] = "entity_identity" -> Duplicated(s)
                  [] OTHER -> SharedValue(s) \/ \E a \in subject.artifacts : a.store = s /\ a.row \notin subject.links
              All == {<<s, "manifest_counts">>, <<s, "event_sequence">>, <<s, "entity_identity">>,
                      <<s, "artifact_identity">>}
  <2>1. StoreErrors(s) = {x \in All : Fails(x)}
    BY <1>2 DEF StoreErrors
  <2>2. Fails(<<s, "manifest_counts">>) <=> subject.counts[s] # Cardinality(EventsIn(s))
    BY DEF EventsIn
  <2>3. Fails(<<s, "event_sequence">>) <=> \E i \in SessionsOf(s) : Misnumbered(EventsOf(s, i))
    OBVIOUS
  <2>4. Fails(<<s, "entity_identity">>) <=> Duplicated(s)
    OBVIOUS
  <2>5. Fails(<<s, "artifact_identity">>) <=>
          (SharedValue(s) \/ \E a \in subject.artifacts : a.store = s /\ a.row \notin subject.links)
    OBVIOUS
  <2>. HIDE DEF Fails
  <2>6. StoreErrors(s) = {} <=>
          /\ ~Fails(<<s, "manifest_counts">>) /\ ~Fails(<<s, "event_sequence">>)
          /\ ~Fails(<<s, "entity_identity">>) /\ ~Fails(<<s, "artifact_identity">>)
    BY <2>1
  <2> QED BY <1>2, <2>2, <2>3, <2>4, <2>5, <2>6 DEF Wholesome
<1> QED BY <1>1, <1>2

\* All that validation looks at, taken together, is whether the snapshot is sound.
LEMMA SoundIsChecked ==
  ASSUME WellFormed(subject)
  PROVE  Sound <=> /\ subject.readable /\ subject.decoder = policy.decoder
                   /\ \A s \in subject.stores : StoreErrors(s) = {}
                   /\ ~ \E r \in subject.raws : RawErrors(r)
                   /\ PolicyErrors = {}
<1>1. /\ subject.format \subseteq subject.stores /\ IsFiniteSet(subject.events)
      /\ \A e \in subject.events : /\ e.store \in subject.stores
                                   /\ <<e.store, e.session>> \in subject.sessions
                                   /\ e.seq \in Nat \cup {Unset}
      /\ \A a \in subject.artifacts : a.store \in subject.stores
  BY DEF WellFormed
<1>2. ASSUME NEW s, NEW i
      PROVE  /\ EventsOf(s, i) = {} => NumbersOf(EventsOf(s, i)) = 1..Cardinality(EventsOf(s, i))
             /\ EventsOf(s, i) # {} => (~Misnumbered(EventsOf(s, i)) <=>
                                         NumbersOf(EventsOf(s, i)) = 1..Cardinality(EventsOf(s, i)))
  <2>1. IsFiniteSet(EventsOf(s, i)) /\ \A e \in EventsOf(s, i) : e.seq \in Nat \cup {Unset}
    BY <1>1, FS_Subset DEF EventsOf
  <2>2. CASE EventsOf(s, i) = {}
    <3>1. Cardinality({}) = 0
      BY FS_EmptySet
    <3> QED BY <2>2, <3>1 DEF NumbersOf
  <2>3. CASE EventsOf(s, i) # {}
    BY <2>1, <2>3, NumberingIsChecked
  <2> QED BY <2>2, <2>3
<1>3. ASSUME NEW s
      PROVE  ~SharedValue(s) <=>
               \A a, b \in subject.artifacts : a.store = s /\ b.store = s /\ b # a =>
                 (a.path = Unset \/ a.path # b.path) /\ (a.uri = Unset \/ a.uri # b.uri)
  BY DEF SharedValue
<1>4. ASSUME NEW s PROVE ~Duplicated(s) <=> \A e, f \in EventsIn(s) : e # f => e.entity # f.entity
  BY <1>1, IdentityIsChecked
<1>5. ASSUME \A s \in subject.stores : Wholesome(s)
      PROVE  /\ subject.format = subject.stores
             /\ \A i \in subject.sessions :
                  LET E == EventsOf(i[1], i[2]) IN {e.seq : e \in E} = 1..Cardinality(E)
             /\ \A e, f \in subject.events : e # f /\ e.store = f.store => e.entity # f.entity
             /\ \A s \in subject.stores : subject.counts[s] = Cardinality(EventsIn(s))
             /\ \A a \in subject.artifacts :
                  /\ a.row \in subject.links
                  /\ \A b \in subject.artifacts : b.store = a.store /\ b # a =>
                       (a.path = Unset \/ a.path # b.path) /\ (a.uri = Unset \/ a.uri # b.uri)
  <2>1. subject.format = subject.stores
    BY <1>1, <1>5 DEF Wholesome
  <2>2. ASSUME NEW i \in subject.sessions
        PROVE  NumbersOf(EventsOf(i[1], i[2])) = 1..Cardinality(EventsOf(i[1], i[2]))
    <3>1. CASE EventsOf(i[1], i[2]) = {}
      BY <1>2, <3>1
    <3>2. CASE EventsOf(i[1], i[2]) # {}
      <4>1. i[1] \in subject.stores /\ i[2] \in SessionsOf(i[1])
        BY <1>1, <3>2 DEF EventsOf, SessionsOf
      <4>2. ~Misnumbered(EventsOf(i[1], i[2]))
        BY <1>5, <4>1 DEF Wholesome
      <4> QED BY <1>2, <3>2, <4>2
    <3> QED BY <3>1, <3>2
  <2>3. \A e, f \in subject.events : e # f /\ e.store = f.store => e.entity # f.entity
    <3> SUFFICES ASSUME NEW e \in subject.events, NEW f \in subject.events, e # f, e.store = f.store
                 PROVE  e.entity # f.entity
      OBVIOUS
    <3>1. e.store \in subject.stores /\ e \in EventsIn(e.store) /\ f \in EventsIn(e.store)
      BY <1>1 DEF EventsIn
    <3>2. ~Duplicated(e.store)
      BY <1>5, <3>1 DEF Wholesome
    <3> QED BY <1>4, <3>1, <3>2
  <2>4. ASSUME NEW a \in subject.artifacts
        PROVE  /\ a.row \in subject.links
               /\ \A b \in subject.artifacts : b.store = a.store /\ b # a =>
                    (a.path = Unset \/ a.path # b.path) /\ (a.uri = Unset \/ a.uri # b.uri)
    <3>1. Wholesome(a.store)
      BY <1>1, <1>5
    <3> QED BY <1>3, <3>1 DEF Wholesome
  <2>5. \A s \in subject.stores : subject.counts[s] = Cardinality(EventsIn(s))
    BY <1>5 DEF Wholesome
  <2> QED BY <2>1, <2>2, <2>3, <2>4, <2>5 DEF NumbersOf
<1>6. ASSUME Sound, NEW s \in subject.stores PROVE Wholesome(s)
  <2>1. \A i \in SessionsOf(s) : ~Misnumbered(EventsOf(s, i))
    <3> SUFFICES ASSUME NEW i \in SessionsOf(s) PROVE ~Misnumbered(EventsOf(s, i))
      OBVIOUS
    <3>1. <<s, i>> \in subject.sessions /\ EventsOf(s, i) # {}
      BY <1>1 DEF SessionsOf, EventsOf
    <3>2. NumbersOf(EventsOf(s, i)) = 1..Cardinality(EventsOf(s, i))
      <4>1. \A j \in subject.sessions :
              NumbersOf(EventsOf(j[1], j[2])) = 1..Cardinality(EventsOf(j[1], j[2]))
        BY <1>6, Zenon DEF Sound, NumbersOf
      <4>2. <<s, i>>[1] = s /\ <<s, i>>[2] = i
        OBVIOUS
      <4> QED BY <3>1, <4>1, <4>2
    <3> QED BY <1>2, <3>1, <3>2
  <2>2. ~Duplicated(s)
    <3>1. \A e, f \in EventsIn(s) : e # f => e.entity # f.entity
      BY <1>6 DEF Sound, EventsIn
    <3> QED BY <1>4, <3>1
  <2>3. ~SharedValue(s)
    BY <1>3, <1>6 DEF Sound
  <2> QED BY <1>6, <2>1, <2>2, <2>3 DEF Sound, Wholesome
<1> QED BY <1>5, <1>6, StoreIsChecked DEF Sound

\* What the manifest, the stores and the raw records are checked for.
DecoderAgrees  == subject.decoder = policy.decoder
StoresAreSound == \A s \in subject.stores : StoreErrors(s) = {}
RawsAreSound   == ~ \E r \in subject.raws : RawErrors(r)

\* What has been looked at so far is without errors exactly if none was found.
VerdictInv ==
  /\ WellFormed(subject)
  /\ check \in {"idle", "header", "stores", "raw", "policy"} => verdict = "none"
  /\ check \in {"header", "stores", "raw", "policy"} => subject.readable
  /\ check = "stores" => (errors = {} <=> DecoderAgrees)
  /\ check = "raw" => (errors = {} <=> DecoderAgrees /\ StoresAreSound)
  /\ check = "policy" => /\ errors = {} <=> DecoderAgrees /\ StoresAreSound /\ RawsAreSound
                         /\ limits = {r \in subject.raws : RawLimited(r)}
  /\ check \in {"idle", "header", "stores", "raw", "policy", "done"}
  /\ check = "done" =>
       /\ verdict \in {"rejected", "accepted_with_limitations", "accepted"}
       /\ verdict = "rejected" <=>
            ~(subject.readable /\ DecoderAgrees /\ StoresAreSound /\ RawsAreSound /\ PolicyErrors = {})
       /\ verdict = "accepted" => \A r \in subject.raws : ~RawLimited(r)

\* The verdict is the one the whole snapshot deserves.
LEMMA VerdictInvTells == VerdictInv => VerdictIsTheSnapshots
<1> SUFFICES ASSUME VerdictInv PROVE VerdictIsTheSnapshots
  OBVIOUS
<1>1. CASE check # "done"
  BY <1>1 DEF VerdictInv, VerdictIsTheSnapshots
<1>2. CASE check = "done"
  <2>1. verdict = "rejected" <=> ~Sound
    BY <1>2, SoundIsChecked DEF VerdictInv, DecoderAgrees, StoresAreSound, RawsAreSound
  <2>2. ASSUME verdict = "accepted", NEW r \in subject.raws
        PROVE  r.availability = "captured" /\ r.object = "intact"
    <3>1. ~RawErrors(r) /\ ~RawLimited(r)
      BY <1>2, <2>1, <2>2 DEF VerdictInv, Sound
    <3>2. r.availability \notin {"reference", "not_retained"}
      BY <3>1 DEF RawLimited
    <3>3. r.availability = "captured"
      BY <3>1, <3>2 DEF RawErrors
    <3> QED BY <3>1, <3>3 DEF RawErrors, RawLimited
  <2> QED BY <1>2, <2>1, <2>2 DEF VerdictInv, VerdictIsTheSnapshots
<1> QED BY <1>1, <1>2

\* Whatever is wrong with a snapshot, its rows are rows of its stores.
LEMMA DefectsAreSnapshots ==
  ASSUME WellFormed(subject), GoWrong, NEW x, x = subject'
  PROVE  WellFormed(x)
<1>. DEFINE Fields == {"stores", "format", "readable", "decoder", "sealed", "events", "sessions",
                       "counts", "artifacts", "links", "diagnostics", "turns", "raws"}
            Fits(e) == /\ DOMAIN e = {"row", "store", "session", "seq", "entity"}
                       /\ e.store \in subject.stores /\ <<e.store, e.session>> \in subject.sessions
                       /\ e.seq \in Nat \cup {Unset}
            Kind(a) == DOMAIN a = {"row", "store", "path", "uri"} /\ a.store \in subject.stores
<1>1. /\ DOMAIN subject = Fields /\ subject.format \subseteq subject.stores
      /\ IsFiniteSet(subject.events) /\ DOMAIN subject.counts = subject.stores
      /\ (\A e \in subject.events : Fits(e)) /\ \A a \in subject.artifacts : Kind(a)
  BY DEF WellFormed
<1>2. ASSUME DOMAIN x = Fields, x.stores = subject.stores, x.sessions = subject.sessions,
             x.format \subseteq subject.format, IsFiniteSet(x.events), x.counts = subject.counts,
             \A e \in x.events : Fits(e), \A a \in x.artifacts : Kind(a)
      PROVE  WellFormed(x)
  BY <1>1, <1>2 DEF WellFormed
<1>3. ASSUME NEW e \in subject.events, NEW d, Fits(d)
      PROVE  IsFiniteSet((subject.events \ {e}) \cup {d}) /\ \A f \in (subject.events \ {e}) \cup {d} : Fits(f)
  <2>1. IsFiniteSet(subject.events \ {e})
    BY <1>1, FS_RemoveElement
  <2>2. IsFiniteSet((subject.events \ {e}) \cup {d})
    BY <2>1, FS_AddElement
  <2> QED BY <1>1, <1>3, <2>2
<1>4. ASSUME NEW X, x = [subject EXCEPT !.events = X], IsFiniteSet(X), \A e \in X : Fits(e)
      PROVE  WellFormed(x)
  <2>1. /\ DOMAIN x = Fields /\ x.stores = subject.stores /\ x.sessions = subject.sessions
        /\ x.format = subject.format /\ x.events = X /\ x.counts = subject.counts
        /\ x.artifacts = subject.artifacts
    BY <1>1, <1>4
  <2> QED BY <1>1, <1>2, <1>4, <2>1
<1>5. CASE \E e \in subject.events : x = [subject EXCEPT !.events = @ \ {e}]
  <2>1. PICK e \in subject.events : x = [subject EXCEPT !.events = subject.events \ {e}]
    BY <1>1, <1>5
  <2>2. IsFiniteSet(subject.events \ {e})
    BY <1>1, FS_RemoveElement
  <2>. HIDE DEF Fits
  <2> QED BY <1>1, <1>4, <2>1, <2>2
<1>6. CASE \E e \in subject.events, n \in Numbers :
             x = [subject EXCEPT !.events = (@ \ {e}) \cup {[e EXCEPT !.seq = n]}]
  <2>1. PICK e \in subject.events, n \in Numbers :
          x = [subject EXCEPT !.events = (subject.events \ {e}) \cup {[e EXCEPT !.seq = n]}]
    BY <1>1, <1>6
  <2>2. n \in Nat \cup {Unset}
    <3>1. CASE n \in {f.seq : f \in subject.events}
      <4>1. PICK f \in subject.events : n = f.seq
        BY <3>1
      <4> QED BY <1>1, <4>1
    <3>2. CASE n \in {Unset, 0}
      BY <3>2
    <3> QED BY <3>1, <3>2 DEF Numbers
  <2>3. PICK d : d = [e EXCEPT !.seq = n]
    OBVIOUS
  <2>4. Fits(d)
    BY <1>1, <2>2, <2>3
  <2>. HIDE DEF Fits
  <2>5. x = [subject EXCEPT !.events = (subject.events \ {e}) \cup {d}]
    BY <2>1, <2>3
  <2> QED BY <1>3, <1>4, <2>4, <2>5
<1>7. CASE \E e, f \in subject.events :
             x = [subject EXCEPT !.events = (@ \ {e}) \cup {[e EXCEPT !.entity = f.entity]}]
  <2>1. PICK e \in subject.events, f \in subject.events :
          x = [subject EXCEPT !.events = (subject.events \ {e}) \cup {[e EXCEPT !.entity = f.entity]}]
    BY <1>1, <1>7
  <2>3. PICK d : d = [e EXCEPT !.entity = f.entity]
    OBVIOUS
  <2>4. Fits(d)
    BY <1>1, <2>3
  <2>. HIDE DEF Fits
  <2>5. x = [subject EXCEPT !.events = (subject.events \ {e}) \cup {d}]
    BY <2>1, <2>3
  <2> QED BY <1>3, <1>4, <2>4, <2>5
<1>8. CASE \E a, b \in subject.artifacts :
             x = [subject EXCEPT !.artifacts = (@ \ {a}) \cup {[a EXCEPT !.uri = b.uri]}]
  <2>1. PICK a \in subject.artifacts, b \in subject.artifacts :
          x = [subject EXCEPT !.artifacts = (subject.artifacts \ {a}) \cup {[a EXCEPT !.uri = b.uri]}]
    BY <1>1, <1>8
  <2>3. PICK d : d = [a EXCEPT !.uri = b.uri]
    OBVIOUS
  <2>4. Kind(d)
    BY <1>1, <2>3
  <2>. HIDE DEF Fits, Kind
  <2>5. /\ DOMAIN x = Fields /\ x.stores = subject.stores /\ x.sessions = subject.sessions
        /\ x.format = subject.format /\ x.events = subject.events /\ x.counts = subject.counts
        /\ x.artifacts = (subject.artifacts \ {a}) \cup {d}
    BY <1>1, <2>1, <2>3
  <2>6. \A c \in x.artifacts : Kind(c)
    BY <1>1, <2>4, <2>5
  <2> QED BY <1>1, <1>2, <2>5, <2>6
<1>9. CASE \/ \E X : x = [subject EXCEPT !.links = X] \/ x = [subject EXCEPT !.turns = X]
                     \/ x = [subject EXCEPT !.raws = X] \/ x = [subject EXCEPT !.readable = X]
                     \/ x = [subject EXCEPT !.decoder = X]
  <2>1. /\ DOMAIN x = Fields /\ x.stores = subject.stores /\ x.sessions = subject.sessions
        /\ x.format = subject.format /\ x.events = subject.events /\ x.counts = subject.counts
        /\ x.artifacts = subject.artifacts
    BY <1>1, <1>9
  <2>. HIDE DEF Fits, Kind
  <2> QED BY <1>1, <1>2, <2>1
<1>10. CASE \E s \in subject.stores : x = [subject EXCEPT !.format = @ \ {s}]
  <2>1. /\ DOMAIN x = Fields /\ x.stores = subject.stores /\ x.sessions = subject.sessions
        /\ x.format \subseteq subject.format /\ x.events = subject.events /\ x.counts = subject.counts
        /\ x.artifacts = subject.artifacts
    BY <1>1, <1>10
  <2>. HIDE DEF Fits, Kind
  <2> QED BY <1>1, <1>2, <2>1
<1>11. \/ \E e \in subject.events : x = [subject EXCEPT !.events = @ \ {e}]
       \/ \E e \in subject.events, n \in Numbers :
            x = [subject EXCEPT !.events = (@ \ {e}) \cup {[e EXCEPT !.seq = n]}]
       \/ \E e, f \in subject.events :
            x = [subject EXCEPT !.events = (@ \ {e}) \cup {[e EXCEPT !.entity = f.entity]}]
       \/ \E a, b \in subject.artifacts :
            x = [subject EXCEPT !.artifacts = (@ \ {a}) \cup {[a EXCEPT !.uri = b.uri]}]
       \/ \E X : \/ x = [subject EXCEPT !.links = X] \/ x = [subject EXCEPT !.turns = X]
                 \/ x = [subject EXCEPT !.raws = X] \/ x = [subject EXCEPT !.readable = X]
                 \/ x = [subject EXCEPT !.decoder = X]
       \/ \E s \in subject.stores : x = [subject EXCEPT !.format = @ \ {s}]
  <2>1. ASSUME NEW a, x = [subject EXCEPT !.links = @ \ {a}]
        PROVE  \E X : x = [subject EXCEPT !.links = X]
    BY <2>1
  <2>2. ASSUME NEW t, NEW i, x = [subject EXCEPT !.turns = (@ \ {t}) \cup {[t EXCEPT !.interaction = i]}]
        PROVE  \E X : x = [subject EXCEPT !.turns = X]
    BY <2>2
  <2>3. ASSUME NEW r, NEW d, x = [subject EXCEPT !.raws = (@ \ {r}) \cup {d}]
        PROVE  \E X : x = [subject EXCEPT !.raws = X]
    BY <2>3
  <2> QED BY <2>1, <2>2, <2>3 DEF GoWrong
<1> QED BY <1>5, <1>6, <1>7, <1>8, <1>9, <1>10, <1>11

\* Nothing was looked at yet, in a snapshot an ingest left.
LEMMA VerdictStarts == ValidationInit => VerdictInv
<1> SUFFICES ASSUME ValidationInit PROVE VerdictInv
  OBVIOUS
<1>1. check = "idle" /\ verdict = "none"
  BY DEF ValidationInit
<1>2. WellFormed(subject)
  <2>1. subject \in Intact
    BY DEF ValidationInit
  <2>. HIDE DEF WellFormed
  <2> QED BY <2>1, ValidationAssumption
<1> QED BY <1>1, <1>2 DEF VerdictInv

\* Validation changes nothing of what it looks at.
LEMMA ChecksStayTrue ==
  ASSUME UNCHANGED <<subject, policy, setting>>
  PROVE  /\ DecoderAgrees' <=> DecoderAgrees
         /\ StoresAreSound' <=> StoresAreSound
         /\ RawsAreSound' <=> RawsAreSound
         /\ PolicyErrors' = PolicyErrors
         /\ {r \in subject.raws : RawLimited(r)}' = {r \in subject.raws : RawLimited(r)}
         /\ WellFormed(subject)' <=> WellFormed(subject)
<1>1. DecoderAgrees' <=> DecoderAgrees
  BY DEF DecoderAgrees
<1>2. StoresAreSound' <=> StoresAreSound
  BY DEF StoresAreSound, StoreErrors, SharedValue, Duplicated, SessionsOf, EventsOf
<1>3. RawsAreSound' <=> RawsAreSound
  BY DEF RawsAreSound, RawErrors
<1>4. PolicyErrors' = PolicyErrors
  <2>1. TurnErrors' <=> TurnErrors
    BY DEF TurnErrors
  <2>2. Diagnosed(subject)' = Diagnosed(subject)
    OBVIOUS
  <2> QED BY <2>1, <2>2 DEF PolicyErrors, EventsIn
<1>5. {r \in subject.raws : RawLimited(r)}' = {r \in subject.raws : RawLimited(r)}
  BY DEF RawLimited
<1>6. WellFormed(subject)' <=> WellFormed(subject)
  BY DEF WellFormed
<1> QED BY <1>1, <1>2, <1>3, <1>4, <1>5, <1>6

\* Every check adds its errors to those found, and none before the last decides.
LEMMA VerdictStep == VerdictInv /\ [ValidationNext]_validationVars => VerdictInv'
<1> SUFFICES ASSUME VerdictInv, [ValidationNext]_validationVars PROVE VerdictInv'
  OBVIOUS
<1>1. CASE GoWrong
  <2>1. WellFormed(subject')
    <3>1. WellFormed(subject)
      BY DEF VerdictInv
    <3> QED BY <1>1, <3>1, DefectsAreSnapshots
  <2>2. WellFormed(subject)'
    BY <2>1 DEF WellFormed
  <2> QED BY <1>1, <2>2 DEF GoWrong, VerdictInv
<1>2. ASSUME UNCHANGED <<subject, policy, setting>>
      PROVE  /\ DecoderAgrees' <=> DecoderAgrees
             /\ StoresAreSound' <=> StoresAreSound
             /\ RawsAreSound' <=> RawsAreSound
             /\ PolicyErrors' = PolicyErrors
             /\ {r \in subject.raws : RawLimited(r)}' = {r \in subject.raws : RawLimited(r)}
             /\ WellFormed(subject)'
  BY <1>2, ChecksStayTrue DEF VerdictInv
<1>3. CASE OpenSnapshot
  BY <1>2, <1>3 DEF OpenSnapshot, VerdictInv
<1>4. CASE ValidateManifest
  <2>1. errors' = {} <=> DecoderAgrees
    BY <1>4 DEF ValidateManifest, DecoderAgrees
  <2> QED BY <1>2, <1>4, <2>1 DEF ValidateManifest, VerdictInv
<1>5. CASE ValidateStores
  <2>1. errors' = {} <=> errors = {} /\ StoresAreSound
    BY <1>5 DEF ValidateStores, StoresAreSound
  <2> QED BY <1>2, <1>5, <2>1 DEF ValidateStores, VerdictInv
<1>6. CASE ValidateRaw
  <2>1. errors' = {} <=> errors = {} /\ RawsAreSound
    BY <1>6 DEF ValidateRaw, RawsAreSound
  <2> QED BY <1>2, <1>6, <2>1 DEF ValidateRaw, VerdictInv
<1>7. CASE ValidatePolicy
  <2>1. errors' = {} <=> errors = {} /\ PolicyErrors = {}
    BY <1>7 DEF ValidatePolicy
  <2>2. /\ verdict' = IF errors' # {} THEN "rejected"
                      ELSE IF limits # {} THEN "accepted_with_limitations" ELSE "accepted"
        /\ check = "policy" /\ check' = "done" /\ UNCHANGED <<subject, policy, setting, limits>>
    BY <1>7 DEF ValidatePolicy
  <2>3. verdict' = "accepted" => {r \in subject.raws : RawLimited(r)}' = {}
    BY <1>2, <2>2 DEF VerdictInv
  <2>5. (verdict = "accepted" => \A r \in subject.raws : ~RawLimited(r))'
    BY <2>3
  <2> QED BY <1>2, <2>1, <2>2, <2>5 DEF VerdictInv
<1>8. CASE UNCHANGED validationVars
  <2>1. (\A r \in subject.raws : ~RawLimited(r)) => (\A r \in subject.raws : ~RawLimited(r))'
    BY <1>2, <1>8 DEF validationVars
  <2> QED BY <1>2, <1>8, <2>1 DEF validationVars, VerdictInv
<1> QED BY <1>1, <1>3, <1>4, <1>5, <1>6, <1>7, <1>8 DEF ValidationNext

\* A snapshot is rejected exactly if something is wrong with it, and accepted
\* without limitation only if its evidence was read (validate_project).
THEOREM VerdictTells == ValidationSpec => []VerdictIsTheSnapshots
BY VerdictStarts, VerdictStep, VerdictInvTells, PTL DEF ValidationSpec
-----------------------------------------------------------------------------
(* The digests of two rebuilds. *)

\* What is renamed one to one is as many.
LEMMA AsMany ==
  ASSUME NEW S, NEW T, IsFiniteSet(S), NEW f,
         \A x \in S : f[x] \in T, \A x, y \in S : f[x] = f[y] => x = y, \A y \in T : \E x \in S : f[x] = y
  PROVE  IsFiniteSet(T) /\ Cardinality(T) = Cardinality(S)
<1>. DEFINE g == [x \in S |-> f[x]]
<1>1. g \in [S -> T] /\ (\A x, y \in S : g[x] = g[y] => x = y) /\ \A y \in T : \E x \in S : g[x] = y
  OBVIOUS
<1>. HIDE DEF g
<1>2. g \in Bijection(S, T)
  BY <1>1 DEF Bijection, Injection, Surjection, IsInjective
<1>3. ExistsBijection(S, T)
  BY <1>2 DEF ExistsBijection
<1> QED BY <1>3, FS_Bijection

\* What precedes a row in the order of a digest, and its place there.
Precede(t, i) == {j \in DOMAIN t : t[j].key < t[i].key \/ (t[j].key = t[i].key /\ j < i)}
Place(t, i)   == 1 + Cardinality(Precede(t, i))
Whose(t, k)   == CHOOSE i \in DOMAIN t : Place(t, i) = k
Keyed         == {r \in Logical \cup {Bare(q) : q \in Logical} : r.key \in Nat}

\* A digest takes each row in its place.
LEMMA InOrderIs == ASSUME NEW t PROVE InOrder(t) = [k \in DOMAIN t |-> t[Whose(t, k)]]
BY DEF InOrder, Whose, Place, Precede

\* Each row has a place, and each place a row.
LEMMA PlacesOfRows ==
  ASSUME NEW t \in Seq(Keyed)
  PROVE  /\ \A i \in DOMAIN t : Place(t, i) \in DOMAIN t /\ Whose(t, Place(t, i)) = i
         /\ \A k \in DOMAIN t : Whose(t, k) \in DOMAIN t /\ Place(t, Whose(t, k)) = k
<1>. DEFINE n == Len(t)
            D == 1..n
            place == [i \in D |-> Place(t, i)]
<1>1. n \in Nat /\ DOMAIN t = D /\ \A i \in D : t[i].key \in Nat
  BY LenProperties, ElementOfSeq DEF Keyed
<1>2. IsFiniteSet(D) /\ Cardinality(D) = n
  <2>. HIDE DEF n
  <2>1. IsFiniteSet(1..n) /\ Cardinality(1..n) = IF 1 > n THEN 0 ELSE n - 1 + 1
    BY <1>1, FS_Interval
  <2> QED BY <1>1, <2>1
<1>. HIDE DEF n, D
<1>3. \A i \in D : Precede(t, i) \subseteq D \ {i}
  BY <1>1 DEF Precede, D
<1>4. ASSUME NEW i \in D PROVE Place(t, i) \in 1..n
  <2>1. IsFiniteSet(D \ {i}) /\ Cardinality(D \ {i}) = n - 1
    BY <1>2, FS_RemoveElement
  <2>2. Precede(t, i) \in SUBSET (D \ {i})
    BY <1>3
  <2>3. IsFiniteSet(Precede(t, i)) /\ Cardinality(Precede(t, i)) <= n - 1
    BY <2>1, <2>2, FS_Subset
  <2>4. Cardinality(Precede(t, i)) \in Nat
    BY <2>3, FS_CardinalityType
  <2> QED BY <1>1, <2>3, <2>4 DEF Place
<1>5. ASSUME NEW i \in D, NEW j \in D, j \in Precede(t, i) PROVE Place(t, j) < Place(t, i)
  <2>1. /\ \A l \in D : t[l].key \in Nat /\ l \in Nat
        /\ \A l \in D, m \in D : l \in Precede(t, m) <=>
             t[l].key < t[m].key \/ (t[l].key = t[m].key /\ l < m)
        /\ \A m \in D : Precede(t, m) \subseteq D
    BY <1>1 DEF Precede, D
  <2>2. Precede(t, j) \subseteq Precede(t, i) /\ j \notin Precede(t, j)
    BY <1>5, <2>1
  <2>3. IsFiniteSet(Precede(t, i)) /\ IsFiniteSet(Precede(t, j))
    BY <1>2, <2>1, FS_Subset
  <2>4. Precede(t, j) \in SUBSET Precede(t, i) /\ Precede(t, i) # Precede(t, j)
    BY <1>5, <2>2
  <2>5. /\ Cardinality(Precede(t, j)) <= Cardinality(Precede(t, i))
        /\ Cardinality(Precede(t, i)) # Cardinality(Precede(t, j))
    BY <2>3, <2>4, FS_Subset
  <2>6. Cardinality(Precede(t, j)) \in Nat /\ Cardinality(Precede(t, i)) \in Nat
    BY <2>3, FS_CardinalityType
  <2> QED BY <2>5, <2>6 DEF Place
<1>6. ASSUME NEW i \in D, NEW j \in D, Place(t, i) = Place(t, j) PROVE i = j
  <2>1. i = j \/ i \in Precede(t, j) \/ j \in Precede(t, i)
    BY <1>1 DEF Precede, D
  <2>2. Place(t, i) \in Int
    BY <1>4
  <2> QED BY <1>5, <1>6, <2>1, <2>2
<1>7. place \in Injection(D, D)
  BY <1>4, <1>6 DEF Injection, IsInjective, D
<1>8. place \in Surjection(D, D)
  <2>. HIDE DEF place
  <2> QED BY <1>2, <1>7, FS_Injection
<1>9. ASSUME NEW k \in D PROVE Whose(t, k) \in D /\ Place(t, Whose(t, k)) = k
  <2>1. \E i \in DOMAIN t : Place(t, i) = k
    BY <1>1, <1>8 DEF Surjection
  <2> QED BY <1>1, <2>1 DEF Whose
<1>10. ASSUME NEW i \in D PROVE Place(t, i) \in D /\ Whose(t, Place(t, i)) = i
  BY <1>4, <1>6, <1>9 DEF D
<1> QED BY <1>1, <1>9, <1>10

\* The order changes nothing in how often a row occurs.
LEMMA OrderKeepsRows ==
  ASSUME NEW t \in Seq(Keyed)
  PROVE  /\ DOMAIN InOrder(t) = DOMAIN t
         /\ \A row : Times(InOrder(t), row) = Times(t, row)
         /\ {InOrder(t)[k] : k \in DOMAIN t} = ToSet(t)
<1>. DEFINE D == DOMAIN t
            s == InOrder(t)
<1>1. s = [k \in D |-> t[Whose(t, k)]]
  BY InOrderIs
<1>2. IsFiniteSet(D)
  BY LenProperties, FS_Interval
<1>3. /\ \A i \in D : Place(t, i) \in D /\ Whose(t, Place(t, i)) = i
      /\ \A k \in D : Whose(t, k) \in D /\ Place(t, Whose(t, k)) = k
  BY PlacesOfRows
<1>. HIDE DEF D, s
<1>4. ASSUME NEW row PROVE Times(s, row) = Times(t, row)
  <2>. DEFINE K == {k \in D : s[k] = row}
              I == {i \in D : t[i] = row}
              f == [k \in K |-> Whose(t, k)]
  <2>1. IsFiniteSet(K)
    BY <1>2, FS_Subset
  <2>2. \A k \in K : f[k] \in I
    BY <1>1, <1>3
  <2>3. \A k, l \in K : f[k] = f[l] => k = l
    BY <1>3
  <2>4. \A i \in I : \E k \in K : f[k] = i
    <3> SUFFICES ASSUME NEW i \in I PROVE \E k \in K : f[k] = i
      OBVIOUS
    <3>1. Place(t, i) \in K /\ f[Place(t, i)] = i
      BY <1>1, <1>3
    <3> QED BY <3>1
  <2>. HIDE DEF K, I, f
  <2>5. Cardinality(I) = Cardinality(K)
    BY <2>1, <2>2, <2>3, <2>4, AsMany
  <2>6. DOMAIN s = D
    BY <1>1
  <2> QED BY <2>5, <2>6 DEF Times, K, I, D
<1>5. {s[k] : k \in D} = {t[i] : i \in D}
  BY <1>1, <1>3
<1> QED BY <1>1, <1>4, <1>5 DEF s, D, ToSet

\* Tables of one order have the same rows.
LEMMA OrderTells ==
  ASSUME NEW a \in Seq(Keyed), NEW b \in Seq(Keyed), InOrder(a) = InOrder(b)
  PROVE  SameRows(a, b)
<1>1. DOMAIN a = DOMAIN b /\ \A row : Times(a, row) = Times(b, row)
  BY OrderKeepsRows
<1>2. Len(a) = Len(b)
  BY <1>1, LenProperties
<1> QED BY <1>1, <1>2 DEF SameRows

\* A row occurs if it is counted.
LEMMA OccursOften ==
  ASSUME NEW t \in Seq(Keyed), NEW row
  PROVE  /\ Times(t, row) \in Nat
         /\ Times(t, row) # 0 <=> row \in ToSet(t)
         /\ Times(t, row) = 1 <=> \E i \in DOMAIN t : {k \in DOMAIN t : t[k] = row} = {i}
<1>. DEFINE K == {k \in DOMAIN t : t[k] = row}
<1>1. IsFiniteSet(DOMAIN t)
  BY LenProperties, FS_Interval
<1>2. IsFiniteSet(K)
  BY <1>1, FS_Subset
<1>3. K # {} <=> row \in ToSet(t)
  BY DEF ToSet
<1>4. \A i : K = {i} => i \in DOMAIN t
  OBVIOUS
<1>. HIDE DEF K
<1>5. Cardinality(K) \in Nat /\ (Cardinality(K) # 0 <=> K # {}) /\ (Cardinality(K) = 1 <=> \E i : K = {i})
  BY <1>2, FS_CardinalityType, FS_EmptySet, FS_Singleton
<1>6. Times(t, row) = Cardinality(K)
  BY DEF Times, K
<1> QED BY <1>3, <1>4, <1>5, <1>6 DEF K

\* If no two rows of one table share a key, none of another of the same rows do.
LEMMA OrderedBoth ==
  ASSUME NEW a \in Seq(Keyed), NEW b \in Seq(Keyed), SameRows(a, b), Ordered(a)
  PROVE  Ordered(b) /\ ToSet(a) = ToSet(b)
<1>1. ToSet(a) = ToSet(b)
  <2>1. \A row \in ToSet(a) \cup ToSet(b) : row \in ToSet(a) <=> row \in ToSet(b)
    BY OccursOften DEF SameRows
  <2> QED BY <2>1
<1>2. ASSUME NEW j \in DOMAIN b, NEW k \in DOMAIN b, b[j].key = b[k].key PROVE j = k
  <2>1. b[j] \in ToSet(b) /\ b[k] \in ToSet(b)
    BY DEF ToSet
  <2>2. PICK i \in DOMAIN a, l \in DOMAIN a : a[i] = b[j] /\ a[l] = b[k]
    BY <1>1, <2>1 DEF ToSet
  <2>3. i = l /\ b[j] = b[k]
    BY <1>2, <2>2 DEF Ordered
  <2>4. {m \in DOMAIN a : a[m] = b[j]} = {i}
    BY <2>2 DEF Ordered
  <2>5. Times(a, b[j]) = 1
    BY <2>4, OccursOften
  <2>6. Times(b, b[j]) = 1
    BY <2>1, <2>5 DEF SameRows
  <2>7. PICK m \in DOMAIN b : {x \in DOMAIN b : b[x] = b[j]} = {m}
    BY <2>6, OccursOften
  <2> QED BY <2>3, <2>7
<1> QED BY <1>1, <1>2 DEF Ordered

\* If no two rows share a key, what precedes a row are the rows of lesser keys.
LEMMA PlaceIsOfTheRow ==
  ASSUME NEW t \in Seq(Keyed), Ordered(t), NEW k \in DOMAIN t
  PROVE  /\ InOrder(t)[k] \in ToSet(t)
         /\ Cardinality({r \in ToSet(t) : r.key < InOrder(t)[k].key}) = k - 1
<1>. DEFINE w == Whose(t, k)
            P == Precede(t, w)
            L == {r \in ToSet(t) : r.key < t[w].key}
<1>1. w \in DOMAIN t /\ Place(t, w) = k /\ InOrder(t)[k] = t[w]
  BY PlacesOfRows, InOrderIs
<1>2. IsFiniteSet(P) /\ Cardinality(P) \in Nat
  <2>1. IsFiniteSet(DOMAIN t)
    BY LenProperties, FS_Interval
  <2>2. IsFiniteSet(P)
    BY <2>1, FS_Subset DEF Precede
  <2> QED BY <2>2, FS_CardinalityType
<1>. HIDE DEF w
<1>3. P = {j \in DOMAIN t : t[j].key < t[w].key}
  <2>1. \A j \in DOMAIN t : t[j].key = t[w].key => j = w
    BY <1>1 DEF Ordered
  <2>2. DOMAIN t \subseteq Nat
    BY LenProperties
  <2> QED BY <1>1, <2>1, <2>2 DEF Precede
<1>4. \A j \in P : t[j] \in L
  BY <1>3 DEF ToSet
<1>5. \A i, j \in P : t[i] = t[j] => i = j
  BY <1>3 DEF Ordered
<1>6. \A r \in L : \E j \in P : t[j] = r
  BY <1>3 DEF ToSet
<1>. HIDE DEF P, L
<1>7. Cardinality(L) = Cardinality(P)
  BY <1>2, <1>4, <1>5, <1>6, AsMany
<1>8. k = 1 + Cardinality(P)
  BY <1>1 DEF Place, P
<1>9. t[w] \in ToSet(t)
  BY <1>1 DEF ToSet
<1> QED BY <1>1, <1>2, <1>7, <1>8, <1>9 DEF L

\* Then tables of the same rows are of one order.
LEMMA RowsTell ==
  ASSUME NEW a \in Seq(Keyed), NEW b \in Seq(Keyed), SameRows(a, b), Ordered(a)
  PROVE  InOrder(a) = InOrder(b)
<1>. DEFINE S == ToSet(a)
            Least(r) == {q \in S : q.key < r.key}
<1>1. Ordered(b) /\ ToSet(b) = S
  BY OrderedBoth
<1>2. DOMAIN a = DOMAIN b
  BY LenProperties DEF SameRows
<1>3. IsFiniteSet(S) /\ (\A r \in S : r.key \in Nat) /\ \A q, r \in S : q.key = r.key => q = r
  <2>1. IsFiniteSet(DOMAIN a)
    BY LenProperties, FS_Interval
  <2>2. a \in Surjection(DOMAIN a, S)
    <3>1. a \in [DOMAIN a -> S] /\ \A r \in S : \E i \in DOMAIN a : a[i] = r
      BY LenProperties DEF ToSet
    <3> QED BY <3>1 DEF Surjection
  <2>3. IsFiniteSet(S)
    <3>. HIDE DEF S
    <3> QED BY <2>1, <2>2, FS_Surjection
  <2>4. \A r \in S : \E i \in DOMAIN a : a[i] = r
    BY DEF ToSet
  <2>5. \A i \in DOMAIN a : a[i].key \in Nat
    BY ElementOfSeq, LenProperties DEF Keyed
  <2>. HIDE DEF S
  <2> QED BY <2>3, <2>4, <2>5 DEF Ordered
<1>4. ASSUME NEW k \in DOMAIN a PROVE InOrder(a)[k] = InOrder(b)[k]
  <2>. DEFINE q == InOrder(a)[k]
              r == InOrder(b)[k]
  <2>1. q \in S /\ Cardinality(Least(q)) = k - 1
    BY PlaceIsOfTheRow
  <2>2. r \in S /\ Cardinality(Least(r)) = k - 1
    BY <1>1, <1>2, PlaceIsOfTheRow
  <2>. HIDE DEF q, r, S
  <2>3. ASSUME NEW x \in S, NEW y \in S, x.key < y.key PROVE Cardinality(Least(x)) # Cardinality(Least(y))
    <3>1. Least(x) \subseteq Least(y) /\ x \in Least(y) /\ x \notin Least(x)
      BY <1>3, <2>3
    <3>2. IsFiniteSet(Least(y))
      BY <1>3, FS_Subset
    <3>. HIDE DEF Least
    <3>3. Least(x) \in SUBSET Least(y) /\ Least(x) # Least(y)
      BY <3>1
    <3> QED BY <3>2, <3>3, FS_Subset
  <2>. HIDE DEF Least
  <2>4. q.key = r.key
    BY <1>3, <2>1, <2>2, <2>3
  <2>5. q = r
    BY <1>3, <2>1, <2>2, <2>4
  <2> QED BY <2>5 DEF q, r
<1>5. InOrder(a) = [k \in DOMAIN a |-> InOrder(a)[k]] /\ InOrder(b) = [k \in DOMAIN a |-> InOrder(b)[k]]
  BY <1>2, InOrderIs
<1> QED BY <1>4, <1>5

\* Rows but for their observation.
BareOf(t) == [k \in DOMAIN t |-> Bare(t[k])]

LEMMA BareRows ==
  ASSUME NEW t \in Seq(Logical)
  PROVE  /\ t \in Seq(Keyed) /\ BareOf(t) \in Seq(Keyed) /\ DOMAIN BareOf(t) = DOMAIN t
         /\ \A k \in DOMAIN t : t[k] \in Logical /\ BareOf(t)[k].key = t[k].key
         /\ Ordered(BareOf(t)) <=> Ordered(t)
<1>1. \A r \in Logical : /\ r.key \in Nat /\ r = [key |-> r.key, value |-> r.value, observation |-> r.observation]
                         /\ Bare(r) = [key |-> r.key, value |-> r.value, observation |-> Unset]
  BY ValidationAssumption DEF ValidationAssumption, Bare
<1>2. \A r \in Logical : r \in Keyed /\ Bare(r) \in Keyed /\ Bare(r).key = r.key
  BY <1>1 DEF Keyed
<1>3. Len(t) \in Nat /\ DOMAIN t = 1..Len(t) /\ \A k \in DOMAIN t : t[k] \in Logical
  BY LenProperties, ElementOfSeq
<1>4. DOMAIN BareOf(t) = DOMAIN t /\ \A k \in DOMAIN t : BareOf(t)[k] = Bare(t[k])
  BY DEF BareOf
<1>5. t \in Seq(Keyed)
  <2>1. t \in [1..Len(t) -> Keyed]
    BY <1>2, <1>3, LenProperties
  <2> QED BY <1>3, <2>1
<1>6. BareOf(t) \in Seq(Keyed)
  <2>1. BareOf(t) \in [1..Len(t) -> Keyed]
    BY <1>2, <1>3 DEF BareOf
  <2> QED BY <1>3, <2>1
<1>7. \A k \in DOMAIN t : BareOf(t)[k].key = t[k].key
  BY <1>2, <1>3, <1>4
<1> QED BY <1>3, <1>4, <1>5, <1>6, <1>7 DEF Ordered

\* What is hashed agrees if the rows in order do.
LEMMA HashedIs ==
  ASSUME NEW a \in Seq(Logical), NEW b \in Seq(Logical)
  PROVE  /\ Hashed(a, FALSE) = Hashed(b, FALSE) <=> InOrder(a) = InOrder(b)
         /\ Hashed(a, TRUE) = Hashed(b, TRUE) <=> InOrder(BareOf(a)) = InOrder(BareOf(b))
<1>. DEFINE full(t)  == [k \in DOMAIN t |-> <<InOrder(t)[k].key, InOrder(t)[k].value, InOrder(t)[k].observation>>]
            plain(t) == [k \in DOMAIN t |-> <<InOrder(t)[k].key, InOrder(t)[k].value, Unset>>]
<1>1. \A t : Hashed(t, FALSE) = full(t) /\ Hashed(t, TRUE) = plain(t)
  BY Zenon DEF Hashed
<1>2. ASSUME NEW t \in Seq(Logical)
      PROVE  /\ DOMAIN InOrder(t) = DOMAIN t /\ InOrder(t) = [k \in DOMAIN t |-> InOrder(t)[k]]
             /\ \A k \in DOMAIN t : InOrder(t)[k] \in Logical
             /\ InOrder(BareOf(t)) = [k \in DOMAIN t |-> Bare(InOrder(t)[k])]
  <2>1. t \in Seq(Keyed) /\ DOMAIN BareOf(t) = DOMAIN t
        /\ \A k \in DOMAIN t : t[k] \in Logical /\ BareOf(t)[k].key = t[k].key
    BY BareRows
  <2>2. InOrder(t) = [k \in DOMAIN t |-> t[Whose(t, k)]] /\ \A k \in DOMAIN t : Whose(t, k) \in DOMAIN t
    BY <2>1, InOrderIs, PlacesOfRows
  <2>3. \A i \in DOMAIN t : Precede(BareOf(t), i) = Precede(t, i)
    BY <2>1 DEF Precede
  <2>4. \A k : Whose(BareOf(t), k) = Whose(t, k)
    BY <2>1, <2>3 DEF Whose, Place
  <2>5. InOrder(BareOf(t)) = [k \in DOMAIN t |-> BareOf(t)[Whose(t, k)]]
    BY <2>1, <2>4, InOrderIs
  <2>6. \A k \in DOMAIN t : BareOf(t)[Whose(t, k)] = Bare(InOrder(t)[k])
    BY <2>2 DEF BareOf
  <2> QED BY <2>1, <2>2, <2>5, <2>6
<1>3. \A q \in Logical : /\ q = [key |-> q.key, value |-> q.value, observation |-> q.observation]
                         /\ Bare(q) = [key |-> q.key, value |-> q.value, observation |-> Unset]
  BY ValidationAssumption DEF ValidationAssumption, Bare
<1>4. \A q, r \in Logical :
        /\ q = r <=> q.key = r.key /\ q.value = r.value /\ q.observation = r.observation
        /\ Bare(q) = Bare(r) <=> q.key = r.key /\ q.value = r.value
  BY <1>3
<1>. DEFINE D == DOMAIN a
            p == InOrder(a)
            q == InOrder(b)
<1>5. full(a) = full(b) <=> DOMAIN b = D /\ \A k \in D : /\ p[k].key = q[k].key /\ p[k].value = q[k].value
                                                         /\ p[k].observation = q[k].observation
  OBVIOUS
<1>6. plain(a) = plain(b) <=> DOMAIN b = D /\ \A k \in D : p[k].key = q[k].key /\ p[k].value = q[k].value
  OBVIOUS
<1>7. p = q <=> DOMAIN b = D /\ \A k \in D : p[k] = q[k]
  BY <1>2
<1>8. InOrder(BareOf(a)) = InOrder(BareOf(b)) <=> DOMAIN b = D /\ \A k \in D : Bare(p[k]) = Bare(q[k])
  BY <1>2
<1>9. DOMAIN b = D => \A k \in D : p[k] \in Logical /\ q[k] \in Logical
  BY <1>2
<1>. HIDE DEF full, plain, p, q, D
<1>10. full(a) = full(b) <=> p = q
  BY <1>4, <1>5, <1>7, <1>9
<1>11. plain(a) = plain(b) <=> InOrder(BareOf(a)) = InOrder(BareOf(b))
  BY <1>4, <1>6, <1>8, <1>9
<1> QED BY <1>1, <1>10, <1>11 DEF p, q

\* The tables of two rebuilds, of rows of the store.
DigestInv == left \in Seq(Logical) /\ right \in Seq(Logical) /\ Len(left) <= MaxRows /\ Len(right) <= MaxRows

LEMMA DigestTells == DigestInv => DigestIsOfTheRows
<1>. SUFFICES ASSUME DigestInv PROVE DigestIsOfTheRows
  OBVIOUS
<1>1. /\ left \in Seq(Logical) /\ right \in Seq(Logical) /\ left \in Seq(Keyed) /\ right \in Seq(Keyed)
      /\ BareOf(left) \in Seq(Keyed) /\ BareOf(right) \in Seq(Keyed) /\ (Ordered(BareOf(left)) <=> Ordered(left))
  BY BareRows DEF DigestInv
<1>2. Hashed(left, FALSE) = Hashed(right, FALSE) <=> InOrder(left) = InOrder(right)
  BY <1>1, HashedIs
<1>3. Hashed(left, TRUE) = Hashed(right, TRUE) <=> InOrder(BareOf(left)) = InOrder(BareOf(right))
  BY <1>1, HashedIs
<1>4. /\ InOrder(left) = InOrder(right) => SameRows(left, right)
      /\ Ordered(left) /\ SameRows(left, right) => InOrder(left) = InOrder(right)
  BY <1>1, OrderTells, RowsTell
<1>5. /\ InOrder(BareOf(left)) = InOrder(BareOf(right)) => SameRows(BareOf(left), BareOf(right))
      /\ Ordered(left) /\ SameRows(BareOf(left), BareOf(right)) => InOrder(BareOf(left)) = InOrder(BareOf(right))
  BY <1>1, OrderTells, RowsTell
<1> QED BY <1>2, <1>3, <1>4, <1>5 DEF DigestIsOfTheRows, BareOf

LEMMA DigestKeeps == DigestSpec => []DigestInv
<1>1. DigestInit => DigestInv
  BY ValidationAssumption, EmptySeq DEF ValidationAssumption, DigestInit, DigestInv
<1>2. DigestInv /\ [DigestNext]_digestVars => DigestInv'
  <2> SUFFICES ASSUME DigestInv, [DigestNext]_digestVars PROVE DigestInv'
    OBVIOUS
  <2>1. CASE UNCHANGED digestVars
    BY <2>1 DEF digestVars, DigestInv
  <2>2. ASSUME NEW row \in Logical, InsertRow(row) PROVE DigestInv'
    <3>1. /\ Append(left, row) \in Seq(Logical) /\ Len(Append(left, row)) = Len(left) + 1
          /\ Append(right, row) \in Seq(Logical) /\ Len(Append(right, row)) = Len(right) + 1
          /\ Len(left) \in Nat /\ Len(right) \in Nat /\ MaxRows \in Nat
      BY AppendProperties, LenProperties, ValidationAssumption DEF DigestInv, ValidationAssumption
    <3>2. /\ Len(left) \in Nat /\ Len(right) \in Nat /\ MaxRows \in Nat
          /\ left \in Seq(Logical) /\ right \in Seq(Logical) /\ Len(left) <= MaxRows /\ Len(right) <= MaxRows
      BY <3>1 DEF DigestInv
    <3>3. CASE Len(left) < MaxRows /\ left' = Append(left, row) /\ right' = right
      <4>1. Len(left') = Len(left) + 1 /\ left' \in Seq(Logical)
        BY <3>1, <3>3
      <4> QED BY <3>2, <3>3, <4>1 DEF DigestInv
    <3>4. CASE Len(right) < MaxRows /\ right' = Append(right, row) /\ left' = left
      <4>1. Len(right') = Len(right) + 1 /\ right' \in Seq(Logical)
        BY <3>1, <3>4
      <4> QED BY <3>2, <3>4, <4>1 DEF DigestInv
    <3> QED BY <2>2, <3>3, <3>4 DEF InsertRow
  <2> QED BY <2>1, <2>2 DEF DigestNext
<1> QED BY <1>1, <1>2, PTL DEF DigestSpec

\* The digests of two rebuilds agree if their rows do, and only then
\* (canonical_rows, semantic_digest).
THEOREM DigestsAgree == DigestSpec => []DigestIsOfTheRows
BY DigestTells, DigestKeeps, PTL

\* What validation reads and says keeps its type.
ValidationKept ==
  /\ VerdictInv /\ policy \in Policies /\ setting \in Settings /\ damage \in 0..MaxDamage
  /\ limits \subseteq subject.raws /\ (check = "idle" => limits = {})

LEMMA ValidationKeeps == ValidationSpec => []ValidationKept
<1>1. ValidationInit => ValidationKept
  <2>1. 0 \in 0..MaxDamage
    BY ValidationAssumption DEF ValidationAssumption
  <2> QED BY <2>1, VerdictStarts DEF ValidationInit, ValidationKept
<1>2. ValidationKept /\ [ValidationNext]_validationVars => ValidationKept'
  <2> SUFFICES ASSUME ValidationKept, [ValidationNext]_validationVars PROVE ValidationKept'
    OBVIOUS
  <2>1. VerdictInv'
    BY VerdictStep DEF ValidationKept
  <2>2. policy' = policy /\ setting' = setting
    BY DEF ValidationNext, validationVars, GoWrong, OpenSnapshot, ValidateManifest, ValidateStores,
           ValidateRaw, ValidatePolicy
  <2>3. CASE GoWrong
    <3>1. damage' \in 0..MaxDamage
      <4>1. damage < MaxDamage /\ damage' = damage + 1 /\ damage \in 0..MaxDamage
        BY <2>3 DEF GoWrong, ValidationKept
      <4>2. MaxDamage \in Nat
        BY ValidationAssumption DEF ValidationAssumption
      <4> QED BY <4>1, <4>2
    <3>2. limits' = {}
      BY <2>3 DEF GoWrong, ValidationKept
    <3> QED BY <2>1, <2>2, <3>1, <3>2 DEF ValidationKept
  <2>4. CASE OpenSnapshot \/ ValidateManifest \/ ValidateStores \/ ValidatePolicy \/ UNCHANGED validationVars
    <3>1. subject' = subject /\ damage' = damage /\ limits' = limits /\ (check' = "idle" => check = "idle")
      BY <2>4 DEF OpenSnapshot, ValidateManifest, ValidateStores, ValidatePolicy, validationVars
    <3> QED BY <2>1, <2>2, <3>1 DEF ValidationKept
  <2>5. CASE ValidateRaw
    <3>1. subject' = subject /\ damage' = damage /\ limits' \subseteq subject.raws /\ check' = "policy"
      BY <2>5 DEF ValidateRaw
    <3> QED BY <2>1, <2>2, <3>1 DEF ValidationKept
  <2> QED BY <2>3, <2>4, <2>5 DEF ValidationNext
<1> QED BY <1>1, <1>2, PTL DEF ValidationSpec

\* Validation and the digests are well typed (validate_project, semantic_digest).
THEOREM ValidationIsTyped == ValidationSpec /\ DigestSpec => []ValidationTypeOK
<1>1. ValidationKept /\ DigestInv => ValidationTypeOK
  BY DEF ValidationKept, VerdictInv, DigestInv, ValidationTypeOK
<1> QED BY <1>1, ValidationKeeps, DigestKeeps, PTL
-----------------------------------------------------------------------------
(* All of it, together. *)

\* What is looked for is found or accounted for, whatever the other components
\* do meanwhile (walk_sessions, discover_git_roots).
THEOREM FindingsAreAccounted == DiscoverySpec => []DiscoveryAccounts
BY SessionsCountOnce, NoTranscriptIsLost, TraversalFindsAll, PTL
DEF DiscoverySpec, DiscoveryAccounts

\* What was recorded of a path stays on record, in the registry and among the
\* candidates (update_project_entry, record_decision).
THEOREM RecordsStay == DiscoverySpec => []RecordsOutlast
BY FactsAreKept, DecisionsAreKept, PTL DEF DiscoverySpec, RecordsOutlast

\* What a report says is so: of several places of a Project one is the original
\* (project_lifecycle), a window says how many Projects it hides (walk_sessions),
\* a verdict is the one the snapshot deserves (validate_project) and digests agree
\* if the rows do (semantic_digest).
THEOREM ReportsAreTrue == DiscoverySpec => []ReportsTellTheTruth
<1>1. OnePlaceIsTheOriginal /\ HiddenAreCounted /\ VerdictIsTheSnapshots /\ DigestIsOfTheRows
      => ReportsTellTheTruth
  BY DEF ReportsTellTheTruth
<1> QED BY <1>1, OneOriginal, HiddenProjectsAreCounted, VerdictTells, DigestsAgree, PTL
  DEF DiscoverySpec

UpkeepParts == {"refresh", "report", "baseline", "raw", "scan", "registry", "review",
                "validation", "digest"}

\* A behaviour of these components is one of each: a step of another leaves it alone.
THEOREM UpkeepImplementsItsParts ==
  UpkeepSpec => /\ RefreshSpec /\ ReportSpec /\ BaselineSpec /\ RawSpec /\ DiscoverySpec
<1>1. UpkeepInit => /\ RefreshInit /\ ReportInit /\ BaselineInit /\ RawInit /\ ScanInit /\ RegistryInit
                    /\ ReviewInit /\ ValidationInit /\ DigestInit
  BY DEF UpkeepInit
<1>2. [UpkeepNext]_upkeepVars => [RefreshNext]_refreshVars
  BY DEF UpkeepNext, upkeepVars
<1>3. [UpkeepNext]_upkeepVars => [ReportNext]_reportVars
  BY DEF UpkeepNext, upkeepVars
<1>4. [UpkeepNext]_upkeepVars => [BaselineNext]_baselineVars
  BY DEF UpkeepNext, upkeepVars
<1>5. [UpkeepNext]_upkeepVars => [RawNext]_rawVars
  BY DEF UpkeepNext, upkeepVars
<1>6. [UpkeepNext]_upkeepVars => [ScanNext]_scanVars
  BY DEF UpkeepNext, upkeepVars
<1>7. [UpkeepNext]_upkeepVars => [RegistryNext]_registryVars
  BY DEF UpkeepNext, upkeepVars
<1>8. [UpkeepNext]_upkeepVars => [ReviewNext]_reviewVars
  BY DEF UpkeepNext, upkeepVars
<1>9. [UpkeepNext]_upkeepVars => [ValidationNext]_validationVars
  BY DEF UpkeepNext, upkeepVars
<1>10. [UpkeepNext]_upkeepVars => [DigestNext]_digestVars
  BY DEF UpkeepNext, upkeepVars
<1> QED BY <1>1, <1>2, <1>3, <1>4, <1>5, <1>6, <1>7, <1>8, <1>9, <1>10, PTL
  DEF UpkeepSpec, RefreshSpec, ReportSpec, BaselineSpec, RawSpec, DiscoverySpec, ScanSpec,
      RegistrySpec, ReviewSpec, ValidationSpec, DigestSpec

\* What keeps results in order, and what finds and judges Projects, is well typed
\* at every step (refresh_workflow.py, reporting.py, baseline_workflow.py,
\* raw_capture.py, walk_sessions, registry_store.py, candidates and validation).
THEOREM UpkeepIsTyped == UpkeepSpec => []UpkeepTypeOK
<1>1. RefreshTypeOK /\ ReportTypeOK /\ BaselineTypeOK /\ RawTypeOK /\ DiscoveryTypeOK
      /\ part \in UpkeepParts => UpkeepTypeOK
  BY DEF UpkeepParts, UpkeepTypeOK
<1>2. ScanTypeOK /\ RegistryTypeOK /\ ReviewTypeOK /\ ValidationTypeOK => DiscoveryTypeOK
  BY DEF DiscoveryTypeOK
<1>3. UpkeepInit => part \in UpkeepParts
  BY DEF UpkeepInit, UpkeepParts
<1>4. part \in UpkeepParts /\ [UpkeepNext]_upkeepVars => (part \in UpkeepParts)'
  BY DEF UpkeepNext, upkeepVars
<1>5. UpkeepSpec => [](part \in UpkeepParts)
  BY <1>3, <1>4, PTL DEF UpkeepSpec
<1> QED BY <1>1, <1>2, <1>5, UpkeepImplementsItsParts, RefreshIsTyped, ReportIsTyped, WorkflowIsTyped,
           RawIsTyped, ScanIsTyped, RegistryIsTyped, ReviewIsTyped, ValidationIsTyped, PTL
  DEF DiscoverySpec
=============================================================================
