----------------------------- MODULE MCDiscovery -----------------------------
(* Instances of the components of Discovery.  MCUpkeep runs them beside the *)
(* components around an ingest.                                             *)
EXTENDS Discovery, TLC

CONSTANTS place1, place2, writer1, writer2

\* A work root with a Project in it, a subdirectory of that, and another one.
top   == <<"w">>
proj  == <<"w", "p">>
sub   == <<"w", "p", "q">>
other == <<"w", "x">>
deep  == <<"w", "x", "y">>
MCDirs == {top, proj, sub, other}

\* Transcripts of Codex: of a subdirectory, an archived copy, none of a Project.
MCSession(i, d, a, c) == [id |-> i, cwd |-> d, age |-> a, copy |-> c]
MCCodex == {{}, {MCSession(1, proj, 0, 0), MCSession(2, sub, 1, 0)},
            {MCSession(1, proj, 1, 1), MCSession(1, proj, 0, 0)},
            {MCSession(1, top, 1, 0), MCSession(2, other, 0, 0)}}
\* The index of a folder of Claude two paths are encoded as, and its files.
MCEntry(d, h, a, s) == [project |-> d, here |-> h, age |-> a, side |-> s]
MCIndexes == {{}, {MCEntry(proj, TRUE, 0, FALSE), MCEntry(other, TRUE, 1, TRUE)},
              {MCEntry(proj, FALSE, 1, FALSE), MCEntry(sub, TRUE, 1, FALSE)}}
MCFile(n, a, s) == [name |-> n, age |-> a, side |-> s]
MCFiles == {{}, {MCFile(1, 1, FALSE), MCFile(2, 0, TRUE)}}
\* Stores of Cursor: a workspace without composers and one whose composer is in
\* both stores; two that list one composer, in one Project or in two, one of them
\* linked to another Project, and one of no directory here; the same failing.
MCComposer(n, a) == [name |-> n, age |-> a]
MCSpace(i, d, r, l) == [id |-> i, dir |-> d, rows |-> r, listed |-> l]
MCCursor(w, r, b, l, f) ==
  [spaces |-> w, central |-> [rows |-> r, bound |-> b], links |-> l, failed |-> f]
MCPair(d, e) == {MCSpace("w1", d, {MCComposer(1, NotDated)}, {1, 2, 3}),
                 MCSpace("w2", e, {MCComposer(2, NotDated)}, {3})}
MCRows == {MCComposer(2, 0), MCComposer(3, 1)}
MCNoCursor(f) == MCCursor({}, {}, {}, {}, f)
MCCursors ==
  {MCNoCursor({}),
   MCCursor(MCPair(proj, sub), MCRows, {<<2, "w2">>}, {}, {}),
   MCCursor({MCSpace("w1", sub, {MCComposer(1, NotDated)}, {1}), MCSpace("w2", proj, {}, {})},
            {MCComposer(1, 0)}, {<<1, "w1">>}, {}, {})}
MCMoreCursors ==
  {MCCursor(MCPair(proj, other), MCRows, {}, {}, {}),
   MCCursor(MCPair(<<"far">>, other), MCRows, {<<2, "w1">>}, {<<other, "w1">>, <<top, "w1">>}, {}),
   MCCursor(MCPair(proj, other), MCRows, {<<2, "w2">>}, {<<proj, "w2">>}, {"w1"}),
   MCCursor(MCPair(proj, other), MCRows, {}, {}, {Central})}
\* What is noise, excluded, included.
MCScope == {<<{}, {}, {}>>, <<{sub}, {}, {}>>, <<{proj}, {}, {sub}>>}
MCMachine(re, sc, co, ix, fi, cu, b) ==
  [live |-> MCDirs \ IF sc[1] = {} THEN {} ELSE {other}, repos |-> re,
   noise |-> sc[1], exclude |-> sc[2], include |-> sc[3],
   codex |-> co, cursor |-> cu.spaces, central |-> cu.central, links |-> cu.links,
   malformed |-> b, failed |-> cu.failed,
   index |-> [f \in {"f"} |-> ix], files |-> [f \in {"f"} |-> fi], decodes |-> [f \in {"f"} |-> proj],
   folder |-> [d \in MCDirs |-> IF d \in {proj, other} THEN {"f"} ELSE {}]]
MCMachines ==
  {MCMachine(re, sc, co, ix, {MCFile(1, 1, FALSE), MCFile(2, 0, TRUE)}, cu, {}) :
     re \in {{}, {proj}, {top, sub}}, sc \in MCScope, co \in MCCodex, ix \in MCIndexes, cu \in MCCursors}
  \cup {MCMachine(re, sc, {MCSession(1, other, 1, 0)}, {}, {}, cu, {}) :
          re \in {{}, {proj}}, sc \in MCScope, cu \in MCMoreCursors}
  \cup {MCMachine({proj, sub}, sc, {}, ix, fi, MCNoCursor({"f"} \ b), b) :
          sc \in MCScope, ix \in MCIndexes, fi \in MCFiles, b \in {{}, {"f"}}}
MCAsk(r, wi, su, st, v) == [roots |-> r, window |-> wi, subagent |-> su, stop |-> st, vendors |-> v]
MCAll == {"cc", "codex", "cursor"}
MCScans == {MCAsk(<<top>>, FALSE, FALSE, FALSE, MCAll), MCAsk(<<top>>, TRUE, FALSE, TRUE, MCAll),
            MCAsk(<<proj, top>>, TRUE, TRUE, FALSE, MCAll), MCAsk(<<top>>, FALSE, TRUE, FALSE, {"cc"})}

\* Catalogs: a Project of two places, one of them given up, a place of an
\* excluded Project, and none.
MCLoc(l, r) == [path |-> l, retired |-> r]
MCEnt(d, l) == [disposition |-> d, locations |-> l]
MCCatalogs ==
  {<<MCEnt("active", <<MCLoc(place1, FALSE), MCLoc(place2, FALSE)>>)>>,
   <<MCEnt("active", <<MCLoc(place1, TRUE), MCLoc(place2, FALSE)>>)>>,
   <<MCEnt("excluded", <<MCLoc(place2, FALSE)>>),
     MCEnt("active", <<MCLoc(place2, FALSE), MCLoc(place1, FALSE)>>)>>, <<>>}

\* Trees: nested repositories, noise, exclusions, mounts, a directory that goes.
MCTree(re, no, ex, mo, wo) ==
  [dirs |-> {top, proj, sub, other, deep} \ (IF mo = {} THEN {} ELSE {deep}),
   repos |-> re, noise |-> no, excluded |-> ex, mounted |-> mo, worked |-> wo]
MCTrees == {MCTree({sub, other}, {}, {}, {}, {proj}), MCTree({proj, sub}, {other}, {}, {}, {}),
            MCTree({proj, other}, {}, {proj}, {other}, {sub}), MCTree({sub, deep}, {}, {}, {}, {}),
            MCTree({top, other}, {}, {}, {}, {top})}
MCTraversal(r, d, b, t, s, c, u) ==
  [roots |-> r, depth |-> d, budget |-> b, timed |-> t, sameFilesystem |-> s, csv |-> c, update |-> u]
MCTraversals ==
  {MCTraversal(<<top>>, 2, 0, FALSE, FALSE, {}, TRUE), MCTraversal(<<top>>, 1, 3, FALSE, TRUE, {proj}, TRUE),
   MCTraversal(<<proj, top>>, 2, 0, TRUE, TRUE, {}, TRUE),
   MCTraversal(<<top>>, 2, 3, FALSE, TRUE, {other}, FALSE)}

\* Snapshots of one or two stores, sealed or not, with evidence of every kind, or
\* of none.
MCStored(r, s, i, n) == [row |-> r, store |-> s, session |-> i, seq |-> n, entity |-> r]
MCEvidence(r, a) == [row |-> r, availability |-> a, object |-> "intact", source |-> "same"]
MCSubject(st, raws, sealed) ==
  LET ev == {e \in {MCStored(1, "cc", 1, 1), MCStored(2, "cc", 1, 2), MCStored(3, "cc", 1, 3),
                    MCStored(4, "cc", 2, 1), MCStored(5, "cursor", 1, 1)} : e.store \in st}
  IN  [stores |-> st, format |-> st, readable |-> TRUE, decoder |-> 1, sealed |-> sealed,
       events |-> ev, sessions |-> {<<e.store, e.session>> : e \in ev},
       counts |-> [s \in st |-> Cardinality({e \in ev : e.store = s})],
       artifacts |-> {a \in {[row |-> 1, store |-> "cc", path |-> "p", uri |-> Unset],
                             [row |-> 2, store |-> "cc", path |-> Unset, uri |-> "u"]} : a.store \in st},
       links |-> {1, 2},
       diagnostics |-> {[store |-> s, reason |-> "refused", count |-> 1] : s \in st},
       turns |-> {[row |-> k, interaction |-> k, inferred |-> TRUE] :
                    k \in IF "cursor" \in st THEN {1, 2} ELSE {}},
       raws |-> raws]
MCSmall == MCSubject({"cursor"}, {}, FALSE)
MCIntact ==
  {MCSmall, MCSubject({"cc", "cursor"}, {MCEvidence(1, "captured"), MCEvidence(2, "captured")}, FALSE),
   MCSubject({"cc"}, {MCEvidence(1, "captured"), MCEvidence(2, "reference")}, TRUE),
   MCSubject({"cc", "cursor"}, {MCEvidence(1, "captured"), MCEvidence(2, "reference"),
                                MCEvidence(3, "not_retained")}, FALSE)}
MCPolicy(rq, mi, al, re, tu) ==
  [required |-> rq, minimum |-> mi, allowed |-> al, records |-> re, turns |-> tu, decoder |-> 1]
MCAllow(n) == [r \in {"refused"} |-> n]
MCPolicies == {MCPolicy({}, <<>>, MCAllow(2), Unset, FALSE), MCPolicy({}, <<>>, <<>>, Unset, FALSE),
               MCPolicy({"cc", "cursor"}, [s \in {"cc"} |-> 4], MCAllow(1), 2, FALSE),
               MCPolicy({"cc"}, [s \in {"cc"} |-> 2], MCAllow(2), 2, TRUE)}
MCSettings == [rawStore : BOOLEAN, current : BOOLEAN]
MCLogical == {[key |-> x[1], value |-> x[2], observation |-> x[3]] :
                x \in {<<1, 1, 1>>, <<1, 2, 1>>, <<2, 1, 1>>, <<2, 1, 2>>}}

\* One state of each, for behaviours that are about something else.
MCAny(S) == CHOOSE z \in S : TRUE
ScanAtRest ==
  /\ ScanInit /\ asked = MCAny(MCScans)
  /\ machine = MCMachine({}, <<{}, {}, {}>>, {}, {}, {MCFile(1, 1, FALSE), MCFile(2, 0, TRUE)}, MCNoCursor({}), {})
RegistryAtRest == RegistryInit /\ catalog = <<>>
ReviewAtRest   == ReviewInit /\ tree = MCAny(MCTrees) /\ request = MCAny(MCTraversals)
ValidationAtRest ==
  ValidationInit /\ subject = MCSmall /\ policy = MCAny(MCPolicies) /\ setting = MCAny(MCSettings)
=============================================================================
