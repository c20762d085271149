--------------------- MODULE SnapshotPublicationProofs ---------------------
(***************************************************************************)
(* Proofs about SnapshotPublication: for any number of locations and       *)
(* snapshots, any retained totals and any failures, while prunes and runs  *)
(* do not overlap, the pointers lead to whole snapshots, readable ones     *)
(* keep their raw objects, what may not be removed is not, and the         *)
(* machinery implements CurrentSnapshot.                                   *)
(***************************************************************************)
EXTENDS SnapshotPublication, FiniteSetTheorems, WellFoundedInduction, TLAPS

Replacing == {"central", "local", "rollback", "published", "trim"}
Replaced  == {"local", "rollback", "published", "trim"}

\* What a publication in progress relies on.
RunInv ==
  /\ phase \in Replacing => gen[new] = "whole"
  /\ phase \in Replaced => central = new
  /\ phase = "central" => prior = central
  /\ phase \in {"local", "rollback"} /\ prior # 0 => gen[prior] = "whole"
  /\ phase = "trim" => new \notin trims

\* A prune has the Project to itself, spares the current snapshot, and counts
\* as dead only what nothing it keeps refers to.
PruneInv ==
  pruning => /\ phase = "idle" /\ central \notin doomed
             /\ \A i \in Id \ doomed : Resolves(i) => ref[i] \notin dead

\* Whatever still has its manifest has its raw object, and so has the run.
EvidenceInv ==
  /\ \A i \in Id : Resolves(i) => ref[i] \in objs
  /\ phase = "run" /\ rec > 0 => rec \in objs

\* Identities not given out yet name nothing.
FreshInv ==
  /\ \A i \in Id : i > last => gen[i] = "absent"
  /\ \A i \in trims \cup doomed : i <= last

IInv == /\ TypeOK /\ CentralServes /\ RunInv /\ PruneInv /\ EvidenceInv
        /\ FreshInv

\* What Beyond selects is among what it is given.
LEMMA BeyondSubset ==
  ASSUME NEW S, NEW k PROVE Beyond(S, k) \subseteq S
BY DEF Beyond

\* Removing a snapshot changes no other and makes none more readable.
LEMMA RemovedShape ==
  ASSUME TypeOK, NEW i \in Id, NEW shape \in Shape, Removed(i, shape)
  PROVE  /\ gen' \in [Id -> Shape]
         /\ \A j \in Id \ {i} : gen'[j] = gen[j]
         /\ gen'[i] = "whole" => gen[i] = "whole"
         /\ gen'[i] = "gutted" => gen[i] \in {"whole", "gutted"}
         /\ gen'[i] = shape
BY DEF TypeOK, Removed, Shape

\* A fresh Project satisfies the invariant (Init).
LEMMA InitInv == Init => IInv
<1> SUFFICES ASSUME Init PROVE IInv
  OBVIOUS
<1> USE PublicationAssumption DEF Init
<1>1. TypeOK
  <2>1. gen \in [Id -> Shape] /\ ref \in [Id -> 0..MaxContent]
    BY DEF Shape
  <2>2. local \in [Location -> 0..MaxId] /\ selected \in [Location -> 0..MaxId]
    OBVIOUS
  <2>3. source \in 0..MaxContent /\ rec \in 0..MaxContent /\ last \in 0..MaxId
        /\ central \in 0..MaxId /\ new \in 0..MaxId /\ prior \in 0..MaxId
    OBVIOUS
  <2>4. phase \in Phase /\ kind \in Kinds \cup {"recover", "none"}
    BY DEF Phase
  <2>5. objs \subseteq Content /\ served \subseteq Id /\ trims \subseteq Id
        /\ torn \in BOOLEAN
        /\ doomed \subseteq Id /\ dead \subseteq Content
    OBVIOUS
  <2> QED BY <2>1, <2>2, <2>3, <2>4, <2>5 DEF TypeOK
<1>2. CentralServes /\ RunInv /\ PruneInv /\ FreshInv
  BY DEF CentralServes, RunInv, Replacing, Replaced, PruneInv, FreshInv, Id
<1>3. EvidenceInv
  BY DEF EvidenceInv, Resolves
<1> QED BY <1>1, <1>2, <1>3 DEF IInv

RunType ==
  /\ phase \in Phase /\ loc \in Location \cup {NoLocation}
  /\ phase # "idle" => loc \in Location
  /\ phase \notin {"idle", "run"} => new \in Id
  /\ kind \in Kinds \cup {"recover", "none"}
  /\ rec \in 0..MaxContent /\ new \in 0..MaxId /\ prior \in 0..MaxId
  /\ trims \subseteq Id

\* A run that has ended is in its types (EndRun).
LEMMA EndRunType == EndRun => RunType'
BY PublicationAssumption DEF EndRun, RunType, Phase

\* Every action keeps the variables in their types (Next).
LEMMA TypeStep == TypeOK /\ [Next]_vars => TypeOK'
<1> SUFFICES ASSUME TypeOK, [Next]_vars PROVE TypeOK'
  OBVIOUS
<1> USE PublicationAssumption DEF disk, run, prune, Phase, Id, Content
<1>1. CASE Write
  BY <1>1 DEF TypeOK, Write
<1>2. ASSUME NEW l \in Location, NEW k \in Kinds, Begin(l, k) PROVE TypeOK'
  <2>1. rec' \in 0..MaxContent
    BY <1>2 DEF TypeOK, Begin
  <2> QED BY <1>2, <2>1 DEF TypeOK, Begin
<1>3. ASSUME NEW l \in Location, Recover(l) PROVE TypeOK'
  BY <1>3 DEF TypeOK, Recover, RecoveryChoice, Whole
<1>4. CASE Capture
  BY <1>4 DEF TypeOK, Capture
<1>5. CASE Leave \/ Reject \/ AfterRecover \/ TrimDone \/ Crash
  <2>1. RunType' /\ UNCHANGED <<source, disk, served, last, prune>>
    BY <1>5, EndRunType DEF Leave, Reject, AfterRecover, TrimDone, Crash
  <2>2. torn' \in BOOLEAN
    BY <1>5 DEF TypeOK, Leave, Reject, AfterRecover, TrimDone, Crash
  <2> QED BY <2>1, <2>2 DEF TypeOK, RunType
<1>6. CASE Create
  <2>1. last + 1 \in Id /\ last' = last + 1
    BY <1>6 DEF TypeOK, Create
  <2>2. gen' \in [Id -> Shape] /\ ref' \in [Id -> 0..MaxContent]
    BY <1>6, <2>1 DEF TypeOK, Create, Shape
  <2>3. RunType'
    <3>1. CASE kind = "candidate"
      <4>1. EndRun
        BY <1>6, <3>1 DEF Create
      <4> QED BY <4>1, EndRunType
    <3>2. CASE kind # "candidate"
      <4>1. /\ phase' \in {"validate", "publish"} /\ new' = last + 1
            /\ UNCHANGED <<loc, kind, rec, prior, trims>> /\ phase = "run"
        BY <1>6, <3>2 DEF Create
      <4> QED BY <4>1, <2>1 DEF TypeOK, RunType
    <3> QED BY <3>1, <3>2
  <2>4. UNCHANGED <<source, objs, central, local, selected, served, torn, prune>>
    BY <1>6 DEF Create
  <2>5. last' \in 0..MaxId
    BY <2>1
  <2> QED BY <2>2, <2>3, <2>4, <2>5 DEF TypeOK, RunType
<1>7. CASE Accept
  BY <1>7 DEF TypeOK, Accept
<1>8. CASE Verify
  <2>1. CASE gen[new] = "whole"
    BY <1>8, <2>1 DEF TypeOK, Verify
  <2>2. CASE gen[new] # "whole"
    BY <1>8, <2>2, EndRunType DEF TypeOK, RunType, Verify
  <2> QED BY <2>1, <2>2
<1>9. CASE ReplaceCentral
  BY <1>9 DEF TypeOK, ReplaceCentral
<1>10. CASE ReplaceLocal
  BY <1>10 DEF TypeOK, ReplaceLocal
<1>11. CASE ReplaceFails
  <2>1. CASE phase = "central"
    BY <1>11, <2>1, EndRunType DEF TypeOK, RunType, ReplaceFails
  <2>2. CASE phase = "local"
    BY <1>11, <2>2 DEF TypeOK, ReplaceFails
  <2> QED BY <1>11, <2>1, <2>2 DEF ReplaceFails
<1>12. CASE Rollback
  <2>1. RunType' /\ central' \in 0..MaxId /\ torn' \in BOOLEAN
    BY <1>12, EndRunType DEF TypeOK, Rollback, Restored
  <2> QED BY <1>12, <2>1 DEF TypeOK, RunType, Rollback
<1>13. ASSUME NEW k \in Depths, AfterIngest(k) PROVE TypeOK'
  <2>1. trims' \subseteq Id
    BY <1>13, BeyondSubset DEF AfterIngest, Trimmable, Generations
  <2> QED BY <1>13, <2>1 DEF TypeOK, AfterIngest
<1>14. ASSUME NEW approve \in BOOLEAN, AfterApply(approve) PROVE TypeOK'
  BY <1>14 DEF TypeOK, AfterApply, EndRun
<1>15. CASE Trim
  <2>1. PICK i \in trims, shape \in Shape : Removed(i, shape) /\ trims' = trims \ {i}
    BY <1>15 DEF Trim
  <2>2. gen' \in [Id -> Shape]
    BY <2>1, RemovedShape DEF TypeOK
  <2> QED BY <1>15, <2>1, <2>2 DEF TypeOK, Trim
<1>16. ASSUME NEW k \in Depths, Plan(k) PROVE TypeOK'
  <2>1. doomed' \subseteq Id /\ dead' \subseteq Content
    BY <1>16, BeyondSubset DEF Plan, Superseded, Generations, Unreferenced, TypeOK
  <2> QED BY <1>16, <2>1 DEF TypeOK, Plan
<1>17. CASE PruneSnapshot
  <2>1. PICK i \in doomed, shape \in Shape :
          /\ Removed(i, shape)
          /\ IF shape = "absent"
             THEN doomed' = doomed \ {i} /\ UNCHANGED <<pruning, dead>>
             ELSE EndPrune
    BY <1>17 DEF PruneSnapshot
  <2>2. gen' \in [Id -> Shape]
    BY <2>1, RemovedShape DEF TypeOK
  <2>3. pruning' \in BOOLEAN /\ doomed' \subseteq Id /\ dead' \subseteq Content
    BY <2>1 DEF TypeOK, EndPrune
  <2> QED BY <1>17, <2>2, <2>3 DEF TypeOK, PruneSnapshot
<1>18. CASE PruneObject
  BY <1>18 DEF TypeOK, PruneObject
<1>19. CASE PruneDone \/ PruneCrash
  BY <1>19 DEF TypeOK, PruneDone, PruneCrash, EndPrune
<1>20. CASE UNCHANGED vars
  BY <1>20 DEF TypeOK, vars
<1> QED
  BY <1>1, <1>2, <1>3, <1>4, <1>5, <1>6, <1>7, <1>8, <1>9, <1>10, <1>11,
     <1>12, <1>13, <1>14, <1>15, <1>16, <1>17, <1>18, <1>19, <1>20
     DEF Next, RunStep, PruneStep

Rest == CentralServes /\ RunInv /\ PruneInv /\ EvidenceInv /\ FreshInv

\* While prunes and runs keep apart, every step of a run keeps what a reader,
\* a rollback and a later prune rely on (RunStep).
LEMMA RunKeeps ==
  ASSUME Apart, IInv, RunStep \/ Crash
  PROVE  Rest'
<1> USE DEF IInv, Rest, disk, run, prune
<1> USE DEF CentralServes, RunInv, Replacing, Replaced, PruneInv, EvidenceInv,
            FreshInv, Resolves
<1>1. CASE Capture
  BY <1>1 DEF Capture, TypeOK
<1>2. CASE Leave \/ Reject \/ AfterRecover \/ TrimDone \/ Crash
  <2>1. EndRun /\ UNCHANGED <<source, disk, served, last, prune>>
    BY <1>2 DEF Leave, Reject, AfterRecover, TrimDone, Crash
  <2>2. ~pruning
    BY <1>2 DEF Leave, Reject, AfterRecover, TrimDone, Crash
  <2> QED BY <2>1, <2>2 DEF EndRun, TypeOK
<1>3. CASE Create
  <2>9. last < MaxId /\ last + 1 \in Id
    BY <1>3, PublicationAssumption DEF Create, TypeOK, Id
  <2>1. /\ phase = "run" /\ last + 1 \in Id /\ last' = last + 1 /\ rec > 0
        /\ gen' = [gen EXCEPT ![last + 1] = "whole"]
        /\ ref' = [ref EXCEPT ![last + 1] = rec]
        /\ UNCHANGED <<source, objs, central, local, selected, served, prune>>
    BY <1>3, <2>9 DEF Create
  <2>7. phase' \in {"idle", "validate", "publish"} /\ trims' \subseteq trims
    <3>1. CASE kind = "candidate"
      <4>1. EndRun
        BY <1>3, <3>1 DEF Create
      <4> QED BY <4>1 DEF EndRun
    <3>2. CASE kind # "candidate"
      BY <1>3, <3>2 DEF Create
    <3> QED BY <3>1, <3>2
  <2>2. \A i \in Id : i # last + 1 => gen'[i] = gen[i] /\ ref'[i] = ref[i]
    BY <2>1 DEF TypeOK
  <2>3. gen'[last + 1] = "whole" /\ ref'[last + 1] = rec
    BY <2>1 DEF TypeOK
  <2>4. CentralServes'
    BY <2>1, <2>2, <2>3 DEF TypeOK, Id
  <2>8. RunInv' /\ PruneInv'
    BY <2>1, <2>7
  <2>5. EvidenceInv'
    BY <2>1, <2>2, <2>3, <2>7 DEF TypeOK
  <2>6. FreshInv'
    BY <2>1, <2>2, <2>3, <2>7 DEF TypeOK, Id
  <2> QED BY <2>4, <2>5, <2>6, <2>8
<1>4. CASE Accept
  BY <1>4 DEF Accept
<1>5. CASE Verify
  <2>1. CASE gen[new] = "whole"
    BY <1>5, <2>1 DEF Verify
  <2>2. CASE gen[new] # "whole"
    BY <1>5, <2>2 DEF Verify, EndRun, TypeOK
  <2> QED BY <2>1, <2>2
<1>6. CASE ReplaceCentral
  BY <1>6 DEF ReplaceCentral
<1>7. CASE ReplaceLocal
  BY <1>7 DEF ReplaceLocal
<1>8. CASE ReplaceFails
  <2>1. CASE phase = "central"
    BY <1>8, <2>1 DEF ReplaceFails, EndRun, TypeOK
  <2>2. CASE phase = "local"
    BY <1>8, <2>2 DEF ReplaceFails
  <2> QED BY <1>8, <2>1, <2>2 DEF ReplaceFails
<1>9. CASE Rollback
  BY <1>9 DEF Rollback, Restored, EndRun, TypeOK
<1>10. ASSUME NEW k \in Depths, AfterIngest(k) PROVE Rest'
  <2>1. trims' \subseteq Generations \ {new}
    BY <1>10, BeyondSubset DEF AfterIngest, Trimmable
  <2>2. \A i \in trims' : i <= last
    BY <2>1 DEF Generations, TypeOK, Id
  <2> QED BY <1>10, <2>1, <2>2 DEF AfterIngest
<1>11. ASSUME NEW approve \in BOOLEAN, AfterApply(approve) PROVE Rest'
  BY <1>11 DEF AfterApply, EndRun, TypeOK
<1>12. CASE Trim
  <2>1. PICK i \in trims, shape \in Shape : Removed(i, shape) /\ trims' = trims \ {i}
    BY <1>12 DEF Trim
  <2>2. i \in Id /\ i # central
    BY <1>12, <2>1 DEF Trim, TypeOK
  <2>3. /\ \A j \in Id \ {i} : gen'[j] = gen[j]
        /\ gen'[i] = "whole" => gen[i] = "whole"
        /\ gen'[i] = "gutted" => gen[i] \in {"whole", "gutted"}
    BY <2>1, <2>2, RemovedShape
  <2>4. /\ phase = "trim" /\ central = new /\ new \notin trims
        /\ UNCHANGED <<source, ref, objs, central, local, selected, served, last,
                       phase, loc, kind, rec, new, prior, prune>>
    BY <1>12 DEF Trim
  <2>5. CentralServes' /\ RunInv' /\ PruneInv'
    BY <2>1, <2>2, <2>3, <2>4 DEF TypeOK, Id
  <2>6. EvidenceInv'
    BY <2>2, <2>3, <2>4
  <2>7. FreshInv'
    <3>1. i <= last /\ i \in Nat /\ last \in Nat
      BY <2>1, <2>2 DEF TypeOK, Id
    <3>2. \A j \in Id : j > last => j # i
      BY <3>1 DEF Id
    <3> QED BY <2>1, <2>3, <2>4, <3>2
  <2> QED BY <2>5, <2>6, <2>7
<1> QED
  BY <1>1, <1>2, <1>3, <1>4, <1>5, <1>6, <1>7, <1>8, <1>9, <1>10, <1>11,
     <1>12 DEF RunStep

\* So does every step of a prune, of the vendor's tool and of the operator who
\* starts something (Plan, PruneStep, Begin, Recover).
LEMMA OthersKeep ==
  ASSUME Apart, IInv,
         \/ Write \/ \E l \in Location : Recover(l) \/ \E k \in Kinds : Begin(l, k)
         \/ \E k \in Depths : Plan(k)
         \/ PruneStep \/ PruneCrash \/ UNCHANGED vars
  PROVE  Rest'
<1> USE DEF IInv, Rest, disk, run, prune
<1> USE DEF CentralServes, RunInv, Replacing, Replaced, PruneInv, EvidenceInv,
            FreshInv, Resolves
<1>1. CASE Write
  BY <1>1 DEF Write
<1>2. ASSUME NEW l \in Location, Recover(l) PROVE Rest'
  BY <1>2 DEF Recover
<1>3. ASSUME NEW l \in Location, NEW k \in Kinds, Begin(l, k) PROVE Rest'
  BY <1>3 DEF Begin, TypeOK
<1>4. ASSUME NEW k \in Depths, Plan(k) PROVE Rest'
  <2>1. /\ doomed' \subseteq Generations \ {central}
        /\ doomed' = Superseded(k)
    BY <1>4, BeyondSubset DEF Plan, Superseded
  <2>2. \A i \in doomed' : i <= last
    BY <2>1 DEF Generations, TypeOK, Id
  <2>3. \A i \in Id \ doomed' : Resolves(i) => ref[i] \notin dead'
    BY <1>4, <2>1 DEF Plan, Unreferenced, Retained, Generations
  <2> QED BY <1>4, <2>1, <2>2, <2>3 DEF Plan
<1>5. CASE PruneSnapshot
  <2>1. PICK i \in doomed, shape \in Shape :
          /\ Removed(i, shape)
          /\ IF shape = "absent"
             THEN doomed' = doomed \ {i} /\ UNCHANGED <<pruning, dead>>
             ELSE EndPrune
    BY <1>5 DEF PruneSnapshot
  <2>2. /\ i \in Id /\ i # central /\ pruning /\ phase = "idle"
        /\ UNCHANGED <<source, ref, objs, central, local, selected, served, last, run>>
    BY <1>5, <2>1 DEF PruneSnapshot, TypeOK
  <2>3. /\ \A j \in Id \ {i} : gen'[j] = gen[j]
        /\ gen'[i] = "whole" => gen[i] = "whole"
        /\ gen'[i] = "gutted" => gen[i] \in {"whole", "gutted"}
        /\ gen'[i] = shape
    BY <2>1, <2>2, RemovedShape
  <2>4. CentralServes' /\ RunInv'
    BY <2>2, <2>3 DEF TypeOK, Id
  <2>5. EvidenceInv'
    BY <2>2, <2>3
  <2>6. PruneInv'
    <3>1. CASE shape = "absent"
      BY <2>1, <2>2, <2>3, <3>1
    <3>2. CASE shape # "absent"
      BY <2>1, <3>2 DEF EndPrune
    <3> QED BY <3>1, <3>2
  <2>7. FreshInv'
    <3>1. i <= last /\ i \in Nat /\ last \in Nat
      BY <2>1, <2>2 DEF TypeOK, Id
    <3>2. \A j \in Id : j > last => j # i
      BY <3>1 DEF Id
    <3>3. doomed' \subseteq doomed
      BY <2>1 DEF EndPrune
    <3> QED BY <2>2, <2>3, <3>2, <3>3
  <2> QED BY <2>4, <2>5, <2>6, <2>7
<1>6. CASE PruneObject
  BY <1>6 DEF PruneObject, TypeOK
<1>7. CASE PruneDone \/ PruneCrash
  BY <1>7 DEF PruneDone, PruneCrash, EndPrune
<1>8. CASE UNCHANGED vars
  BY <1>8 DEF vars
<1> QED
  BY <1>1, <1>2, <1>3, <1>4, <1>5, <1>6, <1>7, <1>8 DEF PruneStep

\* The invariant is inductive while prunes and runs keep apart.
LEMMA StepInv == Apart /\ IInv /\ [Next]_vars => IInv'
<1> SUFFICES ASSUME Apart, IInv, [Next]_vars PROVE IInv'
  OBVIOUS
<1>1. TypeOK'
  BY TypeStep DEF IInv
<1>2. Rest'
  BY RunKeeps, OthersKeep DEF Next
<1> QED BY <1>1, <1>2 DEF IInv, Rest

\* The variables are always in their types, overlapping prunes included.
THEOREM PublicationTypes == Spec => []TypeOK
<1>1. Init => TypeOK
  BY InitInv DEF IInv
<1> QED BY <1>1, TypeStep, PTL DEF Spec

\* While prunes and runs keep apart, every reachable state satisfies the invariant.
LEMMA InvHolds == Apart => (Spec => []IInv)
<1> SUFFICES ASSUME Apart PROVE Spec => []IInv
  OBVIOUS
<1>1. IInv /\ [Next]_vars => IInv'
  BY StepInv
<1> QED BY <1>1, InitInv, PTL DEF Spec

\* While prunes and runs keep apart, the central pointer never leads nowhere:
\* not through a failed or interrupted publication, a trim or a prune.
THEOREM ReaderIsServed == Apart => (Spec => []CentralServes)
<1>1. IInv => CentralServes
  BY DEF IInv
<1> QED BY <1>1, InvHolds, PTL

\* While prunes and runs keep apart, every snapshot that can be read has the
\* raw object it names, however prunes and removals fail.
THEOREM EvidenceIsKept == Apart => (Spec => []EvidencePresent)
<1>1. IInv => EvidencePresent
  BY DEF IInv, EvidenceInv, EvidencePresent, Resolves, Whole
<1> QED BY <1>1, InvHolds, PTL

\* The initial state serves nothing and holds nothing.
LEMMA PromiseInit == Init => Promise!Init
BY DEF Init, Promise!Init, Serving, Whole

\* Every step of the machinery is a step of the promise, or none of its own.
LEMMA PromiseStep ==
  ASSUME Apart, IInv, [Next]_vars
  PROVE  [Promise!Next]_(Promise!vars)
<1> USE DEF IInv, disk, run, prune
<1>a. ASSUME Serving' = Serving, Whole' = Whole
      PROVE  [Promise!Next]_(Promise!vars)
  BY <1>a DEF Promise!vars
<1>1. CASE Write \/ Capture \/ Accept \/ UNCHANGED vars
  BY <1>1, <1>a DEF Write, Capture, Accept, vars, Serving, Whole
<1>2. ASSUME NEW l \in Location, NEW k \in Kinds, Begin(l, k)
      PROVE  [Promise!Next]_(Promise!vars)
  BY <1>2, <1>a DEF Begin, Serving, Whole
<1>17. ASSUME NEW l \in Location, Recover(l)
       PROVE  [Promise!Next]_(Promise!vars)
  BY <1>17, <1>a DEF Recover, Serving, Whole
<1>3. CASE Create
  <2>1. /\ phase = "run" /\ last + 1 \in Id /\ gen[last + 1] = "absent"
        /\ gen' = [gen EXCEPT ![last + 1] = "whole"] /\ central' = central
    BY <1>3, PublicationAssumption DEF Create, FreshInv, TypeOK, Id
  <2>2. phase' \notin {"local", "rollback"}
    <3>1. CASE kind = "candidate"
      BY <1>3, <3>1 DEF Create, EndRun
    <3>2. CASE kind # "candidate"
      BY <1>3, <3>2 DEF Create
    <3> QED BY <3>1, <3>2
  <2>3. Serving' = Serving
    BY <2>1, <2>2 DEF Serving
  <2>4. Whole' = Whole \cup {last + 1} /\ last + 1 \notin Whole
    BY <2>1 DEF Whole, TypeOK
  <2> QED BY <2>1, <2>3, <2>4 DEF Promise!Next, Promise!Build
<1>4. CASE Leave \/ Reject \/ AfterRecover \/ TrimDone
  BY <1>4, <1>a DEF Leave, Reject, AfterRecover, TrimDone, EndRun, Serving, Whole
<1>5. CASE Verify
  <2>1. phase' \in {"idle", "central"} /\ phase = "publish" /\ UNCHANGED disk
    BY <1>5 DEF Verify, EndRun
  <2> QED BY <2>1, <1>a DEF Serving, Whole
<1>6. CASE ReplaceCentral
  BY <1>6, <1>a DEF ReplaceCentral, RunInv, Serving, Whole
<1>c. ASSUME phase \in {"local", "rollback"},
             phase' \notin {"local", "rollback"}, central' = central,
             UNCHANGED gen
      PROVE  [Promise!Next]_(Promise!vars)
  <2>1. Serving' = new /\ new \in Whole /\ Whole' = Whole
    BY <1>c DEF Serving, RunInv, Replacing, Replaced, Whole, TypeOK
  <2> QED BY <2>1 DEF Promise!Next, Promise!Publish, Whole
<1>7. CASE ReplaceLocal
  BY <1>7, <1>c DEF ReplaceLocal
<1>8. CASE ReplaceFails
  <2>1. CASE phase = "central"
    BY <1>8, <2>1, <1>a DEF ReplaceFails, EndRun, Serving, Whole
  <2>2. CASE phase = "local"
    BY <1>8, <2>2, <1>a DEF ReplaceFails, Serving, Whole
  <2> QED BY <1>8, <2>1, <2>2 DEF ReplaceFails
<1>9. CASE Rollback
  <2>1. CASE central' = prior
    BY <1>9, <2>1, <1>a DEF Rollback, EndRun, Serving, Whole
  <2>2. CASE central' = central
    BY <1>9, <2>2, <1>c DEF Rollback, EndRun
  <2> QED BY <1>9, <2>1, <2>2 DEF Rollback, Restored
<1>10. ASSUME NEW k \in Depths, AfterIngest(k)
       PROVE  [Promise!Next]_(Promise!vars)
  BY <1>10, <1>a DEF AfterIngest, Serving, Whole
<1>11. ASSUME NEW approve \in BOOLEAN, AfterApply(approve)
       PROVE  [Promise!Next]_(Promise!vars)
  BY <1>11, <1>a DEF AfterApply, EndRun, Serving, Whole
<1>12. CASE Crash
  <2>1. phase' = "idle" /\ UNCHANGED disk
    BY <1>12 DEF Crash, EndRun
  <2>2. CASE phase \in {"local", "rollback"}
    BY <2>1, <2>2, <1>c
  <2>3. CASE phase \notin {"local", "rollback"}
    BY <2>1, <2>3, <1>a DEF Serving, Whole
  <2> QED BY <2>2, <2>3
<1>d. ASSUME NEW i \in Id, NEW shape \in Shape, Removed(i, shape),
             i # central, phase \notin {"local", "rollback"},
             UNCHANGED <<phase, central>>
      PROVE  [Promise!Next]_(Promise!vars)
  <2>1. Serving = central /\ Serving' = central
    BY <1>d DEF Serving
  <2>2. /\ \A j \in Id \ {i} : gen'[j] = gen[j]
        /\ gen'[i] = "whole" => gen[i] = "whole"
    BY <1>d, RemovedShape
  <2>3. CASE gen[i] = "whole" /\ gen'[i] # "whole"
    <3>1. i \in Whole /\ Whole' = Whole \ {i}
      BY <2>2, <2>3 DEF Whole
    <3> QED BY <2>1, <3>1, <1>d DEF Promise!Next, Promise!Discard
  <2>4. CASE ~(gen[i] = "whole" /\ gen'[i] # "whole")
    <3>1. Whole' = Whole
      BY <2>2, <2>4 DEF Whole
    <3> QED BY <2>1, <3>1, <1>a
  <2> QED BY <2>3, <2>4
<1>13. CASE Trim
  <2>1. PICK i \in trims, shape \in Shape : Removed(i, shape)
    BY <1>13 DEF Trim
  <2>2. /\ i \in Id /\ i # central /\ phase = "trim"
        /\ UNCHANGED <<phase, central>>
    BY <1>13, <2>1 DEF Trim, TypeOK, RunInv, Replaced
  <2> QED BY <2>1, <2>2, <1>d
<1>14. CASE PruneSnapshot
  <2>1. PICK i \in doomed, shape \in Shape : Removed(i, shape)
    BY <1>14 DEF PruneSnapshot
  <2>2. /\ i \in Id /\ i # central /\ phase = "idle"
        /\ UNCHANGED <<phase, central>>
    BY <1>14, <2>1 DEF PruneSnapshot, TypeOK, PruneInv
  <2> QED BY <2>1, <2>2, <1>d
<1>15. ASSUME NEW k \in Depths, Plan(k) PROVE [Promise!Next]_(Promise!vars)
  BY <1>15, <1>a DEF Plan, Serving, Whole
<1>16. CASE PruneObject \/ PruneDone \/ PruneCrash
  BY <1>16, <1>a DEF PruneObject, PruneDone, PruneCrash, Serving, Whole
<1> QED
  BY <1>1, <1>2, <1>3, <1>4, <1>5, <1>6, <1>7, <1>8, <1>9, <1>10, <1>11,
     <1>12, <1>13, <1>14, <1>15, <1>16, <1>17 DEF Next, RunStep, PruneStep

\* While prunes and runs keep apart, the machinery implements CurrentSnapshot:
\* what readers are served changes in one step, to a snapshot that is whole,
\* and is never taken from under them.
THEOREM ImplementsPromise == Apart => (Spec => KeepsPromise)
<1> SUFFICES ASSUME Apart PROVE Spec => KeepsPromise
  OBVIOUS
<1>1. IInv /\ [Next]_vars => [Promise!Next]_(Promise!vars)
  BY PromiseStep
<1>2. Spec => []IInv
  BY InvHolds
<1> QED
  BY <1>1, <1>2, PromiseInit, PTL DEF Spec, KeepsPromise, Promise!Spec

-----------------------------------------------------------------------------
(* The pair of pointers is replaced as a whole, and neither retention path   *)
(* takes what a catalog selects or, for a prune, what a pointer names.       *)

\* Where the pointers agree, or agreed before the publication in progress.
PairInv ==
  /\ phase = "central" => prior = central
  /\ phase \in {"local", "rollback"} => central = new
  /\ phase \notin {"local", "rollback"} /\ central # 0 /\ ~torn
       => \E l \in Location : local[l] = central
  /\ phase \in {"local", "rollback"} /\ prior # 0 /\ ~torn
       => \E l \in Location : local[l] = prior

\* A Project without pointers has no pair to disagree.
LEMMA PairInit == Init => PairInv
BY DEF Init, PairInv

\* Every step keeps the pair together or notes that it was cut short.
LEMMA PairStep == TypeOK /\ PairInv /\ [Next]_vars => PairInv'
<1> SUFFICES ASSUME TypeOK, PairInv, [Next]_vars PROVE PairInv'
  OBVIOUS
<1> USE DEF PairInv, disk, run, prune
<1>1. CASE Write \/ Capture \/ UNCHANGED vars
  BY <1>1 DEF Write, Capture, vars
<1>2. ASSUME NEW l \in Location, NEW k \in Kinds, Begin(l, k) PROVE PairInv'
  BY <1>2 DEF Begin
<1>3. ASSUME NEW l \in Location, Recover(l) PROVE PairInv'
  BY <1>3 DEF Recover
<1>4. CASE Leave \/ Reject \/ AfterRecover \/ TrimDone
  BY <1>4 DEF Leave, Reject, AfterRecover, TrimDone, EndRun
<1>5. CASE Create
  <2>1. /\ phase = "run" /\ phase' \in {"idle", "validate", "publish"}
        /\ UNCHANGED <<central, local, torn>>
    BY <1>5 DEF Create, EndRun
  <2> QED BY <2>1
<1>6. CASE Accept
  BY <1>6 DEF Accept
<1>7. CASE Verify
  BY <1>7 DEF Verify, EndRun
<1>8. CASE ReplaceCentral
  BY <1>8 DEF ReplaceCentral
<1>9. CASE ReplaceLocal
  <2>1. loc \in Location /\ local' = [local EXCEPT ![loc] = new]
    BY <1>9 DEF ReplaceLocal, TypeOK
  <2>2. local'[loc] = new
    BY <2>1 DEF TypeOK
  <2> QED BY <1>9, <2>1, <2>2 DEF ReplaceLocal
<1>10. CASE ReplaceFails
  BY <1>10 DEF ReplaceFails, EndRun
<1>11. CASE Rollback
  BY <1>11 DEF Rollback, Restored, EndRun
<1>12. ASSUME NEW k \in Depths, AfterIngest(k) PROVE PairInv'
  BY <1>12 DEF AfterIngest
<1>13. ASSUME NEW approve \in BOOLEAN, AfterApply(approve) PROVE PairInv'
  BY <1>13 DEF AfterApply, EndRun
<1>14. CASE Trim
  BY <1>14 DEF Trim
<1>15. CASE Crash
  BY <1>15 DEF Crash, EndRun
<1>16. ASSUME NEW k \in Depths, Plan(k) PROVE PairInv'
  BY <1>16 DEF Plan
<1>17. CASE PruneSnapshot \/ PruneObject \/ PruneDone \/ PruneCrash
  BY <1>17 DEF PruneSnapshot, PruneObject, PruneDone, PruneCrash
<1> QED
  BY <1>1, <1>2, <1>3, <1>4, <1>5, <1>6, <1>7, <1>8, <1>9, <1>10, <1>11,
     <1>12, <1>13, <1>14, <1>15, <1>16, <1>17 DEF Next, RunStep, PruneStep

\* The central and the local pointers are replaced as a whole or not at all,
\* unless the replacement was cut short (publish_snapshot).
THEOREM PairStaysTogether == Spec => []PointersAgree
<1>1. PairInv => PointersAgree
  BY DEF PairInv, PointersAgree
<1>2. Init => TypeOK
  BY InitInv DEF IInv
<1> QED BY <1>1, <1>2, PairInit, PairStep, TypeStep, PTL DEF Spec

-----------------------------------------------------------------------------
\* What a trim or a prune has still to remove is nothing a catalog selects,
\* nor, for a prune, what a pointer names.
KeepInv ==
  /\ trims \cap Selected = {}
  /\ pruning => doomed \cap Selected = {} /\ \A l \in Location : local[l] \notin doomed

\* Initially nothing is to be removed.
LEMMA KeepInit == Init => KeepInv
BY DEF Init, KeepInv

\* Every step of a run keeps it: while one is in progress no prune is.
LEMMA KeepRun ==
  ASSUME IInv, KeepInv, RunStep \/ Crash
  PROVE  KeepInv'
<1> USE DEF KeepInv, Selected, disk, run, prune
<1>0. ~pruning /\ UNCHANGED prune
  BY DEF IInv, PruneInv, RunStep, Crash, Capture, Leave, Create, Accept, Reject,
         Verify, ReplaceCentral, ReplaceLocal, ReplaceFails, Rollback,
         AfterIngest, AfterApply, AfterRecover, Trim, TrimDone
<1>1. CASE \E approve \in BOOLEAN : AfterApply(approve)
  <2>1. trims' = {}
    BY <1>1 DEF AfterApply, EndRun
  <2> QED BY <2>1, <1>0
<1>2. ASSUME NEW k \in Depths, AfterIngest(k) PROVE KeepInv'
  <2>1. trims' \subseteq Trimmable /\ UNCHANGED selected
    BY <1>2, BeyondSubset DEF AfterIngest
  <2>2. trims' \cap {selected[l] : l \in Location} = {}
    BY <2>1 DEF Trimmable
  <2> QED BY <1>0, <2>1, <2>2
<1>3. CASE RunStep \/ Crash
  <2>1. \/ \E approve \in BOOLEAN : AfterApply(approve)
        \/ \E k \in Depths : AfterIngest(k)
        \/ trims' \subseteq trims /\ UNCHANGED selected
    BY <1>3 DEF RunStep, Crash, Capture, Leave, Create, Accept, Reject, Verify,
         ReplaceCentral, ReplaceLocal, ReplaceFails, Rollback, AfterRecover,
         Trim, TrimDone, EndRun
  <2>2. ASSUME trims' \subseteq trims, UNCHANGED selected PROVE KeepInv'
    BY <2>2, <1>0
  <2> QED BY <1>1, <1>2, <2>1, <2>2
<1> QED BY <1>3

\* So does every other step: a plan is refused otherwise (Safe).
LEMMA KeepOthers ==
  ASSUME IInv, KeepInv,
         \/ Write \/ \E l \in Location : Recover(l) \/ \E k \in Kinds : Begin(l, k)
         \/ \E k \in Depths : Plan(k)
         \/ PruneStep \/ PruneCrash \/ UNCHANGED vars
  PROVE  KeepInv'
<1> USE DEF KeepInv, Selected, disk, run, prune
<1>1. ASSUME NEW k \in Depths, Plan(k) PROVE KeepInv'
  <2>1. /\ doomed' = Superseded(k) /\ UNCHANGED <<trims, selected, local>>
        /\ \A l \in Location : local[l] \notin Superseded(k)
        /\ Selected \cap Superseded(k) = {}
    BY <1>1 DEF Plan, Safe
  <2> QED BY <2>1
<1>2. CASE \/ Write \/ UNCHANGED vars
           \/ \E l \in Location : Recover(l) \/ \E k \in Kinds : Begin(l, k)
  BY <1>2 DEF Write, vars, Recover, Begin
<1>3. CASE PruneStep \/ PruneCrash
  <2>1. /\ UNCHANGED <<trims, selected, local>>
        /\ pruning' => pruning /\ doomed' \subseteq doomed
    BY <1>3 DEF PruneStep, PruneSnapshot, PruneObject, PruneDone, PruneCrash, EndPrune
  <2> QED BY <2>1
<1> QED BY <1>1, <1>2, <1>3

\* While prunes and runs keep apart, what is to be removed stays clear.
LEMMA KeepHolds == Apart => (Spec => [](IInv /\ KeepInv))
<1> SUFFICES ASSUME Apart PROVE Spec => [](IInv /\ KeepInv)
  OBVIOUS
<1>1. IInv /\ KeepInv /\ [Next]_vars => KeepInv'
  BY KeepRun, KeepOthers DEF Next
<1>2. Spec => []IInv
  BY InvHolds
<1> QED BY <1>1, <1>2, KeepInit, PTL DEF Spec

\* A snapshot loses its whole shape only to a trim or a prune that was to
\* remove it (Trim, PruneSnapshot).
LEMMA OnlyDoomed ==
  ASSUME IInv, [Next]_vars, NEW i \in Id, gen'[i] # gen[i], gen[i] = "whole"
  PROVE  \/ i \in trims /\ phase = "trim"
         \/ i \in doomed /\ pruning
<1> USE DEF disk, run, prune
<1>1. CASE Create
  <2>1. last + 1 \in Id /\ gen' = [gen EXCEPT ![last + 1] = "whole"]
    BY <1>1, PublicationAssumption DEF Create, IInv, TypeOK, Id
  <2> QED BY <2>1 DEF IInv, TypeOK
<1>2. CASE Trim
  <2>1. PICK j \in trims, shape \in Shape : Removed(j, shape) /\ phase = "trim"
    BY <1>2 DEF Trim
  <2>2. j \in Id
    BY DEF IInv, TypeOK
  <2>3. i = j
    BY <2>1, <2>2, RemovedShape DEF IInv
  <2> QED BY <2>1, <2>3
<1>3. CASE PruneSnapshot
  <2>1. PICK j \in doomed, shape \in Shape : Removed(j, shape) /\ pruning
    BY <1>3 DEF PruneSnapshot
  <2>2. j \in Id
    BY DEF IInv, TypeOK
  <2>3. i = j
    BY <2>1, <2>2, RemovedShape DEF IInv
  <2> QED BY <2>1, <2>3
<1>4. CASE ~Create /\ ~Trim /\ ~PruneSnapshot
  <2>1. UNCHANGED gen
    BY <1>4 DEF Next, RunStep, PruneStep, Write, Recover, Begin, Capture, Leave,
         Accept, Reject, Verify, ReplaceCentral, ReplaceLocal, ReplaceFails,
         Rollback, AfterIngest, AfterApply, AfterRecover, TrimDone, Crash, Plan,
         PruneObject, PruneDone, PruneCrash, vars
  <2> QED BY <2>1
<1> QED BY <1>1, <1>2, <1>3, <1>4

\* While prunes and runs keep apart, neither a trim nor a prune takes what an
\* approved catalog selects (_trim_prior_snapshots, build_retention_plan).
THEOREM SelectionIsKept == Apart => (Spec => SelectedKept)
<1> SUFFICES ASSUME Apart PROVE Spec => SelectedKept
  OBVIOUS
<1>1. IInv /\ KeepInv /\ [Next]_vars
        => [\A i \in Selected \cap Whole : gen'[i] = "whole"]_vars
  <2> SUFFICES ASSUME IInv, KeepInv, [Next]_vars, NEW i \in Selected \cap Whole
               PROVE  gen'[i] = "whole"
    OBVIOUS
  <2>1. i \in Id /\ gen[i] = "whole"
    BY DEF Whole
  <2>2. i \notin trims /\ (pruning => i \notin doomed)
    BY DEF KeepInv
  <2> QED BY <2>1, <2>2, OnlyDoomed
<1>2. Spec => [](IInv /\ KeepInv)
  BY KeepHolds
<1> QED BY <1>1, <1>2, PTL DEF Spec, SelectedKept

\* While prunes and runs keep apart, a prune never takes the snapshot the
\* pointer of a location names (build_retention_plan).
THEOREM PointersAreSpared == Apart => (Spec => PruneSparesPointers)
<1> SUFFICES ASSUME Apart PROVE Spec => PruneSparesPointers
  OBVIOUS
<1>1. IInv /\ KeepInv /\ [Next]_vars
        => [pruning => \A l \in Location : Resolves(local[l])
                          => gen'[local[l]] = gen[local[l]]]_vars
  <2> SUFFICES ASSUME IInv, KeepInv, [Next]_vars, pruning, NEW l \in Location,
                      Resolves(local[l])
               PROVE  gen'[local[l]] = gen[local[l]]
    OBVIOUS
  <2>1. local[l] \in Id /\ local[l] \notin doomed /\ phase = "idle"
    BY DEF KeepInv, IInv, PruneInv, Resolves
  <2>2. CASE PruneSnapshot
    <3>1. PICK j \in doomed, shape \in Shape : Removed(j, shape)
      BY <2>2 DEF PruneSnapshot
    <3> QED BY <2>1, <3>1, RemovedShape DEF IInv, TypeOK
  <2>3. CASE ~PruneSnapshot
    <3>1. UNCHANGED gen
      BY <2>1, <2>3 DEF Next, RunStep, PruneStep, Write, Recover, Begin, Capture,
           Leave, Create, Accept, Reject, Verify, ReplaceCentral, ReplaceLocal,
           ReplaceFails, Rollback, AfterIngest, AfterApply, AfterRecover, Trim,
           TrimDone, Crash, Plan, PruneObject, PruneDone, PruneCrash, vars,
           disk, run, prune
    <3> QED BY <3>1
  <2> QED BY <2>2, <2>3
<1>2. Spec => [](IInv /\ KeepInv)
  BY KeepHolds
<1> QED BY <1>1, <1>2, PTL DEF Spec, PruneSparesPointers

-----------------------------------------------------------------------------
(* What a Project of one location, and a retained total above one, have more. *)

Single == \A l, m \in Location : l = m

\* What the location names is whole, and at a trim it is what was published.
LocalInv ==
  /\ LocalServes
  /\ phase \in {"published", "trim"} => \A l \in Location : local[l] = new

\* Nothing is named at first.
LEMMA LocalInit == Init => LocalInv
BY DEF Init, LocalInv, LocalServes

\* Every step keeps it: what is removed is not what was published last.
LEMMA LocalStep == Single /\ IInv /\ IInv' /\ KeepInv /\ LocalInv /\ [Next]_vars => LocalInv'
<1> SUFFICES ASSUME Single, IInv, IInv', KeepInv, LocalInv, [Next]_vars PROVE LocalInv'
  OBVIOUS
<1> USE DEF disk, run, prune
<1>1. ASSUME NEW i \in Id, gen[i] = "whole", i \notin trims \/ phase # "trim", ~pruning \/ i \notin doomed
      PROVE  gen'[i] = "whole"
  BY <1>1, OnlyDoomed
<1>2. CASE ReplaceLocal
  <2>1. /\ loc \in Location /\ local' = [local EXCEPT ![loc] = new] /\ gen[new] = "whole"
        /\ UNCHANGED <<gen, new>>
    BY <1>2 DEF ReplaceLocal, IInv, TypeOK, RunInv, Replacing
  <2>2. \A l \in Location : local'[l] = new
    BY <2>1 DEF Single, IInv, TypeOK
  <2> QED BY <2>1, <2>2 DEF LocalInv, LocalServes
<1>3. CASE ~ReplaceLocal
  <2>1. /\ UNCHANGED local
        /\ phase' \in {"published", "trim"} => phase \in {"published", "trim"} /\ new' = new
    BY <1>3 DEF Next, RunStep, PruneStep, Write, Recover, Begin, Capture, Leave, Create,
         Accept, Reject, Verify, ReplaceCentral, ReplaceFails, Rollback, AfterIngest, AfterApply,
         AfterRecover, Trim, TrimDone, Crash, Plan, PruneSnapshot, PruneObject, PruneDone,
         PruneCrash, vars, EndRun
  <2>2. ASSUME NEW l \in Location, local[l] # 0 PROVE gen'[local[l]] = "whole"
    <3>1. local[l] \in Id /\ gen[local[l]] = "whole"
      <4>1. local[l] \in 0..MaxId /\ MaxId \in Nat
        BY PublicationAssumption DEF IInv, TypeOK, PublicationAssumption
      <4>2. local[l] \in Id
        BY <2>2, <4>1 DEF Id
      <4> QED BY <2>2, <4>2 DEF LocalInv, LocalServes
    <3>2. phase = "trim" => local[l] \notin trims
      BY DEF LocalInv, IInv, RunInv
    <3>3. pruning => local[l] \notin doomed
      BY DEF KeepInv
    <3> QED BY <1>1, <3>1, <3>2, <3>3
  <2> QED BY <2>1, <2>2 DEF LocalInv, LocalServes
<1> QED BY <1>2, <1>3

\* While prunes and runs keep apart, the pointer of the one location of a Project
\* leads to a whole snapshot, whatever total is retained and whatever fails: it is
\* replaced before anything is trimmed (publish_snapshot, _trim_prior_snapshots).
THEOREM LocationIsServed == Apart /\ Single => (Spec => []LocalServes)
<1> SUFFICES ASSUME Apart, Single PROVE Spec => []LocalServes
  OBVIOUS
<1>1. IInv /\ IInv' /\ KeepInv /\ LocalInv /\ [Next]_vars => LocalInv'
  BY LocalStep
<1>2. LocalInv => LocalServes
  BY DEF LocalInv
<1>3. Spec => [](IInv /\ KeepInv)
  BY KeepHolds
<1> QED BY <1>1, <1>2, <1>3, LocalInit, PTL DEF Spec

-----------------------------------------------------------------------------
\* The newest of some snapshots, by the order of their numbers.
Less == OpToRel(<, Nat)

\* The order of the numbers, as a relation.
LEMMA LessIsWellFounded ==
  /\ IsWellFoundedOn(Less, Nat)
  /\ \A x, y \in Nat : <<x, y>> \in Less <=> x < y
<1>1. IsWellFoundedOn(Less, Nat)
  BY NatLessThanWellFounded, Zenon DEF Less
<1>2. \A x, y \in Nat : <<x, y>> \in Less <=> x < y
  BY DEF Less, OpToRel
<1> QED BY <1>1, <1>2

\* Of some snapshots one is the newest.
LEMMA NewestExists ==
  ASSUME NEW S, S \subseteq Id, S # {}
  PROVE  \E i \in S : \A j \in S : j <= i
<1>. DEFINE T == {m \in Nat : \E i \in S : m = MaxId - i}
<1>0. MaxId \in Nat /\ S \subseteq Nat /\ \A i \in S : i <= MaxId
  BY PublicationAssumption DEF PublicationAssumption, Id
<1>1. \A i \in S : MaxId - i \in T
  BY <1>0
<1>2. T \subseteq Nat /\ T # {}
  BY <1>1
<1>3. \A m \in T : \E i \in S : m = MaxId - i
  OBVIOUS
<1>. HIDE DEF T
<1>4. PICK x \in T : \A y \in T : ~(<<y, x>> \in Less)
  <2>1. IsWellFoundedOn(Less, Nat)
    BY LessIsWellFounded
  <2> QED BY <1>2, <2>1, WFMin, Zenon
<1>5. PICK i \in S : x = MaxId - i
  BY <1>3
<1>6. ASSUME NEW j \in S PROVE j <= i
  <2>1. x \in Nat /\ MaxId - j \in Nat /\ ~(<<MaxId - j, x>> \in Less)
    BY <1>1, <1>2, <1>4
  <2>2. ~(MaxId - j < x)
    BY <2>1, LessIsWellFounded
  <2> QED BY <1>0, <1>5, <2>2
<1> QED BY <1>6

\* A retained total above one keeps one of the superseded snapshots.
LEMMA BeyondSpares ==
  ASSUME NEW S, S \subseteq Id, S # {}, NEW k \in Nat \ {1}
  PROVE  \E m \in S : m \notin Beyond(S, k)
<1>1. PICK m \in S : \A j \in S : j <= m
  BY NewestExists
<1>2. {j \in S : j > m} = {}
  <2>1. m \in Nat /\ S \subseteq Nat
    <3>1. MaxId \in Nat
      BY PublicationAssumption DEF PublicationAssumption
    <3> QED BY <3>1 DEF Id
  <2>2. \A j \in S : ~(j > m)
    BY <1>1, <2>1
  <2> QED BY <2>2
<1>3. Cardinality({j \in S : j > m}) = 0
  BY <1>2, FS_EmptySet
<1>4. ~(k > 0 /\ Cardinality({j \in S : j > m}) + 1 >= k)
  BY <1>3
<1>5. m \notin Beyond(S, k)
  BY <1>4 DEF Beyond
<1> QED BY <1>5

\* What is left after a trim or a prune: a snapshot that is neither the current
\* one nor to be removed.
Spares(i, removals) == \E m \in Generations : m # i /\ m \notin removals

SpareInv ==
  /\ phase = "trim" /\ trims # {} => Spares(new, trims)
  /\ pruning /\ doomed # {} => Spares(central, doomed)

\* Nothing is to be removed at first.
LEMMA SpareInit == Init => SpareInv
BY DEF Init, SpareInv

\* Every removal spares it.
LEMMA SpareStep ==
  1 \notin Depths /\ IInv /\ IInv' /\ SpareInv /\ [Next]_vars => SpareInv'
<1> SUFFICES ASSUME 1 \notin Depths, IInv, IInv', SpareInv, [Next]_vars PROVE SpareInv'
  OBVIOUS
<1> USE DEF disk, run, prune
<1>0. /\ TypeOK /\ TypeOK' /\ ~(phase = "trim" /\ pruning) /\ ~(phase' = "trim" /\ pruning')
      /\ Generations \subseteq Id
  BY DEF Generations, IInv, PruneInv
<1>a. ASSUME NEW S, S \subseteq Generations, NEW k \in Depths, Beyond(S, k) # {}
      PROVE  \E m \in S : m \notin Beyond(S, k)
  <2>1. k \in Nat \ {1} /\ S \subseteq Id /\ S # {}
    <3>1. k \in Nat /\ k # 1
      BY PublicationAssumption DEF PublicationAssumption
    <3>2. S # {}
      BY <1>a, BeyondSubset
    <3> QED BY <1>0, <1>a, <3>1, <3>2
  <2> QED BY <2>1, BeyondSpares
<1>b. ASSUME NEW i \in Id, NEW shape \in Shape, Removed(i, shape), NEW m \in Generations, m # i
      PROVE  m \in Generations'
  BY <1>0, <1>b, RemovedShape DEF Generations
<1>1. ASSUME NEW k \in Depths, AfterIngest(k) PROVE SpareInv'
  <2>1. /\ trims' = Beyond(Trimmable, k) \/ trims' = {}
        /\ UNCHANGED <<new, gen>> /\ phase' = "trim"
    BY <1>1 DEF AfterIngest
  <2>2. ASSUME trims' # {} PROVE \E m \in Generations' : m # new' /\ m \notin trims'
    <3>1. Trimmable \subseteq Generations /\ new \notin Trimmable
      BY DEF Trimmable
    <3>2. PICK m \in Trimmable : m \notin trims'
      BY <1>a, <2>1, <2>2, <3>1
    <3> QED BY <2>1, <3>1, <3>2 DEF Generations
  <2> QED BY <1>0, <2>1, <2>2 DEF SpareInv, Spares
<1>2. CASE Trim
  <2>1. PICK i \in trims, shape \in Shape : Removed(i, shape) /\ trims' = trims \ {i}
    BY <1>2 DEF Trim
  <2>2. i \in Id /\ phase = "trim" /\ phase' = "trim" /\ new' = new
    BY <1>0, <1>2 DEF Trim, TypeOK
  <2>3. PICK m \in Generations : m # new /\ m \notin trims
    BY <2>1, <2>2 DEF SpareInv, Spares
  <2>4. m \in Generations'
    BY <1>b, <2>1, <2>2, <2>3
  <2> QED BY <1>0, <2>1, <2>2, <2>3, <2>4 DEF SpareInv, Spares
<1>3. ASSUME NEW k \in Depths, Plan(k) PROVE SpareInv'
  <2>1. doomed' = Beyond(Generations \ {central}, k) /\ UNCHANGED <<gen, central>> /\ pruning'
    BY <1>3 DEF Plan, Superseded
  <2>2. ASSUME doomed' # {} PROVE \E m \in Generations' : m # central' /\ m \notin doomed'
    <3>1. PICK m \in Generations \ {central} : m \notin doomed'
      BY <1>a, <2>1, <2>2
    <3> QED BY <2>1, <3>1 DEF Generations
  <2> QED BY <1>0, <2>1, <2>2 DEF SpareInv, Spares
<1>4. CASE PruneSnapshot
  <2>1. PICK i \in doomed, shape \in Shape :
          Removed(i, shape) /\ (pruning' => doomed' = doomed \ {i})
    BY <1>4 DEF PruneSnapshot, EndPrune
  <2>2. i \in Id /\ pruning /\ central' = central /\ phase' = phase
    BY <1>0, <1>4 DEF PruneSnapshot, TypeOK
  <2>3. PICK m \in Generations : m # central /\ m \notin doomed
    BY <2>1, <2>2 DEF SpareInv, Spares
  <2>4. m \in Generations'
    BY <1>b, <2>1, <2>2, <2>3
  <2> QED BY <1>0, <2>1, <2>2, <2>3, <2>4 DEF SpareInv, Spares
<1>5. CASE Create
  <2>1. phase = "run" /\ phase' # "trim" /\ UNCHANGED prune
    BY <1>5 DEF Create, EndRun
  <2>2. ~pruning
    BY <2>1 DEF IInv, PruneInv
  <2> QED BY <2>1, <2>2 DEF SpareInv
<1>6. CASE /\ ~Create /\ ~Trim /\ ~PruneSnapshot
           /\ ~ \E k \in Depths : AfterIngest(k) \/ Plan(k)
  <2>1. /\ UNCHANGED gen
        /\ phase' = "trim" => phase = "trim" /\ UNCHANGED <<trims, new>>
        /\ pruning' => pruning /\ UNCHANGED doomed
        /\ phase = "idle" => UNCHANGED central
    BY <1>6 DEF Next, RunStep, PruneStep, Write, Recover, Begin, Capture, Leave,
         Accept, Reject, Verify, ReplaceCentral, ReplaceLocal, ReplaceFails,
         Rollback, AfterIngest, AfterApply, AfterRecover, TrimDone, Crash, Plan,
         PruneObject, PruneDone, PruneCrash, EndRun, EndPrune, vars
  <2>2. pruning => phase = "idle"
    BY DEF IInv, PruneInv
  <2> QED BY <2>1, <2>2 DEF SpareInv, Spares, Generations
<1> QED BY <1>1, <1>2, <1>3, <1>4, <1>5, <1>6

\* While prunes and runs keep apart, and as long as every snapshot can be read and
\* was current once, no trim or prune that may keep a past snapshot leaves none to
\* roll back to (superseded_beyond_depth).
THEOREM RollbackTargetIsKept == Apart /\ 1 \notin Depths => (Spec => RollbackKept)
<1> SUFFICES ASSUME Apart, 1 \notin Depths PROVE Spec => RollbackKept
  OBVIOUS
<1>1. IInv /\ IInv' /\ SpareInv /\ [Next]_vars => SpareInv'
  BY SpareStep
<1>2. IInv /\ IInv' /\ SpareInv /\ [Next]_vars =>
        [(Generations = Whole /\ Whole \subseteq served /\ gen' # gen)
           => (RollbackTargets # {} => RollbackTargets' # {})]_vars
  <2> SUFFICES ASSUME IInv, IInv', SpareInv, [Next]_vars, gen' # gen,
                      Generations = Whole, Whole \subseteq served, RollbackTargets # {}
               PROVE  RollbackTargets' # {}
    OBVIOUS
  <2> USE DEF disk, run, prune
  <2>1. TypeOK /\ Generations \subseteq Id
    BY DEF IInv, Generations
  <2>2. ASSUME UNCHANGED <<central, served>>, NEW i \in Id, NEW shape \in Shape, Removed(i, shape),
               NEW m \in Generations, m # i, m # central
        PROVE  RollbackTargets' # {}
    <3>1. gen'[m] = gen[m] /\ gen[m] = "whole" /\ m \in Id
      BY <2>1, <2>2, RemovedShape DEF Whole
    <3>2. m \in Whole' /\ m \in served' /\ m # central'
      BY <2>2, <3>1 DEF Whole
    <3> QED BY <3>2 DEF RollbackTargets
  <2>3. CASE Trim
    <3>1. PICK i \in trims, shape \in Shape : Removed(i, shape)
      BY <2>3 DEF Trim
    <3>2. i \in Id /\ phase = "trim" /\ UNCHANGED <<central, served>> /\ new = central
      BY <2>1, <2>3 DEF Trim, TypeOK, IInv, RunInv, Replaced
    <3>3. PICK m \in Generations : m # new /\ m \notin trims
      BY <3>1, <3>2 DEF SpareInv, Spares
    <3> QED BY <2>2, <3>1, <3>2, <3>3
  <2>4. CASE PruneSnapshot
    <3>1. PICK i \in doomed, shape \in Shape : Removed(i, shape)
      BY <2>4 DEF PruneSnapshot
    <3>2. i \in Id /\ pruning /\ UNCHANGED <<central, served>>
      BY <2>1, <2>4 DEF PruneSnapshot, TypeOK
    <3>3. PICK m \in Generations : m # central /\ m \notin doomed
      BY <3>1, <3>2 DEF SpareInv, Spares
    <3> QED BY <2>2, <3>1, <3>2, <3>3
  <2>5. CASE Create
    <3>1. PICK m \in RollbackTargets : TRUE
      OBVIOUS
    <3>2. m \in Id /\ gen[m] = "whole" /\ m \in served /\ m # central
      BY <3>1 DEF RollbackTargets, Whole
    <3>3. UNCHANGED <<central, served>> /\ gen' = [gen EXCEPT ![last + 1] = "whole"]
      BY <2>5 DEF Create
    <3>4. gen'[m] = "whole"
      BY <2>1, <3>2, <3>3 DEF TypeOK
    <3> QED BY <3>2, <3>3, <3>4 DEF RollbackTargets, Whole
  <2>6. CASE ~Create /\ ~Trim /\ ~PruneSnapshot
    <3>1. UNCHANGED gen
      BY <2>6 DEF Next, RunStep, PruneStep, Write, Recover, Begin, Capture, Leave,
           Accept, Reject, Verify, ReplaceCentral, ReplaceLocal, ReplaceFails,
           Rollback, AfterIngest, AfterApply, AfterRecover, TrimDone, Crash, Plan,
           PruneObject, PruneDone, PruneCrash, vars
    <3> QED BY <3>1
  <2> QED BY <2>3, <2>4, <2>5, <2>6
<1>3. Spec => []IInv
  BY InvHolds
<1> QED BY <1>1, <1>2, <1>3, SpareInit, PTL DEF Spec, RollbackKept
=============================================================================
