------------------------- MODULE CursorCohortProofs -------------------------
(***************************************************************************)
(* Proofs about CursorCohort, for every set of Projects and composers,     *)
(* every selection of runs and any interleaving with Cursor's own writes.  *)
(***************************************************************************)
EXTENDS CursorCohort, TLAPS

\* The steps at which the run goes by its markers.
Known == {"close", "need", "prepare", "projects", "decode", "mark"}

\* A composer that was never written to.
Unborn == {c \in Composer : live[c] = 0 /\ c \notin deleted}

SourceInv ==
  /\ \A c \in Composer : live[c] <= clock
  /\ \A c \in deleted : live[c] = 0

\* Nothing is remembered of a composer before it exists.
UnbornInv ==
  \A c \in Unborn :
    /\ stored[c] = 0 /\ marks[c] = 0 /\ buffer[c] = 0
    /\ saved[Owner[c]] # None => saved[Owner[c]][c] = 0
    /\ \A p \in Project : c \notin headers[p]
    /\ selCache # None => selCache.marks[c] = 0
    /\ cohCache # None => cohCache.marks[c] = 0 /\ cohCache.copy.rows[c] = 0
    /\ cohort # None => cohort.rows[c] = 0

\* Saved markers trail the database, cached ones agree with the container.
SavedInv ==
  \A c \in Exists : saved[Owner[c]] # None => saved[Owner[c]][c] <= live[c]

SelInv ==
  selCache # None =>
    /\ selCache.container <= clock
    /\ \A c \in Exists : selCache.marks[c] <= live[c]
    /\ selCache.container = clock => \A c \in Exists :
         Owner[c] \in selCache.roots =>
           \/ selCache.marks[c] = live[c]
           \/ selCache.marks[c] = 0 /\ c \notin Headed

\* A cached cohort is at least as new as the markers it is cached under.
CohInv ==
  cohCache # None => \A c \in Exists : cohCache.marks[c] <= cohCache.copy.rows[c]

\* The run's markers lie between the saved ones and what it reads; only what has no
\* header may be left out of them.
MarksInv ==
  /\ before <= clock
  /\ step = "close" /\ before = clock =>
       \A c \in Exists : Owner[c] \in opt.roots =>
         \/ marks[c] = live[c]
         \/ marks[c] = 0 /\ c \notin Headed
  /\ step \in Known => \A c \in Exists :
       /\ marks[c] <= live[c]
       /\ Owner[c] \in opt.roots /\ saved[Owner[c]] # None /\ marks[c] # 0 =>
            saved[Owner[c]][c] <= marks[c]

CohortInv ==
  cohort # None => \A c \in Exists : marks[c] <= cohort.rows[c]

BufferInv ==
  /\ todo \subseteq opt.roots
  /\ step \notin {"idle", "headers", "global"} => step \in Known \cup {"open", "read"}
  /\ step \in {"idle", "headers", "global", "open", "read", "close", "need", "prepare"} =>
       cohort = None
  /\ \A p \in Project : headers[p] \subseteq Owned(p)
  /\ left \subseteq Owned(cur)
  /\ step # "decode" => left = {}
  /\ step \in {"decode", "mark"} =>
       \A c \in Exists : buffer[c] # 0 => Owner[c] = cur /\ marks[c] <= buffer[c]
  /\ step = "mark" => \A c \in Owned(cur) : stored[c] = buffer[c]

IInv == /\ CursorTypeOK /\ SourceInv /\ UnbornInv /\ SavedInv /\ SelInv
        /\ CohInv /\ MarksInv /\ CohortInv /\ BufferInv /\ NeverOlder

\* Cursor changes its database.
Written ==
  \E c \in Composer : CursorWrites(c) \/ CursorRelists(c) \/ CursorDeletes(c)

USE CursorAssumption, NoneAssumption DEF CursorAssumption, NoneAssumption

\* The empty memories are well typed.
LEMMA BlankType == Blank \in Rows /\ Blank \in Marks /\ None \notin Rows
                   /\ None \notin Marks /\ None \notin Copies /\ 0 \in Moment
BY DEF Blank, Rows, Marks, Moment

\* CursorInit establishes the invariant.
LEMMA CursorInitInv == CursorInit => IInv
<1> SUFFICES ASSUME CursorInit PROVE IInv
  OBVIOUS
<1> USE BlankType DEF CursorInit
<1>1. live \in Rows /\ clock \in Moment /\ listing \in [Composer -> Listing]
  <2>1. PICK first \in Started :
          /\ live = [c \in Composer |-> IF c \in DOMAIN first THEN 1 ELSE 0]
          /\ listing = [c \in Composer |-> IF c \in DOMAIN first THEN first[c] ELSE "header"]
          /\ clock = IF DOMAIN first = {} THEN 0 ELSE 1
    OBVIOUS
  <2>2. PICK S \in SUBSET Composer : first \in [S -> Listing]
    BY StartedAssumption DEF StartedAssumption
  <2>3. \A c \in DOMAIN first : first[c] \in Listing
    BY <2>2
  <2> QED
    BY <2>1, <2>3 DEF Rows, Moment, Listing
<1>2. \A c \in Composer : live[c] <= clock
  BY <1>1
<1>3. CursorTypeOK
  BY <1>1 DEF CursorTypeOK, Idle, Step
<1> QED
  BY <1>1, <1>2, <1>3 DEF IInv, SourceInv, UnbornInv, SavedInv, SelInv, CohInv, MarksInv,
     CohortInv, BufferInv, NeverOlder, Exists, Unborn, Idle, Known, Blank, Moment, Owned

\* Every action keeps the types.
LEMMA CursorTypes == ASSUME CursorTypeOK, CursorNext PROVE CursorTypeOK'
<1> USE BlankType DEF CursorTypeOK, Step, source, results, caches, chosen, reading,
        taken, decode
<1>1. CASE \E c \in Composer : CursorWrites(c)
  BY <1>1 DEF CursorWrites, Rows, Moment
<1>2. CASE \E c \in Composer : CursorRelists(c) \/ CursorDeletes(c)
  BY <1>2 DEF CursorRelists, CursorDeletes, Rows, Moment, Listing
<1>3. CASE \E c \in Composer : DecodeComposer(c)
  BY <1>3 DEF DecodeComposer, Rows, Database, Copies
<1>4. CASE \E o \in Options : StartRun(o)
  BY <1>4 DEF StartRun, RunOption, Exists
<1>5. CASE \E p \in Project : ReadIndexes(p)
  BY <1>5 DEF ReadIndexes, Listed, Owned
<1>6. CASE \E p \in Project : ReadIndexesShort(p) \/ MissWorkspace(p)
  BY <1>6 DEF ReadIndexesShort, MissWorkspace, Listed, Owned
<1>7. CASE ReadGlobal \/ ReadGlobalShort \/ MissHeaders
  BY <1>7 DEF ReadGlobal, ReadGlobalShort, MissHeaders, Listed, Owned
<1>8. CASE \E p \in Project : SkipProject(p)
  BY <1>8 DEF SkipProject
<1>9. CASE \E p \in Project : PassProject(p)
  BY <1>9 DEF PassProject
<1>10. CASE \E p \in Project : OpenProject(p)
  BY <1>10 DEF OpenProject, HeadersOf, Owned
<1>11. CASE LoseObject
  BY <1>11 DEF LoseObject
<1>12. CASE LookupMarks
  BY <1>12 DEF LookupMarks, CacheAnswers
<1>13. CASE OpenBracket
  BY <1>13 DEF OpenBracket
<1>14. CASE ReadMarks
  BY <1>14 DEF ReadMarks, MarksNow, Marks, Rows
<1>15. CASE CloseBracket
  BY <1>15 DEF CloseBracket, Stable, MayRetry, RunOption, Idle
<1>16. CASE AskCohort
  BY <1>16 DEF AskCohort, RunOption, Idle
<1>17. CASE RestoreCohort
  BY <1>17 DEF RestoreCohort, Reusable, RunOption, Idle
<1>18. CASE CaptureCohort
  BY <1>18 DEF CaptureCohort, RunOption, Idle, Copies, Headed, Exists
<1>19. CASE DecodeFails
  BY <1>19 DEF DecodeFails
<1>20. CASE CommitProject
  BY <1>20 DEF CommitProject, Rows
<1>21. CASE MarkProject
  BY <1>21 DEF MarkProject, Detection, MarkOf, Marks, Moment
<1>22. CASE EndRun
  BY <1>22 DEF EndRun, Leave, Idle
<1> QED
  BY <1>1, <1>2, <1>3, <1>4, <1>5, <1>6, <1>7, <1>8, <1>9, <1>10, <1>11, <1>12,
     <1>13, <1>14, <1>15, <1>16, <1>17, <1>18, <1>19, <1>20, <1>21, <1>22
     DEF CursorNext

\* What the environment and the reads of a run do to the invariants.
LEMMA SourceStep == ASSUME IInv, CursorNext PROVE SourceInv' /\ UnbornInv'
<1> USE BlankType DEF IInv, SourceInv, UnbornInv, Unborn, Exists, source, results,
        caches, chosen, reading, taken, decode
<1>0. CursorTypeOK'
  BY CursorTypes
<1>1. CASE \E c \in Composer : CursorWrites(c)
  BY <1>1 DEF CursorWrites, CursorTypeOK, Rows, Moment
<1>2. CASE \E c \in Composer : CursorRelists(c) \/ CursorDeletes(c)
  BY <1>2 DEF CursorRelists, CursorDeletes, CursorTypeOK, Rows, Moment
<1>3. CASE \E c \in Composer : DecodeComposer(c)
  BY <1>3 DEF DecodeComposer, CursorTypeOK, Rows, Database
<1>4. CASE \E o \in Options : StartRun(o)
  BY <1>4 DEF StartRun
<1>5. CASE \E p \in Project : ReadIndexes(p)
  BY <1>5 DEF ReadIndexes, Listed, Owned, CursorTypeOK
<1>6. CASE \E p \in Project : ReadIndexesShort(p) \/ MissWorkspace(p)
  BY <1>6 DEF ReadIndexesShort, MissWorkspace, Listed, Owned, CursorTypeOK
<1>7. CASE ReadGlobal \/ ReadGlobalShort \/ MissHeaders
  BY <1>7 DEF ReadGlobal, ReadGlobalShort, MissHeaders, Listed, Owned, CursorTypeOK
<1>8. CASE \E p \in Project : SkipProject(p)
  BY <1>8 DEF SkipProject
<1>9. CASE \E p \in Project : PassProject(p)
  BY <1>9 DEF PassProject
<1>10. CASE \E p \in Project : OpenProject(p)
  BY <1>10 DEF OpenProject, Blank
<1>11. CASE LoseObject
  BY <1>11 DEF LoseObject, CursorTypeOK
<1>12. CASE LookupMarks
  BY <1>12 DEF LookupMarks, CacheAnswers
<1>13. CASE OpenBracket
  BY <1>13 DEF OpenBracket
<1>14. CASE ReadMarks
  BY <1>14 DEF ReadMarks, MarksNow, Headed, CursorTypeOK
<1>15. CASE CloseBracket
  BY <1>15 DEF CloseBracket
<1>16. CASE AskCohort
  BY <1>16 DEF AskCohort
<1>17. CASE RestoreCohort
  BY <1>17 DEF RestoreCohort, Reusable
<1>18. CASE CaptureCohort
  BY <1>18 DEF CaptureCohort
<1>19. CASE DecodeFails
  BY <1>19 DEF DecodeFails, Blank
<1>20. CASE CommitProject
  BY <1>20 DEF CommitProject, CursorTypeOK
<1>21. CASE MarkProject
  BY <1>21 DEF MarkProject, Detection, MarkOf, Blank, CursorTypeOK
<1>22. CASE EndRun
  BY <1>22 DEF EndRun, Leave, Blank
<1> QED
  BY <1>1, <1>2, <1>3, <1>4, <1>5, <1>6, <1>7, <1>8, <1>9, <1>10, <1>11, <1>12,
     <1>13, <1>14, <1>15, <1>16, <1>17, <1>18, <1>19, <1>20, <1>21, <1>22
     DEF CursorNext

\* A composer that exists keeps existing or is gone for good, and its content
\* only grows; one that appears was unborn.
LEMMA LiveStep == ASSUME IInv, Written
  PROVE  /\ \A c \in Composer : live'[c] # 0 => \/ live[c] # 0 /\ live[c] <= live'[c]
                                               \/ c \in Unborn
         /\ clock < clock'
         /\ UNCHANGED <<results, caches, step, chosen, reading, taken, todo, decode>>
<1> USE DEF IInv, SourceInv, CursorTypeOK, Rows, Moment, Unborn, results, caches,
        chosen, reading, taken, decode
<1>1. CASE \E c \in Composer : CursorWrites(c)
  BY <1>1 DEF CursorWrites
<1>2. CASE \E c \in Composer : CursorRelists(c)
  BY <1>2 DEF CursorRelists
<1>3. CASE \E c \in Composer : CursorDeletes(c)
  BY <1>3 DEF CursorDeletes
<1> QED
  BY <1>1, <1>2, <1>3 DEF Written

\* Nothing but Cursor's own writes changes the database, and each of them moves
\* its clock.
LEMMA SourceUnlessWritten == ASSUME CursorTypeOK, CursorNext
  PROVE (UNCHANGED source /\ ~Written) \/ (Written /\ clock' # clock)
<1>1. Written => clock' # clock
  BY DEF Written, CursorWrites, CursorRelists, CursorDeletes, CursorTypeOK, Moment
<1>2. ~Written => UNCHANGED source
  BY DEF CursorNext, Written, DecodeComposer, StartRun, ReadIndexes, ReadIndexesShort,
     MissWorkspace, ReadGlobal, ReadGlobalShort, MissHeaders, SkipProject, PassProject,
     OpenProject, LoseObject, LookupMarks, OpenBracket, ReadMarks, CloseBracket, AskCohort,
     RestoreCohort, CaptureCohort, DecodeFails, CommitProject, MarkProject, EndRun
<1>3. clock' # clock => ~UNCHANGED source
  BY DEF source
<1> QED
  BY <1>1, <1>2, <1>3

\* A marker is saved after the database held what it says (MarkProject), and
\* kept in the cache while no write follows it (CloseBracket).
LEMMA MemoryStep == ASSUME IInv, CursorNext PROVE SavedInv' /\ SelInv' /\ CohInv'
<1> USE DEF IInv, Exists
<1>t. CursorTypeOK /\ CursorTypeOK'
  BY CursorTypes
<1>1. CASE Written
  <2> USE <1>1, <1>t, LiveStep DEF results, caches, UnbornInv
  <2>1. SavedInv'
    BY DEF SavedInv, CursorTypeOK, Rows, Marks, Moment, HeaderOnly
  <2>2. SelInv'
    BY DEF SelInv, CursorTypeOK, Rows, Marks, Moment, HeaderOnly
  <2>3. CohInv'
    BY DEF CohInv
  <2> QED
    BY <2>1, <2>2, <2>3
<1>2. CASE UNCHANGED source /\ ~Written
  <2> USE <1>2 DEF source, results, caches, chosen, reading, taken, decode
  <2>1. CASE MarkProject
    <3>1. SavedInv'
      BY <2>1, <1>t DEF MarkProject, Detection, MarkOf, SavedInv, MarksInv, Known,
         CursorTypeOK
    <3> QED
      BY <2>1, <3>1 DEF MarkProject, SelInv, CohInv, Headed
  <2>2. CASE CloseBracket
    BY <2>2, <1>t DEF CloseBracket, Stable, SavedInv, SelInv, CohInv, MarksInv, Known,
       CursorTypeOK, Moment, Headed
  <2>3. CASE CaptureCohort
    BY <2>3, <1>t DEF CaptureCohort, SavedInv, SelInv, CohInv, MarksInv, Known, BufferInv,
       UnbornInv, CursorTypeOK, Rows, Marks, Moment, Idle, RunOption, Headed
  <2>4. CASE LoseObject
    BY <2>4, <1>t DEF LoseObject, SavedInv, SelInv, CohInv, CursorTypeOK, Headed
  <2>5. CASE UNCHANGED <<saved, caches, clock>>
    BY <2>5 DEF SavedInv, SelInv, CohInv, Headed
  <2> QED
    BY <2>1, <2>2, <2>3, <2>4, <2>5 DEF Written, CursorNext, DecodeComposer, StartRun,
       ReadIndexes, ReadIndexesShort, MissWorkspace, ReadGlobal, ReadGlobalShort, MissHeaders,
       SkipProject, PassProject, OpenProject, LookupMarks, OpenBracket, ReadMarks, AskCohort,
       RestoreCohort, DecodeFails, CommitProject, EndRun
<1> QED
  BY <1>1, <1>2, <1>t, SourceUnlessWritten

\* The markers a run goes by are at least those saved and at most what the
\* database holds, whichever way they were obtained.
LEMMA MarksStep == ASSUME IInv, CursorNext PROVE MarksInv' /\ CohortInv'
<1> USE DEF IInv, Exists
<1>t. CursorTypeOK /\ CursorTypeOK'
  BY CursorTypes
<1>1. CASE Written
  <2> USE <1>1, <1>t, LiveStep DEF results, reading, taken, chosen, UnbornInv
  <2>1. MarksInv'
    BY DEF MarksInv, CursorTypeOK, Rows, Marks, Moment, HeaderOnly
  <2>2. CohortInv'
    BY DEF CohortInv
  <2> QED
    BY <2>1, <2>2
<1>2. CASE UNCHANGED source /\ ~Written
  <2> USE <1>2 DEF source, results, caches, chosen, reading, taken, decode, Headed
  <2>1. CASE LookupMarks
    BY <2>1, <1>t DEF LookupMarks, CacheAnswers, SelInv, SavedInv, MarksInv, CohortInv,
       BufferInv, Known, CursorTypeOK
  <2>2. CASE OpenBracket
    BY <2>2, <1>t DEF OpenBracket, MarksInv, CohortInv, Known, CursorTypeOK, Moment
  <2>3. CASE ReadMarks
    <3>1. \A c \in Exists : marks'[c] = 0 \/ marks'[c] = live[c]
      BY <2>3 DEF ReadMarks, MarksNow
    <3>2. \A c \in Exists : Owner[c] \in opt.roots /\ c \in Headed => marks'[c] = live[c]
      BY <2>3 DEF ReadMarks, MarksNow
    <3>3. MarksInv'
      <4>1. \A c \in Exists : marks'[c] <= live[c]
        BY <3>1, <1>t DEF CursorTypeOK, Rows, Moment
      <4>2. \A c \in Exists : saved[Owner[c]] # None /\ marks'[c] # 0 =>
              saved[Owner[c]][c] <= marks'[c]
        BY <3>1 DEF SavedInv
      <4>3. \A c \in Exists : Owner[c] \in opt.roots =>
              \/ marks'[c] = live[c]
              \/ marks'[c] = 0 /\ c \notin Headed
        BY <3>1, <3>2
      <4> QED
        BY <2>3, <4>1, <4>2, <4>3 DEF ReadMarks, MarksInv
    <3>4. CohortInv'
      BY <2>3, <1>t DEF ReadMarks, CohortInv, BufferInv
    <3> QED
      BY <3>3, <3>4
  <2>4. CASE CloseBracket
    BY <2>4, <1>t DEF CloseBracket, MarksInv, CohortInv, Known, CursorTypeOK, Moment
  <2>5. CASE RestoreCohort
    BY <2>5, <1>t DEF RestoreCohort, Reusable, MarksInv, CohortInv, CohInv, Known
  <2>6. CASE CaptureCohort
    BY <2>6, <1>t DEF CaptureCohort, MarksInv, CohortInv, Known
  <2>7. CASE MarkProject
    <3>1. \A c \in Exists : marks[c] <= marks[c]
      BY <1>t DEF CursorTypeOK, Marks, Moment, HeaderOnly
    <3>2. \A c \in Exists :
            saved'[Owner[c]] # None /\ Owner[c] \in opt.roots /\ marks[c] # 0 =>
              saved'[Owner[c]][c] <= marks[c]
      BY <2>7, <1>t, <3>1 DEF MarkProject, Detection, MarkOf, MarksInv, Known, CursorTypeOK
    <3> QED
      BY <2>7, <3>2 DEF MarkProject, MarksInv, CohortInv, Known
  <2>8. CASE EndRun
    BY <2>8, <1>t DEF EndRun, Leave, MarksInv, CohortInv, Known, CursorTypeOK, Moment
  <2>9. CASE \E o \in Options : StartRun(o)
    BY <2>9, <1>t DEF StartRun, MarksInv, CohortInv, Known
  <2>10. CASE UNCHANGED <<saved, opt, before, marks, cohort, step>>
    BY <2>10 DEF MarksInv, CohortInv, Known
  <2> QED
    <3>1. CASE AskCohort
      BY <3>1 DEF AskCohort, MarksInv, CohortInv, Known
    <3>2. CASE \E c \in Composer : DecodeComposer(c)
      BY <3>2, <2>10 DEF DecodeComposer
    <3>3. CASE \E p \in Project : ReadIndexes(p) \/ ReadIndexesShort(p) \/ MissWorkspace(p)
      BY <3>3 DEF ReadIndexes, ReadIndexesShort, MissWorkspace, MarksInv, CohortInv, Known
    <3>4. CASE ReadGlobal \/ ReadGlobalShort \/ MissHeaders
      BY <3>4 DEF ReadGlobal, ReadGlobalShort, MissHeaders, MarksInv, CohortInv, Known
    <3>5. CASE \E p \in Project : SkipProject(p) \/ PassProject(p)
      BY <3>5, <2>10 DEF SkipProject, PassProject
    <3>6. CASE \E p \in Project : OpenProject(p)
      BY <3>6 DEF OpenProject, MarksInv, CohortInv, Known
    <3>7. CASE LoseObject
      BY <3>7, <2>10 DEF LoseObject
    <3>8. CASE DecodeFails
      BY <3>8 DEF DecodeFails, MarksInv, CohortInv, Known
    <3>9. CASE CommitProject
      BY <3>9 DEF CommitProject, MarksInv, CohortInv, Known
    <3> QED
      BY <2>1, <2>2, <2>3, <2>4, <2>5, <2>6, <2>7, <2>8, <2>9, <3>1, <3>2, <3>3,
         <3>4, <3>5, <3>6, <3>7, <3>8, <3>9 DEF CursorNext, Written
<1> QED
  BY <1>1, <1>2, <1>t, SourceUnlessWritten

\* What a transaction holds is at least as new as the markers of its run.
LEMMA BufferStep == ASSUME IInv, CursorNext PROVE BufferInv'
<1> USE BlankType DEF IInv, Exists, BufferInv
<1>t. CursorTypeOK /\ CursorTypeOK'
  BY CursorTypes
<1>1. CASE Written
  BY <1>1, <1>t, LiveStep DEF UnbornInv, Owned, results, chosen, reading, taken, decode
<1>2. CASE UNCHANGED source /\ ~Written
  <2> USE <1>2 DEF source, results, caches, chosen, reading, taken, decode, Known
  <2>1. CASE \E c \in Composer : DecodeComposer(c)
    <3> SUFFICES ASSUME NEW c \in Composer, DecodeComposer(c) PROVE BufferInv'
      BY <2>1
    <3>1. c \in Owned(cur) /\ (c \in Exists => marks[c] <= Database.rows[c])
      BY <1>t DEF DecodeComposer, Database, MarksInv, CohortInv
    <3>2. \A d \in Exists : buffer'[d] # 0 => Owner[d] = cur /\ marks[d] <= buffer'[d]
      BY <3>1, <1>t DEF DecodeComposer, Owned, CursorTypeOK, Rows
    <3> QED
      BY <3>2 DEF DecodeComposer, Owned
  <2>2. CASE \E o \in Options : StartRun(o)
    BY <2>2 DEF StartRun, Owned
  <2>3. CASE \E p \in Project : ReadIndexes(p) \/ ReadIndexesShort(p) \/ MissWorkspace(p)
    BY <2>3, <1>t DEF ReadIndexes, ReadIndexesShort, MissWorkspace, Listed, Owned,
       CursorTypeOK
  <2>4. CASE ReadGlobal \/ ReadGlobalShort \/ MissHeaders
    BY <2>4, <1>t DEF ReadGlobal, ReadGlobalShort, MissHeaders, Listed, Owned, CursorTypeOK
  <2>5. CASE \E p \in Project : OpenProject(p)
    BY <2>5, <1>t DEF OpenProject, HeadersOf, Owned, Blank
  <2>6. CASE CommitProject
    BY <2>6, <1>t DEF CommitProject, Owned, CursorTypeOK
  <2>7. CASE DecodeFails \/ MarkProject \/ EndRun
    BY <2>7, <1>t DEF DecodeFails, MarkProject, EndRun, Leave, Owned
  <2>8. CASE LookupMarks \/ OpenBracket \/ ReadMarks \/ CloseBracket \/ AskCohort
    BY <2>8 DEF LookupMarks, OpenBracket, ReadMarks, CloseBracket, AskCohort, Owned
  <2>9. CASE RestoreCohort \/ CaptureCohort
    BY <2>9 DEF RestoreCohort, CaptureCohort, Owned
  <2>10. CASE \E p \in Project : SkipProject(p) \/ PassProject(p)
    BY <2>10 DEF SkipProject, PassProject, Owned
  <2>11. CASE LoseObject
    BY <2>11 DEF LoseObject, Owned
  <2> QED
    BY <2>1, <2>2, <2>3, <2>4, <2>5, <2>6, <2>7, <2>8, <2>9, <2>10, <2>11
       DEF CursorNext, Written
<1> QED
  BY <1>1, <1>2, <1>t, SourceUnlessWritten

\* A commit writes rows at least as new as the marker saved before it, unless
\* the run's markers leave the composer out, and the marker saved after it is not
\* newer than they are.
LEMMA NeverOlderStep == ASSUME IInv, CursorNext PROVE NeverOlder'
<1> USE DEF IInv, Exists, NeverOlder
<1>t. CursorTypeOK /\ CursorTypeOK'
  BY CursorTypes
<1>1. CASE Written
  BY <1>1, <1>t, LiveStep DEF UnbornInv, results
<1>2. CASE UNCHANGED source /\ ~Written
  <2> USE <1>2 DEF source, results, caches, chosen, reading, taken, decode, Known
  <2>1. CASE CommitProject
    <3> SUFFICES ASSUME NEW c \in Exists \ unmarked', saved[Owner[c]] # None, stored'[c] # 0
                 PROVE  saved[Owner[c]][c] <= stored'[c]
      BY <2>1 DEF CommitProject
    <3>1. CASE Owner[c] = cur
      <4>1. cur \in opt.roots /\ stored'[c] = buffer[c] /\ marks[c] <= buffer[c]
        BY <2>1, <3>1, <1>t DEF CommitProject, BufferInv, CursorTypeOK
      <4>2. marks[c] # 0
        BY <2>1, <3>1, <4>1 DEF CommitProject
      <4>3. saved[cur][c] <= marks[c]
        BY <2>1, <3>1, <4>1, <4>2 DEF CommitProject, MarksInv
      <4>4. /\ c \in Composer /\ cur \in Project /\ saved[cur] \in Marks
            /\ marks \in Marks /\ buffer \in Rows
        BY <3>1, <1>t DEF CursorTypeOK
      <4>5. saved[cur][c] \in Int /\ marks[c] \in Int /\ buffer[c] \in Int
        BY <4>4 DEF Marks, Rows, Moment, HeaderOnly
      <4> QED
        BY <3>1, <4>1, <4>3, <4>5
    <3>2. CASE Owner[c] # cur
      BY <2>1, <3>2, <1>t DEF CommitProject
    <3> QED
      BY <3>1, <3>2
  <2>2. CASE MarkProject
    <3>1. \A c \in Exists : Owner[c] = cur /\ stored[c] # 0 => marks[c] <= stored[c]
      BY <2>2 DEF MarkProject, BufferInv, Owned
    <3> QED
      BY <2>2, <3>1, <1>t DEF MarkProject, Detection, MarkOf, CursorTypeOK
  <2>3. CASE UNCHANGED <<stored, saved, unmarked>>
    BY <2>3
  <2> QED
    BY <2>1, <2>2, <2>3 DEF Written, CursorNext, DecodeComposer, StartRun, ReadIndexes,
       ReadIndexesShort, MissWorkspace, ReadGlobal, ReadGlobalShort, MissHeaders, SkipProject,
       PassProject, OpenProject, LoseObject, LookupMarks, OpenBracket, ReadMarks,
       CloseBracket, AskCohort, RestoreCohort, CaptureCohort, DecodeFails, EndRun
<1> QED
  BY <1>1, <1>2, <1>t, SourceUnlessWritten

\* The conjunction of the invariants above is one.
LEMMA CursorInvariance == CursorSpec => []IInv
<1>1. IInv /\ [CursorNext]_cursorVars => IInv'
  <2>1. CASE CursorNext
    BY <2>1, CursorTypes, SourceStep, MemoryStep, MarksStep, BufferStep, NeverOlderStep
       DEF IInv
  <2>2. CASE UNCHANGED cursorVars
    BY <2>2 DEF cursorVars, source, results, caches, chosen, reading, taken, decode, IInv,
       CursorTypeOK, SourceInv, UnbornInv, SavedInv, SelInv, CohInv, MarksInv, CohortInv,
       BufferInv, NeverOlder, Exists, Unborn, Headed
  <2> QED
    BY <2>1, <2>2
<1> QED
  BY <1>1, CursorInitInv, PTL DEF CursorSpec

\* Every reachable state of a run over the shared database is well typed.
THEOREM CursorTypesHold == CursorSpec => []CursorTypeOK
BY CursorInvariance, PTL DEF IInv

\* No saved marker is ahead of a Session it speaks of (_ingest_cursor,
\* prepare_cursor_cohort): what is skipped is not older than it claims.
THEOREM MarkersNeverAhead == CursorSpec => []NeverOlder
BY CursorInvariance, PTL DEF IInv

\* The selection cache never answers with markers of another state of the
\* database (resolve_selection_markers).
THEOREM CacheIsCurrent == CursorSpec => []CachedMarksHold
<1>1. IInv => CachedMarksHold
  BY DEF IInv, SelInv, CachedMarksHold
<1> QED
  BY <1>1, CursorInvariance, PTL

-----------------------------------------------------------------------------
\* What a run with no unread index or header knows of a composer that is listed,
\* and not by several indexes alone, throughout: it is selected, whichever of the
\* two readings finds it, it is marked, and its rows are read.
AbsentInv ==
  /\ step # "idle" => \A c \in Composer \ absent : live[c] # 0 /\ listing[c] # "several"
  /\ step # "idle" => \A p \in opt.roots \ unread :
       (step \in {"headers", "global"} => p \notin todo) => Owned(p) \ absent \subseteq headers[p]
  /\ step = "global" /\ cur \notin unread =>
       \A c \in Owned(cur) \ absent : listing[c] = "index" => c \in headers[cur]
  /\ step \in Known => \A c \in Composer \ absent :
       Owner[c] \in opt.roots \ unread => 0 < marks[c]
  /\ step = "decode" => /\ cur \notin unread
                        /\ \A c \in Owned(cur) \ absent : c \in left \/ buffer[c] # 0

\* Every action keeps AbsentInv: what a run does not list did not exist or was
\* ambiguous at some time of it, or was in a workspace whose binding did not read.
LEMMA AbsentStep ==
  ASSUME IInv, AbsentInv, CursorNext  PROVE AbsentInv'
<1> USE DEF IInv, Exists, AbsentInv
<1>t. CursorTypeOK /\ CursorTypeOK'
  BY CursorTypes
<1>1. CASE \E c \in Composer : CursorWrites(c)
  BY <1>1, <1>t DEF CursorWrites, CursorTypeOK, Rows, Moment, source, results, caches,
     chosen, reading, taken, decode
<1>2. CASE \E c \in Composer : CursorRelists(c)
  BY <1>2, <1>t DEF CursorRelists, CursorTypeOK, Rows, Moment, results, caches, chosen,
     reading, taken, decode, Known
<1>3. CASE \E c \in Composer : CursorDeletes(c)
  BY <1>3, <1>t DEF CursorDeletes, CursorTypeOK, Rows, results, caches, chosen, reading,
     taken, decode, Known
<1>4. CASE UNCHANGED source /\ ~Written
  <2> USE <1>4 DEF source, results, caches, chosen, reading, taken, decode, Known
  <2>1. CASE \E c \in Composer : DecodeComposer(c)
    <3> SUFFICES ASSUME NEW c \in Composer, DecodeComposer(c) PROVE AbsentInv'
      BY <2>1
    <3>1. c \notin absent => 0 < marks[c] /\ live[c] # 0
      BY <1>t DEF DecodeComposer, BufferInv, Owned, CursorTypeOK
    <3>2. c \notin absent => Database.rows[c] # 0
      BY <3>1, <1>t DEF Database, CohortInv, CursorTypeOK, Rows, Copies, Moment, Marks,
         HeaderOnly
    <3> QED
      BY <3>2, <1>t DEF DecodeComposer, CursorTypeOK, Rows
  <2>2. CASE \E o \in Options : StartRun(o)
    BY <2>2 DEF StartRun
  <2>3. CASE \E p \in Project : ReadIndexes(p)
    BY <2>3, <1>t DEF ReadIndexes, Listed, Owned, CursorTypeOK
  <2>4. CASE \E p \in Project : ReadIndexesShort(p)
    BY <2>4, <1>t DEF ReadIndexesShort, Listed, Owned, CursorTypeOK
  <2>5. CASE \E p \in Project : MissWorkspace(p)
    BY <2>5, <1>t DEF MissWorkspace, Listed, Owned, CursorTypeOK
  <2>6. CASE ReadGlobal \/ ReadGlobalShort \/ MissHeaders
    <3>1. \A c \in Owned(cur) \ absent' :
            cur \notin unread' /\ cur \in opt.roots => c \in headers'[cur]
      <4> SUFFICES ASSUME NEW c \in Owned(cur) \ absent', cur \notin unread'
                   PROVE  c \in headers'[cur]
        OBVIOUS
      <4>1. c \in Exists /\ listing[c] \in {"header", "index"}
        BY <2>6, <1>t DEF ReadGlobal, ReadGlobalShort, MissHeaders, Owned, CursorTypeOK, Listing
      <4>2. CASE listing[c] = "index"
        BY <2>6, <4>2, <1>t DEF ReadGlobal, ReadGlobalShort, MissHeaders, CursorTypeOK
      <4>3. CASE listing[c] = "header"
        BY <2>6, <4>1, <4>3, <1>t DEF ReadGlobal, ReadGlobalShort, MissHeaders, Listed, Owned,
           CursorTypeOK
      <4> QED
        BY <4>1, <4>2, <4>3
    <3>2. /\ step' = "headers" /\ todo' = todo \ {cur} /\ UNCHANGED opt
          /\ unread \subseteq unread' /\ absent \subseteq absent'
          /\ \A p \in Project : headers[p] \subseteq headers'[p]
      BY <2>6, <1>t DEF ReadGlobal, ReadGlobalShort, MissHeaders, CursorTypeOK
    <3>3. step' # "idle" /\ step' # "global" /\ step' \notin Known /\ step # "idle"
      BY <2>6, <3>2 DEF ReadGlobal, ReadGlobalShort, MissHeaders
    <3>4. \A c \in Composer \ absent' : live'[c] # 0 /\ listing'[c] # "several"
      BY <3>2, <3>3
    <3>5. ASSUME NEW p \in opt.roots \ unread', p \notin todo'
          PROVE  Owned(p) \ absent' \subseteq headers'[p]
      <4>1. CASE p = cur
        BY <3>1, <3>5, <4>1
      <4>2. CASE p # cur
        BY <3>2, <3>3, <3>5, <4>2, <1>t DEF CursorTypeOK, RunOption, Idle
      <4> QED
        BY <4>1, <4>2
    <3> QED
      BY <3>2, <3>3, <3>4, <3>5 DEF Owned
  <2>7. CASE LookupMarks
    <3>1. CacheAnswers => \A c \in Composer \ absent' :
            Owner[c] \in opt.roots => 0 < marks'[c]
      BY <2>7, <1>t DEF LookupMarks, CacheAnswers, SelInv, CursorTypeOK, Rows, Moment
    <3> QED
      BY <2>7, <3>1 DEF LookupMarks
  <2>8. CASE ReadMarks
    BY <2>8, <1>t DEF ReadMarks, MarksNow, CursorTypeOK, Rows, Moment, Owned
  <2>9. CASE \E p \in Project : OpenProject(p)
    BY <2>9, <1>t DEF OpenProject, HeadersOf, Refused, BufferInv, Blank
  <2>10. CASE EndRun
    BY <2>10 DEF EndRun, Leave
  <2>11. CASE DecodeFails \/ CommitProject \/ MarkProject
    BY <2>11 DEF DecodeFails, CommitProject, MarkProject
  <2>12. CASE OpenBracket \/ CloseBracket \/ AskCohort \/ RestoreCohort \/ CaptureCohort
    BY <2>12 DEF OpenBracket, CloseBracket, AskCohort, RestoreCohort, CaptureCohort
  <2>13. CASE \E p \in Project : SkipProject(p) \/ PassProject(p)
    BY <2>13 DEF SkipProject, PassProject
  <2>14. CASE LoseObject
    BY <2>14 DEF LoseObject
  <2> QED
    BY <2>1, <2>2, <2>3, <2>4, <2>5, <2>6, <2>7, <2>8, <2>9, <2>10, <2>11, <2>12, <2>13,
       <2>14 DEF CursorNext, Written
<1> QED
  BY <1>1, <1>2, <1>3, <1>4, <1>t, SourceUnlessWritten DEF Written

\* A run drops only Sessions of composers it had a reason not to see: gone or
\* ambiguous at some time of the run (get_project_composer_headers), in a
\* workspace whose binding did not read (get_workspace_ids), or left out of cached
\* markers; never for a header that could not be read (_ingest_cursor).
THEOREM DropsAreObserved == CursorSpec => DropsOnlyAbsent
<1>1. CursorInit => AbsentInv
  BY DEF CursorInit, AbsentInv, Known
<1>2. IInv /\ AbsentInv /\ [CursorNext]_cursorVars => AbsentInv'
  <2>1. CASE UNCHANGED cursorVars
    BY <2>1 DEF cursorVars, source, results, caches, chosen, reading, taken, decode,
       AbsentInv
  <2> QED
    BY <2>1, AbsentStep
<1>3. IInv /\ AbsentInv /\ [CursorNext]_cursorVars =>
        [\A c \in Composer : stored[c] # 0 /\ stored'[c] = 0 => c \in absent]_cursorVars
  <2> SUFFICES ASSUME IInv, AbsentInv, CursorNext, NEW c \in Composer,
                      stored[c] # 0, stored'[c] = 0
               PROVE  c \in absent
    OBVIOUS
  <2>1. CASE CommitProject
    BY <2>1 DEF CommitProject, AbsentInv, IInv, CursorTypeOK, Owned
  <2>2. CASE stored' = stored
    BY <2>2
  <2> QED
    BY <2>1, <2>2 DEF CursorNext, CursorWrites, CursorRelists, CursorDeletes, DecodeComposer,
       StartRun, ReadIndexes, ReadIndexesShort, MissWorkspace, ReadGlobal, ReadGlobalShort,
       MissHeaders, SkipProject, PassProject, OpenProject, LoseObject, LookupMarks,
       OpenBracket, ReadMarks, CloseBracket, AskCohort, RestoreCohort, CaptureCohort,
       DecodeFails, MarkProject, EndRun, results
<1> QED
  BY <1>1, <1>2, <1>3, CursorInvariance, PTL DEF CursorSpec, DropsOnlyAbsent
=============================================================================
