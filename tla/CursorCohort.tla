---------------------------- MODULE CursorCohort ----------------------------
(***************************************************************************)
(* One ingest of several Projects over the one database Cursor shares      *)
(* between them, while Cursor writes to it.                                *)
(*                                                                         *)
(* A run reads the composers of every Project, first those the indexes of  *)
(* its workspaces list, then those with a header; then a marker of         *)
(* every Project's selection (from a cache when the container is the one   *)
(* the cache was filled from), then, when raw evidence is kept and some    *)
(* Project needs it, materializes one cohort: a copy of the database, from *)
(* the retained object when its marker is the same.  Each Project is then  *)
(* skipped when its saved marker is the one just read; any other is        *)
(* decoded composer by composer, replaces its Sessions in one transaction, *)
(* drops those the selection no longer lists, and saves the marker.        *)
(*                                                                         *)
(* The content of a composer is the moment of its last write, as far as    *)
(* the fingerprint tells (keys, lengths and the edges of values); 0 is "no *)
(* such composer".  A composer identifier is never used again.  The marker *)
(* also holds how a composer is listed, so that a change of this counts as *)
(* a write.  A header goes before what indexes list: whether they list a   *)
(* composer that has one makes no difference.                              *)
(***************************************************************************)
EXTENDS Integers

CONSTANTS
  Project,         \* Projects with Cursor workspaces
  Composer,        \* composer identifiers
  Owner,           \* the Project whose workspace a composer belongs to
  NoProject,       \* "no Project is being decoded"
  None,            \* "nothing saved"
  Attempts,        \* how often an unstable marker read is tried
  MaxWrites,       \* bound on the writes of Cursor
  Options,         \* the options runs are started with
  Started          \* composers that may be there at first, and how they are listed

RunOption == [roots : SUBSET Project, force : BOOLEAN, capture : BOOLEAN]

ASSUME CursorAssumption ==
  /\ Owner \in [Composer -> Project]
  /\ NoProject \notin Project
  /\ Attempts \in Nat \ {0}
  /\ MaxWrites \in Nat \ {0}
  /\ Options \subseteq RunOption

Moment == 0..MaxWrites
HeaderOnly == -1     \* in a marker: the header is selected, no row exists
Rows  == [Composer -> Moment]
Marks == [Composer -> Moment \cup {HeaderOnly}]

\* A copy of the database: its rows and the composers that have a header.
Copies  == [rows : Rows, headed : SUBSET Composer]
\* How a composer is listed: by a header, or without one by one workspace index
\* of its Project, or by several.
Listing == {"header", "index", "several"}

ASSUME StartedAssumption == Started \subseteq UNION {[S -> Listing] : S \in SUBSET Composer}

ASSUME NoneAssumption == None \notin Rows \cup Marks \cup Copies

VARIABLES
  live,       \* what Cursor's database holds of each composer
  listing,    \* how each composer there is listed
  clock,      \* number of writes so far: what the containers' stats tell
  deleted,    \* composers that were deleted
  stored,     \* content of each composer's Session in the Project's store
  saved,      \* marker in each Project's ingest state, or None
  evidence,   \* Projects whose current snapshot has a captured record
  selCache,   \* cursor-selection-v1.json
  cohCache,   \* cursor-cohort-v1.json and the raw object it names
  step,       \* where the run is
  opt,        \* its options
  headers,    \* composers selected for each Project
  unread,     \* Projects with a header read error
  before,     \* container observed before the markers were read
  tries,      \* marker reads so far
  marks,      \* markers the run goes by
  cohort,     \* the materialized cohort, or None
  wanted,     \* Projects that need captured evidence
  todo,       \* Projects to visit in this step
  cur,        \* the Project being read or decoded
  left,       \* its composers still to be decoded
  buffer,     \* rows of its open transaction
  unmarked,   \* history: composers stored by a run whose markers leave them out
  absent      \* history: composers this run could not have seen throughout

source  == <<live, listing, clock, deleted>>
results == <<stored, saved, evidence, unmarked>>
caches  == <<selCache, cohCache>>
chosen  == <<opt, headers, unread>>
reading == <<before, tries, marks>>
taken   == <<cohort, wanted>>
decode  == <<cur, left, buffer>>
cursorVars == <<source, results, caches, step, chosen, reading, taken, todo,
                decode, absent>>

Blank    == [c \in Composer |-> 0]
Owned(p) == {c \in Composer : Owner[c] = p}
Exists   == {c \in Composer : live[c] # 0}
Headed   == {c \in Exists : listing[c] = "header"}
Idle     == [roots |-> {}, force |-> FALSE, capture |-> FALSE]
Step     == {"idle", "headers", "global", "open", "read", "close", "need", "prepare",
             "projects", "decode", "mark"}

CursorTypeOK ==
  /\ live \in Rows /\ clock \in Moment /\ deleted \subseteq Composer
  /\ listing \in [Composer -> Listing]
  /\ stored \in Rows /\ saved \in [Project -> Marks \cup {None}]
  /\ evidence \subseteq Project
  /\ selCache \in {None} \cup
       [container : Moment, roots : SUBSET Project, marks : Marks]
  /\ cohCache \in {None} \cup
       [roots : SUBSET Project, marks : Marks, copy : Copies, intact : BOOLEAN]
  /\ step \in Step /\ opt \in Options \cup {Idle}
  /\ headers \in [Project -> SUBSET Composer] /\ unread \subseteq Project
  /\ before \in Moment /\ tries \in 0..Attempts /\ marks \in Marks
  /\ cohort \in Copies \cup {None} /\ wanted \subseteq Project
  /\ todo \subseteq Project /\ cur \in Project \cup {NoProject}
  /\ step \in {"idle", "headers", "global", "open"} => tries < Attempts
  /\ step \in {"global", "decode", "mark"} => cur \in todo
  /\ left \subseteq Composer /\ buffer \in Rows
  /\ unmarked \subseteq Composer /\ absent \subseteq Composer

\* The end of a run, by whatever cause: its memory and temporary cohort go.
Leave ==
  /\ step' = "idle" /\ opt' = Idle
  /\ headers' = [p \in Project |-> {}] /\ unread' = {}
  /\ before' = 0 /\ tries' = 0 /\ marks' = Blank
  /\ cohort' = None /\ wanted' = {} /\ todo' = {}
  /\ cur' = NoProject /\ left' = {} /\ buffer' = Blank /\ absent' = {}

CursorInit ==
  /\ \E first \in Started :
       /\ live = [c \in Composer |-> IF c \in DOMAIN first THEN 1 ELSE 0]
       /\ listing = [c \in Composer |-> IF c \in DOMAIN first THEN first[c] ELSE "header"]
       /\ clock = IF DOMAIN first = {} THEN 0 ELSE 1
  /\ deleted = {}
  /\ stored = Blank /\ saved = [p \in Project |-> None] /\ evidence = {} /\ unmarked = {}
  /\ selCache = None /\ cohCache = None
  /\ step = "idle" /\ opt = Idle
  /\ headers = [p \in Project |-> {}] /\ unread = {}
  /\ before = 0 /\ tries = 0 /\ marks = Blank
  /\ cohort = None /\ wanted = {} /\ todo = {}
  /\ cur = NoProject /\ left = {} /\ buffer = Blank /\ absent = {}

-----------------------------------------------------------------------------
\* Cursor adds a composer, with a header, or writes to one.
CursorWrites(c) ==
  /\ clock < MaxWrites /\ c \notin deleted
  /\ clock' = clock + 1
  /\ live' = [live EXCEPT ![c] = clock + 1]
  /\ UNCHANGED <<listing, deleted, results, caches, step, chosen, reading, taken, todo,
                 decode, absent>>

\* A composer gets a header, or loses it and is left to one index or to several.
\* A run under way may miss one that loses its listing between two reads.
CursorRelists(c) ==
  /\ clock < MaxWrites /\ live[c] # 0
  /\ clock' = clock + 1
  /\ live' = [live EXCEPT ![c] = clock + 1]
  /\ \E l \in Listing \ {listing[c]} :
       /\ listing' = [listing EXCEPT ![c] = l]
       /\ absent' = IF step = "idle" \/ l = "header" THEN absent ELSE absent \cup {c}
  /\ UNCHANGED <<deleted, results, caches, step, chosen, reading, taken, todo, decode>>

\* Cursor deletes a composer.
CursorDeletes(c) ==
  /\ clock < MaxWrites /\ live[c] # 0
  /\ clock' = clock + 1
  /\ live' = [live EXCEPT ![c] = 0]
  /\ listing' = [listing EXCEPT ![c] = "header"]
  /\ deleted' = deleted \cup {c}
  /\ absent' = IF step = "idle" THEN absent ELSE absent \cup {c}
  /\ UNCHANGED <<results, caches, step, chosen, reading, taken, todo, decode>>

\* The raw object of the cached cohort is pruned or damaged.
LoseObject ==
  /\ cohCache # None /\ cohCache.intact
  /\ cohCache' = [cohCache EXCEPT !.intact = FALSE]
  /\ UNCHANGED <<source, results, selCache, step, chosen, reading, taken, todo,
                 decode, absent>>

-----------------------------------------------------------------------------
\* Composers of a Project, by how they are listed.
Listed(p, how) == {c \in Owned(p) \cap Exists : listing[c] \in how}

StartRun(o) ==
  /\ step = "idle" /\ o.roots # {}
  /\ step' = "headers" /\ opt' = o /\ todo' = o.roots
  /\ absent' = {c \in Composer : c \notin Exists \/ listing[c] = "several"}
  /\ UNCHANGED <<source, results, caches, headers, unread, reading, taken, decode>>

\* The indexes of a Project's workspaces are read first.  A composer that several
\* of them list is ambiguous and left out, without an error.
ReadIndexes(p) ==
  /\ step = "headers" /\ p \in todo
  /\ headers' = [headers EXCEPT ![p] = Listed(p, {"index"})]
  /\ step' = "global" /\ cur' = p
  /\ UNCHANGED <<source, results, caches, opt, unread, reading, taken, todo, left,
                 buffer, absent>>

\* An index does not read: what the others list is kept, a composer that only
\* seems to be listed once with it, and the failure is reported.
ReadIndexesShort(p) ==
  /\ step = "headers" /\ p \in todo
  /\ \E found \in SUBSET Listed(p, {"index", "several"}) :
       headers' = [headers EXCEPT ![p] = found]
  /\ unread' = unread \cup {p}
  /\ step' = "global" /\ cur' = p
  /\ UNCHANGED <<source, results, caches, opt, reading, taken, todo, left, buffer, absent>>

\* A workspace.json that does not read leaves its workspace out, unreported:
\* to the run its composers are as good as gone.
MissWorkspace(p) ==
  /\ step = "headers" /\ p \in todo
  /\ \E found \in SUBSET Listed(p, {"index", "several"}) :
       /\ headers' = [headers EXCEPT ![p] = found]
       /\ absent' = absent \cup (Listed(p, {"index"}) \ found)
  /\ step' = "global" /\ cur' = p
  /\ UNCHANGED <<source, results, caches, opt, unread, reading, taken, todo, left, buffer>>

\* Then the headers that the Cursor store holds of its workspaces.
ReadGlobal ==
  /\ step = "global"
  /\ headers' = [headers EXCEPT ![cur] = @ \cup Listed(cur, {"header"})]
  /\ step' = "headers" /\ todo' = todo \ {cur} /\ cur' = NoProject
  /\ UNCHANGED <<source, results, caches, opt, unread, reading, taken, left, buffer, absent>>

\* They do not read, and the failure is reported.
ReadGlobalShort ==
  /\ step = "global"
  /\ unread' = unread \cup {cur}
  /\ step' = "headers" /\ todo' = todo \ {cur} /\ cur' = NoProject
  /\ UNCHANGED <<source, results, caches, opt, headers, reading, taken, left, buffer, absent>>

\* Workspaces are read from their workspace.json once more for the headers.
MissHeaders ==
  /\ step = "global"
  /\ \E found \in SUBSET Listed(cur, {"header"}) :
       /\ headers' = [headers EXCEPT ![cur] = @ \cup found]
       /\ absent' = absent \cup (Listed(cur, {"header"}) \ found)
  /\ step' = "headers" /\ todo' = todo \ {cur} /\ cur' = NoProject
  /\ UNCHANGED <<source, results, caches, opt, unread, reading, taken, left, buffer>>

-----------------------------------------------------------------------------
\* The fingerprints of the selections, within one read transaction: the
\* selected headers with the composers read earlier, and the rows they own.  Of
\* the indexes nothing is read again.
MarksNow ==
  [c \in Composer |->
     IF Owner[c] \notin opt.roots \/ c \notin Headed \cup headers[Owner[c]] THEN 0
     ELSE IF live[c] # 0 THEN live[c] ELSE HeaderOnly]

\* The cached markers hold for this very container and selection.
CacheAnswers ==
  /\ ~opt.force /\ selCache # None
  /\ selCache.container = clock /\ selCache.roots = opt.roots

\* Cached markers may leave out a composer that an index listed too late for the
\* run they are from.
LookupMarks ==
  /\ step = "headers" /\ todo = {}
  /\ IF CacheAnswers
       THEN /\ marks' = selCache.marks /\ step' = "need"
            /\ absent' = absent \cup {c \in Composer : selCache.marks[c] = 0}
       ELSE marks' = marks /\ step' = "open" /\ absent' = absent
  /\ UNCHANGED <<source, results, caches, chosen, before, tries, taken, todo, decode>>

OpenBracket ==
  /\ step = "open"
  /\ before' = clock /\ tries' = tries + 1
  /\ step' = "read"
  /\ UNCHANGED <<source, results, caches, chosen, marks, taken, todo, decode, absent>>

ReadMarks ==
  /\ step = "read"
  /\ marks' = MarksNow
  /\ step' = "close"
  /\ UNCHANGED <<source, results, caches, chosen, before, tries, taken, todo,
                 decode, absent>>

\* Faulty variant: whatever was read is remembered.
StableAny == TRUE
\* No write landed across the read.
Stable == before = clock

\* Faulty variant: one attempt too many.
MayRetryMore == tries <= Attempts
\* One write across a read is ordinary: the read is tried again.
MayRetry == tries < Attempts

CloseBracket ==
  /\ step = "close"
  /\ IF Stable
       THEN /\ selCache' = [container |-> clock, roots |-> opt.roots, marks |-> marks]
            /\ step' = "need" /\ tries' = 0
       ELSE /\ selCache' = selCache
            /\ IF MayRetry THEN step' = "open" /\ tries' = tries
                           ELSE step' = "need" /\ tries' = 0
  /\ before' = 0
  /\ UNCHANGED <<source, results, cohCache, chosen, marks, taken, todo, decode, absent>>

-----------------------------------------------------------------------------
\* The part of the markers that is a Project's own.
MarkOf(p) == [c \in Composer |-> IF Owner[c] = p THEN marks[c] ELSE 0]

\* A cohort is needed when rows or evidence of some Project are.
CohortNeeded ==
  /\ opt.capture
  /\ \/ opt.force
     \/ \E p \in opt.roots : saved[p] # MarkOf(p) \/ p \notin evidence

AskCohort ==
  /\ step = "need"
  /\ wanted' = IF opt.capture THEN opt.roots \ evidence ELSE {}
  /\ todo' = IF CohortNeeded THEN {} ELSE opt.roots
  /\ step' = IF CohortNeeded THEN "prepare" ELSE "projects"
  /\ UNCHANGED <<source, results, caches, chosen, reading, cohort, decode, absent>>

\* Faulty variant: a cohort is reused whatever markers it stands for.
ReusableStale ==
  /\ ~opt.force /\ cohCache # None /\ cohCache.intact
  /\ cohCache.roots = opt.roots
\* The remembered cohort stands for just these Projects and markers.
Reusable ==
  /\ ~opt.force /\ cohCache # None /\ cohCache.intact
  /\ cohCache.roots = opt.roots /\ cohCache.marks = marks

RestoreCohort ==
  /\ step = "prepare" /\ Reusable
  /\ cohort' = cohCache.copy
  /\ todo' = opt.roots /\ step' = "projects"
  /\ UNCHANGED <<source, results, caches, chosen, reading, wanted, decode, absent>>

\* The backup of the database, which may be newer than the markers it is
\* remembered under.
CaptureCohort ==
  /\ step = "prepare" /\ ~Reusable
  /\ cohort' = [rows |-> live, headed |-> Headed]
  /\ cohCache' = [roots |-> opt.roots, marks |-> marks, copy |-> cohort', intact |-> TRUE]
  /\ todo' = opt.roots /\ step' = "projects"
  /\ UNCHANGED <<source, results, selCache, chosen, reading, wanted, decode, absent>>

-----------------------------------------------------------------------------
\* What the Projects' rows are read from.
Database == IF cohort = None THEN [rows |-> live, headed |-> Headed] ELSE cohort

Skips(p) == ~opt.force /\ p \notin wanted /\ saved[p] = MarkOf(p)

\* A Project's headers, without its indexes, are read again only when nothing was
\* found.
HeadersOf(p) == IF headers[p] = {} THEN Owned(p) \cap Database.headed ELSE headers[p]

\* Faulty variant: headers that could not be read count as none.
RefusedNever(p) == FALSE
\* Whether the headers of a Project could not be read.
Refused(p) == p \in unread

SkipProject(p) ==
  /\ step = "projects" /\ p \in todo
  /\ Skips(p)
  /\ todo' = todo \ {p}
  /\ UNCHANGED <<source, results, caches, step, chosen, reading, taken, decode, absent>>

\* A header read error, earlier or now, or no composer at all: nothing is
\* decoded, nothing is dropped and nothing is marked.
PassProject(p) ==
  /\ step = "projects" /\ p \in todo
  /\ ~Skips(p)
  /\ Refused(p) \/ headers[p] = {}
  /\ todo' = todo \ {p}
  /\ UNCHANGED <<source, results, caches, step, chosen, reading, taken, decode, absent>>

OpenProject(p) ==
  /\ step = "projects" /\ p \in todo
  /\ ~Skips(p) /\ ~Refused(p) /\ HeadersOf(p) # {}
  /\ cur' = p /\ left' = HeadersOf(p) /\ buffer' = Blank
  /\ step' = "decode"
  /\ UNCHANGED <<source, results, caches, chosen, reading, taken, todo, absent>>

DecodeComposer(c) ==
  /\ step = "decode" /\ c \in left
  /\ buffer' = [buffer EXCEPT ![c] = Database.rows[c]]
  /\ left' = left \ {c}
  /\ UNCHANGED <<source, results, caches, step, chosen, reading, taken, todo, cur, absent>>

\* An exception or a limit rolls the transaction back.
DecodeFails ==
  /\ step = "decode"
  /\ todo' = todo \ {cur} /\ step' = "projects"
  /\ cur' = NoProject /\ left' = {} /\ buffer' = Blank
  /\ UNCHANGED <<source, results, caches, chosen, reading, taken, absent>>

\* Sessions are replaced and those no longer selected are dropped at once; the
\* publication that follows may or may not record the evidence.
CommitProject ==
  /\ step = "decode" /\ left = {}
  /\ stored' = [c \in Composer |-> IF Owner[c] = cur THEN buffer[c] ELSE stored[c]]
  /\ unmarked' = {c \in Composer : IF Owner[c] = cur THEN buffer[c] # 0 /\ marks[c] = 0
                                                    ELSE c \in unmarked}
  /\ \/ evidence' = evidence
     \/ evidence' = IF cohort = None THEN evidence \ {cur} ELSE evidence \cup {cur}
  /\ step' = "mark"
  /\ UNCHANGED <<source, saved, caches, chosen, reading, taken, todo, decode, absent>>

\* The marker saved is the one read before the rows.
Detection == MarkOf(cur)

MarkProject ==
  /\ step = "mark"
  /\ saved' = [saved EXCEPT ![cur] = Detection]
  /\ todo' = todo \ {cur} /\ step' = "projects"
  /\ cur' = NoProject /\ left' = {} /\ buffer' = Blank
  /\ UNCHANGED <<source, stored, evidence, unmarked, caches, chosen, reading, taken, absent>>

\* Every Project was visited, or the run failed or was killed on the way.
EndRun ==
  /\ step # "idle"
  /\ Leave
  /\ UNCHANGED <<source, results, caches>>

CursorNext ==
  \/ \E c \in Composer : \/ CursorWrites(c) \/ CursorRelists(c) \/ CursorDeletes(c)
                         \/ DecodeComposer(c)
  \/ \E o \in Options : StartRun(o)
  \/ \E p \in Project : \/ ReadIndexes(p) \/ ReadIndexesShort(p) \/ MissWorkspace(p)
                        \/ SkipProject(p) \/ PassProject(p) \/ OpenProject(p)
  \/ ReadGlobal \/ ReadGlobalShort \/ MissHeaders
  \/ LoseObject \/ LookupMarks \/ OpenBracket \/ ReadMarks \/ CloseBracket
  \/ AskCohort \/ RestoreCohort \/ CaptureCohort
  \/ DecodeFails \/ CommitProject \/ MarkProject \/ EndRun

CursorSpec == CursorInit /\ [][CursorNext]_cursorVars

-----------------------------------------------------------------------------
\* A saved marker is never ahead of a Session it speaks of: what the next run
\* skips is at least as new as the fingerprint it compares (the detection
\* marker of _ingest_cursor is taken before the rows are read).  A run whose
\* markers leave a composer out vouches for nothing it stores of it.
NeverOlder ==
  \A c \in Exists \ unmarked :
    saved[Owner[c]] # None /\ stored[c] # 0 => saved[Owner[c]][c] <= stored[c]

\* Markers that the containers vouch for are those of the database
\* (resolve_selection_markers brackets its read to keep them so); only a
\* composer without a header may be left out of them.
CachedMarksHold ==
  selCache # None /\ selCache.container = clock =>
    \A c \in Exists : Owner[c] \in selCache.roots =>
      \/ selCache.marks[c] = live[c]
      \/ selCache.marks[c] = 0 /\ c \notin Headed

\* A header index that cannot be read drops nothing.  A Session is dropped only by
\* a run during which its composer did not exist at some time, or was listed by
\* several workspace indexes and no header, or lost its listing; or whose
\* workspace did not read; or that went by cached markers without it.
DropsOnlyAbsent ==
  [][\A c \in Composer : stored[c] # 0 /\ stored'[c] = 0 => c \in absent]_cursorVars

\* A Project that would be skipped as unchanged holds every Session of its
\* selection as it is in the database.
UnchangedIsComplete ==
  \A p \in Project :
    LET selection == Listed(p, {"header", "index"})
    IN  saved[p] = [c \in Composer |-> IF c \in selection THEN live[c] ELSE 0] =>
          \A c \in selection : stored[c] = live[c]
=============================================================================
