-------------------------- MODULE NormalizedStore --------------------------
(***************************************************************************)
(* The rows the Sessions of one vendor store share: Source revisions,      *)
(* source records, content bodies and artifacts (codess/store.py).  A pass *)
(* replaces the Sessions of one source file, one at a time.  A database    *)
(* then drops the Sessions it no longer contains and prunes in the same    *)
(* transaction; transcripts are pruned once, after the last of them.       *)
(***************************************************************************)
EXTENDS Integers, FiniteSets, Functions

CONSTANTS
  StoredSession,  \* Sessions
  StoredFile,     \* source files of the vendor
  Bodies,         \* content bodies, told apart by their digest
  Paths,          \* files that Events touch
  Decodings,      \* what one Session may decode to
  Nothing,        \* the absent value
  MaxRevision,    \* bound: revisions of a source file
  MaxRewrites     \* bound: times any file is rewritten

(* The Event of a Session: the body it carries, the file it touches,       *)
(* whether it is a tool result that names no call; and whether a record    *)
(* beside it was refused.                                                  *)
StoreAssumption ==
  /\ MaxRevision \in Nat \ {0} /\ MaxRewrites \in Nat
  /\ Decodings \subseteq
       [body : Bodies \cup {Nothing}, path : Paths \cup {Nothing}, loose : BOOLEAN,
        refused : BOOLEAN]

ASSUME StoreBounds == StoreAssumption

Source == [file : StoredFile, revision : 1..MaxRevision]

ASSUME NothingAssumption == Nothing \notin Source

VARIABLES
  layout,       \* whether the vendor keeps databases or transcripts
  revision,     \* file -> the revision on disk
  owner,        \* Session -> the Source its row names, or Nothing: no row
  eventOf,      \* Session -> its Event [source, decoded], or Nothing
  sourceRows,   \* the Sources with a row
  recordRows,   \* source records: [source, session]
  recordBodies, \* source_record_content: [record, body]
  bodyRows,     \* content_objects
  artifactRows, \* artifacts
  strayBodies,  \* bodies of results whose Event is gone
  refusals,     \* diagnostics of refused records: [source, session]
  pass          \* the open pass: [file, before, seen, refused], or Nothing

storeVars == <<layout, revision, owner, eventOf, sourceRows, recordRows, recordBodies,
               bodyRows, artifactRows, strayBodies, refusals, pass>>

SourceRecord == [source : Source, session : StoredSession]
EventRow == [source : Source, decoded : Decodings]

StoreTypeOK ==
  /\ layout \in {"none", "database", "transcript"}
  /\ revision \in [StoredFile -> 1..MaxRevision]
  /\ owner \in [StoredSession -> Source \cup {Nothing}]
  /\ eventOf \in [StoredSession -> EventRow \cup {Nothing}]
  /\ sourceRows \subseteq Source /\ recordRows \subseteq SourceRecord
  /\ recordBodies \subseteq [record : SourceRecord, body : Bodies]
  /\ bodyRows \subseteq Bodies /\ strayBodies \subseteq Bodies /\ artifactRows \subseteq Paths
  /\ refusals \subseteq SourceRecord
  /\ pass = Nothing \/ pass \in [file : StoredFile, before : SUBSET StoredSession,
                                 seen : SUBSET StoredSession, refused : BOOLEAN]

-----------------------------------------------------------------------------
StoreInit ==
  /\ layout = "none"
  /\ revision = [f \in StoredFile |-> 1]
  /\ owner = [s \in StoredSession |-> Nothing]
  /\ eventOf = [s \in StoredSession |-> Nothing]
  /\ sourceRows = {} /\ recordRows = {} /\ recordBodies = {} /\ bodyRows = {}
  /\ artifactRows = {} /\ strayBodies = {} /\ refusals = {} /\ pass = Nothing

CreateStore(kind) ==
  /\ layout = "none" /\ layout' = kind
  /\ UNCHANGED <<revision, owner, eventOf, sourceRows, recordRows, recordBodies,
                 bodyRows, artifactRows, strayBodies, refusals, pass>>

RewritesLeft == FoldFunction(+, 0, revision) < Cardinality(StoredFile) + MaxRewrites

RewriteFile(f) ==
  /\ pass = Nothing /\ revision[f] < MaxRevision /\ RewritesLeft
  /\ revision' = [revision EXCEPT ![f] = @ + 1]
  /\ UNCHANGED <<layout, owner, eventOf, sourceRows, recordRows, recordBodies,
                 bodyRows, artifactRows, strayBodies, refusals, pass>>

FileOf(s) == IF eventOf[s] = Nothing THEN Nothing ELSE eventOf[s].source.file

OpenPass(f) ==
  /\ layout # "none" /\ pass = Nothing
  /\ pass' = [file |-> f, before |-> {s \in StoredSession : FileOf(s) = f},
              seen |-> {}, refused |-> FALSE]
  /\ UNCHANGED <<layout, revision, owner, eventOf, sourceRows, recordRows, recordBodies,
                 bodyRows, artifactRows, strayBodies, refusals>>

(* The Events of a Session go, whatever Source they came from; a result    *)
(* without an invocation keeps its row and its body.                       *)
Strays(sessions) ==
  {eventOf[s].decoded.body : s \in {t \in sessions : eventOf[t] # Nothing /\ eventOf[t].decoded.loose}}
    \ {Nothing}

(* The records an adapter refuses are listed for the whole database, and   *)
(* the list so far is stored with each Session.                            *)
ReplaceSession(s, d) ==
  LET x == [file |-> pass.file, revision |-> revision[pass.file]]
      r == [source |-> x, session |-> s] IN
  /\ pass # Nothing /\ s \notin pass.seen
  /\ layout = "transcript" => pass.seen = {}
  /\ pass' = [pass EXCEPT !.seen = @ \cup {s}, !.refused = @ \/ d.refused]
  /\ strayBodies' = strayBodies \cup Strays({s})
  /\ owner' = [owner EXCEPT ![s] = x]
  /\ eventOf' = [eventOf EXCEPT ![s] = [source |-> x, decoded |-> d]]
  /\ sourceRows' = sourceRows \cup {x}
  /\ recordRows' = recordRows \cup {r}
  /\ recordBodies' =
       IF d.body = Nothing THEN recordBodies
       ELSE {b \in recordBodies : b.record # r} \cup {[record |-> r, body |-> d.body]}
  /\ bodyRows' = bodyRows \cup ({d.body} \ {Nothing})
  /\ artifactRows' = artifactRows \cup ({d.path} \ {Nothing})
  /\ refusals' = IF pass.refused \/ d.refused THEN refusals \cup {r} ELSE refusals
  /\ UNCHANGED <<layout, revision>>

(* A transcript that decodes to no Event has no Session; what it refused   *)
(* is not stored.                                                          *)
RemoveSession(s) ==
  /\ layout = "transcript" /\ pass # Nothing /\ pass.seen = {}
  /\ pass' = [pass EXCEPT !.seen = {s}]
  /\ strayBodies' = strayBodies \cup Strays({s})
  /\ owner' = [owner EXCEPT ![s] = Nothing]
  /\ eventOf' = [eventOf EXCEPT ![s] = Nothing]
  /\ refusals' = {r \in refusals : r.session # s}
  /\ UNCHANGED <<layout, revision, sourceRows, recordRows, recordBodies, bodyRows, artifactRows>>

(* What refers to a Source: Sessions and Events.                           *)
Referred(owners, events) ==
  {owners[s] : s \in StoredSession} \cup
  {events[s].source : s \in {t \in StoredSession : events[t] # Nothing}}

BodiesIn(events) == {events[s].decoded.body : s \in {t \in StoredSession : events[t] # Nothing}}
PathsIn(events) == {events[s].decoded.path : s \in {t \in StoredSession : events[t] # Nothing}}

(* What keeps a body: an Event, a source record that is left, or a stray   *)
(* result.                                                                 *)
KeptBodies(events, records, strays) ==
  BodiesIn(events) \cup {b.body : b \in records} \cup strays

(* Unused artifacts go; then Sources nothing refers to, with their records *)
(* and diagnostics.  Bodies are looked at only where a Source went.        *)
Prune(owners, events, diagnostics, strays) ==
  LET stale == sourceRows \ Referred(owners, events)
      records == {b \in recordBodies : b.record.source \notin stale} IN
  /\ artifactRows' = artifactRows \cap PathsIn(events)
  /\ sourceRows' = sourceRows \ stale
  /\ recordRows' = {r \in recordRows : r.source \notin stale}
  /\ recordBodies' = records
  /\ refusals' = {r \in diagnostics : r.source \notin stale}
  /\ bodyRows' = IF stale = {} THEN bodyRows ELSE bodyRows \cap KeptBodies(events, records, strays)

(* The Sessions the database no longer contains: it had Events of them     *)
(* when the pass began, the pass did not see them, and no Event of another *)
(* file is left.                                                           *)
\* Faulty variant: every Session the pass did not see.
DroppedUnseen == {s \in StoredSession \ pass.seen : owner[s] # Nothing}

Dropped == {s \in pass.before \ pass.seen : FileOf(s) = pass.file}

ClosePass ==
  LET gone == Dropped
      owners == [s \in StoredSession |-> IF s \in gone THEN Nothing ELSE owner[s]]
      events == [s \in StoredSession |-> IF s \in gone THEN Nothing ELSE eventOf[s]] IN
  /\ layout = "database" /\ pass # Nothing /\ pass' = Nothing
  /\ owner' = owners /\ eventOf' = events
  /\ strayBodies' = strayBodies \cup Strays(gone)
  /\ Prune(owners, events, {r \in refusals : r.session \notin gone},
           strayBodies \cup Strays(gone))
  /\ UNCHANGED <<layout, revision>>

EndTranscript ==
  /\ layout = "transcript" /\ pass # Nothing /\ pass.seen # {} /\ pass' = Nothing
  /\ UNCHANGED <<layout, revision, owner, eventOf, sourceRows, recordRows, recordBodies,
                 bodyRows, artifactRows, strayBodies, refusals>>

Sweep ==
  /\ layout = "transcript" /\ pass = Nothing
  /\ Prune(owner, eventOf, refusals, strayBodies)
  /\ UNCHANGED <<layout, revision, owner, eventOf, strayBodies, pass>>

StoreNext ==
  \/ \E kind \in {"database", "transcript"} : CreateStore(kind)
  \/ \E f \in StoredFile : RewriteFile(f) \/ OpenPass(f)
  \/ \E s \in StoredSession :
       \/ \E d \in Decodings : ReplaceSession(s, d)
       \/ RemoveSession(s)
  \/ ClosePass \/ EndTranscript \/ Sweep

StoreSpec == StoreInit /\ [][StoreNext]_storeVars

-----------------------------------------------------------------------------
(* What rows share outlives the replacement of any one of them: the Source *)
(* record, the body and the artifact of every Event are held, and every    *)
(* record, body link and diagnostic belongs to a Source with a row.        *)
SharedRowsAreHeld ==
  /\ \A s \in StoredSession : eventOf[s] # Nothing =>
       LET e == eventOf[s] IN
       /\ e.source \in sourceRows /\ e.decoded.body \in bodyRows \cup {Nothing}
       /\ e.decoded.path \in artifactRows \cup {Nothing}
       /\ [source |-> e.source, session |-> s] \in recordRows
       /\ owner[s] = e.source
  /\ {r.source : r \in recordRows} \cup {r.source : r \in refusals} \subseteq sourceRows
  /\ {b.record : b \in recordBodies} \subseteq recordRows
  /\ {b.body : b \in recordBodies} \cup strayBodies \subseteq bodyRows

(* A database gives up only what it owned: a step removes a Session only   *)
(* if its last Event came from the file of the pass, or the pass found the *)
(* Session's transcript empty.                                             *)
OnlyOwnedSessionsGo ==
  [][\A s \in StoredSession : owner[s] # Nothing /\ owner'[s] = Nothing =>
       pass # Nothing /\ (FileOf(s) = pass.file \/ (layout = "transcript" /\ s \in pass'.seen))]_storeVars
=============================================================================
