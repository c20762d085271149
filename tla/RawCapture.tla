----------------------------- MODULE RawCapture -----------------------------
(***************************************************************************)
(* Observation of one source file for the raw evidence store (raw_store.py *)
(* with read_source_revision of fileio.py), by runs of several Projects,   *)
(* while the vendor goes on writing the file.                              *)
(*                                                                         *)
(* A reference is a digest of the bytes the first stat announced.  A       *)
(* capture copies the file to its end, and is refused when a stat after the *)
(* copy differs from the one before it; a database is copied by SQLite.    *)
(* The copy is compressed aside and becomes the object named by its bytes, *)
(* unless that object is there: then the object is verified and its        *)
(* encoding reported.  The record of the observation replaces the one the   *)
(* Project's run had of the same file.                                     *)
(***************************************************************************)
EXTENDS Naturals, Sequences, FiniteSets, SequencesExt

CONSTANTS
  Project,      \* Projects whose runs observe the file
  Block,        \* what a chunk of it may hold
  First,        \* BOUND: what the file may hold at first
  MaxLength,    \* BOUND: chunks of the file
  MaxWrites,    \* BOUND: writes by the vendor
  MaxCaptures,  \* BOUND: observations begun
  Version       \* versions of the compressor, which encode alike bytes apart

ASSUME RawAssumption ==
  /\ MaxLength \in Nat /\ MaxWrites \in Nat /\ MaxCaptures \in Nat
  /\ Version # {} /\ First # {} /\ First \subseteq BoundedSeq(Block, MaxLength)

Absent == "absent"
Bytes == BoundedSeq(Block, MaxLength)
Stat(f) == [size |-> Len(f.bytes), stamp |-> f.stamp]
\* The record of an observation: how it was taken, the bytes its revision names,
\* what became of the file meanwhile, and for a captured one the encoding of the
\* object.  One that could not read the file has only a stat to name it by.
Observation == [how : {"none", "stat", "reference", "capture"}, bytes : Bytes, stamp : Nat,
                state : {"stable", "appended", "rewritten", "transactional", "error"},
                version : Version \cup {Absent}]
NoRecord ==
  [how |-> "none", bytes |-> <<>>, stamp |-> 0, state |-> "error", version |-> Absent]

VARIABLES
  format,     \* "transcript" or "database"
  file,       \* bytes of the file and the time of its last write
  past,       \* all bytes the file has had
  installed,  \* the compressor new captures load
  objects,    \* the objects of the store: encoding, and whether still whole
  capture,    \* where each Project's observation is
  record,     \* the record each Project's run holds of the file
  inSnapshot, \* the record the Project's current snapshot holds
  changed,    \* whether the run has records to publish (raw_records_changed)
  restored,   \* what restoring the record gave last
  writes, captures

rawVars == <<format, file, past, installed, objects, capture, record, inSnapshot,
             changed, restored, writes, captures>>

Idle == [step |-> "idle", how |-> Absent, before |-> [size |-> 0, stamp |-> 0], read |-> <<>>,
         version |-> Absent, quiet |-> FALSE]

RawTypeOK ==
  /\ format \in {"transcript", "database"}
  /\ file.bytes \in Bytes /\ file.stamp \in Nat /\ file.bytes \in past /\ past \subseteq Bytes
  /\ installed \in Version
  /\ DOMAIN objects \subseteq Bytes
  /\ \A b \in DOMAIN objects : objects[b] \in [version : Version, whole : BOOLEAN]
  /\ \A p \in Project :
       /\ capture[p].step \in {"idle", "read", "staged", "promote", "record"}
       /\ capture[p].read \in Bytes
       /\ {record[p], inSnapshot[p]} \subseteq Observation
       /\ changed[p] \in BOOLEAN
       /\ restored[p] \in {Absent, "exact", "refused"}
  /\ writes \in 0..MaxWrites /\ captures \in 0..MaxCaptures

RawInit ==
  /\ format \in {"transcript", "database"}
  /\ \E b \in First : file = [bytes |-> b, stamp |-> 0]
  /\ past = {file.bytes}
  /\ installed \in Version
  /\ objects = << >>
  /\ capture = [p \in Project |-> Idle]
  /\ record = [p \in Project |-> NoRecord] /\ inSnapshot = record
  /\ restored = [p \in Project |-> Absent]
  /\ changed = [p \in Project |-> FALSE]
  /\ writes = 0 /\ captures = 0

---------------------------------------------------------------------------
\* The environment: the vendor, the owner of the machine, the disk.

\* The vendor appends, overwrites or truncates; the time of the write may be
\* one the file has had before.  Such a write is quiet.
Write ==
  /\ writes < MaxWrites
  /\ writes' = writes + 1
  /\ \E b \in Bytes, quiet \in BOOLEAN :
       /\ b # file.bytes
       /\ file' = [bytes |-> b, stamp |-> IF quiet THEN file.stamp ELSE file.stamp + 1]
       /\ past' = past \cup {b}
       /\ capture' = [p \in Project |->
                        IF quiet /\ capture[p].step = "read"
                        THEN [capture[p] EXCEPT !.quiet = TRUE] ELSE capture[p]]
  /\ UNCHANGED <<format, installed, objects, record, inSnapshot, changed, restored, captures>>

\* The compressor is replaced while no observation is under way.
Upgrade ==
  /\ \A p \in Project : capture[p].step = "idle"
  /\ installed' \in Version \ {installed}
  /\ UNCHANGED <<format, file, past, objects, capture, record, inSnapshot, changed,
                 restored, writes, captures>>

Damage ==
  /\ \E b \in DOMAIN objects : objects[b].whole /\ objects' = [objects EXCEPT ![b].whole = FALSE]
  /\ UNCHANGED <<format, file, past, installed, capture, record, inSnapshot, changed,
                 restored, writes, captures>>

---------------------------------------------------------------------------
\* Observing.

\* FAULTY VARIANT: only a shorter file counts as another one.
ConsistencyBySize(before, after) ==
  IF before.size = after.size THEN "stable"
  ELSE IF after.size > before.size THEN "appended" ELSE "rewritten"

\* What happened to a file between two stats of it.
Consistency(before, after) ==
  IF before = after THEN "stable"
  ELSE IF after.size > before.size THEN "appended" ELSE "rewritten"

\* A capture of a database is SQLite's copy of one state; any other observation
\* reads the file itself.
Backup(how) == how = "capture" /\ format = "database"

Begin(p, how) ==
  /\ capture[p].step = "idle"
  /\ captures < MaxCaptures
  /\ captures' = captures + 1
  /\ capture' = [capture EXCEPT ![p] =
       [step |-> IF Backup(how) THEN "staged" ELSE "read", how |-> how, before |-> Stat(file),
        read |-> IF Backup(how) THEN file.bytes ELSE <<>>,
        version |-> IF how = "capture" THEN installed ELSE Absent, quiet |-> FALSE]]
  /\ UNCHANGED <<format, file, past, installed, objects, record, inSnapshot, changed,
                 restored, writes>>

\* A reference reads no further than announced, a capture to the end.
More(c) ==
  /\ Len(c.read) < Len(file.bytes)
  /\ c.how = "reference" => Len(c.read) < c.before.size

ReadChunk(p) ==
  /\ capture[p].step = "read"
  /\ More(capture[p])
  /\ capture' = [capture EXCEPT ![p].read = Append(@, file.bytes[Len(@) + 1])]
  /\ UNCHANGED <<format, file, past, installed, objects, record, inSnapshot, changed,
                 restored, writes, captures>>

\* What the revision of a record is made of.
Revision(r) == <<r.how, r.bytes, r.stamp>>

\* FAULTY VARIANT: the first record of a file is taken for nothing new.
DiffersLater(new, old) == old.how # "none" /\ Revision(new) # Revision(old)

\* A previous record of the same file goes; the run has something to publish
\* when the new one names another revision or another object.
Differs(new, old) == Revision(new) # Revision(old)

Merge(p, new) ==
  /\ record' = [record EXCEPT ![p] = new]
  /\ changed' = [changed EXCEPT ![p] = @ \/ Differs(new, record[p])]

\* A reference is recorded whatever happened to the file.
Refer(p) ==
  /\ capture[p].step = "read" /\ capture[p].how = "reference"
  /\ ~More(capture[p])
  /\ Merge(p, [how |-> "reference", bytes |-> capture[p].read, stamp |-> 0, version |-> Absent,
               state |-> Consistency(capture[p].before, Stat(file))])
  /\ capture' = [capture EXCEPT ![p] = Idle]
  /\ UNCHANGED <<format, file, past, installed, objects, inSnapshot, restored, writes, captures>>

\* A copy counts when no stat tells of a change and its size is the announced.
Exact(c) ==
  /\ Consistency(c.before, Stat(file)) = "stable"
  /\ Len(c.read) = c.before.size

Check(p) ==
  /\ capture[p].step = "read" /\ capture[p].how = "capture"
  /\ ~More(capture[p])
  /\ capture' = [capture EXCEPT ![p] = IF Exact(@) THEN [@ EXCEPT !.step = "staged"] ELSE Idle]
  /\ UNCHANGED <<format, file, past, installed, objects, record, inSnapshot, changed,
                 restored, writes, captures>>

\* An object decodes to the bytes that name it.
Whole(b) == b \in DOMAIN objects /\ objects[b].whole

\* FAULTY VARIANT: the record tells of the encoding of the copy thrown away.
LookUpOwn(p) ==
  /\ capture[p].step = "staged"
  /\ LET b == capture[p].read
     IN capture' = [capture EXCEPT ![p] =
          IF b \notin DOMAIN objects THEN [@ EXCEPT !.step = "promote"]
          ELSE IF ~Whole(b) THEN Idle
          ELSE [@ EXCEPT !.step = "record"]]
  /\ UNCHANGED <<format, file, past, installed, objects, record, inSnapshot, changed,
                 restored, writes, captures>>

\* An object that is there keeps its encoding; a damaged one ends the capture.
LookUp(p) ==
  /\ capture[p].step = "staged"
  /\ LET b == capture[p].read
     IN capture' = [capture EXCEPT ![p] =
          IF b \notin DOMAIN objects THEN [@ EXCEPT !.step = "promote"]
          ELSE IF ~Whole(b) THEN Idle
          ELSE [@ EXCEPT !.step = "record", !.version = objects[b].version]]
  /\ UNCHANGED <<format, file, past, installed, objects, record, inSnapshot, changed,
                 restored, writes, captures>>

\* The copy is moved over whatever has that name by now.
Promote(p) ==
  /\ capture[p].step = "promote"
  /\ LET b == capture[p].read
     IN objects' = [x \in DOMAIN objects \cup {b} |->
          IF x = b THEN [version |-> capture[p].version, whole |-> TRUE] ELSE objects[x]]
  /\ capture' = [capture EXCEPT ![p].step = "record"]
  /\ UNCHANGED <<format, file, past, installed, record, inSnapshot, changed, restored,
                 writes, captures>>

Record(p) ==
  /\ capture[p].step = "record"
  /\ Merge(p, [how |-> "capture", bytes |-> capture[p].read, stamp |-> 0,
              version |-> capture[p].version,
               state |-> IF format = "database" THEN "transactional" ELSE "stable"])
  /\ capture' = [capture EXCEPT ![p] = Idle]
  /\ UNCHANGED <<format, file, past, installed, objects, inSnapshot, restored, writes, captures>>

\* An unreadable file ends a capture; a reference falls back on the stat.
ReadFails(p) ==
  /\ capture[p].step = "read"
  /\ capture' = [capture EXCEPT ![p] = Idle]
  /\ \/ /\ capture[p].how = "reference"
        /\ Merge(p, [NoRecord EXCEPT !.how = "stat", !.stamp = capture[p].before.stamp])
     \/ capture[p].how = "capture" /\ UNCHANGED <<record, changed>>
  /\ UNCHANGED <<format, file, past, installed, objects, inSnapshot, restored, writes, captures>>

\* A run ends before it published; the next one starts from the records of the
\* current snapshot, and what was staged is not an object.
Crash(p) ==
  /\ capture[p].step # "idle" \/ record[p] # inSnapshot[p]
  /\ capture' = [capture EXCEPT ![p] = Idle]
  /\ record' = [record EXCEPT ![p] = inSnapshot[p]]
  /\ changed' = [changed EXCEPT ![p] = FALSE]
  /\ UNCHANGED <<format, file, past, installed, objects, inSnapshot, restored, writes, captures>>

\* A snapshot is published with the records when one changed.
PublishRecords(p) ==
  /\ capture[p].step = "idle" /\ changed[p]
  /\ inSnapshot' = [inSnapshot EXCEPT ![p] = record[p]]
  /\ changed' = [changed EXCEPT ![p] = FALSE]
  /\ UNCHANGED <<format, file, past, installed, objects, capture, record, restored,
                 writes, captures>>

\* Restoring gives the bytes of the object, if it is what the record says.
Restore(p) ==
  /\ inSnapshot[p].how = "capture"
  /\ LET r == inSnapshot[p]
     IN restored' = [restored EXCEPT ![p] =
          IF Whole(r.bytes) /\ objects[r.bytes].version = r.version
          THEN "exact" ELSE "refused"]
  /\ UNCHANGED <<format, file, past, installed, objects, capture, record, inSnapshot,
                 changed, writes, captures>>

RawNext ==
  \/ Write \/ Upgrade \/ Damage
  \/ \E p \in Project :
       \/ \E how \in {"reference", "capture"} : Begin(p, how)
       \/ ReadChunk(p) \/ Refer(p) \/ Check(p) \/ LookUp(p) \/ Promote(p) \/ Record(p)
       \/ ReadFails(p) \/ Crash(p) \/ PublishRecords(p) \/ Restore(p)

RawSpec == RawInit /\ [][RawNext]_rawVars

---------------------------------------------------------------------------
\* A staged copy holds bytes the file had as a whole, unless a write during the
\* copy left the time alone (raw_store._compress_file).
CopiesAreExact ==
  \A p \in Project : capture[p].step \in {"staged", "promote", "record"} /\ ~capture[p].quiet =>
    capture[p].read \in past

\* What a captured record names is in the store, in the encoding it states: the
\* record can be restored as long as the object is whole (RawStore.observe).
CapturesAreHeld ==
  \A p \in Project : \A r \in {record[p], inSnapshot[p]} :
    r.how = "capture" =>
      r.bytes \in DOMAIN objects /\ objects[r.bytes].version = r.version

\* A run whose record is not what the current snapshot holds has noticed: the
\* snapshot is published anew (ingest_sources._merge_raw_record).
DifferencesAreNoticed ==
  \A p \in Project : ~changed[p] =>
    [record[p] EXCEPT !.state = "stable"] = [inSnapshot[p] EXCEPT !.state = "stable"]

\* Capture while the vendor writes, several Projects capture alike bytes, the
\* compressor changes and runs end half way: copies are of one state, records
\* name objects as they are stored, and a changed record is published.
RecordsTellWhatIsKept == CopiesAreExact /\ CapturesAreHeld /\ DifferencesAreNoticed
=============================================================================
