---------------------------- MODULE ReportBuffer ----------------------------
(***************************************************************************)
(* The reporting facility of a process: events above the lowest threshold  *)
(* of the attached sinks are put into a ring of fixed capacity, drained in *)
(* batches, and handed to every sink, which takes those of its own level   *)
(* and may fail.  Losses are counted, in the ring and per batch.           *)
(*                                                                         *)
(* An event is the number of its acceptance; `log` gives its level.        *)
(***************************************************************************)
EXTENDS Integers, FiniteSets, Sequences, SequencesExt

CONSTANTS
  Sink,          \* attached sinks
  Floor,         \* the level from which each sink takes events
  Collector,     \* the sink that keeps records for the durable report
  MaxRecords,    \* how many it keeps
  Capacity,      \* size of the ring
  FlushEvents,   \* events in a batch
  MaxEvents      \* bound on the events of a run

DEBUG == 1
INFO == 2
WARNING == 3
ERROR == 4
Level == DEBUG..ERROR

ASSUME ReportAssumption ==
  /\ Floor \in [Sink -> Level]
  /\ Collector \in Sink /\ IsFiniteSet(Sink)
  /\ {MaxRecords, Capacity, FlushEvents} \subseteq Nat \ {0}
  /\ FlushEvents <= Capacity
  /\ MaxEvents \in Nat

VARIABLES
  log,        \* history: level of every event accepted
  slots,      \* the ring: an event in each slot, or 0
  write,      \* the slot to be written next
  count,      \* slots in use
  pending,    \* events since the last drain
  overrun,    \* events overwritten, as the ring counts them
  taken,      \* events each sink has taken, in order
  refused,    \* events the collector had no room for
  failed,     \* history: events of the batches each sink failed on
  counter     \* the counter events_dropped

ring == <<slots, write, count, pending, overrun>>
reportVars == <<log, ring, taken, refused, failed, counter>>

Event == 1..MaxEvents

ReportTypeOK ==
  /\ log \in Seq(Level) /\ Len(log) <= MaxEvents
  /\ slots \in [0..Capacity - 1 -> 0..Len(log)] /\ write \in DOMAIN slots
  /\ count \in 0..Capacity /\ pending \in 0..FlushEvents
  /\ overrun \in Nat
  /\ taken \in [Sink -> Seq(Event)] /\ refused \subseteq Event
  /\ failed \in [Sink -> SUBSET Event] /\ counter \in Nat

ReportInit ==
  /\ log = <<>>
  /\ slots = [k \in 0..Capacity - 1 |-> 0] /\ write = 0
  /\ count = 0 /\ pending = 0 /\ overrun = 0
  /\ taken = [s \in Sink |-> <<>>] /\ refused = {}
  /\ failed = [s \in Sink |-> {}] /\ counter = 0

-----------------------------------------------------------------------------
\* The lowest threshold of the attached sinks: what is constructed at all.
MinLevel == CHOOSE l \in Level : /\ \E s \in Sink : Floor[s] = l
                                 /\ \A s \in Sink : l <= Floor[s]

\* The n events before slot w, oldest first.
Window(sl, w, n) == [i \in 1..n |-> sl[(w + Capacity - n + i - 1) % Capacity]]

\* Faulty variant: read from the first slot, not the oldest.
RetainedAll == Window(slots, 0, count)

\* Every event still held, oldest first.
Retained == Window(slots, write, count)

\* The places of a batch, in their order.
Ascending(places) == CHOOSE order \in [1..Cardinality(places) -> places] :
                       \A j, k \in DOMAIN order : j < k => order[j] < order[k]

\* What a sink takes of a batch; the collector only while it has room.
Accepted(lg, s, batch) ==
  LET order == Ascending({k \in DOMAIN batch : lg[batch[k]] >= Floor[s]})
  IN  [i \in DOMAIN order |-> batch[order[i]]]
Room(s) == IF s = Collector THEN MaxRecords - Len(taken[s]) ELSE MaxEvents
Kept(s, batch) == SubSeq(batch, 1, IF Len(batch) < Room(s) THEN Len(batch) ELSE Room(s))
Left(s, batch) == SubSeq(batch, Room(s) + 1, Len(batch))

\* The batch goes to every sink.  One that fails does not stop the others; it
\* has taken nothing, and the batch is counted.
Emit(lg, batch, failing) ==
  /\ taken' = [s \in Sink |-> IF s \in failing THEN taken[s]
                              ELSE taken[s] \o Kept(s, Accepted(lg, s, batch))]
  /\ refused' = IF Collector \in failing THEN refused
                ELSE refused \cup ToSet(Left(Collector, Accepted(lg, Collector, batch)))
  /\ failed' = [s \in Sink |-> failed[s] \cup IF s \in failing THEN ToSet(batch) ELSE {}]

Failures(failing, batch) == Cardinality(failing) * Len(batch)

\* Faulty variant: a full batch waits for a warning.
FlushDueOnWarning(l, n) == l >= WARNING

\* Faulty variant: a warning waits for its batch.
FlushDueBatch(l, n) == n >= FlushEvents

\* Whether an append asks for a flush.
FlushDue(l, n) == n >= FlushEvents \/ l >= WARNING

\* Faulty variant: a drain returns all that is retained.
DrainAll(sl, w, c, n) == Window(sl, w, c)

\* The events since the last drain, those still in the ring.
Drain(sl, w, c, n) == Window(sl, w, IF n < c THEN n ELSE c)

\* An event below every threshold is not even constructed; any other is put
\* into the ring, over the oldest one, and the batch is emitted when it is due.
Report(l, failing) ==
  LET lg == Append(log, l)
      sl == [slots EXCEPT ![write] = Len(lg)]
      w  == (write + 1) % Capacity
      c  == IF count = Capacity THEN count ELSE count + 1
      batch == Drain(sl, w, c, pending + 1)
  IN  /\ l >= MinLevel /\ Len(log) < MaxEvents
      /\ log' = lg /\ slots' = sl /\ write' = w /\ count' = c
      /\ overrun' = IF count = Capacity THEN overrun + 1 ELSE overrun
      /\ IF FlushDue(l, pending + 1)
           THEN /\ pending' = 0
                /\ Emit(lg, batch, failing)
                /\ counter' = counter + Failures(failing, batch)
           ELSE /\ failing = {}
                /\ pending' = pending + 1
                /\ UNCHANGED <<taken, refused, failed, counter>>

\* The boundary of a phase: the rest is emitted, and the ring's count replaces
\* the counter.
Flush(failing) ==
  LET batch == Drain(slots, write, count, pending)
      after == counter + Failures(failing, batch)
  IN  /\ pending = 0 => failing = {}
      /\ pending' = 0
      /\ Emit(log, batch, failing)
      /\ counter' = IF overrun > 0 THEN overrun ELSE after
      /\ UNCHANGED <<log, slots, write, count, overrun>>

ReportNext == \E failing \in SUBSET Sink :
                \/ \E l \in Level : Report(l, failing)
                \/ Flush(failing)

ReportSpec == ReportInit /\ [][ReportNext]_reportVars

-----------------------------------------------------------------------------
\* Every sink takes the events of its level once and in order, except those of
\* batches it failed on, the collector's beyond its room, and what still waits;
\* no warning waits; and the ring holds the last events accepted, oldest first,
\* however often it wrapped (EventRing.append, drain and retained, _emit).
DeliversInOrder ==
  /\ \A s \in Sink :
       /\ \A j, k \in DOMAIN taken[s] : j < k => taken[s][j] < taken[s][k]
       /\ ToSet(taken[s]) = {e \in 1..Len(log) - pending :
                              /\ log[e] >= Floor[s] /\ e \notin failed[s]
                              /\ s = Collector => e \notin refused}
  /\ \A e \in Len(log) - pending + 1..Len(log) : log[e] < WARNING
  /\ Retained = [i \in 1..count |-> Len(log) - count + i]
  /\ count = IF Len(log) < Capacity THEN Len(log) ELSE Capacity
=============================================================================
