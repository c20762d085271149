-------------------------- MODULE ActivityOverview --------------------------
(***************************************************************************)
(* The overview of what a query selects (query_api._overview): one pass    *)
(* over the rows of every store, in whatever order SQLite gives them,      *)
(* fills a bucket per day, and the buckets are summed up afterwards.       *)
(* Interactions are told apart by their store.                             *)
(***************************************************************************)
EXTENDS Naturals, Sequences, FiniteSets, FiniteSetsExt, SequencesExt, Orders

CONSTANTS
  Selections,   \* BOUND: sets of rows an overview is made of, of the form OverviewRow
  DayLength,    \* moments of a day
  DayLimit,     \* days reported (facet_limit)
  GapCap        \* the gap counted as activity at most

OverviewRow == [key : Nat,                  \* tells rows apart
                at : Nat,                   \* 0: no time stated
                exchange : Nat \X Nat,      \* store and interaction, 0 for none
                does : {"prompts", "responds", "other"}]

ASSUME OverviewAssumption ==
  /\ \A R \in Selections : IsFiniteSet(R) /\ R \subseteq OverviewRow
  /\ {DayLength, DayLimit} \subseteq Nat \ {0} /\ GapCap \in Nat

VARIABLES
  selected,  \* the rows the request selects
  unread,    \* those still to be read
  buckets,   \* what each day has so far
  latest,    \* the last response of each interaction
  stamps,    \* the times read, as <<time, key>>
  overview   \* what is reported

overviewVars == <<selected, unread, buckets, latest, stamps, overview>>

Day(at) == at \div DayLength
Named(x) == x[2] # 0
NoBucket == [rows |-> 0, prompts |-> {}, lastAt |-> 0, lastOf |-> <<0, 0>>]
NoOverview == [made |-> FALSE, days |-> <<>>, of |-> 0, active |-> 0, span |-> 0]

OverviewTypeOK ==
  /\ selected \in Selections \cup {{}} /\ unread \subseteq selected
  /\ \A d \in DOMAIN buckets :
       /\ buckets[d].rows \in Nat /\ buckets[d].lastAt \in Nat
       /\ buckets[d].prompts \subseteq {r.exchange : r \in selected}
  /\ \A x \in DOMAIN latest : latest[x] \in Nat
  /\ stamps \subseteq {<<r.at, r.key>> : r \in selected}
  /\ overview.made \in BOOLEAN /\ {overview.of, overview.active, overview.span} \subseteq Nat

OverviewInit ==
  /\ selected = {} /\ unread = {}
  /\ buckets = << >> /\ latest = << >> /\ stamps = {}
  /\ overview = NoOverview

\* The request selects its rows.
Select ==
  /\ selected = {} /\ ~overview.made
  /\ selected' \in Selections /\ unread' = selected'
  /\ UNCHANGED <<buckets, latest, stamps, overview>>

\* The value of a function, or another one outside its domain.
ValueAt(f, x, else) == IF x \in DOMAIN f THEN f[x] ELSE else
Put(f, x, v) == [y \in DOMAIN f \cup {x} |-> IF y = x THEN v ELSE f[y]]

\* A prompt at the time of the last one, or later, becomes the last one.
WithRow(b, r) ==
  LET last == r.does = "prompts" /\ r.at >= b.lastAt
  IN [b EXCEPT !.rows = @ + 1,
               !.prompts = IF r.does = "prompts" /\ Named(r.exchange) THEN @ \cup {r.exchange} ELSE @,
               !.lastAt = IF last THEN r.at ELSE @,
               !.lastOf = IF last THEN r.exchange ELSE @]

\* Responses count for their interaction whatever their day.
Responds(r) == r.does = "responds" /\ Named(r.exchange)

\* A row without a time is only counted.
ReadRow ==
  \E r \in unread :
    /\ unread' = unread \ {r}
    /\ IF r.at = 0 THEN UNCHANGED <<buckets, latest, stamps>>
       ELSE LET d == Day(r.at)
            IN /\ stamps' = stamps \cup {<<r.at, r.key>>}
               /\ buckets' = Put(buckets, d, WithRow(ValueAt(buckets, d, NoBucket), r))
               /\ latest' = IF Responds(r)
                            THEN Put(latest, r.exchange, Max({r.at, ValueAt(latest, r.exchange, r.at)}))
                            ELSE latest
    /\ UNCHANGED <<selected, overview>>

\* The gaps between the times read, each counted up to the cap.
StampBefore(a, b) == a[1] < b[1] \/ (a[1] = b[1] /\ a[2] < b[2])
Times ==
  LET list == ListOf(stamps, StampBefore)
  IN [i \in DOMAIN list |-> list[i][1]]
Capped(cap) ==
  LET times == Times
  IN Total([i \in DOMAIN times |-> IF i = 1 THEN 0 ELSE Min({cap, times[i] - times[i - 1]})])

\* The last response to the last prompt of a day, 0 when none came after it.
FinalAt(b) ==
  LET answered == IF Named(b.lastOf) THEN ValueAt(latest, b.lastOf, 0) ELSE 0
  IN IF answered < b.lastAt THEN 0 ELSE answered

DayLine(d) ==
  LET b == buckets[d]
  IN [day |-> d, rows |-> b.rows, prompts |-> Cardinality(b.prompts), lastAt |-> b.lastAt,
      finalAt |-> FinalAt(b), answered |-> Cardinality(b.prompts \cap DOMAIN latest)]

\* The last days are reported, in their order.
DayBefore(c, d) == c < d
Report ==
  LET days == ListOf(DOMAIN buckets, DayBefore)
      kept == SubSeq(days, IF Len(days) > DayLimit THEN Len(days) - DayLimit + 1 ELSE 1, Len(days))
      times == Times
  IN [made |-> TRUE, days |-> [i \in DOMAIN kept |-> DayLine(kept[i])], of |-> Len(days),
      active |-> Capped(GapCap), span |-> IF times = <<>> THEN 0 ELSE times[Len(times)] - times[1]]

Summarise ==
  /\ unread = {} /\ ~overview.made
  /\ overview' = Report
  /\ UNCHANGED <<selected, unread, buckets, latest, stamps>>

OverviewNext == Select \/ ReadRow \/ Summarise

OverviewSpec == OverviewInit /\ [][OverviewNext]_overviewVars

---------------------------------------------------------------------------
PromptsOn(d) == {r \in selected : r.does = "prompts" /\ r.at # 0 /\ Day(r.at) = d}
Answers(x) == {r.at : r \in {q \in selected : Responds(q) /\ q.exchange = x /\ q.at # 0}}

\* In whatever order the rows come, a day's last prompt is its last one, and what
\* is called its final answer is the last response of the interaction of a prompt
\* at that time, none before it (query_api._overview).
LastPromptIsAnswered ==
  overview.made => \A l \in ToSet(overview.days) :
    LET last == {r \in PromptsOn(l.day) : r.at = l.lastAt}
        ends == {Max(Answers(r.exchange)) : r \in {q \in last : Named(q.exchange) /\ Answers(q.exchange) # {}}}
    IN /\ PromptsOn(l.day) # {} => l.lastAt = Max({r.at : r \in PromptsOn(l.day)})
       /\ l.finalAt = 0 \/ l.finalAt \in {t \in ends : t >= l.lastAt}
       /\ Cardinality(last) = 1 /\ (\E t \in ends : t >= l.lastAt) => l.finalAt # 0

\* No timed row is lost or counted on two days, and activity never exceeds the
\* span nor falls short of it when no gap is longer than the cap.
DaysCoverTheRows ==
  overview.made =>
    /\ overview.of <= DayLimit =>
         Total([i \in DOMAIN overview.days |-> overview.days[i].rows]) =
           Cardinality({r \in selected : r.at # 0})
    /\ overview.active <= overview.span
    /\ Capped(overview.span) = overview.span

\* The figures of an overview are those of the rows, whatever their order.
OverviewFollowsTheRows == LastPromptIsAnswered /\ DaysCoverTheRows
=============================================================================
