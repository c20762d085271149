--------------------------- MODULE QuerySelection ---------------------------
(***************************************************************************)
(* Typed queries over the stores of the selected snapshots (query_api.py)  *)
(* and the investigations made of them: a request is validated, every      *)
(* store is read in order, the least row of all stores is returned first,  *)
(* until a limit of rows or bytes; a saved result selects what a later     *)
(* request is about, or is compared with a later result.                  *)
(*                                                                         *)
(* An Event stands for a row with its Session, turn (or interaction), kind *)
(* and time; two stores may hold the same Event.  Between queries other    *)
(* snapshots may be selected.                                              *)
(***************************************************************************)
EXTENDS Integers, Sequences, FiniteSets, SequencesExt, Orders

CONSTANTS
  Store,        \* stores, numbered in the order they are opened
  QueryEvent,   \* rows stores may hold, of the form QueryRow
  Contents,     \* BOUND: what the selected stores may hold, [Store -> SUBSET QueryEvent]
  Requests,     \* BOUND: requests made, of the form Request
  MaxQueries    \* BOUND: queries made

NoLimit == -1
QueryRow == [id : Nat, session : Nat, seq : Nat, turn : Nat, kind : STRING,
             at : Nat,                    \* 0: no time stated
             size : Nat, body : Nat]
Request == [ids : SUBSET Nat, sessions : SUBSET Nat, turns : SUBSET Nat, kinds : SUBSET STRING,
            expand : BOOLEAN, before : Nat, after : Nat,
            limit : Nat \cup {NoLimit}, room : Nat \cup {NoLimit}]

\* One store holds an Event once (the identity of a row is unique there).
IdsTellApart(held) == \A d, e \in held : d.id = e.id => d = e

ASSUME QueryAssumption ==
  /\ Store \subseteq Nat /\ IsFiniteSet(Store) /\ QueryEvent \subseteq QueryRow
  /\ \A c \in Contents : c \in [Store -> SUBSET QueryEvent]
       /\ \A s \in Store : IsFiniteSet(c[s]) /\ IdsTellApart(c[s])
  /\ Requests \subseteq Request /\ MaxQueries \in Nat

VARIABLES
  stores,      \* what the stores of the selected snapshots hold
  asked,       \* the request being answered
  cursors,     \* rows each store has still to give
  heads,       \* the next row of each store that has one
  returned, used,  \* rows returned, each with its store, and their bytes
  shortfalls,     \* why there may be more
  answer,      \* "none", "open", "done", "refused"
  saved,       \* a saved result
  difference,  \* what comparing the answer with the saved result gave
  narrowed,    \* the request was narrowed to Events of the saved result
  queries

queryVars == <<stores, asked, cursors, heads, returned, used, shortfalls, answer, saved,
               difference, narrowed, queries>>

NoRequest == [ids |-> {}, sessions |-> {}, turns |-> {}, kinds |-> {}, expand |-> FALSE,
              before |-> 0, after |-> 0, limit |-> NoLimit, room |-> NoLimit]
NoResult == [held |-> FALSE, request |-> NoRequest, returned |-> <<>>, shortfalls |-> {}, all |-> {}]
NoDifference == [made |-> FALSE, comparable |-> FALSE, added |-> {}, removed |-> {}, changed |-> {}]
Row == [store : Store, event : QueryEvent]

QueryTypeOK ==
  /\ stores \in [Store -> SUBSET QueryEvent]
  /\ cursors \in [Store -> Seq(QueryEvent)]
  /\ heads \subseteq Row /\ returned \in Seq(Row) /\ used \in Nat
  /\ shortfalls \subseteq {"bytes", "rows"}
  /\ answer \in {"none", "open", "done", "refused"}
  /\ saved.held \in BOOLEAN /\ saved.returned \in Seq(Row) /\ saved.all \subseteq Row
  /\ {difference.made, difference.comparable, narrowed} \subseteq BOOLEAN
  /\ queries \in 0..MaxQueries

QueryInit ==
  /\ stores = [s \in Store |-> {}]
  /\ asked = NoRequest /\ cursors = [s \in Store |-> <<>>] /\ heads = {}
  /\ returned = <<>> /\ used = 0 /\ shortfalls = {} /\ answer = "none"
  /\ saved = NoResult /\ difference = NoDifference /\ narrowed = FALSE /\ queries = 0

---------------------------------------------------------------------------
\* What a request selects.

Windowed(q) == q.before > 0 \/ q.after > 0
Expanding(q) == q.expand \/ Windowed(q)

\* An expansion needs something to expand and takes no filter on the content.
Valid(q) ==
  /\ Expanding(q) => q.ids \cup q.turns # {} /\ q.kinds = {}
  /\ Windowed(q) => q.ids # {}

\* A list of values filters unless it is empty.
In(value, values) == values # {} => value \in values

Filtered(q, e) ==
  In(e.id, q.ids) /\ In(e.session, q.sessions) /\ In(e.turn, q.turns) /\ In(e.kind, q.kinds)

\* The Events a request names are looked up in each store: their turns and the
\* Events around them in their Sessions are its expansion there.
Anchors(q, held) == {e \in held : e.id \in q.ids}
Expanded(q, held, e) ==
  /\ In(e.session, q.sessions)
  /\ \/ e.id \in q.ids
     \/ e.turn \in q.turns
     \/ q.expand /\ e.turn # 0 /\ \E a \in Anchors(q, held) : a.turn = e.turn
     \/ Windowed(q) /\ \E a \in Anchors(q, held) :
          a.session = e.session /\ e.seq \in (a.seq - q.before)..(a.seq + q.after)

Selected(q, held) ==
  {e \in held : IF Expanding(q) THEN Expanded(q, held, e) ELSE Filtered(q, e)}

\* The order of the rows of one store, and of the heads of several.
Less(k, l) == \E i \in DOMAIN k : k[i] < l[i] /\ \A j \in 1..i - 1 : k[j] = l[j]

\* FAULTY VARIANT: a row without a time comes first, as NULL does in SQL.
KeyNullFirst(e) == <<0, e.at, e.session, e.seq, e.id>>

Key(e) == <<IF e.at = 0 THEN 1 ELSE 0, e.at, e.session, e.seq, e.id>>
HeadKey(h) ==
  <<IF h.event.at = 0 THEN 1 ELSE 0, h.event.at, h.event.session, h.event.seq, h.event.id, h.store>>

\* The first rows a store gives: it is asked for no more than the limit.
RowBefore(a, b) == Less(Key(a), Key(b))
RowsInOrder(held) == ListOf(held, RowBefore)
Given(q, s) ==
  LET all == RowsInOrder(Selected(q, stores[s]))
  IN IF q.limit = NoLimit \/ Len(all) <= q.limit THEN all ELSE SubSeq(all, 1, q.limit)

---------------------------------------------------------------------------
\* Answering.

\* A request is refused, answered at once when no row is wanted, or opened.
Answer(q) ==
  /\ answer # "open" /\ queries < MaxQueries
  /\ queries' = queries + 1
  /\ asked' = q /\ returned' = <<>> /\ used' = 0 /\ shortfalls' = {}
  /\ difference' = NoDifference
  /\ answer' = IF ~Valid(q) THEN "refused" ELSE IF q.limit = 0 THEN "done" ELSE "open"
  /\ LET given == [s \in Store |-> IF answer' = "open" THEN Given(q, s) ELSE <<>>]
     IN /\ cursors' = [s \in Store |-> IF given[s] = <<>> THEN <<>> ELSE Tail(given[s])]
        /\ heads' = {[store |-> s, event |-> Head(given[s])] : s \in {t \in Store : given[t] # <<>>}}
  /\ UNCHANGED <<stores, saved>>

Ask == narrowed' = FALSE /\ \E q \in Requests : Answer(q)

HeadBefore(h, x) == Less(HeadKey(h), HeadKey(x))
Least(h) == \A x \in heads : x = h \/ HeadBefore(h, x)
NoMore == cursors' = [s \in Store |-> <<>>] /\ heads' = {}

\* A row that does not fit ends the answer.
Overflow ==
  /\ answer = "open" /\ asked.room # NoLimit
  /\ \E h \in heads : Least(h) /\ used + h.event.size > asked.room
  /\ shortfalls' = {"bytes"} /\ answer' = "done" /\ NoMore
  /\ UNCHANGED <<stores, asked, returned, used, saved, difference, narrowed, queries>>

Fits(h) == asked.room = NoLimit \/ used + h.event.size <= asked.room

\* FAULTY VARIANT: the next row of the store is compared only with the rest of it.
FollowFirst(h) ==
  IF cursors[h.store] = <<>> THEN heads \ {h}
  ELSE {[store |-> h.store, event |-> Head(cursors[h.store])]}

\* The row gone is replaced by the next one of its store.
Follow(h) ==
  (heads \ {h}) \cup
  IF cursors[h.store] = <<>> THEN {} ELSE {[store |-> h.store, event |-> Head(cursors[h.store])]}

Take ==
  /\ answer = "open"
  /\ \E h \in heads :
       /\ Least(h) /\ Fits(h)
       /\ returned' = Append(returned, h) /\ used' = used + h.event.size
       /\ IF Len(returned') = asked.limit
          THEN shortfalls' = {"rows"} /\ answer' = "done" /\ NoMore
          ELSE /\ heads' = Follow(h)
               /\ cursors' = [cursors EXCEPT ![h.store] = IF @ = <<>> THEN <<>> ELSE Tail(@)]
               /\ UNCHANGED <<shortfalls, answer>>
  /\ UNCHANGED <<stores, asked, saved, difference, narrowed, queries>>

Exhausted ==
  /\ answer = "open" /\ heads = {}
  /\ answer' = "done"
  /\ UNCHANGED <<stores, asked, cursors, heads, returned, used, shortfalls, saved, difference, narrowed, queries>>

---------------------------------------------------------------------------
\* Investigations.

AllRows(q) == UNION {{[store |-> s, event |-> e] : e \in Selected(q, stores[s])} : s \in Store}
IdsOf(result) == {r.event.id : r \in ToSet(result)}

Save ==
  /\ answer = "done" /\ ~saved.held /\ returned # <<>>
  /\ saved' = [held |-> TRUE, request |-> asked, returned |-> returned, shortfalls |-> shortfalls,
               all |-> AllRows(asked)]
  /\ UNCHANGED <<stores, asked, cursors, heads, returned, used, shortfalls, answer, difference, narrowed, queries>>

\* FAULTY VARIANT: the saved result adds to what the request selects.
MergedAll(mine, theirs) == mine \cup theirs

\* The saved result narrows the lists of the request, and is the list where the
\* request has none.
Merged(mine, theirs) == IF mine = {} THEN theirs ELSE mine \cap theirs

Narrow ==
  /\ saved.held
  /\ \E q \in Requests :
       /\ narrowed' = (~Expanding(q) /\ Merged(q.ids, IdsOf(saved.returned)) # {})
       /\ Answer([q EXCEPT !.ids = Merged(@, IdsOf(saved.returned)),
                          !.sessions = Merged(@, {r.event.session : r \in ToSet(saved.returned)})])

\* Results of one request are compared row by row, if no Event occurs twice in
\* either; otherwise the comparison is refused.
Once(result) == Cardinality(IdsOf(result)) = Len(result)
Logical(result) == {<<r.event.id, r.event>> : r \in ToSet(result)}
Compare ==
  /\ answer = "done" /\ saved.held /\ ~difference.made
  /\ LET before == IdsOf(saved.returned)
         after  == IdsOf(returned)
     IN difference' =
          [made |-> TRUE,
           comparable |-> asked = saved.request /\ Once(returned) /\ Once(saved.returned),
           added |-> after \ before, removed |-> before \ after,
           changed |-> {i \in before \cap after :
                          \E x \in Logical(saved.returned), y \in Logical(returned) :
                            x[1] = i /\ y[1] = i /\ x # y}]
  /\ UNCHANGED <<stores, asked, cursors, heads, returned, used, shortfalls, answer, saved, narrowed, queries>>

\* Other snapshots are selected between two queries.
Reselect ==
  /\ answer # "open" /\ queries < MaxQueries
  /\ stores' \in Contents \ {stores}
  /\ answer' = "none" /\ returned' = <<>> /\ used' = 0 /\ shortfalls' = {} /\ asked' = NoRequest
  /\ narrowed' = FALSE
  /\ difference' = NoDifference
  /\ UNCHANGED <<cursors, heads, saved, queries>>

QueryNext == Ask \/ Overflow \/ Take \/ Exhausted \/ Save \/ Narrow \/ Compare \/ Reselect

QuerySpec == QueryInit /\ [][QueryNext]_queryVars

---------------------------------------------------------------------------
\* Row for row the answer is the beginning of what all stores hold for the
\* request, in the one order of all stores (query_api._event_rows).
InTheOrderOfAll ==
  answer \in {"open", "done"} =>
    LET all == ListOf(AllRows(asked), HeadBefore)
    IN Len(returned) <= Len(all) /\ returned = SubSeq(all, 1, Len(returned))

\* An answer that lacks rows says so, unless none was wanted, and one that had
\* room for the next row has it (query_api._event_rows).
SaysWhatIsMissing ==
  answer = "done" =>
    /\ used <= asked.room \/ asked.room = NoLimit
    /\ shortfalls = {} /\ asked.limit # 0 => ToSet(returned) = AllRows(asked)

\* An answer to a request narrowed by a saved result returns rows of that result
\* only, if the two have any Event in common (query_api.merge_selection).
NarrowedStaysWithin ==
  narrowed /\ answer \in {"open", "done"} => IdsOf(returned) \subseteq IdsOf(saved.returned)

\* Comparing answers that lack no row tells what the stores hold now and did not
\* hold then, and the reverse (query_api.compare_results).
ComparisonIsOfTheStores ==
  difference.made /\ difference.comparable /\ saved.shortfalls \cup shortfalls = {} /\ asked.limit # 0 =>
    LET now == {r.event.id : r \in AllRows(asked)}
        was == {r.event.id : r \in saved.all}
    IN difference.added = now \ was /\ difference.removed = was \ now

\* Queries over several stores, limited or not, narrowed, and compared after other
\* snapshots were selected: rows come in one order and none is left out unsaid.
AnswersFollowTheStores ==
  InTheOrderOfAll /\ SaysWhatIsMissing /\ NarrowedStaysWithin /\ ComparisonIsOfTheStores
=============================================================================
