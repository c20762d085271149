------------------------- MODULE StoredRowsProofs --------------------------
(***************************************************************************)
(* What is proved of the rows that are stored and of the answers made of   *)
(* them, and of all of Decodings.  SessionGrouping and NormalizedStore: for *)
(* every set of Sessions, files, bodies and decodings and any order of     *)
(* Events, passes, rewrites and sweeps.  One pass over the Events can tell *)
(* who governs an Event because the anchor it carries is the last          *)
(* statement with provenance that nothing after it contradicts; the rows   *)
(* Sessions share go only where nothing refers to them, which is what      *)
(* every action that removes a reference has to be asked.  QuerySelection, *)
(* QueryScope and ActivityOverview: for stores, releases and selections of *)
(* any size.  A merge over stores returns a beginning of all their rows    *)
(* because the head of each comes before what is left of it; a number      *)
(* names the Session it was listed with because the order of a listing is  *)
(* a matter of what was read; a day's buckets are those of its rows.       *)
(***************************************************************************)
EXTENDS AdapterProofs, Decodings

\* What is stored of an Event, an interaction, a turn and a call.
StoredEvent == [event : Decoded, interaction : Nat, turn : Nat, inherits : Nat, line : Nat]
Interaction == [initiation : {"human", "autonomous"}, opener : Nat]
OwnKey == ({"interaction", "record"} \X Nat) \cup ({"vendor"} \X Turns)
Turn == [key : OwnKey, interaction : Nat, params : Params \cup {Unset}]
Invocation == [kind : {Unset, "model_requested", "harness_observed"}, turn : Nat, results : Nat]

ShapesHold ==
  /\ GroupingTypeOK
  /\ stored \in Seq(StoredEvent) /\ interactions \in Seq(Interaction) /\ turns \in Seq(Turn)
  /\ force \in [params : Params \cup {Unset}, anchor : Nat]
  /\ invocations \in [Calls -> Invocation]

\* The fields of a decoded event.
LEMMA EventFields ==
  ASSUME NEW e \in Decoded
  PROVE  /\ e.kind \in {"prompt", "response", "call", "result", "context"}
         /\ e.params \in Params \cup {Unset} /\ e.provenance \in BOOLEAN
         /\ e.turn \in Turns \cup {Unset} /\ e.continues \in BOOLEAN /\ e.call \in Calls \cup {Unset}
BY GroupingBounds DEF GroupingAssumption

\* The rows are counted, and empty exactly when there are none.
LEMMA Lengths ==
  ASSUME ShapesHold
  PROVE  /\ Len(stored) \in Nat /\ DOMAIN stored = 1..Len(stored)
         /\ Len(interactions) \in Nat /\ DOMAIN interactions = 1..Len(interactions)
         /\ Len(turns) \in Nat /\ DOMAIN turns = 1..Len(turns)
         /\ stored = <<>> <=> Len(stored) = 0
         /\ interactions = <<>> <=> Len(interactions) = 0
BY LenProperties, EmptySeq DEF ShapesHold

\* The interaction an Event belongs to.
LEMMA GroupedIsTyped ==
  ASSUME ShapesHold, NEW e \in Decoded
  PROVE  /\ Grouped(e) \in Seq(Interaction) /\ Len(Grouped(e)) \in Nat
         /\ Len(Grouped(e)) >= Len(interactions)
         /\ OfModel(e) => Len(Grouped(e)) >= 1
<1>1. interactions \in Seq(Interaction) /\ Len(interactions) \in Nat /\ Len(stored) \in Nat
  BY Lengths DEF ShapesHold
<1>2. CASE Opens(e)
  <2>. DEFINE i == [initiation |-> IF e.kind = "prompt" THEN "human" ELSE "autonomous",
                    opener |-> Len(stored) + 1]
  <2>1. i \in Interaction
    BY <1>1 DEF Interaction
  <2>2. Grouped(e) = Append(interactions, i)
    BY <1>2 DEF Grouped
  <2>. HIDE DEF i
  <2>3. Append(interactions, i) \in Seq(Interaction)
        /\ Len(Append(interactions, i)) = Len(interactions) + 1
    BY <1>1, <2>1, AppendProperties
  <2> QED BY <1>1, <2>2, <2>3
<1>3. CASE ~Opens(e)
  <2>1. Grouped(e) = interactions
    BY <1>3 DEF Grouped
  <2>2. OfModel(e) => Len(interactions) # 0
    BY <1>3, Lengths DEF Opens
  <2> QED BY <1>1, <2>1, <2>2
<1> QED BY <1>2, <1>3

\* The record an Event came from, and the configuration after it.
LEMMA ConfigurationIsTyped ==
  ASSUME ShapesHold, NEW e \in Decoded
  PROVE  /\ (IF e.continues /\ stored # <<>> THEN Last(stored).line ELSE Len(stored) + 1) \in Nat
         /\ InForce(e) \in [params : Params \cup {Unset}, anchor : Nat]
         /\ InForce(e).anchor \in 0..(Len(stored) + 1)
         /\ Inherits(e) \in 0..(Len(stored) + 1)
<1>1. stored \in Seq(StoredEvent) /\ Len(stored) \in Nat /\ force.anchor \in 0..Len(stored)
      /\ force \in [params : Params \cup {Unset}, anchor : Nat]
  BY Lengths DEF ShapesHold, GroupingTypeOK
<1>2. (IF e.continues /\ stored # <<>> THEN Last(stored).line ELSE Len(stored) + 1) \in Nat
  <2>1. CASE stored # <<>>
    <3>1. Len(stored) \in 1..Len(stored)
      BY <1>1, <2>1, Lengths
    <3>2. stored[Len(stored)] \in StoredEvent
      BY <1>1, <3>1, ElementOfSeq
    <3>3. Last(stored).line \in Nat
      BY <3>2 DEF Last, StoredEvent
    <3> QED BY <1>1, <3>3
  <2>2. CASE stored = <<>>
    BY <1>1, <2>2
  <2> QED BY <2>1, <2>2
<1>3. e.params \in Params \cup {Unset}
  BY EventFields
<1>4. /\ InForce(e) \in [params : Params \cup {Unset}, anchor : Nat]
      /\ InForce(e).anchor \in 0..(Len(stored) + 1)
  BY <1>1, <1>3 DEF InForce
<1>5. Inherits(e) \in 0..(Len(stored) + 1)
  BY <1>1, <1>4 DEF Inherits
<1> QED BY <1>2, <1>4, <1>5

\* The turn an Event belongs to.
LEMMA TurnIsTyped ==
  ASSUME ShapesHold, NEW e \in Decoded
  PROVE  /\ TurnOf(e) \in 1..(Len(turns) + 1)
         /\ WithTurn(e) \in Seq(Turn)
         /\ Len(WithTurn(e)) \in Nat /\ Len(WithTurn(e)) >= Len(turns)
         /\ OfModel(e) => TurnOf(e) <= Len(WithTurn(e))
         /\ \A i \in DOMAIN WithTurn(e) : WithTurn(e)[i].interaction \in 1..Len(Grouped(e))
<1>1. turns \in Seq(Turn) /\ Len(turns) \in Nat /\ DOMAIN turns = 1..Len(turns)
      /\ \A i \in DOMAIN turns : turns[i].interaction \in 1..Len(interactions)
      /\ Len(interactions) \in Nat
  BY Lengths DEF ShapesHold, GroupingTypeOK
<1>2. Len(Grouped(e)) \in Nat /\ Len(Grouped(e)) >= Len(interactions)
      /\ (OfModel(e) => Len(Grouped(e)) >= 1)
  BY GroupedIsTyped
<1>3. TurnOf(e) \in 1..(Len(turns) + 1)
  <2>1. CASE \E i \in DOMAIN turns : turns[i].key = TurnKey(e)
    <3>1. TurnOf(e) = CHOOSE i \in DOMAIN turns : turns[i].key = TurnKey(e)
      BY <2>1 DEF TurnOf
    <3>2. TurnOf(e) \in DOMAIN turns
      BY <2>1, <3>1
    <3> QED BY <1>1, <3>2
  <2>2. CASE ~\E i \in DOMAIN turns : turns[i].key = TurnKey(e)
    <3>1. TurnOf(e) = Len(turns) + 1
      BY <2>2 DEF TurnOf
    <3> QED BY <1>1, <3>1
  <2> QED BY <2>1, <2>2
<1>4. TurnKey(e) \in OwnKey
  <2>1. (IF e.continues /\ stored # <<>> THEN Last(stored).line ELSE Len(stored) + 1) \in Nat
    BY ConfigurationIsTyped
  <2>2. e.turn \in Turns \cup {Unset}
    BY EventFields
  <2>. HIDE DEF Grouped
  <2> QED BY <1>2, <2>1, <2>2 DEF TurnKey, OwnKey
<1>. DEFINE t == [key |-> TurnKey(e), interaction |-> Len(Grouped(e)), params |-> InForce(e).params]
<1>5. t \in Turn /\ t.interaction = Len(Grouped(e))
  <2>1. InForce(e).params \in Params \cup {Unset}
    <3>1. InForce(e) \in [params : Params \cup {Unset}, anchor : Nat]
      BY ConfigurationIsTyped
    <3> QED BY <3>1
  <2> QED BY <1>2, <1>4, <2>1 DEF Turn
<1>. HIDE DEF t
<1>6. CASE OfModel(e) /\ TurnOf(e) > Len(turns)
  <2>1. WithTurn(e) = Append(turns, t)
    BY <1>6 DEF WithTurn, t
  <2>2. /\ Append(turns, t) \in Seq(Turn) /\ Len(Append(turns, t)) = Len(turns) + 1
        /\ \A i \in 1..Len(turns) : Append(turns, t)[i] = turns[i]
        /\ Append(turns, t)[Len(turns) + 1] = t
    BY <1>1, <1>5, AppendProperties
  <2>3. DOMAIN Append(turns, t) = 1..(Len(turns) + 1)
    BY <1>1, <2>2, LenProperties
  <2>4. ASSUME NEW i \in DOMAIN Append(turns, t)
        PROVE  Append(turns, t)[i].interaction \in 1..Len(Grouped(e))
    <3>1. CASE i \in 1..Len(turns)
      BY <1>1, <1>2, <2>2, <3>1
    <3>2. CASE i = Len(turns) + 1
      BY <1>2, <1>5, <1>6, <2>2, <3>2
    <3> QED BY <1>1, <2>3, <3>1, <3>2
  <2> QED BY <1>1, <1>3, <2>1, <2>2, <2>4
<1>7. CASE ~(OfModel(e) /\ TurnOf(e) > Len(turns))
  <2>1. WithTurn(e) = turns
    BY <1>7 DEF WithTurn
  <2>2. OfModel(e) => TurnOf(e) <= Len(turns)
    BY <1>1, <1>3, <1>7
  <2>3. \A i \in DOMAIN turns : turns[i].interaction \in 1..Len(Grouped(e))
    BY <1>1, <1>2
  <2>4. \A i \in DOMAIN WithTurn(e) : WithTurn(e)[i].interaction \in 1..Len(Grouped(e))
    BY <2>1, <2>3
  <2>5. WithTurn(e) \in Seq(Turn) /\ Len(WithTurn(e)) \in Nat /\ Len(WithTurn(e)) >= Len(turns)
    BY <1>1, <2>1
  <2>6. OfModel(e) => TurnOf(e) <= Len(WithTurn(e))
    BY <2>1, <2>2
  <2> QED BY <1>3, <2>4, <2>5, <2>6
<1> QED BY <1>3, <1>6, <1>7

\* The record of a call.
LEMMA RecordIsTyped ==
  ASSUME NEW i \in Invocation, NEW e \in Decoded, NEW turn \in Nat
  PROVE  /\ WithRecord(i, e, turn) \in Invocation
         /\ WithRecord(i, e, turn).turn \in {turn, i.turn}
BY DEF WithRecord, Invocation

\* Storing an event keeps the rows well formed.
LEMMA StoreEventIsTyped ==
  ASSUME ShapesHold, NEW e \in Decoded, StoreEvent(e)
  PROVE  ShapesHold'
<1>. DEFINE turn == IF OfModel(e) THEN TurnOf(e) ELSE 0
            number == IF e.continues /\ stored # <<>> THEN Last(stored).line ELSE Len(stored) + 1
            s == [event |-> e, interaction |-> Len(Grouped(e)), turn |-> turn,
                  inherits |-> Inherits(e), line |-> number]
<1>1. /\ stored' = Append(stored, s) /\ interactions' = Grouped(e) /\ force' = InForce(e)
      /\ turns' = WithTurn(e) /\ session' = session
  BY DEF StoreEvent
<1>2. /\ stored \in Seq(StoredEvent) /\ Len(stored) \in Nat /\ DOMAIN stored = 1..Len(stored)
      /\ Len(turns) \in Nat /\ Len(interactions) \in Nat
  BY Lengths DEF ShapesHold
<1>3. /\ Grouped(e) \in Seq(Interaction) /\ Len(Grouped(e)) \in Nat
      /\ Len(Grouped(e)) >= Len(interactions)
  BY GroupedIsTyped
<1>4. /\ TurnOf(e) \in 1..(Len(turns) + 1) /\ WithTurn(e) \in Seq(Turn)
      /\ Len(WithTurn(e)) \in Nat /\ Len(WithTurn(e)) >= Len(turns)
      /\ OfModel(e) => TurnOf(e) <= Len(WithTurn(e))
      /\ \A i \in DOMAIN WithTurn(e) : WithTurn(e)[i].interaction \in 1..Len(Grouped(e))
  BY TurnIsTyped
<1>5. /\ number \in Nat
      /\ InForce(e) \in [params : Params \cup {Unset}, anchor : Nat]
      /\ InForce(e).anchor \in 0..(Len(stored) + 1)
      /\ Inherits(e) \in 0..(Len(stored) + 1)
  BY ConfigurationIsTyped
<1>. HIDE DEF Grouped, TurnOf, WithTurn, InForce, Inherits, number
<1>6. turn \in 0..Len(WithTurn(e)) /\ turn \in Nat
  BY <1>2, <1>4
<1>. HIDE DEF turn
<1>7. s \in StoredEvent /\ s.event = e /\ s.interaction = Len(Grouped(e)) /\ s.turn = turn
      /\ s.inherits = Inherits(e)
  BY <1>3, <1>5, <1>6 DEF StoredEvent
<1>. HIDE DEF s
<1>8. /\ stored' \in Seq(StoredEvent) /\ Len(stored') = Len(stored) + 1
      /\ \A i \in 1..Len(stored) : stored'[i] = stored[i]
      /\ stored'[Len(stored) + 1] = s
  BY <1>1, <1>2, <1>7, AppendProperties
<1>9. DOMAIN stored' = 1..(Len(stored) + 1)
  BY <1>2, <1>8, LenProperties
<1>10. ASSUME NEW i \in DOMAIN stored'
       PROVE  /\ stored'[i].event \in Decoded
              /\ stored'[i].interaction \in 0..Len(interactions')
              /\ stored'[i].turn \in 0..Len(turns')
              /\ stored'[i].inherits \in 0..Len(stored')
  <2>1. CASE i \in 1..Len(stored)
    <3>1. /\ stored[i].event \in Decoded
          /\ stored[i].interaction \in 0..Len(interactions)
          /\ stored[i].turn \in 0..Len(turns)
          /\ stored[i].inherits \in 0..Len(stored)
      BY <1>2, <2>1 DEF ShapesHold, GroupingTypeOK
    <3>2. stored'[i] = stored[i]
      BY <1>8, <2>1
    <3> QED BY <1>1, <1>2, <1>3, <1>4, <1>8, <3>1, <3>2
  <2>2. CASE i = Len(stored) + 1
    BY <1>1, <1>3, <1>5, <1>6, <1>7, <1>8, <2>2
  <2> QED BY <1>2, <1>9, <2>1, <2>2
<1>11. invocations' \in [Calls -> Invocation] /\ \A c \in Calls : invocations'[c].turn \in 0..Len(turns')
  <2>1. invocations \in [Calls -> Invocation]
        /\ \A c \in Calls : invocations[c].turn \in 0..Len(turns)
    BY DEF ShapesHold, GroupingTypeOK
  <2>2. CASE ~(e.kind \in {"call", "result"} /\ e.call # Unset)
    <3>1. invocations' = invocations
      BY <2>2 DEF StoreEvent
    <3> QED BY <1>1, <1>2, <1>4, <2>1, <3>1
  <2>3. CASE e.kind \in {"call", "result"} /\ e.call # Unset
    <3>1. e.call \in Calls
      BY <2>3, EventFields
    <3>2. invocations' = [invocations EXCEPT ![e.call] = WithRecord(@, e, turn)]
      BY <2>3 DEF StoreEvent, turn
    <3>3. WithRecord(invocations[e.call], e, turn) \in Invocation
          /\ WithRecord(invocations[e.call], e, turn).turn \in {turn, invocations[e.call].turn}
      BY <1>6, <2>1, <3>1, RecordIsTyped
    <3>. HIDE DEF WithRecord
    <3>4. invocations' \in [Calls -> Invocation]
      BY <2>1, <3>2, <3>3
    <3>5. ASSUME NEW c \in Calls PROVE invocations'[c].turn \in 0..Len(turns')
      <4>1. CASE c = e.call
        BY <1>1, <1>2, <1>4, <1>6, <2>1, <3>1, <3>2, <3>3, <4>1
      <4>2. CASE c # e.call
        BY <1>1, <1>2, <1>4, <2>1, <3>2, <4>2
      <4> QED BY <4>1, <4>2
    <3> QED BY <3>4, <3>5
  <2> QED BY <2>2, <2>3
<1>12. GroupingTypeOK'
  <2>1. session' \in [open : BOOLEAN, cursor : BOOLEAN, params : Params \cup {Unset},
                      basis : {Unset, "vendor", "initial_event"}, models : Nat]
    BY <1>1 DEF ShapesHold, GroupingTypeOK
  <2>2. force'.anchor \in 0..Len(stored')
    BY <1>1, <1>5, <1>8
  <2>3. \A i \in DOMAIN turns' : turns'[i].interaction \in 1..Len(interactions')
    BY <1>1, <1>4
  <2> QED BY <1>10, <1>11, <2>1, <2>2, <2>3 DEF GroupingTypeOK
<1> QED BY <1>1, <1>3, <1>4, <1>5, <1>8, <1>11, <1>12 DEF ShapesHold

\* The Session's own model is one a turn carries.
LEMMA ServedIsTyped ==
  ASSUME ShapesHold
  PROVE  /\ Cardinality(Served) \in Nat
         /\ Served # {} => turns[FirstServed].params \in Params
<1>1. turns \in Seq(Turn) /\ Len(turns) \in Nat /\ DOMAIN turns = 1..Len(turns)
  BY Lengths DEF ShapesHold
<1>2. IsFiniteSet(Served)
  <2>. DEFINE Image == {turns[i].params : i \in DOMAIN turns}
  <2>1. IsFiniteSet(1..Len(turns))
    BY <1>1, FS_Interval
  <2>2. IsFiniteSet(Image)
    <3>. DEFINE f == [i \in 1..Len(turns) |-> turns[i].params]
    <3>1. f \in Surjection(1..Len(turns), Image)
      BY <1>1 DEF Surjection
    <3>. HIDE DEF f, Image
    <3> QED BY <2>1, <3>1, FS_Surjection
  <2>3. Served \subseteq Image
    BY DEF Served
  <2>. HIDE DEF Image
  <2> QED BY <2>2, <2>3, FS_Subset
<1>3. ASSUME Served # {} PROVE turns[FirstServed].params \in Params
  <2>. DEFINE I == {i \in 1..Len(turns) : turns[i].params # Unset}
  <2>1. I # {}
    BY <1>1, <1>3 DEF Served
  <2>2. FirstServed = Min(I)
    BY <2>1 DEF FirstServed, SelectInSeq
  <2>3. \E i \in I : \A j \in I : i <= j
    <3>1. I \subseteq 1..Len(turns)
      OBVIOUS
    <3>. HIDE DEF I
    <3> QED BY <1>1, <2>1, <3>1, FirstIsThere
  <2>4. FirstServed \in I
    BY <2>2, <2>3 DEF Min
  <2>5. turns[FirstServed] \in Turn /\ turns[FirstServed].params # Unset
    BY <1>1, <2>4, ElementOfSeq
  <2> QED BY <2>5 DEF Turn
<1> QED BY <1>2, <1>3, FS_CardinalityType

\* The rows are well formed at first.
LEMMA GroupingStartsTyped == GroupingInit => ShapesHold
<1> SUFFICES ASSUME GroupingInit PROVE ShapesHold
  OBVIOUS
<1>1. /\ session = [open |-> FALSE, cursor |-> FALSE, params |-> Unset, basis |-> Unset, models |-> 0]
      /\ stored = <<>> /\ interactions = <<>> /\ turns = <<>>
      /\ force = [params |-> Unset, anchor |-> 0]
      /\ invocations = [c \in Calls |-> NoInvocation]
  BY DEF GroupingInit
<1>2. /\ <<>> \in Seq(StoredEvent) /\ <<>> \in Seq(Interaction) /\ <<>> \in Seq(Turn)
      /\ Len(<<>>) = 0
  BY EmptySeq
<1>3. DOMAIN <<>> = {}
  <2>1. DOMAIN <<>> = 1..Len(<<>>)
    BY <1>2, LenProperties
  <2> QED BY <1>2, <2>1
<1>4. NoInvocation \in Invocation /\ NoInvocation.turn = 0
  BY DEF NoInvocation, Invocation
<1>5. invocations \in [Calls -> Invocation] /\ \A c \in Calls : invocations[c].turn = 0
  BY <1>1, <1>4
<1>6. GroupingTypeOK
  <2>1. session \in [open : BOOLEAN, cursor : BOOLEAN, params : Params \cup {Unset},
                     basis : {Unset, "vendor", "initial_event"}, models : Nat]
    BY <1>1
  <2>2. force.anchor \in 0..Len(stored) /\ force \in [params : Params \cup {Unset}, anchor : Nat]
    BY <1>1, <1>2
  <2>3. \A c \in Calls : invocations[c].turn \in 0..Len(turns)
    BY <1>1, <1>2, <1>5
  <2> QED BY <1>1, <1>3, <2>1, <2>2, <2>3 DEF GroupingTypeOK
<1>7. force \in [params : Params \cup {Unset}, anchor : Nat]
  BY <1>1
<1> QED BY <1>1, <1>2, <1>5, <1>6, <1>7 DEF ShapesHold

\* Every step keeps the rows well formed.
LEMMA GroupingStaysTyped == ASSUME ShapesHold, [GroupingNext]_groupingVars PROVE ShapesHold'
<1>1. CASE UNCHANGED groupingVars
  BY <1>1 DEF groupingVars, ShapesHold, GroupingTypeOK
<1>2. ASSUME NEW cursor \in BOOLEAN, NEW params \in Params \cup {Unset}, UpsertSession(cursor, params)
      PROVE  ShapesHold'
  <2>1. /\ session' = [session EXCEPT !.open = TRUE, !.cursor = cursor, !.params = params]
        /\ force' = [params |-> params, anchor |-> 0]
        /\ UNCHANGED <<stored, interactions, turns, invocations>>
    BY <1>2 DEF UpsertSession
  <2>2. session' \in [open : BOOLEAN, cursor : BOOLEAN, params : Params \cup {Unset},
                      basis : {Unset, "vendor", "initial_event"}, models : Nat]
    BY <2>1 DEF ShapesHold, GroupingTypeOK
  <2>3. force' \in [params : Params \cup {Unset}, anchor : Nat] /\ force'.anchor = 0
    BY <2>1
  <2>4. Len(stored) \in Nat
    BY Lengths
  <2>5. force'.anchor \in 0..Len(stored')
    BY <2>1, <2>3, <2>4
  <2>6. GroupingTypeOK'
    BY <2>1, <2>2, <2>5 DEF ShapesHold, GroupingTypeOK
  <2> QED BY <2>1, <2>3, <2>6 DEF ShapesHold
<1>3. ASSUME NEW e \in Decoded, StoreEvent(e) PROVE ShapesHold'
  BY <1>3, StoreEventIsTyped
<1>4. CASE RecordModelEvidence
  <2>1. UNCHANGED <<stored, interactions, turns, force, invocations>>
    BY <1>4 DEF RecordModelEvidence
  <2>. DEFINE Sessions == [open : BOOLEAN, cursor : BOOLEAN, params : Params \cup {Unset},
                           basis : {Unset, "vendor", "initial_event"}, models : Nat]
              par == IF session.params = Unset /\ Served # {} THEN turns[FirstServed].params
                     ELSE session.params
              why == IF session.params # Unset THEN "vendor"
                     ELSE IF Served # {} THEN "initial_event" ELSE Unset
  <2>2. session' = [session EXCEPT !.open = FALSE, !.models = Cardinality(Served),
                                   !.params = par, !.basis = why]
    BY <1>4 DEF RecordModelEvidence
  <2>3. session \in Sessions
    BY DEF ShapesHold, GroupingTypeOK
  <2>4. par \in Params \cup {Unset} /\ Cardinality(Served) \in Nat
        /\ why \in {Unset, "vendor", "initial_event"}
    BY <2>3, ServedIsTyped
  <2>. HIDE DEF par, why
  <2>5. session' \in Sessions
    BY <2>2, <2>3, <2>4
  <2>6. GroupingTypeOK'
    BY <2>1, <2>5 DEF ShapesHold, GroupingTypeOK
  <2> QED BY <2>1, <2>6 DEF ShapesHold
<1> QED BY <1>1, <1>2, <1>3, <1>4 DEF GroupingNext

\* The Event that states the configuration in force, and that nothing after it
\* states another.
AnchorStates ==
  force.anchor # 0 =>
    /\ stored[force.anchor].event.provenance
    /\ stored[force.anchor].event.params = force.params
    /\ \A j \in force.anchor..Len(stored) :
         States(stored[j].event) => stored[j].event.params = force.params

\* The three together are inductive.
GroupingInv == ShapesHold /\ AnchorStates /\ GroupingIsCoherent

\* The invariant of the grouping holds at first.
LEMMA GroupingStarts == GroupingInit => GroupingInv
<1> SUFFICES ASSUME GroupingInit PROVE GroupingInv
  OBVIOUS
<1>1. ShapesHold
  BY GroupingStartsTyped
<1>2. AnchorStates
  BY DEF GroupingInit, AnchorStates
<1>3. DOMAIN stored = {}
  <2>1. DOMAIN stored = 1..Len(stored) /\ Len(stored) = 0
    BY <1>1, Lengths DEF GroupingInit
  <2> QED BY <2>1
<1>4. \A c \in Calls : invocations[c].kind = Unset
  BY DEF GroupingInit, NoInvocation
<1>5. Unset # "model_requested"
  BY DEF Unset
<1> QED BY <1>1, <1>2, <1>3, <1>4, <1>5
        DEF GroupingInv, GroupingIsCoherent, InheritedConfigurationGoverns, RequestsAreRemembered

\* Storing an Event keeps the invariant.
LEMMA StoreEventCoheres ==
  ASSUME GroupingInv, ShapesHold', NEW e \in Decoded, StoreEvent(e)
  PROVE  GroupingInv'
<1>. DEFINE n == Len(stored) + 1
<1>1. /\ stored \in Seq(StoredEvent) /\ Len(stored) \in Nat /\ DOMAIN stored = 1..Len(stored)
      /\ force \in [params : Params \cup {Unset}, anchor : Nat]
      /\ force.anchor \in 0..Len(stored) /\ invocations \in [Calls -> Invocation]
  BY Lengths DEF GroupingInv, ShapesHold, GroupingTypeOK
<1>2. /\ stored' \in Seq(StoredEvent) /\ Len(stored') = n
      /\ \A i \in 1..Len(stored) : stored'[i] = stored[i]
      /\ stored'[n].event = e /\ stored'[n].inherits = Inherits(e)
      /\ DOMAIN stored' = 1..n
  <2>. DEFINE number == IF e.continues /\ stored # <<>> THEN Last(stored).line ELSE Len(stored) + 1
              s == [event |-> e, interaction |-> Len(Grouped(e)),
                    turn |-> IF OfModel(e) THEN TurnOf(e) ELSE 0,
                    inherits |-> Inherits(e), line |-> number]
  <2>1. stored' = Append(stored, s)
    BY DEF StoreEvent
  <2>2. stored' \in Seq(StoredEvent)
    BY DEF ShapesHold
  <2>. HIDE DEF number
  <2>3. s.event = e /\ s.inherits = Inherits(e)
    OBVIOUS
  <2>. HIDE DEF s
  <2>4. \A S : stored \in Seq(S) /\ s \in S =>
               /\ Len(stored') = n /\ stored'[n] = s
               /\ \A i \in 1..Len(stored) : stored'[i] = stored[i]
    BY <2>1, AppendProperties
  <2>5. stored \in Seq(StoredEvent \cup {s})
    <3>1. \A i \in 1..Len(stored) : stored[i] \in StoredEvent \cup {s}
      BY <1>1, ElementOfSeq
    <3>2. stored = [i \in 1..Len(stored) |-> stored[i]]
      BY <1>1, LenProperties
    <3> QED BY <1>1, <3>1, <3>2, SeqDef
  <2>6. Len(stored') = n /\ stored'[n] = s /\ \A i \in 1..Len(stored) : stored'[i] = stored[i]
    BY <2>4, <2>5
  <2>7. DOMAIN stored' = 1..n
    BY <2>2, <2>6, LenProperties
  <2> QED BY <2>2, <2>3, <2>6, <2>7
<1>3. force' = InForce(e)
  BY DEF StoreEvent
<1>4. /\ force'.anchor = n => e.provenance /\ States(e) /\ force'.params = e.params
      /\ force'.anchor # 0 /\ force'.anchor # n =>
           /\ force'.anchor = force.anchor /\ force'.params = force.params
           /\ States(e) => e.params = force.params
  BY <1>1, <1>3 DEF InForce
<1>5. AnchorStates'
  <2> SUFFICES ASSUME force'.anchor # 0
               PROVE  /\ stored'[force'.anchor].event.provenance
                      /\ stored'[force'.anchor].event.params = force'.params
                      /\ \A j \in force'.anchor..Len(stored') :
                           States(stored'[j].event) => stored'[j].event.params = force'.params
    BY DEF AnchorStates, States, OfModel
  <2>1. CASE force'.anchor = n
    <3>1. \A j \in n..n : j = n
      BY <1>1
    <3> QED BY <1>1, <1>2, <1>4, <2>1, <3>1
  <2>2. CASE force'.anchor # n
    <3>1. force'.anchor = force.anchor /\ force'.params = force.params
          /\ (States(e) => e.params = force.params)
      BY <1>4, <2>2
    <3>2. force.anchor \in 1..Len(stored)
      BY <1>1, <3>1
    <3>3. /\ stored[force.anchor].event.provenance
          /\ stored[force.anchor].event.params = force.params
          /\ \A j \in force.anchor..Len(stored) :
               States(stored[j].event) => stored[j].event.params = force.params
      BY <3>1 DEF GroupingInv, AnchorStates
    <3>4. ASSUME NEW j \in force.anchor..n, States(stored'[j].event)
          PROVE  stored'[j].event.params = force.params
      <4>1. CASE j = n
        BY <1>2, <3>1, <3>4, <4>1
      <4>2. CASE j # n
        <5>1. j \in 1..Len(stored) /\ j \in force.anchor..Len(stored)
          BY <1>1, <3>2, <4>2
        <5> QED BY <1>2, <3>3, <3>4, <5>1
      <4> QED BY <4>1, <4>2
    <3> QED BY <1>2, <3>1, <3>2, <3>3, <3>4
  <2> QED BY <2>1, <2>2
<1>6. InheritedConfigurationGoverns'
  <2> SUFFICES ASSUME NEW i \in DOMAIN stored', stored'[i].inherits # 0
               PROVE  LET g == stored'[i].inherits IN
                      /\ g < i /\ stored'[g].event.provenance
                      /\ \A j \in g..i : States(stored'[j].event)
                           => stored'[j].event.params = stored'[g].event.params
    BY DEF InheritedConfigurationGoverns, States, OfModel
  <2>1. CASE i \in 1..Len(stored)
    <3>1. i \in DOMAIN stored /\ stored'[i] = stored[i] /\ stored[i].inherits \in 0..Len(stored)
      BY <1>1, <1>2, <2>1 DEF GroupingInv, ShapesHold, GroupingTypeOK
    <3>. DEFINE g == stored[i].inherits
    <3>2. /\ g < i /\ stored[g].event.provenance
          /\ \A j \in g..i : States(stored[j].event)
                => stored[j].event.params = stored[g].event.params
      BY <3>1 DEF GroupingInv, GroupingIsCoherent, InheritedConfigurationGoverns
    <3>3. g \in 1..Len(stored) /\ \A j \in g..i : j \in 1..Len(stored)
      BY <1>1, <2>1, <3>1
    <3>. HIDE DEF g
    <3>4. \A j \in g..i : stored'[j] = stored[j]
      BY <1>2, <3>3
    <3>5. stored'[g] = stored[g]
      BY <1>2, <3>3
    <3> QED BY <3>1, <3>2, <3>4, <3>5 DEF g
  <2>2. CASE i = n
    <3>1. Inherits(e) # 0 /\ Inherits(e) = InForce(e).anchor /\ OfModel(e) /\ ~e.provenance
      BY <1>2, <2>2 DEF Inherits
    <3>2. force'.anchor = Inherits(e) /\ force'.anchor # 0 /\ force'.anchor # n
      BY <1>3, <1>4, <3>1
    <3>3. force'.anchor \in 1..Len(stored)
      BY <1>1, <1>4, <3>2
    <3>4. /\ stored'[force'.anchor].event.provenance
          /\ stored'[force'.anchor].event.params = force'.params
          /\ \A j \in force'.anchor..Len(stored') :
               States(stored'[j].event) => stored'[j].event.params = force'.params
      BY <1>5, <3>2 DEF AnchorStates, States, OfModel
    <3>5. stored'[i].inherits = force'.anchor /\ force'.anchor < i
      BY <1>1, <1>2, <2>2, <3>2, <3>3
    <3> QED BY <1>2, <2>2, <3>4, <3>5
  <2> QED BY <1>1, <1>2, <2>1, <2>2
<1>7. RequestsAreRemembered'
  <2> SUFFICES ASSUME NEW c \in Calls
               PROVE  invocations'[c].kind = "model_requested" <=>
                        \E i \in DOMAIN stored' : stored'[i].event.kind = "call"
                                                  /\ stored'[i].event.call = c
    BY DEF RequestsAreRemembered
  <2>1. invocations[c].kind = "model_requested" <=>
          \E i \in DOMAIN stored : stored[i].event.kind = "call" /\ stored[i].event.call = c
    BY DEF GroupingInv, GroupingIsCoherent, RequestsAreRemembered
  <2>2. (\E i \in DOMAIN stored' : stored'[i].event.kind = "call" /\ stored'[i].event.call = c)
        <=> \/ \E i \in DOMAIN stored : stored[i].event.kind = "call" /\ stored[i].event.call = c
            \/ e.kind = "call" /\ e.call = c
    BY <1>1, <1>2
  <2>4. invocations'[c].kind = "model_requested" <=>
          invocations[c].kind = "model_requested" \/ (e.kind = "call" /\ e.call = c)
    <3>1. CASE e.kind \in {"call", "result"} /\ e.call # Unset
      <4>. DEFINE turn == IF OfModel(e) THEN TurnOf(e) ELSE 0
      <4>1. invocations' = [invocations EXCEPT ![e.call] = WithRecord(@, e, turn)]
        BY <3>1 DEF StoreEvent
      <4>. HIDE DEF turn
      <4>2. CASE c # e.call
        BY <1>1, <4>1, <4>2
      <4>3. CASE c = e.call
        <5>1. invocations'[c] = WithRecord(invocations[c], e, turn)
          BY <1>1, <4>1, <4>3
        <5>2. Unset # "model_requested" /\ "harness_observed" # "model_requested"
          BY DEF Unset
        <5> QED BY <4>3, <5>1, <5>2 DEF WithRecord
      <4> QED BY <4>2, <4>3
    <3>2. CASE ~(e.kind \in {"call", "result"} /\ e.call # Unset)
      <4>1. invocations' = invocations
        BY <3>2 DEF StoreEvent
      <4>2. ~(e.kind = "call" /\ e.call = c)
        BY <3>2, GroupingBounds DEF GroupingAssumption
      <4> QED BY <4>1, <4>2
    <3> QED BY <3>1, <3>2
  <2> QED BY <2>1, <2>2, <2>4
<1> QED BY <1>5, <1>6, <1>7 DEF GroupingInv, GroupingIsCoherent

\* Every step keeps the invariant of the grouping.
LEMMA GroupingKeeps == GroupingInv /\ [GroupingNext]_groupingVars => GroupingInv'
<1> SUFFICES ASSUME GroupingInv, [GroupingNext]_groupingVars PROVE GroupingInv'
  OBVIOUS
<1>1. ShapesHold'
  BY GroupingStaysTyped DEF GroupingInv
<1>2. CASE UNCHANGED <<stored, force, invocations>>
  BY <1>1, <1>2 DEF GroupingInv, AnchorStates, GroupingIsCoherent, InheritedConfigurationGoverns,
     RequestsAreRemembered, States, OfModel
<1>3. ASSUME NEW cursor \in BOOLEAN, NEW params \in Params \cup {Unset},
             UpsertSession(cursor, params)
      PROVE  GroupingInv'
  <2>1. force'.anchor = 0 /\ UNCHANGED <<stored, invocations>>
    BY <1>3 DEF UpsertSession
  <2>2. AnchorStates'
    BY <2>1 DEF AnchorStates
  <2> QED BY <1>1, <2>1, <2>2 DEF GroupingInv, GroupingIsCoherent, InheritedConfigurationGoverns,
       RequestsAreRemembered, States, OfModel
<1>4. ASSUME NEW e \in Decoded, StoreEvent(e) PROVE GroupingInv'
  BY <1>1, <1>4, StoreEventCoheres
<1>5. CASE RecordModelEvidence
  BY <1>2, <1>5 DEF RecordModelEvidence
<1>6. CASE UNCHANGED groupingVars
  BY <1>2, <1>6 DEF groupingVars
<1> QED BY <1>3, <1>4, <1>5, <1>6 DEF GroupingNext

\* Every Event, turn, interaction and invocation of a Session is well formed and
\* refers to one that is stored (store.py, replace_session_events).
THEOREM GroupingIsTyped == GroupingSpec => []GroupingTypeOK
<1>1. GroupingInv => GroupingTypeOK
  BY DEF GroupingInv, ShapesHold
<1> QED BY <1>1, GroupingStarts, GroupingKeeps, PTL DEF GroupingSpec

\* Whatever Events a Session has, in whatever order: a configuration marked as
\* inherited governs the Event it is given, and an invocation counts as requested
\* exactly when a request of its call is stored (store.py, replace_session_events).
THEOREM GroupingCoheres == GroupingSpec => []GroupingIsCoherent
<1>1. GroupingInv => GroupingIsCoherent
  BY DEF GroupingInv
<1> QED BY <1>1, GroupingStarts, GroupingKeeps, PTL DEF GroupingSpec

-----------------------------------------------------------------------------
(* The rows Sessions share. *)

(* The rows that Events need are held, and what is stored is well typed.   *)
HeldInv == StoreTypeOK /\ SharedRowsAreHeld

USE StoreBounds, NothingAssumption DEF StoreAssumption

\* An Event that is stored is an Event row, with what it was decoded to.
LEMMA EventTypes ==
  ASSUME StoreTypeOK, NEW s \in StoredSession, eventOf[s] # Nothing
  PROVE  /\ eventOf[s] \in EventRow
         /\ eventOf[s].source \in Source
         /\ eventOf[s].decoded.body \in Bodies \cup {Nothing}
         /\ eventOf[s].decoded.path \in Paths \cup {Nothing}
BY DEF StoreTypeOK, EventRow

\* The strays of any Sessions are bodies, and have rows if all Events' have.
LEMMA StraysHeld ==
  ASSUME StoreTypeOK, NEW S \in SUBSET StoredSession
  PROVE  /\ Strays(S) \subseteq Bodies
         /\ SharedRowsAreHeld => Strays(S) \subseteq bodyRows
<1>1. \A b \in Strays(S) : \E s \in S : /\ eventOf[s] # Nothing
                                        /\ b = eventOf[s].decoded.body /\ b # Nothing
  BY DEF Strays
<1>2. Strays(S) \subseteq Bodies
  BY <1>1, EventTypes
<1>3. ASSUME SharedRowsAreHeld PROVE Strays(S) \subseteq bodyRows
  BY <1>1, <1>3 DEF SharedRowsAreHeld
<1> QED BY <1>2, <1>3

\* The Source a pass decodes is one of its file.
LEMMA PassSource ==
  ASSUME StoreTypeOK, pass # Nothing
  PROVE  [file |-> pass.file, revision |-> revision[pass.file]] \in Source
BY DEF StoreTypeOK, Source

\* Every action keeps the types.
LEMMA StoreTypesStep == ASSUME StoreTypeOK, StoreNext PROVE StoreTypeOK'
<1>1. ASSUME NEW kind \in {"database", "transcript"}, CreateStore(kind)
      PROVE  StoreTypeOK'
  BY <1>1 DEF CreateStore, StoreTypeOK
<1>2. ASSUME NEW f \in StoredFile, RewriteFile(f)  PROVE StoreTypeOK'
  BY <1>2 DEF RewriteFile, StoreTypeOK
<1>3. ASSUME NEW f \in StoredFile, OpenPass(f)  PROVE StoreTypeOK'
  BY <1>3 DEF OpenPass, StoreTypeOK
<1>4. ASSUME NEW s \in StoredSession, NEW d \in Decodings, ReplaceSession(s, d)
      PROVE  StoreTypeOK'
  <2> DEFINE x == [file |-> pass.file, revision |-> revision[pass.file]]
             r == [source |-> x, session |-> s]
  <2>1. x \in Source /\ r \in SourceRecord
    BY <1>4, PassSource DEF ReplaceSession, SourceRecord
  <2>2. d.body \in Bodies \cup {Nothing} /\ d.path \in Paths \cup {Nothing} /\ d.refused \in BOOLEAN
    OBVIOUS
  <2>3. owner' \in [StoredSession -> Source \cup {Nothing}]
    BY <1>4, <2>1 DEF ReplaceSession, StoreTypeOK
  <2>4. eventOf' \in [StoredSession -> EventRow \cup {Nothing}]
    BY <1>4, <2>1 DEF ReplaceSession, StoreTypeOK, EventRow
  <2>5. sourceRows' \subseteq Source /\ recordRows' \subseteq SourceRecord
        /\ refusals' \subseteq SourceRecord
    BY <1>4, <2>1 DEF ReplaceSession, StoreTypeOK
  <2>6. recordBodies' \subseteq [record : SourceRecord, body : Bodies]
    <3>1. CASE d.body = Nothing
      BY <1>4, <3>1 DEF ReplaceSession, StoreTypeOK
    <3>2. CASE d.body # Nothing
      <4>1. [record |-> r, body |-> d.body] \in [record : SourceRecord, body : Bodies]
        BY <2>1, <2>2, <3>2
      <4>2. recordBodies' = {b \in recordBodies : b.record # r}
                              \cup {[record |-> r, body |-> d.body]}
        BY <1>4, <3>2 DEF ReplaceSession
      <4> QED BY <4>1, <4>2 DEF StoreTypeOK
    <3> QED BY <3>1, <3>2
  <2>7. bodyRows' \subseteq Bodies /\ artifactRows' \subseteq Paths /\ strayBodies' \subseteq Bodies
    BY <1>4, <2>2, StraysHeld DEF ReplaceSession, StoreTypeOK
  <2>8. pass' \in [file : StoredFile, before : SUBSET StoredSession,
                   seen : SUBSET StoredSession, refused : BOOLEAN]
    BY <1>4, <2>2 DEF ReplaceSession, StoreTypeOK
  <2>9. layout' = layout /\ revision' = revision
    BY <1>4 DEF ReplaceSession
  <2> QED BY <2>3, <2>4, <2>5, <2>6, <2>7, <2>8, <2>9 DEF StoreTypeOK
<1>5. ASSUME NEW s \in StoredSession, RemoveSession(s)  PROVE StoreTypeOK'
  BY <1>5, StraysHeld DEF RemoveSession, StoreTypeOK
<1>6. CASE ClosePass
  <2>1. Dropped \subseteq StoredSession
    BY <1>6 DEF ClosePass, Dropped, StoreTypeOK
  <2>2. strayBodies' \subseteq Bodies
    BY <1>6, <2>1, StraysHeld DEF ClosePass, StoreTypeOK
  <2>3. /\ owner' \in [StoredSession -> Source \cup {Nothing}]
        /\ eventOf' \in [StoredSession -> EventRow \cup {Nothing}]
    BY <1>6 DEF ClosePass, StoreTypeOK
  <2> QED BY <1>6, <2>2, <2>3 DEF ClosePass, Prune, StoreTypeOK
<1>7. CASE EndTranscript
  BY <1>7 DEF EndTranscript, StoreTypeOK
<1>8. CASE Sweep
  BY <1>8 DEF Sweep, Prune, StoreTypeOK
<1> QED
  BY <1>1, <1>2, <1>3, <1>4, <1>5, <1>6, <1>7, <1>8 DEF StoreNext

\* What a prune leaves is held, if the Sessions and Events it is told of are
\* some of those that were, and every stray body has a row.
LEMMA PruneHolds ==
  ASSUME StoreTypeOK, SharedRowsAreHeld,
         \A s \in StoredSession : owner'[s] = owner[s] \/ owner'[s] = Nothing,
         \A s \in StoredSession :
            eventOf'[s] = Nothing \/ (eventOf'[s] = eventOf[s] /\ owner'[s] = owner[s]),
         NEW diagnostics \in SUBSET refusals,
         strayBodies' \subseteq bodyRows,
         Prune(owner', eventOf', diagnostics, strayBodies')
  PROVE  SharedRowsAreHeld'
<1> DEFINE stale == sourceRows \ Referred(owner', eventOf')
<1>1. ASSUME NEW s \in StoredSession, eventOf'[s] # Nothing
      PROVE  /\ eventOf[s] = eventOf'[s] /\ owner'[s] = owner[s]
             /\ eventOf[s].source \in sourceRows /\ eventOf[s].source \notin stale
             /\ eventOf[s].decoded.body \in BodiesIn(eventOf')
             /\ eventOf[s].decoded.path \in PathsIn(eventOf')
  BY <1>1 DEF SharedRowsAreHeld, Referred, BodiesIn, PathsIn
<1>2. /\ sourceRows' = sourceRows \ stale
      /\ recordRows' = {r \in recordRows : r.source \notin stale}
      /\ recordBodies' = {b \in recordBodies : b.record.source \notin stale}
      /\ refusals' = {r \in diagnostics : r.source \notin stale}
      /\ artifactRows' = artifactRows \cap PathsIn(eventOf')
  BY DEF Prune
<1>3. bodyRows \cap (BodiesIn(eventOf') \cup {b.body : b \in recordBodies'} \cup strayBodies')
        \subseteq bodyRows'
  BY <1>2 DEF Prune, KeptBodies
<1>4. ASSUME NEW s \in StoredSession, eventOf'[s] # Nothing
      PROVE  LET e == eventOf'[s] IN
             /\ e.source \in sourceRows' /\ e.decoded.body \in bodyRows' \cup {Nothing}
             /\ e.decoded.path \in artifactRows' \cup {Nothing}
             /\ [source |-> e.source, session |-> s] \in recordRows'
             /\ owner'[s] = e.source
  BY <1>1, <1>2, <1>3, <1>4 DEF SharedRowsAreHeld
<1>5. {r.source : r \in recordRows'} \cup {r.source : r \in refusals'} \subseteq sourceRows'
  BY <1>2 DEF SharedRowsAreHeld
<1>6. {b.record : b \in recordBodies'} \subseteq recordRows'
  BY <1>2 DEF SharedRowsAreHeld
<1>7. {b.body : b \in recordBodies'} \cup strayBodies' \subseteq bodyRows'
  BY <1>2, <1>3 DEF SharedRowsAreHeld
<1> QED BY <1>4, <1>5, <1>6, <1>7 DEF SharedRowsAreHeld

\* Every action keeps what rows share.
LEMMA HeldStep == ASSUME HeldInv, StoreNext PROVE HeldInv'
<1> USE DEF HeldInv
<1>1. StoreTypeOK'
  BY StoreTypesStep
<1>2. ASSUME NEW kind \in {"database", "transcript"}, CreateStore(kind)
      PROVE  SharedRowsAreHeld'
  BY <1>2 DEF CreateStore, SharedRowsAreHeld
<1>3. ASSUME NEW f \in StoredFile, RewriteFile(f) \/ OpenPass(f)  PROVE SharedRowsAreHeld'
  BY <1>3 DEF RewriteFile, OpenPass, SharedRowsAreHeld
<1>4. ASSUME NEW s \in StoredSession, NEW d \in Decodings, ReplaceSession(s, d)
      PROVE  SharedRowsAreHeld'
  <2> DEFINE x == [file |-> pass.file, revision |-> revision[pass.file]]
             r == [source |-> x, session |-> s]
  <2>1. /\ sourceRows' = sourceRows \cup {x} /\ recordRows' = recordRows \cup {r}
        /\ bodyRows' = bodyRows \cup ({d.body} \ {Nothing})
        /\ artifactRows' = artifactRows \cup ({d.path} \ {Nothing})
        /\ refusals' \subseteq refusals \cup {r}
        /\ recordBodies' \subseteq recordBodies \cup {[record |-> r, body |-> d.body]}
        /\ d.body = Nothing => recordBodies' = recordBodies
        /\ strayBodies' = strayBodies \cup Strays({s})
    BY <1>4 DEF ReplaceSession
  <2>2. \A t \in StoredSession :
          IF t = s THEN eventOf'[t] = [source |-> x, decoded |-> d] /\ owner'[t] = x
                   ELSE eventOf'[t] = eventOf[t] /\ owner'[t] = owner[t]
    BY <1>4 DEF ReplaceSession, StoreTypeOK
  <2>3. ASSUME NEW t \in StoredSession, eventOf'[t] # Nothing
        PROVE  LET e == eventOf'[t] IN
               /\ e.source \in sourceRows' /\ e.decoded.body \in bodyRows' \cup {Nothing}
               /\ e.decoded.path \in artifactRows' \cup {Nothing}
               /\ [source |-> e.source, session |-> t] \in recordRows'
               /\ owner'[t] = e.source
    <3>1. CASE t = s
      BY <2>1, <2>2, <3>1
    <3>2. CASE t # s
      BY <2>1, <2>2, <2>3, <3>2 DEF SharedRowsAreHeld
    <3> QED BY <3>1, <3>2
  <2>4. {q.source : q \in recordRows'} \cup {q.source : q \in refusals'} \subseteq sourceRows'
    BY <2>1 DEF SharedRowsAreHeld
  <2>5. {b.record : b \in recordBodies'} \subseteq recordRows'
    BY <2>1 DEF SharedRowsAreHeld
  <2>6. {b.body : b \in recordBodies'} \cup strayBodies' \subseteq bodyRows'
    BY <2>1, StraysHeld DEF SharedRowsAreHeld
  <2> QED BY <2>3, <2>4, <2>5, <2>6 DEF SharedRowsAreHeld
<1>5. ASSUME NEW s \in StoredSession, RemoveSession(s)  PROVE SharedRowsAreHeld'
  <2>1. /\ Strays({s}) \subseteq bodyRows
        /\ strayBodies' = strayBodies \cup Strays({s}) /\ refusals' \subseteq refusals
        /\ UNCHANGED <<sourceRows, recordRows, recordBodies, bodyRows, artifactRows>>
    BY <1>5, StraysHeld DEF RemoveSession
  <2>2. \A t \in StoredSession : eventOf'[t] # Nothing =>
                                   eventOf'[t] = eventOf[t] /\ owner'[t] = owner[t]
    BY <1>5 DEF RemoveSession, StoreTypeOK
  <2>3. ASSUME NEW t \in StoredSession, eventOf'[t] # Nothing
        PROVE  LET e == eventOf'[t] IN
               /\ e.source \in sourceRows' /\ e.decoded.body \in bodyRows' \cup {Nothing}
               /\ e.decoded.path \in artifactRows' \cup {Nothing}
               /\ [source |-> e.source, session |-> t] \in recordRows'
               /\ owner'[t] = e.source
    BY <2>1, <2>2, <2>3 DEF SharedRowsAreHeld
  <2> QED BY <2>1, <2>3 DEF SharedRowsAreHeld
<1>6. ASSUME ClosePass  PROVE SharedRowsAreHeld'
  <2> DEFINE kept == {q \in refusals : q.session \notin Dropped}
  <2>1. Dropped \subseteq StoredSession
    BY <1>6 DEF ClosePass, Dropped, StoreTypeOK
  <2>2. strayBodies' \subseteq bodyRows
    BY <1>6, <2>1, StraysHeld DEF ClosePass, SharedRowsAreHeld
  <2>3. \A s \in StoredSession :
          /\ owner'[s] = IF s \in Dropped THEN Nothing ELSE owner[s]
          /\ eventOf'[s] = IF s \in Dropped THEN Nothing ELSE eventOf[s]
    BY <1>6 DEF ClosePass
  <2>4. Prune(owner', eventOf', kept, strayBodies')
    BY <1>6 DEF ClosePass
  <2>5. kept \in SUBSET refusals
    OBVIOUS
  <2> HIDE DEF kept
  <2> QED BY <2>2, <2>3, <2>4, <2>5, PruneHolds
<1>7. ASSUME EndTranscript  PROVE SharedRowsAreHeld'
  BY <1>7 DEF EndTranscript, SharedRowsAreHeld
<1>8. ASSUME Sweep  PROVE SharedRowsAreHeld'
  <2>1. Prune(owner', eventOf', refusals, strayBodies')
    BY <1>8 DEF Sweep
  <2>2. owner' = owner /\ eventOf' = eventOf /\ strayBodies' \subseteq bodyRows
    BY <1>8 DEF Sweep, SharedRowsAreHeld
  <2> QED BY <2>1, <2>2, PruneHolds
<1> QED
  BY <1>1, <1>2, <1>3, <1>4, <1>5, <1>6, <1>7, <1>8 DEF StoreNext

\* What the store holds is held in every state.
LEMMA HeldInvariance == StoreSpec => []HeldInv
<1>1. StoreInit => HeldInv
  BY DEF StoreInit, HeldInv, StoreTypeOK, SharedRowsAreHeld
<1>2. HeldInv /\ [StoreNext]_storeVars => HeldInv'
  <2>1. ASSUME HeldInv, UNCHANGED storeVars PROVE HeldInv'
    BY <2>1 DEF storeVars, HeldInv, StoreTypeOK, SharedRowsAreHeld
  <2> QED BY <2>1, HeldStep
<1> QED BY <1>1, <1>2, PTL DEF StoreSpec

\* The store is well typed after any passes over any files (store.py).
THEOREM StoreTypesHold == StoreSpec => []StoreTypeOK
<1>1. HeldInv => StoreTypeOK
  BY DEF HeldInv
<1> QED BY <1>1, HeldInvariance, PTL

\* Whatever is replaced, dropped, swept and pruned, every Event keeps its Source
\* record, body and artifact, and no record or diagnostic outlives its Source
\* (replace_session_events, prune_unreferenced_source_revisions).
THEOREM SharedRowsHold == StoreSpec => []SharedRowsAreHeld
<1>1. HeldInv => SharedRowsAreHeld
  BY DEF HeldInv
<1> QED BY <1>1, HeldInvariance, PTL

\* No pass over a database removes a Session whose last Event came from another
\* file, and no pass over transcripts one but its own
\* (drop_sessions_absent_from_source).
THEOREM OwnersDecide == StoreSpec => OnlyOwnedSessionsGo
<1> DEFINE StaysOwned == \A s \in StoredSession : owner[s] # Nothing /\ owner'[s] = Nothing =>
                     pass # Nothing /\ (FileOf(s) = pass.file
                                        \/ (layout = "transcript" /\ s \in pass'.seen))
<1>1. ASSUME StoreTypeOK, StoreNext PROVE StaysOwned
  <2>1. CASE owner' = owner
    BY <2>1
  <2>2. ASSUME NEW s \in StoredSession, NEW d \in Decodings, ReplaceSession(s, d)
        PROVE  StaysOwned
    <3>1. owner' = [owner EXCEPT ![s] = [file |-> pass.file, revision |-> revision[pass.file]]]
          /\ pass # Nothing
      BY <2>2 DEF ReplaceSession
    <3>2. [file |-> pass.file, revision |-> revision[pass.file]] # Nothing
      BY <1>1, <3>1, PassSource
    <3> QED BY <1>1, <3>1, <3>2 DEF StoreTypeOK
  <2>3. ASSUME NEW s \in StoredSession, RemoveSession(s)  PROVE StaysOwned
    BY <1>1, <2>3 DEF RemoveSession, StoreTypeOK
  <2>4. CASE ClosePass
    <3>1. \A s \in StoredSession : owner'[s] = IF s \in Dropped THEN Nothing ELSE owner[s]
      BY <2>4 DEF ClosePass
    <3> QED BY <2>4, <3>1 DEF ClosePass, Dropped
  <2>5. StoreNext => owner' = owner \/ ClosePass \/ \E s \in StoredSession :
                       RemoveSession(s) \/ \E d \in Decodings : ReplaceSession(s, d)
    BY DEF StoreNext, CreateStore, RewriteFile, OpenPass, EndTranscript, Sweep
  <2> QED BY <1>1, <2>1, <2>2, <2>3, <2>4, <2>5
<1>2. HeldInv /\ [StoreNext]_storeVars => [StaysOwned]_storeVars
  BY <1>1 DEF HeldInv
<1> QED BY <1>2, HeldInvariance, PTL DEF StoreSpec, OnlyOwnedSessionsGo

\* What is derived while a Session's Events are stored is what the whole Session
\* says, and the rows Sessions share are there as long as one of them refers to
\* them (replace_session_events).
THEOREM RowsCohere == StoredRowsSpec => []StoredRowsCohere
BY GroupingCoheres, SharedRowsHold, PTL DEF StoredRowsSpec, StoredRowsCohere

---------------------------------------------------------------------------
(* The typed queries. *)

\* A sequence that lists part of S in the order of R and leaves none out before is
\* the beginning of the list of S.
LEMMA PrefixOfList ==
  ASSUME NEW S, IsFiniteSet(S), NEW R, Linear(R, S), NEW r \in Seq(S),
         \A i, j \in DOMAIN r : i < j => <<r[i], r[j]>> \in R,
         \A x \in S : \A i \in DOMAIN r : <<x, r[i]>> \in R => \E j \in DOMAIN r : r[j] = x
  PROVE  /\ Len(r) <= Len(Enumerate(S, R))
         /\ r = SubSeq(Enumerate(S, R), 1, Len(r))
<1>. DEFINE n == Cardinality(S)
            s == Enumerate(S, R)
            m == Len(r)
<1>1. /\ n \in Nat /\ s \in [1..n -> S]
      /\ \A i, j \in 1..n : i < j <=> <<s[i], s[j]>> \in R
      /\ \A x \in S : \E i \in 1..n : s[i] = x
  <2>. HIDE DEF n, s, m
  <2>1. /\ Cardinality(S) \in Nat
        /\ Enumerate(S, R) \in [1..Cardinality(S) -> S]
        /\ \A i, j \in 1..Cardinality(S) : i < j <=> <<Enumerate(S, R)[i], Enumerate(S, R)[j]>> \in R
        /\ \A x \in S : \E i \in 1..Cardinality(S) : Enumerate(S, R)[i] = x
    BY Enumerates, SMTT(20)
  <2> QED BY <2>1, Zenon DEF n, s
<1>2. m \in Nat /\ DOMAIN r = 1..m /\ \A i \in 1..m : r[i] \in S
  OBVIOUS
<1>. HIDE DEF s, n, m
<1>3. /\ \A x \in S : <<x, x>> \notin R
      /\ \A x, y \in S : x = y \/ <<x, y>> \in R \/ <<y, x>> \in R
      /\ \A x, y, z \in S : <<x, y>> \in R /\ <<y, z>> \in R => <<x, z>> \in R
  BY DEF Linear
<1>4. \A i, j \in 1..m : i < j => <<r[i], r[j]>> \in R
  BY <1>2
<1>5. \A x \in S : \A i \in 1..m : <<x, r[i]>> \in R => \E j \in 1..m : r[j] = x
  BY <1>2
<1>. DEFINE K == {i \in 1..m : i \in 1..n /\ \A j \in 1..i : r[j] = s[j]}
<1>6. ASSUME NEW i \in 1..m, i - 1 \in K \/ i = 1 PROVE i \in K
  <2>1. \A j \in 1..i - 1 : j \in 1..n /\ j \in 1..m /\ r[j] = s[j]
    <3>1. CASE i = 1
      BY <3>1
    <3>2. CASE i - 1 \in K
      BY <1>1, <1>2, <3>2
    <3> QED BY <1>6, <3>1, <3>2
  <2>2. PICK k \in 1..n : s[k] = r[i]
    BY <1>1, <1>2
  <2>3. k >= i
    <3>1. ASSUME k < i PROVE FALSE
      <4>1. k \in 1..i - 1
        BY <1>1, <1>2, <3>1
      <4>2. r[k] = s[k] /\ k \in 1..m
        BY <2>1, <4>1
      <4>3. <<r[k], r[i]>> \in R
        BY <1>4, <3>1, <4>2
      <4> QED BY <1>2, <1>3, <2>2, <4>2, <4>3
    <3> QED BY <1>1, <1>2, <3>1
  <2>4. i \in 1..n
    BY <1>1, <1>2, <2>3
  <2>5. ASSUME k > i PROVE FALSE
    <3>1. <<s[i], r[i]>> \in R
      BY <1>1, <2>2, <2>4, <2>5
    <3>2. PICK j \in 1..m : r[j] = s[i]
      BY <1>1, <1>5, <2>4, <3>1
    <3>3. CASE j < i
      <4>1. j \in 1..i - 1
        BY <1>2, <3>3
      <4>2. s[j] = s[i] /\ j \in 1..n
        BY <2>1, <3>2, <4>1
      <4>3. <<s[j], s[i]>> \in R
        BY <1>1, <2>4, <3>3, <4>2
      <4> QED BY <1>1, <1>3, <2>4, <4>2, <4>3
    <3>4. CASE j = i
      BY <1>1, <1>2, <1>3, <2>4, <3>1, <3>2, <3>4
    <3>5. CASE j > i
      <4>1. <<r[i], s[i]>> \in R
        BY <1>4, <3>2, <3>5
      <4> QED BY <1>1, <1>2, <1>3, <2>4, <3>1, <4>1
    <3> QED BY <1>2, <3>3, <3>4, <3>5
  <2>6. k = i
    BY <1>1, <1>2, <2>3, <2>5
  <2>7. \A j \in 1..i : r[j] = s[j]
    <3>1. ASSUME NEW j \in 1..i PROVE r[j] = s[j]
      <4>1. j = i \/ j \in 1..i - 1
        BY <1>2
      <4> QED BY <2>1, <2>2, <2>6, <4>1
    <3> QED BY <3>1
  <2> QED BY <2>4, <2>7
<1>7. \A i \in 1..m : i \in K
  <2>1. 1 \in K \/ m = 0
    BY <1>2, <1>6
  <2>2. \A i \in 1..m - 1 : i \in K => i + 1 \in K
    <3>1. ASSUME NEW i \in 1..m - 1, i \in K PROVE i + 1 \in K
      <4>1. i + 1 \in 1..m /\ (i + 1) - 1 = i
        BY <1>2
      <4> QED BY <1>6, <3>1, <4>1
    <3> QED BY <3>1
  <2>. HIDE DEF K
  <2> QED BY <1>2, <2>1, <2>2, UpTo
<1>8. m <= n
  <2>1. m = 0 \/ m \in K
    BY <1>2, <1>7
  <2> QED BY <1>1, <1>2, <2>1
<1>9. \A i \in 1..m : r[i] = s[i]
  BY <1>2, <1>7
<1>10. s \in Seq(S) /\ Len(s) = n
  BY <1>1
<1>11. SubSeq(s, 1, m) \in Seq(S) /\ Len(SubSeq(s, 1, m)) = m /\ \A i \in 1..m : SubSeq(s, 1, m)[i] = s[i]
  BY <1>1, <1>2, <1>8, <1>10
<1>12. r \in Seq(S) /\ Len(r) = m
  BY DEF m
<1>13. r = SubSeq(s, 1, m)
  <2>. DEFINE t == SubSeq(s, 1, m)
  <2>1. t \in Seq(S) /\ Len(t) = Len(r) /\ \A i \in 1..Len(r) : r[i] = t[i]
    BY <1>9, <1>11, <1>12
  <2>. HIDE DEF t
  <2>2. r = t
    BY <1>12, <2>1, SeqEqual
  <2> QED BY <2>2 DEF t
<1> QED BY <1>8, <1>10, <1>13 DEF m, s

\* Rows of numbers compared number by number are in an order.
LEMMA LessOrders ==
  ASSUME NEW n \in Nat
  PROVE  /\ \A k \in [1..n -> Nat] : ~Less(k, k)
         /\ \A k, l \in [1..n -> Nat] : k = l \/ Less(k, l) \/ Less(l, k)
         /\ \A k, l, m \in [1..n -> Nat] : Less(k, l) /\ Less(l, m) => Less(k, m)
<1>1. ASSUME NEW k \in [1..n -> Nat] PROVE ~Less(k, k)
  BY DEF Less
<1>2. ASSUME NEW k \in [1..n -> Nat], NEW l \in [1..n -> Nat], k # l
      PROVE  Less(k, l) \/ Less(l, k)
  <2>. DEFINE D == {i \in 1..n : k[i] # l[i]}
  <2>1. D # {} /\ D \in SUBSET (1..n)
    BY <1>2
  <2>2. PICK i \in D : \A j \in D : i <= j
    <3>. HIDE DEF D
    <3> QED BY <2>1, FirstIsThere
  <2>3. i \in 1..n /\ k[i] # l[i] /\ k[i] \in Nat /\ l[i] \in Nat
    OBVIOUS
  <2>4. \A j \in 1..i - 1 : k[j] = l[j]
    <3>1. ASSUME NEW j \in 1..i - 1 PROVE k[j] = l[j]
      <4>1. j \in 1..n /\ ~(i <= j)
        BY <2>3
      <4> QED BY <2>2, <4>1
    <3> QED BY <3>1
  <2>5. k[i] < l[i] \/ l[i] < k[i]
    BY <2>3
  <2>6. i \in DOMAIN k /\ i \in DOMAIN l
    BY <2>3
  <2>. HIDE DEF D
  <2>7. \A j \in 1..i - 1 : l[j] = k[j]
    BY <2>4
  <2>8. CASE k[i] < l[i]
    BY <2>4, <2>6, <2>8 DEF Less
  <2>9. CASE l[i] < k[i]
    BY <2>7, <2>6, <2>9 DEF Less
  <2> QED BY <2>5, <2>8, <2>9
<1>3. ASSUME NEW k \in [1..n -> Nat], NEW l \in [1..n -> Nat], NEW m \in [1..n -> Nat],
             Less(k, l), Less(l, m)
      PROVE  Less(k, m)
  <2>1. PICK a \in 1..n : k[a] < l[a] /\ \A j \in 1..a - 1 : k[j] = l[j]
    BY <1>3 DEF Less
  <2>2. PICK b \in 1..n : l[b] < m[b] /\ \A j \in 1..b - 1 : l[j] = m[j]
    BY <1>3 DEF Less
  <2>3. \A i \in 1..n : k[i] \in Nat /\ l[i] \in Nat /\ m[i] \in Nat
    OBVIOUS
  <2>4. DOMAIN k = 1..n
    OBVIOUS
  <2>5. CASE a < b
    <3>1. k[a] < m[a] /\ \A j \in 1..a - 1 : k[j] = m[j]
      BY <2>1, <2>2, <2>3, <2>5
    <3> QED BY <2>4, <3>1 DEF Less
  <2>6. CASE b < a
    <3>1. k[b] < m[b] /\ \A j \in 1..b - 1 : k[j] = m[j]
      BY <2>1, <2>2, <2>3, <2>6
    <3> QED BY <2>4, <3>1 DEF Less
  <2>7. CASE a = b
    <3>1. k[b] < m[b] /\ \A j \in 1..b - 1 : k[j] = m[j]
      BY <2>1, <2>2, <2>3, <2>7
    <3> QED BY <2>4, <3>1 DEF Less
  <2> QED BY <2>5, <2>6, <2>7
<1> QED BY <1>1, <1>2, <1>3, Zenon

\* Keys of rows and heads are of numbers, and end in what tells them apart.
LEMMA RowFields ==
  /\ Store \subseteq Nat /\ IsFiniteSet(Store)
  /\ \A e \in QueryEvent : /\ e.id \in Nat /\ e.session \in Nat /\ e.seq \in Nat /\ e.at \in Nat
                           /\ e.size \in Nat /\ Key(e) \in [1..5 -> Nat]
                           /\ Key(e)[5] = e.id
  /\ \A h \in Row : h.store \in Store /\ h.event \in QueryEvent /\ HeadKey(h) \in [1..6 -> Nat]
                    /\ h = [store |-> h.store, event |-> h.event]
                    /\ HeadKey(h)[6] = h.store /\ \A i \in 1..5 : HeadKey(h)[i] = Key(h.event)[i]
<1>1. Store \subseteq Nat /\ IsFiniteSet(Store) /\ QueryEvent \subseteq QueryRow
  BY QueryAssumption DEF QueryAssumption
<1>2. ASSUME NEW e \in QueryEvent
      PROVE  /\ e.id \in Nat /\ e.session \in Nat /\ e.seq \in Nat /\ e.at \in Nat
             /\ e.size \in Nat /\ Key(e) \in [1..5 -> Nat]
             /\ Key(e)[5] = e.id
  <2>1. e.id \in Nat /\ e.session \in Nat /\ e.seq \in Nat /\ e.at \in Nat /\ e.size \in Nat
    BY <1>1 DEF QueryRow
  <2> QED BY <2>1 DEF Key
<1>3. ASSUME NEW h \in Row
      PROVE  /\ h.store \in Store /\ h.event \in QueryEvent /\ HeadKey(h) \in [1..6 -> Nat]
             /\ h = [store |-> h.store, event |-> h.event]
             /\ HeadKey(h)[6] = h.store /\ \A i \in 1..5 : HeadKey(h)[i] = Key(h.event)[i]
  <2>1. h.store \in Store /\ h.event \in QueryEvent /\ h = [store |-> h.store, event |-> h.event]
    BY DEF Row
  <2>2. h.store \in Nat
    BY <1>1, <2>1
  <2>3. /\ h.event.id \in Nat /\ h.event.session \in Nat /\ h.event.seq \in Nat /\ h.event.at \in Nat
    BY <1>2, <2>1
  <2>4. HeadKey(h) \in [1..6 -> Nat] /\ HeadKey(h)[6] = h.store
    BY <2>2, <2>3 DEF HeadKey
  <2>5. \A i \in 1..5 : HeadKey(h)[i] = Key(h.event)[i]
    BY DEF HeadKey, Key
  <2> QED BY <2>1, <2>4, <2>5
<1> QED BY <1>1, <1>2, <1>3

\* The order of all heads, and that of the rows of one store within it.
LEMMA HeadsAreOrdered ==
  /\ \A a \in Row : ~HeadBefore(a, a)
  /\ \A a, b \in Row : \/ HeadBefore(a, b) \/ HeadBefore(b, a)
                       \/ a.store = b.store /\ a.event.id = b.event.id
  /\ \A a, b, c \in Row : HeadBefore(a, b) /\ HeadBefore(b, c) => HeadBefore(a, c)
  /\ \A a, b \in Row : a.store = b.store => (HeadBefore(a, b) <=> RowBefore(a.event, b.event))
<1>1. \A a \in Row : HeadKey(a) \in [1..6 -> Nat]
  BY RowFields
<1>2. \A a \in Row : ~HeadBefore(a, a)
  BY <1>1, LessOrders DEF HeadBefore
<1>3. ASSUME NEW a \in Row, NEW b \in Row, ~HeadBefore(a, b), ~HeadBefore(b, a)
      PROVE  a.store = b.store /\ a.event.id = b.event.id
  <2>1. HeadKey(a) = HeadKey(b)
    BY <1>1, <1>3, LessOrders DEF HeadBefore
  <2>2. HeadKey(a)[6] = HeadKey(b)[6] /\ HeadKey(a)[5] = HeadKey(b)[5]
    BY <2>1
  <2>3. Key(a.event)[5] = Key(b.event)[5]
    BY <2>2, RowFields
  <2> QED BY <2>2, <2>3, RowFields
<1>4. ASSUME NEW a \in Row, NEW b \in Row, NEW c \in Row, HeadBefore(a, b), HeadBefore(b, c)
      PROVE  HeadBefore(a, c)
  BY <1>1, <1>4, LessOrders DEF HeadBefore
<1>5. ASSUME NEW a \in Row, NEW b \in Row, a.store = b.store
      PROVE  HeadBefore(a, b) <=> RowBefore(a.event, b.event)
  <2>. DEFINE k == HeadKey(a)
              l == HeadKey(b)
              c == Key(a.event)
              d == Key(b.event)
  <2>1. /\ k \in [1..6 -> Nat] /\ l \in [1..6 -> Nat] /\ c \in [1..5 -> Nat] /\ d \in [1..5 -> Nat]
        /\ k[6] = l[6] /\ \A i \in 1..5 : k[i] = c[i] /\ l[i] = d[i]
    BY <1>5, RowFields
  <2>. HIDE DEF k, l, c, d
  <2>2. Less(k, l) => Less(c, d)
    <3>1. ASSUME Less(k, l) PROVE Less(c, d)
      <4>1. PICK i \in 1..6 : k[i] < l[i] /\ \A j \in 1..i - 1 : k[j] = l[j]
        BY <2>1, <3>1 DEF Less
      <4>2. i # 6
        BY <2>1, <4>1
      <4>3. i \in 1..5 /\ c[i] < d[i] /\ \A j \in 1..i - 1 : c[j] = d[j]
        BY <2>1, <4>1, <4>2
      <4>4. DOMAIN c = 1..5
        BY <2>1
      <4> QED BY <4>3, <4>4 DEF Less
    <3> QED BY <3>1
  <2>3. Less(c, d) => Less(k, l)
    <3>1. ASSUME Less(c, d) PROVE Less(k, l)
      <4>1. PICK i \in 1..5 : c[i] < d[i] /\ \A j \in 1..i - 1 : c[j] = d[j]
        BY <2>1, <3>1 DEF Less
      <4>2. i \in 1..6 /\ k[i] < l[i] /\ \A j \in 1..i - 1 : k[j] = l[j]
        BY <2>1, <4>1
      <4>3. DOMAIN k = 1..6
        BY <2>1
      <4> QED BY <4>2, <4>3 DEF Less
    <3> QED BY <3>1
  <2> QED BY <2>2, <2>3 DEF HeadBefore, RowBefore, k, l, c, d
<1> QED BY <1>2, <1>3, <1>4, <1>5, Zenon

\* Stores hold rows an id tells apart.
Whole ==
  /\ stores \in [Store -> SUBSET QueryEvent]
  /\ \A s \in Store : IsFiniteSet(stores[s]) /\ IdsTellApart(stores[s])

\* The rows of one store a request selects are ordered.
LEMMA SelectedRowsAreOrdered ==
  ASSUME NEW q, NEW held \in SUBSET QueryEvent, IsFiniteSet(held), IdsTellApart(held)
  PROVE  /\ Selected(q, held) \subseteq QueryEvent /\ IsFiniteSet(Selected(q, held))
         /\ Linear({p \in Selected(q, held) \X Selected(q, held) : RowBefore(p[1], p[2])}, Selected(q, held))
<1>1. Selected(q, held) \subseteq held
  BY DEF Selected
<1>2. IsFiniteSet(Selected(q, held))
  BY <1>1, FS_Subset
<1>. DEFINE S == Selected(q, held)
            R == {p \in S \X S : RowBefore(p[1], p[2])}
<1>3. S \subseteq QueryEvent /\ IdsTellApart(S)
  BY <1>1 DEF IdsTellApart
<1>. HIDE DEF S
<1>4. \A x, y \in S : <<x, y>> \in R <=> RowBefore(x, y)
  OBVIOUS
<1>. HIDE DEF R
<1>5. \A e \in S : Key(e) \in [1..5 -> Nat] /\ Key(e)[5] = e.id
  BY <1>3, RowFields
<1>6. \A x \in S : <<x, x>> \notin R
  BY <1>4, <1>5, LessOrders DEF RowBefore
<1>7. ASSUME NEW x \in S, NEW y \in S PROVE x = y \/ <<x, y>> \in R \/ <<y, x>> \in R
  <2>1. Key(x) = Key(y) \/ <<x, y>> \in R \/ <<y, x>> \in R
    BY <1>4, <1>5, LessOrders DEF RowBefore
  <2>2. ASSUME Key(x) = Key(y) PROVE x = y
    <3>1. x.id = y.id
      BY <1>5, <2>2
    <3> QED BY <1>3, <3>1 DEF IdsTellApart
  <2> QED BY <2>1, <2>2
<1>8. \A x, y, z \in S : <<x, y>> \in R /\ <<y, z>> \in R => <<x, z>> \in R
  BY <1>4, <1>5, LessOrders DEF RowBefore
<1>9. Linear(R, S)
  BY <1>6, <1>7, <1>8 DEF Linear
<1> QED BY <1>2, <1>3, <1>9 DEF S, R

\* The rows a store gives are the first it has for the request, in their order.
LEMMA GivenFacts ==
  ASSUME Whole, NEW q \in Request, NEW s \in Store
  PROVE  /\ Given(q, s) \in Seq(Selected(q, stores[s]))
         /\ \A i, j \in DOMAIN Given(q, s) : i < j => RowBefore(Given(q, s)[i], Given(q, s)[j])
         /\ \A x \in Selected(q, stores[s]) :
              \/ \E i \in DOMAIN Given(q, s) : Given(q, s)[i] = x
              \/ /\ q.limit # NoLimit /\ Len(Given(q, s)) = q.limit
                 /\ \A i \in DOMAIN Given(q, s) : RowBefore(Given(q, s)[i], x)
<1>. DEFINE held == stores[s]
            S == Selected(q, held)
            R == {p \in S \X S : RowBefore(p[1], p[2])}
            all == Enumerate(S, R)
            n == Cardinality(S)
            G == Given(q, s)
<1>1. held \in SUBSET QueryEvent /\ IsFiniteSet(held) /\ IdsTellApart(held)
  BY DEF Whole
<1>2. IsFiniteSet(S) /\ Linear(R, S)
  <2>. HIDE DEF held
  <2> QED BY <1>1, SelectedRowsAreOrdered
<1>3. RowsInOrder(S) = all
  BY DEF RowsInOrder, ListOf
<1>4. G = IF q.limit = NoLimit \/ Len(all) <= q.limit THEN all ELSE SubSeq(all, 1, q.limit)
  BY <1>3 DEF Given
<1>5. \A x, y \in S : <<x, y>> \in R => RowBefore(x, y)
  OBVIOUS
<1>. HIDE DEF S, R
<1>6. /\ n \in Nat /\ all \in [1..n -> S]
      /\ \A i, j \in 1..n : i < j <=> <<all[i], all[j]>> \in R
      /\ \A x \in S : \E i \in 1..n : all[i] = x
  BY <1>2, Enumerates
<1>. HIDE DEF all, n
<1>7. all \in Seq(S) /\ Len(all) = n
  BY <1>6
<1>8. q.limit \in Nat \/ q.limit = NoLimit
  BY DEF Request
<1>. HIDE DEF G
<1>9. CASE q.limit = NoLimit \/ n <= q.limit
  <2>1. G = all /\ DOMAIN G = 1..n
    BY <1>4, <1>6, <1>7, <1>9
  <2>2. \A i, j \in DOMAIN G : i < j => RowBefore(G[i], G[j])
    BY <1>5, <1>6, <2>1
  <2>3. \A x \in S : \E i \in DOMAIN G : G[i] = x
    BY <1>6, <2>1
  <2> QED BY <1>7, <2>1, <2>2, <2>3 DEF S, G, held
<1>10. CASE q.limit # NoLimit /\ ~(n <= q.limit)
  <2>. DEFINE m == q.limit
  <2>1. m \in Nat /\ m < n
    BY <1>6, <1>8, <1>10
  <2>2. G = SubSeq(all, 1, m)
    BY <1>4, <1>7, <1>10
  <2>. HIDE DEF m
  <2>3. G \in Seq(S) /\ Len(G) = m /\ DOMAIN G = 1..m /\ \A i \in 1..m : G[i] = all[i]
    BY <1>6, <1>7, <2>1, <2>2
  <2>4. \A i, j \in DOMAIN G : i < j => RowBefore(G[i], G[j])
    <3>1. ASSUME NEW i \in 1..m, NEW j \in 1..m, i < j PROVE RowBefore(G[i], G[j])
      <4>1. i \in 1..n /\ j \in 1..n
        BY <1>6, <2>1
      <4>2. <<all[i], all[j]>> \in R
        BY <1>6, <3>1, <4>1
      <4> QED BY <1>5, <1>6, <2>3, <4>1, <4>2
    <3> QED BY <2>3, <3>1
  <2>5. ASSUME NEW x \in S
        PROVE  \/ \E i \in DOMAIN G : G[i] = x
               \/ \A i \in DOMAIN G : RowBefore(G[i], x)
    <3>1. PICK k \in 1..n : all[k] = x
      BY <1>6
    <3>2. CASE k <= m
      <4>1. k \in 1..m
        BY <1>6, <2>1, <3>2
      <4> QED BY <2>3, <3>1, <4>1
    <3>3. CASE k > m
      <4>1. ASSUME NEW i \in 1..m PROVE RowBefore(G[i], x)
        <5>1. i \in 1..n /\ i < k
          BY <1>6, <2>1, <3>3
        <5>2. <<all[i], all[k]>> \in R
          BY <1>6, <5>1
        <5> QED BY <1>5, <1>6, <2>3, <3>1, <5>1, <5>2
      <4> QED BY <2>3, <4>1
    <3> QED BY <1>6, <2>1, <3>2, <3>3
  <2> QED BY <1>10, <2>3, <2>4, <2>5 DEF S, G, held, m
<1> QED BY <1>6, <1>8, <1>9, <1>10

\* What a function makes of a finite set is finite.
LEMMA ImageIsFinite ==
  ASSUME NEW S, IsFiniteSet(S), NEW f
  PROVE  IsFiniteSet({f[x] : x \in S})
<1>. DEFINE T == {f[x] : x \in S}
            g == [x \in S |-> f[x]]
<1>1. g \in Surjection(S, T)
  BY DEF Surjection
<1>. HIDE DEF g, T
<1>2. IsFiniteSet(T)
  BY <1>1, FS_Surjection
<1> QED BY <1>2 DEF T

\* The rows of all stores for a request.
LEMMA AllRowsAreOrdered ==
  ASSUME Whole, NEW q
  PROVE  /\ AllRows(q) \subseteq Row /\ IsFiniteSet(AllRows(q))
         /\ \A x \in Row : x \in AllRows(q) <=> x.event \in Selected(q, stores[x.store])
         /\ \A x, y \in AllRows(q) : x = y \/ HeadBefore(x, y) \/ HeadBefore(y, x)
         /\ Linear({p \in AllRows(q) \X AllRows(q) : HeadBefore(p[1], p[2])}, AllRows(q))
<1>1. \A s \in Store : /\ Selected(q, stores[s]) \subseteq QueryEvent
                       /\ IsFiniteSet(Selected(q, stores[s]))
                       /\ \A d, e \in Selected(q, stores[s]) : d.id = e.id => d = e
  <2>1. ASSUME NEW s \in Store
        PROVE  /\ Selected(q, stores[s]) \subseteq QueryEvent
               /\ IsFiniteSet(Selected(q, stores[s]))
               /\ \A d, e \in Selected(q, stores[s]) : d.id = e.id => d = e
    <3>1. stores[s] \in SUBSET QueryEvent /\ IsFiniteSet(stores[s]) /\ IdsTellApart(stores[s])
      BY DEF Whole
    <3>2. Selected(q, stores[s]) \subseteq stores[s]
      BY DEF Selected
    <3>3. IsFiniteSet(Selected(q, stores[s]))
      BY <3>1, <3>2, FS_Subset
    <3> QED BY <3>1, <3>2, <3>3 DEF IdsTellApart
  <2> QED BY <2>1
<1>. DEFINE of(s) == {[store |-> s, event |-> e] : e \in Selected(q, stores[s])}
            parts == {of(s) : s \in Store}
            A == AllRows(q)
            R == {p \in A \X A : HeadBefore(p[1], p[2])}
<1>2. A = UNION parts
  BY DEF AllRows
<1>3. \A s \in Store : IsFiniteSet(of(s))
  <2>1. ASSUME NEW s \in Store PROVE IsFiniteSet(of(s))
    <3>. DEFINE E == Selected(q, stores[s])
                f == [e \in E |-> [store |-> s, event |-> e]]
    <3>1. IsFiniteSet(E)
      BY <1>1
    <3>2. of(s) = {f[e] : e \in E}
      OBVIOUS
    <3>. HIDE DEF f, E
    <3>3. IsFiniteSet({f[e] : e \in E})
      BY <3>1, ImageIsFinite
    <3> QED BY <3>2, <3>3
  <2> QED BY <2>1
<1>4. IsFiniteSet(parts)
  <2>. DEFINE f == [s \in Store |-> of(s)]
  <2>1. parts = {f[s] : s \in Store}
    BY Zenon
  <2>. HIDE DEF f, parts
  <2>2. IsFiniteSet({f[s] : s \in Store})
    BY RowFields, ImageIsFinite
  <2> QED BY <2>1, <2>2
<1>5. IsFiniteSet(A)
  <2>1. \A T \in parts : IsFiniteSet(T)
    <3>. HIDE DEF of
    <3> QED BY <1>3, Zenon
  <2>. HIDE DEF parts
  <2> QED BY <1>2, <1>4, <2>1, FS_UNION
<1>6. \A x : x \in A <=> \E s \in Store : \E e \in Selected(q, stores[s]) : x = [store |-> s, event |-> e]
  BY <1>2
<1>. HIDE DEF A
<1>7. A \subseteq Row
  BY <1>1, <1>6 DEF Row
<1>8. ASSUME NEW x \in Row PROVE x \in A <=> x.event \in Selected(q, stores[x.store])
  <2>1. x = [store |-> x.store, event |-> x.event] /\ x.store \in Store
    BY RowFields
  <2>2. x \in A => x.event \in Selected(q, stores[x.store])
    <3>1. ASSUME NEW s \in Store, NEW e \in Selected(q, stores[s]), x = [store |-> s, event |-> e]
          PROVE  x.event \in Selected(q, stores[x.store])
      <4>1. x.store = s /\ x.event = e
        BY <3>1
      <4> QED BY <4>1
    <3> QED BY <1>6, <3>1
  <2> QED BY <1>6, <2>1, <2>2
<1>9. ASSUME NEW x \in A, NEW y \in A PROVE x = y \/ HeadBefore(x, y) \/ HeadBefore(y, x)
  <2>1. x \in Row /\ y \in Row
    BY <1>7
  <2>2. ASSUME x.store = y.store, x.event.id = y.event.id PROVE x = y
    <3>1. x.store \in Store /\ x.event \in Selected(q, stores[x.store]) /\ y.event \in Selected(q, stores[x.store])
      BY <1>8, <2>1, <2>2, RowFields
    <3>2. x.event = y.event
      BY <1>1, <2>2, <3>1
    <3> QED BY <2>1, <2>2, <3>2, RowFields
  <2> QED BY <2>1, <2>2, HeadsAreOrdered
<1>10. Linear(R, A)
  <2>1. \A x, y \in A : <<x, y>> \in R <=> HeadBefore(x, y)
    OBVIOUS
  <2>. HIDE DEF R
  <2>2. \A x \in A : <<x, x>> \notin R
    BY <1>7, <2>1, HeadsAreOrdered
  <2>3. \A x, y \in A : x = y \/ <<x, y>> \in R \/ <<y, x>> \in R
    BY <1>9, <2>1
  <2>4. \A x, y, z \in A : <<x, y>> \in R /\ <<y, z>> \in R => <<x, z>> \in R
    BY <1>7, <2>1, HeadsAreOrdered
  <2> QED BY <2>2, <2>3, <2>4 DEF Linear
<1> QED BY <1>5, <1>7, <1>8, <1>9, <1>10 DEF A, R

\* x is still to come from its store, or lies beyond what the store was asked for.
Waiting(x) == x \in heads \/ \E i \in DOMAIN cursors[x.store] : cursors[x.store][i] = x.event
Beyond(x) ==
  /\ asked.limit # NoLimit /\ Len(cursors[x.store]) + 1 + Len(returned) >= asked.limit
  /\ \E h \in heads : h.store = x.store /\ HeadBefore(h, x)
  /\ \A i \in DOMAIN cursors[x.store] : RowBefore(cursors[x.store][i], x.event)

\* While an answer is open the stores are read in order, the head of each first.
HeadsFirst ==
  /\ heads \subseteq AllRows(asked)
  /\ \A h, x \in heads : h.store = x.store => h = x
  /\ \A s \in Store : cursors[s] # <<>> => \E h \in heads : h.store = s
CursorsFollow ==
  \A h \in heads : \A i \in DOMAIN cursors[h.store] :
    /\ cursors[h.store][i] \in Selected(asked, stores[h.store])
    /\ RowBefore(h.event, cursors[h.store][i])
    /\ \A j \in DOMAIN cursors[h.store] : i < j => RowBefore(cursors[h.store][i], cursors[h.store][j])
NothingSkipped ==
  /\ \A h \in heads : \A i \in DOMAIN returned : HeadBefore(returned[i], h)
  /\ \A x \in AllRows(asked) : x \in ToSet(returned) \/ Waiting(x) \/ Beyond(x)
  /\ asked.limit = NoLimit \/ Len(returned) < asked.limit

\* What is returned is a beginning of all rows.
Beginning ==
  /\ ToSet(returned) \subseteq AllRows(asked)
  /\ \A i, j \in DOMAIN returned : i < j => HeadBefore(returned[i], returned[j])
  /\ \A x \in AllRows(asked) : \A i \in DOMAIN returned : HeadBefore(x, returned[i]) => x \in ToSet(returned)
  /\ asked.room = NoLimit \/ used <= asked.room
Complete == shortfalls = {} /\ asked.limit # 0 => ToSet(returned) = AllRows(asked)

\* A saved result is complete, a narrowed request within it, a difference made of it.
SavedComplete ==
  saved.held /\ saved.shortfalls = {} /\ saved.request.limit # 0 => ToSet(saved.returned) = saved.all
NarrowedTo ==
  narrowed => /\ saved.held /\ ~Expanding(asked) /\ asked.ids # {}
              /\ asked.ids \subseteq IdsOf(saved.returned)
Compared ==
  difference.made =>
    /\ answer = "done" /\ saved.held
    /\ difference.added = IdsOf(returned) \ IdsOf(saved.returned)
    /\ difference.removed = IdsOf(saved.returned) \ IdsOf(returned)
    /\ difference.comparable => asked = saved.request

\* Which of these holds when.
Answering ==
  /\ answer = "open" => HeadsFirst /\ CursorsFollow /\ NothingSkipped
  /\ answer \in {"open", "done"} => Beginning
  /\ answer = "done" => Complete

\* The inductive invariant of the queries.
QueryInv ==
  /\ QueryTypeOK /\ Whole /\ asked \in Request
  /\ Answering
  /\ SavedComplete /\ NarrowedTo /\ Compared

\* What is assumed of requests and stores.
LEMMA RequestFacts ==
  /\ NoRequest \in Request
  /\ \A q \in Request : (q.limit \in Nat \/ q.limit = NoLimit) /\ (q.room \in Nat \/ q.room = NoLimit)
  /\ \A c \in Contents : c \in [Store -> SUBSET QueryEvent]
       /\ \A s \in Store : IsFiniteSet(c[s]) /\ IdsTellApart(c[s])
  /\ Requests \subseteq Request /\ MaxQueries \in Nat
<1>1. NoRequest \in Request
  BY DEF NoRequest, Request, NoLimit
<1>2. \A q \in Request : (q.limit \in Nat \/ q.limit = NoLimit) /\ (q.room \in Nat \/ q.room = NoLimit)
  BY DEF Request
<1> QED BY <1>1, <1>2, QueryAssumption DEF QueryAssumption

\* The invariant of the queries holds at first.
LEMMA QueryStarts == QueryInit => QueryInv
<1>. SUFFICES ASSUME QueryInit PROVE QueryInv
  OBVIOUS
<1>1. QueryTypeOK
  <2>1. /\ saved.held = FALSE /\ saved.returned = <<>> /\ saved.all = {}
        /\ difference.made = FALSE /\ difference.comparable = FALSE
    BY DEF QueryInit, NoResult, NoDifference
  <2>2. <<>> \in Seq(Row) /\ <<>> \in Seq(QueryEvent) /\ 0 \in 0..MaxQueries
    BY RequestFacts
  <2>3. /\ stores \in [Store -> SUBSET QueryEvent] /\ cursors \in [Store -> Seq(QueryEvent)]
        /\ heads \subseteq Row /\ returned \in Seq(Row) /\ used \in Nat
        /\ shortfalls \subseteq {"bytes", "rows"} /\ answer \in {"none", "open", "done", "refused"}
        /\ narrowed \in BOOLEAN /\ queries \in 0..MaxQueries
    BY <2>2 DEF QueryInit
  <2> QED BY <2>1, <2>2, <2>3 DEF QueryTypeOK
<1>2. Whole
  BY FS_EmptySet DEF QueryInit, Whole, IdsTellApart
<1>3. asked \in Request /\ answer = "none"
  BY RequestFacts DEF QueryInit
<1>4. saved.held = FALSE /\ narrowed = FALSE /\ difference.made = FALSE
  BY DEF QueryInit, NoResult, NoDifference
<1> QED BY <1>1, <1>2, <1>3, <1>4 DEF QueryInv, Answering, SavedComplete, NarrowedTo, Compared

\* What the stores select changes with the stores and the request only.
LEMMA AllRowsStay ==
  ASSUME stores' = stores
  PROVE  /\ \A q : AllRows(q)' = AllRows(q)
         /\ asked' = asked => AllRows(asked)' = AllRows(asked)
BY DEF AllRows

\* An answer starts with the first row of every store at its head.
LEMMA AnswerStarts ==
  ASSUME QueryInv, NEW q \in Request, Answer(q), narrowed' \in BOOLEAN
  PROVE  QueryTypeOK' /\ Whole' /\ asked' = q /\ Answering' /\ saved' = saved /\ ~difference'.made
<1>1. /\ stores' = stores /\ saved' = saved /\ asked' = q /\ returned' = <<>> /\ used' = 0 /\ shortfalls' = {}
      /\ difference' = NoDifference /\ queries < MaxQueries /\ queries' = queries + 1
      /\ answer' = IF ~Valid(q) THEN "refused" ELSE IF q.limit = 0 THEN "done" ELSE "open"
  BY DEF Answer
<1>. DEFINE given == [s \in Store |-> IF answer' = "open" THEN Given(q, s) ELSE <<>>]
<1>2. /\ cursors' = [s \in Store |-> IF given[s] = <<>> THEN <<>> ELSE Tail(given[s])]
      /\ heads' = {[store |-> s, event |-> Head(given[s])] : s \in {t \in Store : given[t] # <<>>}}
  BY DEF Answer
<1>3. Whole /\ QueryTypeOK /\ Whole'
  BY <1>1 DEF QueryInv, Whole
<1>4. AllRows(q)' = AllRows(q) /\ AllRows(asked)' = AllRows(q)
  BY <1>1, AllRowsStay DEF AllRows
<1>5. \A s \in Store : Selected(q, stores[s]) \subseteq QueryEvent
  BY <1>3 DEF Whole, Selected
<1>6. \A s \in Store : given[s] \in Seq(Selected(q, stores[s])) /\ given[s] \in Seq(QueryEvent)
  <2>1. \A s \in Store : Given(q, s) \in Seq(Selected(q, stores[s]))
    BY <1>3, GivenFacts
  <2>2. ASSUME NEW s \in Store PROVE given[s] \in Seq(Selected(q, stores[s])) /\ given[s] \in Seq(QueryEvent)
    <3>1. given[s] = Given(q, s) \/ given[s] = <<>>
      OBVIOUS
    <3>. DEFINE S == Selected(q, stores[s])
    <3>2. given[s] \in Seq(S)
      <4>1. Given(q, s) \in Seq(S)
        BY <2>1
      <4>2. <<>> \in Seq(S)
        OBVIOUS
      <4>. HIDE DEF S, given
      <4> QED BY <3>1, <4>1, <4>2, Zenon
    <3>3. S \subseteq QueryEvent
      BY <1>5
    <3>. HIDE DEF S, given
    <3>4. given[s] \in Seq(QueryEvent)
      BY <3>2, <3>3
    <3> QED BY <3>2, <3>4 DEF S
  <2> QED BY <2>2
<1>7. answer' = "open" => \A s \in Store : given[s] = Given(q, s)
  OBVIOUS
<1>. HIDE DEF given
<1>8. cursors' \in [Store -> Seq(QueryEvent)]
  <2>1. ASSUME NEW s \in Store, given[s] # <<>> PROVE Tail(given[s]) \in Seq(QueryEvent)
    BY <1>6, <2>1
  <2>2. ASSUME NEW s \in Store
        PROVE  (IF given[s] = <<>> THEN <<>> ELSE Tail(given[s])) \in Seq(QueryEvent)
    BY <2>1
  <2> QED BY <1>2, <2>2
<1>9. heads' \subseteq Row
  <2>1. ASSUME NEW s \in Store, given[s] # <<>> PROVE Head(given[s]) \in QueryEvent
    BY <1>6, <2>1
  <2> QED BY <1>2, <2>1 DEF Row
<1>10. QueryTypeOK'
  <2>1. queries' \in 0..MaxQueries
    BY <1>1, <1>3, RequestFacts DEF QueryTypeOK
  <2>2. /\ stores' \in [Store -> SUBSET QueryEvent] /\ returned' \in Seq(Row) /\ used' \in Nat
        /\ shortfalls' \subseteq {"bytes", "rows"} /\ answer' \in {"none", "open", "done", "refused"}
        /\ saved'.held \in BOOLEAN /\ saved'.returned \in Seq(Row) /\ saved'.all \subseteq Row
    BY <1>1, <1>3 DEF QueryTypeOK
  <2>3. difference'.made = FALSE /\ difference'.comparable = FALSE
    BY <1>1 DEF NoDifference
  <2> QED BY <1>8, <1>9, <2>1, <2>2, <2>3 DEF QueryTypeOK
<1>11. ~difference'.made
  BY <1>1 DEF NoDifference
<1>12. Beginning'
  <2>1. DOMAIN returned' = {} /\ ToSet(returned') = {}
    BY <1>1 DEF ToSet
  <2>2. q.room = NoLimit \/ used' <= q.room
    BY <1>1, RequestFacts
  <2> QED BY <1>1, <2>1, <2>2 DEF Beginning
<1>13. answer' = "done" => Complete'
  BY <1>1 DEF Complete
<1>14. ASSUME answer' = "open" PROVE (HeadsFirst /\ CursorsFollow /\ NothingSkipped)'
  <2>. DEFINE S(s) == Selected(q, stores[s])
              G(s) == Given(q, s)
              all == AllRows(q)
  <2>1. q.limit # 0 /\ (q.limit \in Nat \/ q.limit = NoLimit)
    BY <1>1, <1>14, RequestFacts
  <2>2. \A s \in Store :
          /\ G(s) \in Seq(S(s))
          /\ \A i, j \in DOMAIN G(s) : i < j => RowBefore(G(s)[i], G(s)[j])
          /\ \A x \in S(s) : \/ \E i \in DOMAIN G(s) : G(s)[i] = x
                             \/ /\ q.limit # NoLimit /\ Len(G(s)) = q.limit
                                /\ \A i \in DOMAIN G(s) : RowBefore(G(s)[i], x)
    BY <1>3, GivenFacts
  <2>3. /\ \A x \in Row : x \in all <=> x.event \in S(x.store)
        /\ all \subseteq Row
    BY <1>3, AllRowsAreOrdered
  <2>4. \A s \in Store : S(s) \subseteq QueryEvent
    BY <1>5
  <2>5. /\ cursors' = [s \in Store |-> IF G(s) = <<>> THEN <<>> ELSE Tail(G(s))]
        /\ heads' = {[store |-> s, event |-> Head(G(s))] : s \in {t \in Store : G(t) # <<>>}}
    <3>. HIDE DEF G
    <3>1. \A s \in Store : given[s] = G(s)
      BY <1>7, <1>14 DEF G
    <3> QED BY <1>2, <3>1
  <2>6. AllRows(asked)' = all /\ asked' = q /\ returned' = <<>> /\ stores' = stores
    BY <1>1, <1>4
  <2>7. \A s \in Store : Selected(asked', stores'[s]) = S(s)
    BY <1>1
  <2>. HIDE DEF S, G, all
  <2>8. ASSUME NEW s \in Store, G(s) # <<>>
        PROVE  /\ Len(G(s)) \in Nat /\ Len(G(s)) >= 1 /\ DOMAIN G(s) = 1..Len(G(s))
               /\ 1 \in DOMAIN G(s) /\ Head(G(s)) = G(s)[1]
               /\ Head(G(s)) \in S(s) /\ Head(G(s)) \in QueryEvent
               /\ cursors'[s] = Tail(G(s)) /\ Len(Tail(G(s))) = Len(G(s)) - 1
               /\ DOMAIN Tail(G(s)) = 1..Len(G(s)) - 1
               /\ \A i \in 1..Len(G(s)) - 1 : Tail(G(s))[i] = G(s)[i + 1] /\ i + 1 \in DOMAIN G(s)
               /\ [store |-> s, event |-> Head(G(s))] \in heads'
               /\ [store |-> s, event |-> Head(G(s))] \in Row
    <3>1. G(s) \in Seq(S(s)) /\ S(s) \subseteq QueryEvent
      BY <2>2, <2>4
    <3>. DEFINE g == G(s)
                E == S(s)
    <3>2. g \in Seq(E) /\ g # <<>>
      BY <2>8, <3>1
    <3>. HIDE DEF g, E
    <3>3. /\ Len(g) \in Nat /\ Len(g) >= 1 /\ DOMAIN g = 1..Len(g)
          /\ 1 \in DOMAIN g /\ Head(g) = g[1] /\ Head(g) \in E
          /\ Len(Tail(g)) = Len(g) - 1 /\ DOMAIN Tail(g) = 1..Len(g) - 1
          /\ \A i \in 1..Len(g) - 1 : Tail(g)[i] = g[i + 1] /\ i + 1 \in DOMAIN g
      BY <3>2
    <3>4. cursors'[s] = Tail(G(s)) /\ [store |-> s, event |-> Head(G(s))] \in heads'
      BY <2>5, <2>8
    <3>5. Head(G(s)) \in QueryEvent
      BY <3>1, <3>3 DEF g, E
    <3>6. [store |-> s, event |-> Head(G(s))] \in Row
      BY <3>5 DEF Row
    <3> QED BY <3>3, <3>4, <3>5, <3>6 DEF g, E
  <2>9. \A h \in heads' : h.store \in Store /\ G(h.store) # <<>> /\ h.event = Head(G(h.store))
                          /\ h = [store |-> h.store, event |-> h.event]
    BY <2>5
  <2>10. HeadsFirst'
    <3>1. heads' \subseteq all
      <4>1. ASSUME NEW h \in heads' PROVE h \in all
        <5>1. h.store \in Store /\ h.event \in S(h.store) /\ h \in Row
          BY <2>8, <2>9
        <5> QED BY <2>3, <5>1
      <4> QED BY <4>1
    <3>2. \A h, x \in heads' : h.store = x.store => h = x
      <4>1. ASSUME NEW h \in heads', NEW x \in heads', h.store = x.store PROVE h = x
        <5>1. h.event = x.event
          BY <2>9, <4>1
        <5> QED BY <2>9, <4>1, <5>1, Zenon
      <4> QED BY <4>1
    <3>3. ASSUME NEW s \in Store, cursors'[s] # <<>> PROVE \E h \in heads' : h.store = s
      <4>1. G(s) # <<>>
        BY <2>5, <3>3
      <4> QED BY <2>8, <4>1
    <3> QED BY <2>6, <3>1, <3>2, <3>3 DEF HeadsFirst
  <2>11. CursorsFollow'
    <3>1. ASSUME NEW h \in heads', NEW i \in DOMAIN cursors'[h.store]
          PROVE  /\ cursors'[h.store][i] \in S(h.store)
                 /\ RowBefore(h.event, cursors'[h.store][i])
                 /\ \A j \in DOMAIN cursors'[h.store] : i < j => RowBefore(cursors'[h.store][i], cursors'[h.store][j])
      <4>. DEFINE s == h.store
                  g == G(h.store)
      <4>1. s \in Store /\ g # <<>> /\ h.event = Head(g)
        BY <2>9
      <4>2. /\ Len(g) \in Nat /\ DOMAIN g = 1..Len(g) /\ 1 \in DOMAIN g /\ Head(g) = g[1]
            /\ cursors'[s] = Tail(g) /\ DOMAIN Tail(g) = 1..Len(g) - 1
            /\ \A k \in 1..Len(g) - 1 : Tail(g)[k] = g[k + 1] /\ k + 1 \in DOMAIN g
        BY <2>8, <4>1
      <4>3. g \in Seq(S(s)) /\ \A k, l \in DOMAIN g : k < l => RowBefore(g[k], g[l])
        BY <2>2, <4>1
      <4>. HIDE DEF s, g
      <4>4. i \in 1..Len(g) - 1
        BY <4>2 DEF s
      <4>5. cursors'[s][i] = g[i + 1] /\ i + 1 \in DOMAIN g /\ 1 < i + 1
        BY <4>2, <4>4
      <4>6. g[i + 1] \in S(s)
        BY <4>2, <4>3, <4>5
      <4>7. RowBefore(h.event, g[i + 1])
        BY <4>1, <4>2, <4>3, <4>5
      <4>8. ASSUME NEW j \in DOMAIN cursors'[s], i < j PROVE RowBefore(g[i + 1], cursors'[s][j])
        <5>1. j \in 1..Len(g) - 1
          BY <4>2
        <5>2. cursors'[s][j] = g[j + 1] /\ j + 1 \in DOMAIN g /\ i + 1 < j + 1
          BY <4>2, <4>4, <4>8, <5>1
        <5> QED BY <4>3, <4>5, <5>2
      <4> QED BY <4>5, <4>6, <4>7, <4>8 DEF s
    <3>2. \A h \in heads' : S(h.store) = Selected(asked', stores'[h.store])
      BY <2>7, <2>9
    <3> QED BY <3>1, <3>2 DEF CursorsFollow
  <2>12. NothingSkipped'
    <3>1. DOMAIN returned' = {} /\ Len(returned') = 0
      BY <2>6
    <3>2. q.limit = NoLimit \/ Len(returned') < q.limit
      BY <2>1, <3>1
    <3>3. ASSUME NEW x \in all PROVE (Waiting(x) \/ Beyond(x))'
      <4>. DEFINE s == x.store
                  e == x.event
                  g == G(x.store)
      <4>1. x \in Row /\ s \in Store /\ e \in S(s) /\ x = [store |-> s, event |-> e]
        BY <2>3, RowFields
      <4>2. \/ \E i \in DOMAIN g : g[i] = e
            \/ /\ q.limit # NoLimit /\ Len(g) = q.limit
               /\ \A i \in DOMAIN g : RowBefore(g[i], e)
        BY <2>2, <4>1
      <4>3. g \in Seq(S(s))
        BY <2>2, <4>1
      <4>4. g # <<>>
        <5>1. g = <<>> => Len(g) = 0 /\ DOMAIN g = {}
          OBVIOUS
        <5> QED BY <2>1, <4>2, <5>1
      <4>5. /\ Len(g) \in Nat /\ Len(g) >= 1 /\ DOMAIN g = 1..Len(g) /\ 1 \in DOMAIN g /\ Head(g) = g[1]
            /\ cursors'[s] = Tail(g) /\ DOMAIN Tail(g) = 1..Len(g) - 1 /\ Len(Tail(g)) = Len(g) - 1
            /\ \A k \in 1..Len(g) - 1 : Tail(g)[k] = g[k + 1] /\ k + 1 \in DOMAIN g
            /\ [store |-> s, event |-> Head(g)] \in heads'
            /\ [store |-> s, event |-> Head(g)] \in Row
        BY <2>8, <4>1, <4>4
      <4>. HIDE DEF g
      <4>6. CASE \E i \in DOMAIN g : g[i] = e
        <5>1. PICK i \in DOMAIN g : g[i] = e
          BY <4>6
        <5>2. CASE i = 1
          <6>1. x \in heads'
            BY <4>1, <4>5, <5>1, <5>2, Zenon
          <6> QED BY <6>1 DEF Waiting
        <5>3. CASE i # 1
          <6>1. i - 1 \in 1..Len(g) - 1 /\ (i - 1) + 1 = i
            BY <4>5, <5>3
          <6>2. Tail(g)[i - 1] = g[i]
            BY <4>5, <6>1
          <6>3. i - 1 \in DOMAIN cursors'[s] /\ cursors'[s][i - 1] = e
            BY <4>5, <5>1, <6>1, <6>2
          <6> QED BY <6>3 DEF Waiting
        <5> QED BY <5>2, <5>3
      <4>7. CASE q.limit # NoLimit /\ Len(g) = q.limit /\ \A i \in DOMAIN g : RowBefore(g[i], e)
        <5>1. q.limit # NoLimit /\ Len(cursors'[s]) + 1 + Len(returned') >= q.limit
          BY <3>1, <4>5, <4>7
        <5>. DEFINE h == [store |-> s, event |-> Head(g)]
        <5>2. h \in heads' /\ h.store = s /\ HeadBefore(h, x)
          <6>1. h.store = s /\ h.event = g[1] /\ h \in Row /\ h \in heads'
            BY <4>5
          <6>2. RowBefore(h.event, x.event)
            BY <4>5, <4>7, <6>1
          <6>. HIDE DEF h
          <6> QED BY <4>1, <6>1, <6>2, HeadsAreOrdered
        <5>3. \A i \in DOMAIN cursors'[s] : RowBefore(cursors'[s][i], e)
          BY <4>5, <4>7
        <5> QED BY <2>6, <5>1, <5>2, <5>3 DEF Beyond
      <4> QED BY <4>2, <4>6, <4>7
    <3> QED BY <2>6, <3>1, <3>2, <3>3 DEF NothingSkipped
  <2> QED BY <2>10, <2>11, <2>12
<1>15. Answering'
  BY <1>12, <1>13, <1>14 DEF Answering
<1> QED BY <1>1, <1>3, <1>10, <1>11, <1>15

\* A step of an open answer that keeps the answering parts keeps the rest.
LEMMA RestKeeps ==
  ASSUME QueryInv, QueryTypeOK', Answering', answer = "open", answer' \in {"open", "done"},
         UNCHANGED <<stores, asked, saved, difference, narrowed>>
  PROVE  QueryInv'
<1>1. Whole' /\ asked' \in Request /\ SavedComplete' /\ NarrowedTo'
  BY DEF QueryInv, Whole, SavedComplete, NarrowedTo
<1>2. Compared'
  BY DEF QueryInv, Compared
<1> QED BY <1>1, <1>2 DEF QueryInv

\* A list with one more element.
LEMMA Appended ==
  ASSUME NEW S, NEW r \in Seq(S), NEW x \in S
  PROVE  /\ Append(r, x) \in Seq(S) /\ Len(r) \in Nat /\ Len(Append(r, x)) = Len(r) + 1
         /\ DOMAIN r = 1..Len(r) /\ DOMAIN Append(r, x) = 1..Len(r) + 1
         /\ \A i \in DOMAIN r : Append(r, x)[i] = r[i]
         /\ Append(r, x)[Len(r) + 1] = x
         /\ ToSet(Append(r, x)) = ToSet(r) \cup {x}
<1>1. /\ Append(r, x) \in Seq(S) /\ Len(r) \in Nat /\ Len(Append(r, x)) = Len(r) + 1
      /\ DOMAIN r = 1..Len(r) /\ DOMAIN Append(r, x) = 1..Len(r) + 1
      /\ \A i \in DOMAIN r : Append(r, x)[i] = r[i]
      /\ Append(r, x)[Len(r) + 1] = x
  OBVIOUS
<1>. DEFINE t == Append(r, x)
<1>2. ToSet(t) = ToSet(r) \cup {x}
  <2>1. \A i \in DOMAIN t : i \in DOMAIN r \/ i = Len(r) + 1
    BY <1>1
  <2>2. \A i \in DOMAIN r : i \in DOMAIN t
    BY <1>1
  <2>3. Len(r) + 1 \in DOMAIN t
    BY <1>1
  <2>. HIDE DEF t
  <2> QED BY <1>1, <2>1, <2>2, <2>3 DEF ToSet, t
<1> QED BY <1>1, <1>2

\* The least head is the first row not yet returned.
LEMMA LeastIsNext ==
  ASSUME QueryInv, answer = "open", NEW h \in heads, Least(h)
  PROVE  /\ h \in AllRows(asked) /\ h \in Row
         /\ \A x \in AllRows(asked) : HeadBefore(x, h) => x \in ToSet(returned)
<1>1. HeadsFirst /\ CursorsFollow /\ NothingSkipped /\ Whole
  BY DEF QueryInv, Answering
<1>2. AllRows(asked) \subseteq Row
  BY <1>1, AllRowsAreOrdered
<1>3. h \in AllRows(asked) /\ h \in Row /\ heads \subseteq Row
  BY <1>1, <1>2 DEF HeadsFirst
<1>4. ASSUME NEW x \in AllRows(asked), HeadBefore(x, h), x \notin ToSet(returned) PROVE FALSE
  <2>1. x \in Row
    BY <1>2
  <2>2. \A g \in heads : ~HeadBefore(g, x)
    <3>1. ASSUME NEW g \in heads, HeadBefore(g, x) PROVE FALSE
      <4>1. g \in Row /\ HeadBefore(g, h)
        BY <1>3, <1>4, <2>1, <3>1, HeadsAreOrdered
      <4>2. g = h \/ HeadBefore(h, g)
        BY DEF Least
      <4> QED BY <1>3, <4>1, <4>2, HeadsAreOrdered
    <3> QED BY <3>1
  <2>3. x \notin heads
    <3>1. ASSUME x \in heads PROVE FALSE
      <4>1. x = h \/ HeadBefore(h, x)
        BY <3>1 DEF Least
      <4> QED BY <1>3, <1>4, <2>1, <4>1, HeadsAreOrdered
    <3> QED BY <3>1
  <2>4. ~Beyond(x)
    BY <2>2 DEF Beyond
  <2>5. PICK i \in DOMAIN cursors[x.store] : cursors[x.store][i] = x.event
    BY <1>1, <1>4, <2>3, <2>4 DEF NothingSkipped, Waiting
  <2>6. x.store \in Store /\ cursors[x.store] # <<>>
    BY <2>1, <2>5, RowFields
  <2>7. PICK g \in heads : g.store = x.store
    BY <1>1, <2>6 DEF HeadsFirst
  <2>8. RowBefore(g.event, x.event)
    BY <1>1, <2>5, <2>7 DEF CursorsFollow
  <2> QED BY <1>3, <2>1, <2>2, <2>7, <2>8, HeadsAreOrdered
<1> QED BY <1>3, <1>4

\* Taking the least head keeps the invariant: nothing of the other stores comes
\* before it, and what follows in its own store comes after.
LEMMA TakeKeeps == ASSUME QueryInv, Take PROVE QueryInv'
<1>1. PICK h \in heads :
        /\ Least(h) /\ Fits(h)
        /\ returned' = Append(returned, h) /\ used' = used + h.event.size
        /\ IF Len(returned') = asked.limit
           THEN shortfalls' = {"rows"} /\ answer' = "done" /\ NoMore
           ELSE /\ heads' = Follow(h)
                /\ cursors' = [cursors EXCEPT ![h.store] = IF @ = <<>> THEN <<>> ELSE Tail(@)]
                /\ UNCHANGED <<shortfalls, answer>>
  BY Zenon DEF Take
<1>2. answer = "open" /\ UNCHANGED <<stores, asked, saved, difference, narrowed, queries>>
  BY DEF Take
<1>3. HeadsFirst /\ CursorsFollow /\ NothingSkipped /\ Beginning /\ Whole /\ QueryTypeOK
  BY <1>2 DEF QueryInv, Answering
<1>. DEFINE A == AllRows(asked)
<1>4. A' = A /\ A \subseteq Row /\ (\A x \in Row : x \in A <=> x.event \in Selected(asked, stores[x.store]))
  BY <1>2, <1>3, AllRowsAreOrdered, AllRowsStay
<1>5. h \in A /\ h \in Row /\ \A x \in A : HeadBefore(x, h) => x \in ToSet(returned)
  BY <1>1, <1>2, LeastIsNext
<1>6. /\ returned' \in Seq(Row) /\ Len(returned) \in Nat /\ Len(returned') = Len(returned) + 1
      /\ DOMAIN returned = 1..Len(returned) /\ DOMAIN returned' = 1..Len(returned) + 1
      /\ \A i \in DOMAIN returned : returned'[i] = returned[i]
      /\ returned'[Len(returned) + 1] = h
      /\ ToSet(returned') = ToSet(returned) \cup {h}
  BY <1>1, <1>3, <1>5, Appended DEF QueryTypeOK
<1>. HIDE DEF A
<1>7. Beginning'
  <2>1. ToSet(returned') \subseteq A
    BY <1>3, <1>5, <1>6 DEF Beginning, A
  <2>2. ASSUME NEW i \in DOMAIN returned', NEW j \in DOMAIN returned', i < j
        PROVE  HeadBefore(returned'[i], returned'[j])
    <3>1. i \in DOMAIN returned
      BY <1>6, <2>2
    <3>2. CASE j \in DOMAIN returned
      BY <1>3, <1>6, <2>2, <3>1, <3>2 DEF Beginning
    <3>3. CASE j = Len(returned) + 1
      BY <1>1, <1>3, <1>6, <3>1, <3>3 DEF NothingSkipped
    <3> QED BY <1>6, <3>2, <3>3
  <2>3. ASSUME NEW x \in A, NEW i \in DOMAIN returned', HeadBefore(x, returned'[i])
        PROVE  x \in ToSet(returned')
    <3>1. CASE i \in DOMAIN returned
      BY <1>3, <1>6, <2>3, <3>1 DEF Beginning, A
    <3>2. CASE i = Len(returned) + 1
      BY <1>5, <1>6, <2>3, <3>2
    <3> QED BY <1>6, <3>1, <3>2
  <2>4. asked.room = NoLimit \/ used' <= asked.room
    BY <1>1 DEF Fits
  <2> QED BY <1>2, <1>4, <2>1, <2>2, <2>3, <2>4 DEF Beginning, A
<1>8. used' \in Nat
  <2>1. used \in Nat /\ h.event.size \in Nat
    BY <1>3, <1>5, RowFields DEF QueryTypeOK
  <2>2. used' = used + h.event.size
    BY <1>1
  <2> QED BY <2>1, <2>2
<1>9. CASE Len(returned') = asked.limit
  <2>1. shortfalls' = {"rows"} /\ answer' = "done" /\ cursors' = [s \in Store |-> <<>>] /\ heads' = {}
    BY <1>1, <1>9 DEF NoMore
  <2>2. QueryTypeOK'
    <3>1. cursors' \in [Store -> Seq(QueryEvent)]
      BY <2>1
    <3> QED BY <1>2, <1>3, <1>6, <1>8, <2>1, <3>1 DEF QueryTypeOK
  <2>3. Answering'
    BY <1>7, <2>1 DEF Answering, Complete
  <2> QED BY <1>2, <2>1, <2>2, <2>3, RestKeeps
<1>10. CASE Len(returned') # asked.limit
  <2>. DEFINE s == h.store
              c == cursors[h.store]
  <2>1. /\ heads' = Follow(h) /\ shortfalls' = shortfalls /\ answer' = answer
        /\ cursors' = [cursors EXCEPT ![s] = IF c = <<>> THEN <<>> ELSE Tail(c)]
    BY <1>1, <1>10
  <2>2. s \in Store /\ c \in Seq(QueryEvent) /\ cursors \in [Store -> Seq(QueryEvent)]
        /\ h = [store |-> s, event |-> h.event]
    BY <1>3, <1>5, RowFields DEF QueryTypeOK
  <2>3. /\ \A t \in Store : t # s => cursors'[t] = cursors[t]
        /\ cursors'[s] = IF c = <<>> THEN <<>> ELSE Tail(c)
        /\ cursors' \in [Store -> Seq(QueryEvent)]
    <3>1. (IF c = <<>> THEN <<>> ELSE Tail(c)) \in Seq(QueryEvent)
      <4>1. CASE c = <<>>
        BY <4>1
      <4>2. CASE c # <<>>
        BY <2>2, <4>2
      <4> QED BY <4>1, <4>2
    <3>. HIDE DEF c
    <3> QED BY <2>1, <2>2, <3>1
  <2>. DEFINE g == [store |-> s, event |-> Head(c)]
  <2>4. heads' = (heads \ {h}) \cup IF c = <<>> THEN {} ELSE {g}
    BY <2>1 DEF Follow
  <2>5. ASSUME c # <<>>
        PROVE  /\ Len(c) \in Nat /\ Len(c) >= 1 /\ DOMAIN c = 1..Len(c) /\ 1 \in DOMAIN c /\ Head(c) = c[1]
               /\ Len(Tail(c)) = Len(c) - 1 /\ DOMAIN Tail(c) = 1..Len(c) - 1
               /\ \A i \in 1..Len(c) - 1 : Tail(c)[i] = c[i + 1] /\ i + 1 \in DOMAIN c
               /\ Head(c) \in QueryEvent /\ g.store = s /\ g.event = c[1]
    <3>. HIDE DEF c
    <3>1. c \in Seq(QueryEvent) /\ c # <<>>
      BY <2>2, <2>5
    <3>2. /\ Len(c) \in Nat /\ Len(c) >= 1 /\ DOMAIN c = 1..Len(c) /\ 1 \in DOMAIN c /\ Head(c) = c[1]
          /\ Len(Tail(c)) = Len(c) - 1 /\ DOMAIN Tail(c) = 1..Len(c) - 1
          /\ \A i \in 1..Len(c) - 1 : Tail(c)[i] = c[i + 1] /\ i + 1 \in DOMAIN c
          /\ Head(c) \in QueryEvent
      BY <3>1
    <3> QED BY <3>2
  <2>6. \A i \in DOMAIN c : /\ c[i] \in Selected(asked, stores[s]) /\ RowBefore(h.event, c[i])
                            /\ \A j \in DOMAIN c : i < j => RowBefore(c[i], c[j])
    BY <1>1, <1>3 DEF CursorsFollow
  <2>7. ASSUME c # <<>> PROVE g \in Row /\ g \in A /\ HeadBefore(h, g)
    <3>1. g \in Row
      BY <2>2, <2>5, <2>7 DEF Row
    <3>2. g.store = s /\ g.event = c[1] /\ 1 \in DOMAIN c
      BY <2>5, <2>7
    <3>. HIDE DEF g
    <3>3. g \in A
      BY <1>4, <2>6, <3>1, <3>2
    <3>4. HeadBefore(h, g)
      BY <1>5, <2>6, <3>1, <3>2, HeadsAreOrdered
    <3> QED BY <3>1, <3>3, <3>4
  <2>. HIDE DEF g
  <2>8. /\ \A k \in heads' : (k \in heads /\ k # h) \/ (c # <<>> /\ k = g)
        /\ c # <<>> => g \in heads'
        /\ \A k \in heads : k = h \/ k \in heads'
    BY <2>4
  <2>9. \A k \in heads : k # h => k.store # s
    BY <1>1, <1>3 DEF HeadsFirst
  <2>10. \A k \in heads : k.store \in Store /\ k \in A /\ k \in Row
    BY <1>3, <1>4, RowFields DEF HeadsFirst, A
  <2>11. HeadsFirst'
    <3>1. heads' \subseteq A
      BY <2>7, <2>8, <2>10
    <3>2. \A k, x \in heads' : k.store = x.store => k = x
      <4>1. ASSUME NEW k \in heads', NEW x \in heads', k.store = x.store PROVE k = x
        <5>1. CASE k \in heads /\ k # h /\ x \in heads /\ x # h
          BY <1>3, <4>1, <5>1 DEF HeadsFirst
        <5>2. CASE c # <<>> /\ k = g
          BY <2>5, <2>8, <2>9, <4>1, <5>2
        <5>3. CASE c # <<>> /\ x = g
          BY <2>5, <2>8, <2>9, <4>1, <5>3
        <5> QED BY <2>8, <5>1, <5>2, <5>3
      <4> QED BY <4>1
    <3>3. ASSUME NEW t \in Store, cursors'[t] # <<>> PROVE \E k \in heads' : k.store = t
      <4>1. CASE t = s
        BY <2>3, <2>5, <2>8, <3>3, <4>1
      <4>2. CASE t # s
        <5>1. PICK k \in heads : k.store = t
          BY <1>3, <2>3, <3>3, <4>2 DEF HeadsFirst
        <5> QED BY <2>8, <4>2, <5>1
      <4> QED BY <4>1, <4>2
    <3> QED BY <1>4, <3>1, <3>2, <3>3 DEF HeadsFirst, A
  <2>12. CursorsFollow'
    <3>1. ASSUME NEW k \in heads', NEW i \in DOMAIN cursors'[k.store]
          PROVE  /\ cursors'[k.store][i] \in Selected(asked, stores[k.store])
                 /\ RowBefore(k.event, cursors'[k.store][i])
                 /\ \A j \in DOMAIN cursors'[k.store] : i < j => RowBefore(cursors'[k.store][i], cursors'[k.store][j])
      <4>1. CASE k \in heads /\ k # h
        <5>1. cursors'[k.store] = cursors[k.store]
          BY <2>3, <2>9, <2>10, <4>1
        <5> QED BY <1>3, <3>1, <4>1, <5>1 DEF CursorsFollow
      <4>2. CASE c # <<>> /\ k = g
        <5>1. k.store = s /\ k.event = c[1] /\ cursors'[s] = Tail(c)
          BY <2>3, <2>5, <4>2
        <5>2. i \in 1..Len(c) - 1 /\ Len(c) \in Nat
          BY <2>5, <3>1, <4>2, <5>1
        <5>3. Tail(c)[i] = c[i + 1] /\ i + 1 \in DOMAIN c /\ 1 < i + 1 /\ 1 \in DOMAIN c
          BY <2>5, <4>2, <5>2
        <5>4. ASSUME NEW j \in DOMAIN Tail(c), i < j PROVE RowBefore(c[i + 1], Tail(c)[j])
          <6>1. j \in 1..Len(c) - 1
            BY <2>5, <4>2
          <6>2. Tail(c)[j] = c[j + 1] /\ j + 1 \in DOMAIN c /\ i + 1 < j + 1
            BY <2>5, <4>2, <5>2, <5>4, <6>1
          <6> QED BY <2>6, <5>3, <6>2
        <5>. HIDE DEF s, c
        <5> QED BY <2>6, <5>1, <5>3, <5>4
      <4> QED BY <2>8, <4>1, <4>2
    <3> QED BY <1>2, <3>1 DEF CursorsFollow
  <2>13. NothingSkipped'
    <3>1. ASSUME NEW k \in heads', NEW i \in DOMAIN returned' PROVE HeadBefore(returned'[i], k)
      <4>1. HeadBefore(h, k) /\ k \in Row
        <5>1. CASE k \in heads /\ k # h
          BY <1>1, <2>10, <5>1 DEF Least
        <5>2. CASE c # <<>> /\ k = g
          BY <2>7, <5>2
        <5> QED BY <2>8, <5>1, <5>2
      <4>2. CASE i = Len(returned) + 1
        BY <1>6, <4>1, <4>2
      <4>3. CASE i \in DOMAIN returned
        <5>1. HeadBefore(returned[i], h) /\ returned[i] \in Row
          BY <1>1, <1>3, <4>3 DEF NothingSkipped, QueryTypeOK
        <5>2. HeadBefore(returned[i], k)
          BY <1>5, <4>1, <5>1, HeadsAreOrdered
        <5> QED BY <1>6, <4>3, <5>2
      <4> QED BY <1>6, <4>2, <4>3
    <3>2. asked.limit = NoLimit \/ Len(returned') < asked.limit
      <4>1. asked.limit \in Nat \/ asked.limit = NoLimit
        BY RequestFacts DEF QueryInv
      <4>2. asked.limit = NoLimit \/ Len(returned) < asked.limit
        BY <1>3 DEF NothingSkipped
      <4> QED BY <1>6, <1>10, <4>1, <4>2
    <3>3. ASSUME NEW x \in A, x \notin ToSet(returned') PROVE (Waiting(x) \/ Beyond(x))'
      <4>1. x # h /\ x \notin ToSet(returned) /\ x \in Row /\ x.store \in Store
            /\ x = [store |-> x.store, event |-> x.event]
        BY <1>4, <1>6, <3>3, RowFields
      <4>2. Waiting(x) \/ Beyond(x)
        BY <1>3, <4>1 DEF NothingSkipped, A
      <4>3. CASE x.store # s
        <5>1. cursors'[x.store] = cursors[x.store]
          BY <2>3, <4>1, <4>3
        <5>2. \A k \in heads : k.store = x.store => k \in heads'
          BY <2>8, <4>3
        <5>3. CASE Waiting(x)
          <6>1. x \in heads => x \in heads'
            BY <2>8, <4>1
          <6> QED BY <5>1, <5>3, <6>1 DEF Waiting
        <5>4. CASE Beyond(x)
          <6>1. Len(cursors[x.store]) + 1 + Len(returned) >= asked.limit /\ asked.limit # NoLimit
                /\ asked.limit \in Nat /\ Len(cursors[x.store]) \in Nat
            BY <2>2, <4>1, <5>4, RequestFacts DEF Beyond, QueryInv
          <6>2. Len(cursors'[x.store]) + 1 + Len(returned') >= asked'.limit /\ asked'.limit # NoLimit
            <7>. DEFINE l == Len(cursors[x.store])
                        m == Len(returned)
                        n == asked.limit
            <7>1. asked' = asked /\ Len(cursors'[x.store]) = l
              BY <1>2, <5>1
            <7>2. l \in Nat /\ m \in Nat /\ n \in Nat /\ l + 1 + m >= n /\ Len(returned') = m + 1
              BY <1>6, <6>1
            <7>. HIDE DEF l, m
            <7>3. l + 1 + (m + 1) >= n
              BY <7>2
            <7> QED BY <6>1, <7>1, <7>2, <7>3
          <6>3. \E k \in heads' : k.store = x.store /\ HeadBefore(k, x)
            BY <5>2, <5>4 DEF Beyond
          <6>4. \A i \in DOMAIN cursors'[x.store] : RowBefore(cursors'[x.store][i], x.event)
            BY <5>1, <5>4 DEF Beyond
          <6> QED BY <6>2, <6>3, <6>4 DEF Beyond
        <5> QED BY <4>2, <5>3, <5>4
      <4>4. CASE x.store = s
        <5>1. x \notin heads
          BY <2>9, <4>1, <4>4
        <5>2. CASE Waiting(x)
          <6>1. PICK i \in DOMAIN c : c[i] = x.event
            BY <4>4, <5>1, <5>2 DEF Waiting
          <6>2. c # <<>>
            BY <6>1
          <6>3. cursors'[s] = Tail(c)
            BY <2>3, <6>2
          <6>4. CASE i = 1
            <7>1. g = x
              BY <2>5, <4>1, <4>4, <6>1, <6>2, <6>4 DEF g
            <7> QED BY <2>8, <6>2, <7>1 DEF Waiting
          <6>5. CASE i # 1
            <7>1. i - 1 \in 1..Len(c) - 1 /\ (i - 1) + 1 = i
              BY <2>5, <6>1, <6>2, <6>5
            <7>2. i - 1 \in DOMAIN Tail(c) /\ Tail(c)[i - 1] = x.event
              BY <2>5, <6>1, <6>2, <7>1
            <7>3. i - 1 \in DOMAIN cursors'[x.store] /\ cursors'[x.store][i - 1] = x.event
              BY <4>4, <6>3, <7>2
            <7> QED BY <7>3 DEF Waiting
          <6> QED BY <6>4, <6>5
        <5>3. CASE Beyond(x)
          <6>1. /\ asked.limit # NoLimit /\ Len(c) + 1 + Len(returned) >= asked.limit
                /\ \A i \in DOMAIN c : RowBefore(c[i], x.event)
            BY <4>4, <5>3 DEF Beyond
          <6>2. asked.limit \in Nat /\ Len(c) \in Nat
            BY <2>2, <6>1, RequestFacts DEF QueryInv
          <6>3. Len(returned) + 1 < asked.limit
            BY <1>6, <3>2, <6>1
          <6>4. c # <<>>
            <7>1. Len(c) # 0
              BY <1>6, <6>1, <6>2, <6>3
            <7> QED BY <7>1
          <6>5. cursors'[s] = Tail(c)
            BY <2>3, <6>4
          <6>6. Len(cursors'[x.store]) + 1 + Len(returned') >= asked'.limit /\ asked'.limit # NoLimit
            <7>. DEFINE l == Len(Tail(c))
                        k == Len(c)
                        m == Len(returned)
                        n == asked.limit
            <7>1. asked' = asked /\ Len(cursors'[x.store]) = l
              BY <1>2, <4>4, <6>5
            <7>2. k \in Nat /\ l = k - 1 /\ m \in Nat /\ n \in Nat /\ k + 1 + m >= n /\ Len(returned') = m + 1
              BY <1>6, <2>5, <6>1, <6>2, <6>4
            <7>. HIDE DEF l, k, m
            <7>3. l + 1 + (m + 1) >= n
              BY <7>2
            <7> QED BY <6>1, <7>1, <7>2, <7>3
          <6>7. g \in heads' /\ g.store = x.store /\ HeadBefore(g, x)
            BY <2>5, <2>7, <2>8, <4>1, <4>4, <6>1, <6>4, HeadsAreOrdered
          <6>8. \A i \in DOMAIN cursors'[x.store] : RowBefore(cursors'[x.store][i], x.event)
            <7>1. ASSUME NEW i \in DOMAIN Tail(c) PROVE RowBefore(Tail(c)[i], x.event)
              <8>1. i \in 1..Len(c) - 1
                BY <2>5, <6>4
              <8>2. Tail(c)[i] = c[i + 1] /\ i + 1 \in DOMAIN c
                BY <2>5, <6>4, <8>1
              <8> QED BY <6>1, <8>2
            <7> QED BY <4>4, <6>5, <7>1
          <6> QED BY <6>6, <6>7, <6>8 DEF Beyond
        <5> QED BY <4>2, <5>2, <5>3
      <4> QED BY <4>3, <4>4
    <3> QED BY <1>2, <1>4, <3>1, <3>2, <3>3 DEF NothingSkipped, A
  <2>14. QueryTypeOK'
    <3>1. heads' \subseteq Row
      BY <2>7, <2>8, <2>10
    <3> QED BY <1>2, <1>3, <1>6, <1>8, <2>1, <2>3, <3>1 DEF QueryTypeOK
  <2>15. Answering'
    BY <1>2, <1>7, <2>1, <2>11, <2>12, <2>13 DEF Answering
  <2> QED BY <1>2, <2>1, <2>14, <2>15, RestKeeps
<1> QED BY <1>9, <1>10

\* Asking keeps it.
LEMMA AskKeeps == ASSUME QueryInv, Ask PROVE QueryInv'
<1>1. PICK q \in Requests : Answer(q)
  BY DEF Ask
<1>2. q \in Request /\ narrowed' = FALSE
  BY RequestFacts DEF Ask
<1>3. QueryTypeOK' /\ Whole' /\ asked' = q /\ Answering' /\ saved' = saved /\ ~difference'.made
  BY <1>1, <1>2, AnswerStarts
<1>4. SavedComplete'
  BY <1>3 DEF QueryInv, SavedComplete
<1>5. NarrowedTo' /\ Compared'
  BY <1>2, <1>3 DEF NarrowedTo, Compared
<1> QED BY <1>2, <1>3, <1>4, <1>5 DEF QueryInv

\* Narrowing a request to a saved result keeps it.
LEMMA NarrowKeeps == ASSUME QueryInv, Narrow PROVE QueryInv'
<1>. DEFINE I == IdsOf(saved.returned)
            S == {r.event.session : r \in ToSet(saved.returned)}
<1>1. PICK q \in Requests :
        /\ narrowed' = (~Expanding(q) /\ Merged(q.ids, I) # {})
        /\ Answer([q EXCEPT !.ids = Merged(@, I), !.sessions = Merged(@, S)])
  BY DEF Narrow
<1>. DEFINE p == [q EXCEPT !.ids = Merged(@, I), !.sessions = Merged(@, S)]
<1>2. q \in Request /\ saved.held
  BY RequestFacts DEF Narrow
<1>3. I \subseteq Nat /\ S \subseteq Nat
  <2>1. \A r \in ToSet(saved.returned) : r \in Row
    BY DEF QueryInv, QueryTypeOK, ToSet
  <2>2. \A r \in ToSet(saved.returned) : r.event.id \in Nat /\ r.event.session \in Nat
    BY <2>1, RowFields
  <2> QED BY <2>2 DEF IdsOf
<1>. HIDE DEF I, S
<1>4. /\ p \in Request /\ p.ids = Merged(q.ids, I)
      /\ p.expand = q.expand /\ p.before = q.before /\ p.after = q.after
  <2>1. Merged(q.ids, I) \subseteq Nat /\ Merged(q.sessions, S) \subseteq Nat
    BY <1>2, <1>3 DEF Merged, Request
  <2> QED BY <1>2, <2>1 DEF Request
<1>5. Answer(p)
  BY <1>1
<1>. HIDE DEF p
<1>6. narrowed' \in BOOLEAN
  BY <1>1
<1>7. QueryTypeOK' /\ Whole' /\ asked' = p /\ Answering' /\ saved' = saved /\ ~difference'.made
  BY <1>4, <1>5, <1>6, AnswerStarts
<1>8. SavedComplete'
  BY <1>7 DEF QueryInv, SavedComplete
<1>9. NarrowedTo'
  <2>1. ASSUME narrowed' PROVE saved'.held /\ ~Expanding(p) /\ p.ids # {} /\ p.ids \subseteq IdsOf(saved'.returned)
    <3>1. ~Expanding(q) /\ Merged(q.ids, I) # {}
      BY <1>1, <2>1
    <3>2. ~Expanding(p)
      BY <1>4, <3>1 DEF Expanding, Windowed
    <3>3. Merged(q.ids, I) \subseteq I
      BY DEF Merged
    <3> QED BY <1>2, <1>4, <1>7, <3>1, <3>2, <3>3 DEF I
  <2> QED BY <1>7, <2>1 DEF NarrowedTo
<1>10. Compared'
  BY <1>7 DEF Compared
<1> QED BY <1>4, <1>7, <1>8, <1>9, <1>10 DEF QueryInv

\* Stopping at the room for bytes keeps it.
LEMMA OverflowKeeps == ASSUME QueryInv, Overflow PROVE QueryInv'
<1>1. /\ answer = "open" /\ answer' = "done" /\ shortfalls' = {"bytes"}
      /\ cursors' = [s \in Store |-> <<>>] /\ heads' = {}
      /\ UNCHANGED <<stores, asked, returned, used, saved, difference, narrowed, queries>>
  BY DEF Overflow, NoMore
<1>2. QueryTypeOK'
  <2>1. cursors' \in [Store -> Seq(QueryEvent)]
    BY <1>1
  <2> QED BY <1>1, <2>1 DEF QueryInv, QueryTypeOK
<1>3. Beginning'
  BY <1>1, AllRowsStay DEF QueryInv, Answering, Beginning
<1>4. Answering'
  BY <1>1, <1>3 DEF Answering, Complete
<1> QED BY <1>1, <1>2, <1>4, RestKeeps

\* Ending for want of a head keeps it: what lies beyond what a store was asked for
\* would need more rows than the limit admits.
LEMMA ExhaustedKeeps == ASSUME QueryInv, Exhausted PROVE QueryInv'
<1>1. /\ answer = "open" /\ answer' = "done" /\ heads = {}
      /\ UNCHANGED <<stores, asked, cursors, heads, returned, used, shortfalls, saved, difference, narrowed, queries>>
  BY DEF Exhausted
<1>2. QueryTypeOK'
  BY <1>1 DEF QueryInv, QueryTypeOK
<1>3. HeadsFirst /\ NothingSkipped /\ Beginning /\ Whole
  BY <1>1 DEF QueryInv, Answering
<1>4. Beginning'
  BY <1>1, <1>3, AllRowsStay DEF Beginning
<1>5. ToSet(returned) = AllRows(asked)
  <2>1. ASSUME NEW x \in AllRows(asked) PROVE x \in ToSet(returned)
    <3>1. x.store \in Store
      BY <1>3, AllRowsAreOrdered, RowFields
    <3>2. cursors[x.store] = <<>>
      BY <1>1, <1>3, <3>1 DEF HeadsFirst
    <3>3. ~Waiting(x)
      BY <1>1, <3>2 DEF Waiting
    <3>4. ~Beyond(x)
      BY <1>1 DEF Beyond
    <3> QED BY <1>3, <3>3, <3>4 DEF NothingSkipped
  <2> QED BY <1>3, <2>1 DEF Beginning
<1>6. Answering'
  BY <1>1, <1>4, <1>5, AllRowsStay DEF Answering, Complete
<1> QED BY <1>1, <1>2, <1>6, RestKeeps

\* Saving the result keeps it.
LEMMA SaveKeeps == ASSUME QueryInv, Save PROVE QueryInv'
<1>1. /\ answer = "done" /\ ~saved.held
      /\ saved' = [held |-> TRUE, request |-> asked, returned |-> returned, shortfalls |-> shortfalls,
                   all |-> AllRows(asked)]
      /\ UNCHANGED <<stores, asked, cursors, heads, returned, used, shortfalls, answer, difference, narrowed, queries>>
  BY DEF Save
<1>2. Beginning /\ Complete /\ Whole
  BY <1>1 DEF QueryInv, Answering
<1>3. /\ saved'.held = TRUE /\ saved'.request = asked /\ saved'.returned = returned
      /\ saved'.shortfalls = shortfalls /\ saved'.all = AllRows(asked)
  BY <1>1
<1>4. QueryTypeOK'
  <2>1. AllRows(asked) \subseteq Row
    BY <1>2, AllRowsAreOrdered
  <2> QED BY <1>1, <1>3, <2>1 DEF QueryInv, QueryTypeOK
<1>5. Whole' /\ asked' \in Request
  BY <1>1 DEF QueryInv, Whole
<1>6. Answering'
  BY <1>1, <1>2, AllRowsStay DEF Answering, Beginning, Complete
<1>7. SavedComplete'
  BY <1>2, <1>3 DEF SavedComplete, Complete
<1>8. NarrowedTo'
  BY <1>1 DEF QueryInv, NarrowedTo
<1>9. Compared'
  BY <1>1 DEF QueryInv, Compared
<1> QED BY <1>4, <1>5, <1>6, <1>7, <1>8, <1>9 DEF QueryInv

\* Comparing with the saved result keeps it.
LEMMA CompareKeeps == ASSUME QueryInv, Compare PROVE QueryInv'
<1>1. /\ answer = "done" /\ saved.held
      /\ UNCHANGED <<stores, asked, cursors, heads, returned, used, shortfalls, answer, saved, narrowed, queries>>
  BY DEF Compare
<1>2. /\ difference'.made = TRUE /\ difference'.comparable \in BOOLEAN
      /\ difference'.comparable => asked = saved.request
      /\ difference'.added = IdsOf(returned) \ IdsOf(saved.returned)
      /\ difference'.removed = IdsOf(saved.returned) \ IdsOf(returned)
  BY DEF Compare
<1>3. QueryTypeOK' /\ Whole' /\ asked' \in Request
  BY <1>1, <1>2 DEF QueryInv, QueryTypeOK, Whole
<1>4. Answering'
  BY <1>1, AllRowsStay DEF QueryInv, Answering, Beginning, Complete
<1>5. SavedComplete' /\ NarrowedTo'
  BY <1>1 DEF QueryInv, SavedComplete, NarrowedTo
<1>6. Compared'
  BY <1>1, <1>2 DEF Compared
<1> QED BY <1>3, <1>4, <1>5, <1>6 DEF QueryInv

\* Turning to other stores keeps it.
LEMMA ReselectKeeps == ASSUME QueryInv, Reselect PROVE QueryInv'
<1>1. /\ stores' \in Contents
      /\ answer' = "none" /\ returned' = <<>> /\ used' = 0 /\ shortfalls' = {} /\ asked' = NoRequest
      /\ narrowed' = FALSE /\ difference' = NoDifference
      /\ UNCHANGED <<cursors, heads, saved, queries>>
  BY DEF Reselect
<1>2. difference'.made = FALSE /\ difference'.comparable = FALSE
  BY <1>1 DEF NoDifference
<1>3. Whole' /\ stores' \in [Store -> SUBSET QueryEvent]
  BY <1>1, RequestFacts DEF Whole
<1>4. returned' \in Seq(Row)
  BY <1>1
<1>5. QueryTypeOK'
  BY <1>1, <1>2, <1>3, <1>4 DEF QueryInv, QueryTypeOK
<1>6. asked' \in Request /\ Answering'
  BY <1>1, RequestFacts DEF Answering
<1>7. SavedComplete' /\ NarrowedTo' /\ Compared'
  BY <1>1, <1>2 DEF QueryInv, SavedComplete, NarrowedTo, Compared
<1> QED BY <1>3, <1>5, <1>6, <1>7 DEF QueryInv

\* Every step keeps it.
LEMMA QueryKeeps == QueryInv /\ [QueryNext]_queryVars => QueryInv'
<1>. SUFFICES ASSUME QueryInv, [QueryNext]_queryVars PROVE QueryInv'
  OBVIOUS
<1>1. CASE Ask
  BY <1>1, AskKeeps
<1>2. CASE Overflow
  BY <1>2, OverflowKeeps
<1>3. CASE Take
  BY <1>3, TakeKeeps
<1>4. CASE Exhausted
  BY <1>4, ExhaustedKeeps
<1>5. CASE Save
  BY <1>5, SaveKeeps
<1>6. CASE Narrow
  BY <1>6, NarrowKeeps
<1>7. CASE Compare
  BY <1>7, CompareKeeps
<1>8. CASE Reselect
  BY <1>8, ReselectKeeps
<1>9. CASE UNCHANGED queryVars
  <2>1. UNCHANGED <<stores, asked, cursors, heads, returned, used, shortfalls, answer, saved,
                    difference, narrowed, queries>>
    BY <1>9 DEF queryVars
  <2>2. QueryTypeOK' /\ Whole' /\ asked' \in Request
    BY <2>1 DEF QueryInv, QueryTypeOK, Whole
  <2>3. Beginning' = Beginning /\ Complete' = Complete
    BY <2>1, AllRowsStay DEF Beginning, Complete
  <2>4. (HeadsFirst /\ CursorsFollow /\ NothingSkipped)' = (HeadsFirst /\ CursorsFollow /\ NothingSkipped)
    BY <2>1, AllRowsStay DEF HeadsFirst, CursorsFollow, NothingSkipped, Waiting, Beyond
  <2>5. Answering'
    BY <2>1, <2>3, <2>4 DEF QueryInv, Answering
  <2>6. SavedComplete' /\ NarrowedTo' /\ Compared'
    BY <2>1 DEF QueryInv, SavedComplete, NarrowedTo, Compared
  <2> QED BY <2>2, <2>5, <2>6 DEF QueryInv
<1> QED BY <1>1, <1>2, <1>3, <1>4, <1>5, <1>6, <1>7, <1>8, <1>9 DEF QueryNext

\* The invariant of the queries.
LEMMA QueryInvariant == QuerySpec => []QueryInv
<1>1. QueryInit => QueryInv
  BY QueryStarts
<1>2. QueryInv /\ [QueryNext]_queryVars => QueryInv'
  BY QueryKeeps
<1> QED BY <1>1, <1>2, PTL DEF QuerySpec

\* It says that answers follow the stores.
LEMMA QueryInvTells == QueryInv => AnswersFollowTheStores
<1>. SUFFICES ASSUME QueryInv PROVE AnswersFollowTheStores
  OBVIOUS
<1>1. Whole /\ QueryTypeOK
  BY DEF QueryInv
<1>2. InTheOrderOfAll
  <2>. SUFFICES ASSUME answer \in {"open", "done"}
       PROVE  LET all == ListOf(AllRows(asked), HeadBefore)
              IN Len(returned) <= Len(all) /\ returned = SubSeq(all, 1, Len(returned))
    BY DEF InTheOrderOfAll
  <2>. DEFINE A == AllRows(asked)
              R == {p \in A \X A : HeadBefore(p[1], p[2])}
  <2>1. IsFiniteSet(A) /\ Linear(R, A)
    BY <1>1, AllRowsAreOrdered
  <2>2. Beginning
    BY DEF QueryInv, Answering
  <2>3. ListOf(A, HeadBefore) = Enumerate(A, R)
    BY DEF ListOf
  <2>4. \A x, y \in A : <<x, y>> \in R <=> HeadBefore(x, y)
    OBVIOUS
  <2>5. ToSet(returned) \subseteq A
    BY <2>2 DEF Beginning
  <2>6. \A i, j \in DOMAIN returned : i < j => HeadBefore(returned[i], returned[j])
    BY <2>2 DEF Beginning
  <2>7. \A x \in A : \A i \in DOMAIN returned : HeadBefore(x, returned[i]) => x \in ToSet(returned)
    BY <2>2 DEF Beginning
  <2>. HIDE DEF A, R
  <2>8. /\ \A i \in DOMAIN returned : returned[i] \in A
        /\ returned \in Seq(A)
    <3>1. \A i \in DOMAIN returned : returned[i] \in A
      BY <2>5 DEF ToSet
    <3>2. returned \in Seq(Row)
      BY <1>1 DEF QueryTypeOK
    <3> QED BY <3>1, <3>2
  <2>9. \A i, j \in DOMAIN returned : i < j => <<returned[i], returned[j]>> \in R
    BY <2>4, <2>6, <2>8
  <2>10. \A x \in A : \A i \in DOMAIN returned : <<x, returned[i]>> \in R => \E j \in DOMAIN returned : returned[j] = x
    BY <2>4, <2>7, <2>8 DEF ToSet
  <2>11. Len(returned) <= Len(Enumerate(A, R)) /\ returned = SubSeq(Enumerate(A, R), 1, Len(returned))
    BY <2>1, <2>8, <2>9, <2>10, PrefixOfList
  <2> QED BY <2>3, <2>11 DEF A
<1>3. SaysWhatIsMissing
  BY DEF QueryInv, Answering, Beginning, Complete, SaysWhatIsMissing
<1>4. NarrowedStaysWithin
  <2>. SUFFICES ASSUME narrowed, answer \in {"open", "done"}, NEW r \in ToSet(returned)
       PROVE  r.event.id \in IdsOf(saved.returned)
    BY DEF NarrowedStaysWithin, IdsOf
  <2>1. r \in AllRows(asked) /\ r \in Row
    BY <1>1, AllRowsAreOrdered DEF QueryInv, Answering, Beginning
  <2>2. r.event \in Selected(asked, stores[r.store])
    BY <1>1, <2>1, AllRowsAreOrdered
  <2>3. ~Expanding(asked) /\ asked.ids # {} /\ asked.ids \subseteq IdsOf(saved.returned)
    BY DEF QueryInv, NarrowedTo
  <2>4. Filtered(asked, r.event)
    BY <2>2, <2>3 DEF Selected
  <2>5. r.event.id \in asked.ids
    BY <2>3, <2>4 DEF Filtered, In
  <2> QED BY <2>3, <2>5
<1>5. ComparisonIsOfTheStores
  <2>. SUFFICES ASSUME difference.made, difference.comparable, saved.shortfalls \cup shortfalls = {}, asked.limit # 0
       PROVE  /\ difference.added = {r.event.id : r \in AllRows(asked)} \ {r.event.id : r \in saved.all}
              /\ difference.removed = {r.event.id : r \in saved.all} \ {r.event.id : r \in AllRows(asked)}
    BY DEF ComparisonIsOfTheStores
  <2>1. /\ answer = "done" /\ saved.held /\ asked = saved.request
        /\ difference.added = IdsOf(returned) \ IdsOf(saved.returned)
        /\ difference.removed = IdsOf(saved.returned) \ IdsOf(returned)
    BY DEF QueryInv, Compared
  <2>2. ToSet(returned) = AllRows(asked)
    BY <2>1 DEF QueryInv, Answering, Complete
  <2>3. ToSet(saved.returned) = saved.all
    BY <2>1 DEF QueryInv, SavedComplete
  <2> QED BY <2>1, <2>2, <2>3 DEF IdsOf
<1> QED BY <1>2, <1>3, <1>4, <1>5 DEF AnswersFollowTheStores

\* Cursors, heads, answers and saved results are well typed (query_api.py).
THEOREM QueryIsTyped == QuerySpec => []QueryTypeOK
<1>1. QueryInv => QueryTypeOK
  BY DEF QueryInv
<1> QED BY <1>1, QueryInvariant, PTL

\* What a query returns is a beginning of all rows selected, in the one order of all
\* stores, and all of them unless it says it fell short; a narrowed answer stays within
\* the saved result, and the comparison of two whole answers is that of the stores
\* (query_api._event_rows, merge_selection and compare_results).
THEOREM QueriesFollowTheStores == QuerySpec => []AnswersFollowTheStores
BY QueryInvTells, QueryInvariant, PTL

---------------------------------------------------------------------------
(* The commands that make them. *)

\* What is assumed of Projects, releases and selectors.
LEMMA ScopeFacts ==
  /\ Project \subseteq Nat /\ IsFiniteSet(Project) /\ MaxCommands \in Nat
  /\ Release \subseteq ReleaseRow
  /\ \A r, s \in Release : r.project = s.project /\ r.name = s.name => r = s
  /\ \A r \in Release : /\ IsFiniteSet(r.sessions) /\ r.project \in Project /\ r.name \in Nat
                        /\ \A x \in r.sessions : x.says \in Seq(Utterance)
  /\ \A q \in ScopeRequest : /\ q \in Selector /\ q.items \subseteq Project \X Nat /\ IsFiniteSet(q.items)
                             /\ q.snapshot \in Nat
BY QueryScopeAssumption DEF QueryScopeAssumption, ReleaseRow, SessionRow, Selector

\* What is found in releases o for the vendors v, and what a report of it read.
FoundIn(o, v) ==
  UNION {{[of |-> i, project |-> o[i].project, session |-> s] :
            s \in {x \in o[i].sessions : v = {} \/ x.vendor \in v}} : i \in DOMAIN o}
ReadingOf(o, v) == <<[i \in DOMAIN o |-> <<o[i].project, o[i].name>>], v>>

\* What is found is a matter of the stores opened and the vendors asked for.
LEMMA FoundHere ==
  AllFound = FoundIn(opened, selector.vendors) /\ Reading = ReadingOf(opened, selector.vendors)
BY DEF AllFound, Found, Ours, FoundIn, Reading, ReadingOf

\* It is finite.
LEMMA FoundIsFinite ==
  ASSUME NEW o \in Seq(Release), NEW v PROVE IsFiniteSet(FoundIn(o, v))
<1>. DEFINE F(i) == {[of |-> i, project |-> o[i].project, session |-> s] :
                       s \in {x \in o[i].sessions : v = {} \/ x.vendor \in v}}
            D == DOMAIN o
<1>1. IsFiniteSet(D)
  <2>1. Len(o) \in Nat /\ D = 1..Len(o)
    OBVIOUS
  <2> QED BY <2>1, FS_Interval
<1>2. ASSUME NEW i \in D PROVE IsFiniteSet(F(i))
  <2>. DEFINE S == {x \in o[i].sessions : v = {} \/ x.vendor \in v}
              f == [s \in S |-> [of |-> i, project |-> o[i].project, session |-> s]]
  <2>1. o[i] \in Release
    OBVIOUS
  <2>2. IsFiniteSet(o[i].sessions)
    BY <2>1, ScopeFacts
  <2>3. IsFiniteSet(S)
    BY <2>2, FS_Subset
  <2>4. F(i) = {f[s] : s \in S}
    OBVIOUS
  <2>. HIDE DEF f, S
  <2>5. IsFiniteSet({f[s] : s \in S})
    BY <2>3, ImageIsFinite
  <2> QED BY <2>4, <2>5
<1>. DEFINE parts == {F(i) : i \in D}
            g == [i \in D |-> F(i)]
<1>3. parts = {g[i] : i \in D}
  BY Zenon
<1>. HIDE DEF F, g, D
<1>4. IsFiniteSet({g[i] : i \in D})
  BY <1>1, ImageIsFinite
<1>5. IsFiniteSet(parts) /\ \A T \in parts : IsFiniteSet(T)
  BY <1>2, <1>3, <1>4
<1>. HIDE DEF parts
<1>6. IsFiniteSet(UNION parts)
  BY <1>5, FS_UNION
<1> QED BY <1>6 DEF parts, F, D, FoundIn

\* What is read tells the releases opened.
LEMMA ReadingTells ==
  ASSUME NEW o \in Seq(Release), NEW p \in Seq(Release), NEW v, NEW w, ReadingOf(o, v) = ReadingOf(p, w)
  PROVE  o = p /\ v = w
<1>. DEFINE f == [i \in DOMAIN o |-> <<o[i].project, o[i].name>>]
            g == [i \in DOMAIN p |-> <<p[i].project, p[i].name>>]
<1>1. f = g /\ v = w
  BY DEF ReadingOf
<1>2. DOMAIN f = DOMAIN o /\ DOMAIN g = DOMAIN p
  OBVIOUS
<1>3. DOMAIN o = DOMAIN p
  <2>. HIDE DEF f, g
  <2> QED BY <1>1, <1>2
<1>4. Len(o) = Len(p) /\ DOMAIN o = 1..Len(o)
  BY <1>3
<1>5. ASSUME NEW i \in 1..Len(o) PROVE o[i] = p[i]
  <2>1. f[i] = <<o[i].project, o[i].name>> /\ g[i] = <<p[i].project, p[i].name>> /\ f[i] = g[i]
    BY <1>1, <1>3, <1>4
  <2>2. o[i].project = p[i].project /\ o[i].name = p[i].name
    <3>. HIDE DEF f, g
    <3> QED BY <2>1
  <2>3. o[i] \in Release /\ p[i] \in Release
    BY <1>3, <1>4
  <2> QED BY <2>2, <2>3, ScopeFacts
<1>6. o = p
  BY <1>4, <1>5, SeqEqual
<1> QED BY <1>1, <1>6

\* A beginning of a list has what the list has, as far as it goes.
LEMMA FirstIsOfTheList ==
  ASSUME NEW S, NEW R, IsFiniteSet(S), NEW n \in Nat \cup {AnyNumber}
  PROVE  LET list == FirstOf(Enumerate(S, R), n)
         IN \A i \in DOMAIN list : i \in Nat \ {0} /\ list[i] = Enumerate(S, R)[i]
<1>. DEFINE s == Enumerate(S, R)
            m == Cardinality(S)
            V == {s[i] : i \in 1..m}
<1>1. m \in Nat
  BY FS_CardinalityType
<1>2. DOMAIN s = 1..m
  BY DEF Enumerate
<1>3. s = [i \in 1..m |-> s[i]]
  <2>. DEFINE c(i) == CHOOSE x \in S : Cardinality({y \in S : <<y, x>> \in R}) = i - 1
  <2>1. s = [i \in 1..m |-> c(i)]
    BY DEF Enumerate
  <2>. HIDE DEF c, s, m
  <2> QED BY <2>1
<1>. HIDE DEF s, m
<1>4. s \in Seq(V) /\ Len(s) = m
  BY <1>1, <1>2, <1>3
<1>. HIDE DEF V
<1>. DEFINE Begins == \A i \in DOMAIN FirstOf(s, n) : i \in Nat \ {0} /\ FirstOf(s, n)[i] = s[i]
<1>5. ASSUME n = AnyNumber \/ Len(s) <= n PROVE Begins
  <2>1. FirstOf(s, n) = s
    BY <1>5 DEF FirstOf
  <2> QED BY <1>1, <1>2, <2>1
<1>6. ASSUME ~(n = AnyNumber \/ Len(s) <= n) PROVE Begins
  <2>1. n \in Nat /\ n < m
    BY <1>1, <1>4, <1>6
  <2>2. FirstOf(s, n) = SubSeq(s, 1, n)
    BY <1>6 DEF FirstOf
  <2>3. DOMAIN SubSeq(s, 1, n) = 1..n /\ \A i \in 1..n : SubSeq(s, 1, n)[i] = s[i]
    BY <1>1, <1>4, <2>1
  <2> QED BY <2>1, <2>2, <2>3
<1>7. Begins
  BY <1>5, <1>6
<1> QED BY <1>7 DEF s

\* The number of a row in one beginning names it in another.
LEMMA SameNumberSameRow ==
  ASSUME NEW o \in Seq(Release), NEW v, NEW n \in Nat \cup {AnyNumber}, NEW m \in Nat \cup {AnyNumber},
         NEW k, k \in DOMAIN FirstOf(Sorted(FoundIn(o, v)), n), k \in DOMAIN FirstOf(Sorted(FoundIn(o, v)), m)
  PROVE  k \in Nat \ {0} /\ FirstOf(Sorted(FoundIn(o, v)), n)[k] = FirstOf(Sorted(FoundIn(o, v)), m)[k]
<1>. DEFINE S == FoundIn(o, v)
            R == {p \in S \X S : ListedBefore(p[1], p[2])}
<1>1. IsFiniteSet(S)
  BY FoundIsFinite
<1>2. Sorted(S) = Enumerate(S, R)
  BY DEF Sorted, ListOf
<1>. HIDE DEF S, R
<1>3. \A i \in DOMAIN FirstOf(Enumerate(S, R), n) : i \in Nat \ {0} /\ FirstOf(Enumerate(S, R), n)[i] = Enumerate(S, R)[i]
  BY <1>1, FirstIsOfTheList, Zenon
<1>4. \A i \in DOMAIN FirstOf(Enumerate(S, R), m) : i \in Nat \ {0} /\ FirstOf(Enumerate(S, R), m)[i] = Enumerate(S, R)[i]
  BY <1>1, FirstIsOfTheList, Zenon
<1> QED BY <1>2, <1>3, <1>4 DEF S

Renamed(S, r) == {r[x] : x \in S}
RenamedPairs(S, D, r) == UNION {{r[x]} \X D[x] : x \in S}
PairsOf(S, D) == UNION {{x} \X D[x] : x \in S}

\* The pairs of an element and a number of its are as many when the elements are
\* renamed: found rows have as many Events as their Sessions.
LEMMA PairsAreAsMany ==
  ASSUME NEW S, NEW D, NEW r, IsFiniteSet(S),
         \A x \in S : IsFiniteSet(D[x]),
         \A x, y \in S : r[x] = r[y] => x = y
  PROVE  /\ Cardinality(Renamed(S, r)) = Cardinality(S)
         /\ Cardinality(RenamedPairs(S, D, r)) = Cardinality(PairsOf(S, D))
<1>. DEFINE T == {r[x] : x \in S}
            f == [x \in S |-> r[x]]
            P == UNION {{x} \X D[x] : x \in S}
            Q == UNION {{r[x]} \X D[x] : x \in S}
            g == [p \in P |-> <<r[p[1]], p[2]>>]
<1>1. f \in Bijection(S, T)
  BY DEF Bijection, Injection, Surjection, IsInjective
<1>2. Cardinality(T) = Cardinality(S)
  <2>. HIDE DEF f, T
  <2>1. ExistsBijection(S, T)
    BY <1>1 DEF ExistsBijection
  <2> QED BY <2>1, FS_Bijection
<1>3. \A p : p \in P <=> \E x \in S : \E k \in D[x] : p = <<x, k>>
  OBVIOUS
<1>4. \A q : q \in Q <=> \E x \in S : \E k \in D[x] : q = <<r[x], k>>
  OBVIOUS
<1>5. IsFiniteSet(P)
  <2>. DEFINE piece(x) == {x} \X D[x]
              h == [x \in S |-> piece(x)]
              parts == {piece(x) : x \in S}
  <2>1. ASSUME NEW x \in S PROVE IsFiniteSet(piece(x))
    <3>. DEFINE E == D[x]
                e == [k \in E |-> <<x, k>>]
    <3>1. IsFiniteSet(E)
      OBVIOUS
    <3>2. piece(x) = {e[k] : k \in E}
      <4>1. \A q : q \in piece(x) <=> \E k \in E : q = <<x, k>>
        OBVIOUS
      <4>2. \A k \in E : e[k] = <<x, k>>
        OBVIOUS
      <4>. DEFINE G == {e[k] : k \in E}
      <4>3. \A q : q \in G <=> \E k \in E : q = e[k]
        OBVIOUS
      <4>. HIDE DEF piece, e, E
      <4>4. \A q : q \in piece(x) <=> q \in G
        <5>. HIDE DEF G
        <5> QED BY <4>1, <4>2, <4>3
      <4>. DEFINE H == piece(x)
      <4>5. \A q : q \in H <=> q \in G
        BY <4>4
      <4>. HIDE DEF G, H
      <4>6. H = G
        BY <4>5
      <4> QED BY <4>6, Zenon DEF G, H
    <3>. HIDE DEF e, E
    <3>3. IsFiniteSet({e[k] : k \in E})
      BY <3>1, ImageIsFinite
    <3> QED BY <3>2, <3>3
  <2>2. parts = {h[x] : x \in S}
    BY Zenon
  <2>. HIDE DEF h, piece
  <2>3. IsFiniteSet({h[x] : x \in S})
    BY ImageIsFinite
  <2>4. IsFiniteSet(parts) /\ \A t \in parts : IsFiniteSet(t)
    BY <2>1, <2>2, <2>3
  <2>. HIDE DEF parts
  <2>5. IsFiniteSet(UNION parts)
    BY <2>4, FS_UNION
  <2> QED BY <2>5 DEF parts, piece
<1>. HIDE DEF P, Q
<1>6. g \in Bijection(P, Q)
  <2>1. g \in [P -> Q]
    BY <1>3, <1>4
  <2>2. ASSUME NEW p \in P, NEW q \in P, g[p] = g[q] PROVE p = q
    <3>1. PICK x, k : x \in S /\ k \in D[x] /\ p = <<x, k>>
      BY <1>3
    <3>2. PICK y, l : y \in S /\ l \in D[y] /\ q = <<y, l>>
      BY <1>3
    <3>3. g[p] = <<r[x], k>> /\ g[q] = <<r[y], l>>
      BY <3>1, <3>2
    <3>4. r[x] = r[y] /\ k = l
      BY <2>2, <3>3
    <3> QED BY <3>1, <3>2, <3>4
  <2>3. ASSUME NEW q \in Q PROVE \E p \in P : g[p] = q
    <3>1. PICK x, k : x \in S /\ k \in D[x] /\ q = <<r[x], k>>
      BY <1>4
    <3>2. <<x, k>> \in P
      BY <1>3, <3>1, Zenon
    <3>3. g[<<x, k>>] = q
      BY <3>1, <3>2
    <3> QED BY <3>2, <3>3
  <2>. HIDE DEF g
  <2> QED BY <2>1, <2>2, <2>3 DEF Bijection, Injection, Surjection, IsInjective
<1>7. Cardinality(Q) = Cardinality(P)
  <2>. HIDE DEF g
  <2>1. ExistsBijection(P, Q)
    BY <1>6 DEF ExistsBijection
  <2> QED BY <1>5, <2>1, FS_Bijection
<1> QED BY <1>2, <1>7 DEF T, P, Q, Renamed, RenamedPairs, PairsOf

\* What is counted of a Project of which one release was opened is that release.
LEMMA CountsAreOfTheRelease ==
  ASSUME NEW o \in Seq(Release), NEW i \in DOMAIN o,
         \A j \in DOMAIN o : o[j].project = o[i].project => j = i
  PROVE  CountsOf({x \in FoundIn(o, {}) : x.project = o[i].project}) =
           [sessions |-> Cardinality(o[i].sessions),
            events   |-> Cardinality(UNION {{s} \X DOMAIN s.says : s \in o[i].sessions})]
<1>. DEFINE S == o[i].sessions
            r == [s \in S |-> [of |-> i, project |-> o[i].project, session |-> s]]
            T == {x \in FoundIn(o, {}) : x.project = o[i].project}
            D == [s \in S |-> DOMAIN s.says]
<1>1. o[i] \in Release /\ IsFiniteSet(S) /\ \A x \in S : x.says \in Seq(Utterance)
  <2>1. o[i] \in Release
    OBVIOUS
  <2> QED BY <2>1, ScopeFacts
<1>2. \A x \in S : IsFiniteSet(D[x])
  <2>1. ASSUME NEW x \in S PROVE IsFiniteSet(D[x])
    <3>. DEFINE l == Len(x.says)
    <3>1. l \in Nat /\ D[x] = 1..l
      BY <1>1
    <3>. HIDE DEF l
    <3>2. IsFiniteSet(1..l)
      BY <3>1, FS_Interval
    <3> QED BY <3>1, <3>2
  <2> QED BY <2>1
<1>3. \A x, y \in S : r[x] = r[y] => x = y
  OBVIOUS
<1>4. T = Renamed(S, r)
  <2>1. ASSUME NEW x \in T PROVE \E s \in S : x = r[s]
    <3>1. PICK j \in DOMAIN o : \E s \in o[j].sessions : x = [of |-> j, project |-> o[j].project, session |-> s]
      BY DEF FoundIn
    <3>2. PICK s \in o[j].sessions : x = [of |-> j, project |-> o[j].project, session |-> s]
      BY <3>1
    <3>3. o[j].project = o[i].project
      BY <3>2
    <3>4. j = i
      BY <3>3
    <3> QED BY <3>2, <3>4
  <2>2. ASSUME NEW s \in S PROVE r[s] \in T
    <3>1. r[s] = [of |-> i, project |-> o[i].project, session |-> s]
      OBVIOUS
    <3>2. r[s] \in FoundIn(o, {}) /\ r[s].project = o[i].project
      BY <3>1 DEF FoundIn
    <3> QED BY <3>2
  <2>. HIDE DEF r, S, T
  <2> QED BY <2>1, <2>2 DEF Renamed
<1>5. UNION {{x} \X DOMAIN x.session.says : x \in T} = RenamedPairs(S, D, r)
  <2>1. \A x \in S : r[x].session = x /\ D[x] = DOMAIN x.says
    OBVIOUS
  <2>. HIDE DEF r, D, S, T
  <2> QED BY <1>4, <2>1 DEF Renamed, RenamedPairs
<1>6. UNION {{s} \X DOMAIN s.says : s \in S} = PairsOf(S, D)
  BY DEF PairsOf
<1>. HIDE DEF r, D, S, T
<1>7. /\ Cardinality(Renamed(S, r)) = Cardinality(S)
      /\ Cardinality(RenamedPairs(S, D, r)) = Cardinality(PairsOf(S, D))
  BY <1>1, <1>2, <1>3, PairsAreAsMany
<1>8. CountsOf(T) = [sessions |-> Cardinality(S), events |-> Cardinality(UNION {{s} \X DOMAIN s.says : s \in S})]
  BY <1>4, <1>5, <1>6, <1>7 DEF CountsOf
<1> QED BY <1>8 DEF S, T

\* No Sessions have no Events.
LEMMA NothingIsCounted == CountsOf({}) = [sessions |-> 0, events |-> 0]
<1>1. UNION {{x} \X DOMAIN x.session.says : x \in {}} = {}
  OBVIOUS
<1> QED BY <1>1, FS_EmptySet DEF CountsOf

\* Utterances that can be told apart by where they are said.
ToldByPlace(S) ==
  /\ IsFiniteSet(S)
  /\ \A x \in S : x.at \in Nat
  /\ \A x, y \in S : Together(x, y) /\ x.at = y.at => x = y

\* The utterances of S that share Session and identifier with a.
Sharing(S, a) == {y \in S : Together(a, y)}

\* Those of one Session and identifier have the places from 1 on.
LEMMA PlacesAreTaken ==
  ASSUME NEW S, ToldByPlace(S), NEW a
  PROVE  LET n == Cardinality(Sharing(S, a))
         IN  /\ n \in Nat
             /\ \A x \in Sharing(S, a) : Place(x, S) \in 1..n
             /\ \A x, y \in Sharing(S, a) : Place(x, S) = Place(y, S) => x = y
             /\ \A k \in 1..n : \E x \in Sharing(S, a) : Place(x, S) = k
<1>. DEFINE T == {y \in S : Together(a, y)}
            n == Cardinality(T)
            W(x) == {y \in S : Together(x, y) /\ y.at <= x.at}
<1>1. IsFiniteSet(T) /\ n \in Nat
  <2>1. IsFiniteSet(T)
    BY FS_Subset DEF ToldByPlace
  <2> QED BY <2>1, FS_CardinalityType
<1>2. ASSUME NEW x \in T PROVE W(x) \subseteq T /\ x \in W(x)
  <2>1. \A y : Together(x, y) => Together(a, y)
    BY DEF Together
  <2>2. x.at \in Nat
    BY DEF ToldByPlace
  <2> QED BY <2>1, <2>2 DEF Together
<1>3. ASSUME NEW x \in T PROVE IsFiniteSet(W(x)) /\ Cardinality(W(x)) \in 1..n
  <2>. DEFINE w == W(x)
  <2>1. w \subseteq T /\ w # {}
    BY <1>2
  <2>. HIDE DEF w, T
  <2>2. IsFiniteSet(w) /\ Cardinality(w) <= n
    BY <1>1, <2>1, FS_Subset
  <2>3. Cardinality(w) \in Nat /\ Cardinality(w) # 0
    BY <2>1, <2>2, FS_CardinalityType, FS_EmptySet
  <2> QED BY <1>1, <2>2, <2>3 DEF w
<1>4. ASSUME NEW x \in T, NEW y \in T, x.at < y.at PROVE Cardinality(W(x)) < Cardinality(W(y))
  <2>1. W(x) \subseteq W(y) \ {y}
    <3>1. \A z \in S : z.at \in Nat
      BY DEF ToldByPlace
    <3>2. \A z \in S : Together(x, z) => Together(y, z)
      BY DEF Together
    <3> QED BY <1>4, <3>1, <3>2
  <2>2. IsFiniteSet(W(y)) /\ y \in W(y) /\ Cardinality(W(y)) \in Nat /\ Cardinality(W(x)) \in Nat
    <3>1. Cardinality(W(x)) \in 1..n /\ Cardinality(W(y)) \in 1..n
      BY <1>3
    <3>2. IsFiniteSet(W(y)) /\ y \in W(y)
      BY <1>2, <1>3
    <3>. HIDE DEF W, n
    <3> QED BY <1>1, <3>1, <3>2
  <2>. DEFINE u == W(x)
              w == W(y)
  <2>3. u \subseteq w \ {y} /\ IsFiniteSet(w) /\ y \in w /\ Cardinality(w) \in Nat /\ Cardinality(u) \in Nat
    BY <2>1, <2>2
  <2>. HIDE DEF u, w
  <2>4. IsFiniteSet(w \ {y}) /\ Cardinality(w \ {y}) = Cardinality(w) - 1
    BY <2>3, FS_RemoveElement
  <2>5. Cardinality(u) <= Cardinality(w \ {y})
    BY <2>3, <2>4, FS_Subset
  <2>6. Cardinality(u) < Cardinality(w)
    BY <2>3, <2>4, <2>5
  <2> QED BY <2>6 DEF u, w
<1>5. \A x \in T : Place(x, S) = Cardinality(W(x))
  BY DEF Place
<1>6. \A x \in T : Place(x, S) \in 1..n
  BY <1>3, <1>5
<1>7. ASSUME NEW x \in T, NEW y \in T, Place(x, S) = Place(y, S) PROVE x = y
  <2>1. x.at \in Nat /\ y.at \in Nat
    BY DEF ToldByPlace
  <2>2. Place(x, S) \in Nat /\ Place(y, S) \in Nat
    BY <1>1, <1>6
  <2>3. ~(x.at < y.at) /\ ~(y.at < x.at)
    <3>1. x.at < y.at => Place(x, S) < Place(y, S)
      BY <1>4, <1>5
    <3>2. y.at < x.at => Place(y, S) < Place(x, S)
      BY <1>4, <1>5
    <3> QED BY <1>7, <2>2, <3>1, <3>2
  <2>4. Together(x, y) /\ x.at = y.at
    BY <2>1, <2>3 DEF Together
  <2> QED BY <2>4 DEF ToldByPlace
<1>8. \A k \in 1..n : \E x \in T : Place(x, S) = k
  <2>. DEFINE f == [x \in T |-> Place(x, S)]
  <2>1. f \in Injection(T, 1..n)
    <3>. HIDE DEF T
    <3> QED BY <1>6, <1>7 DEF Injection, IsInjective
  <2>2. IsFiniteSet(1..n) /\ Cardinality(1..n) = n
    BY <1>1, FS_Interval
  <2>3. \A k \in 1..n : \E x \in T : f[x] = k
    <3>. HIDE DEF f, T
    <3>1. f \in Surjection(T, 1..n)
      BY <2>1, <2>2, FS_Injection DEF T
    <3> QED BY <3>1 DEF Surjection
  <2> QED BY <2>3
<1> QED BY <1>1, <1>6, <1>7, <1>8 DEF Sharing

\* What is said in the stores opened can be told apart by where it is said.
LEMMA SaidIsPlaced ==
  ASSUME opened \in Seq(Release), NEW does
  PROVE  ToldByPlace(Said(does))
<1>. DEFINE A == AllFound
            at(x) == {j \in DOMAIN x.session.says : x.session.says[j].does = does}
            U(x) == {[of |-> x.of, session |-> x.session.id, at |-> k, link |-> x.session.says[k].link] : k \in at(x)}
            S == Said(does)
<1>1. IsFiniteSet(A)
  BY FoundHere, FoundIsFinite
<1>2. \A x \in A : x.session.says \in Seq(Utterance)
  <2>1. ASSUME NEW x \in A PROVE x.session.says \in Seq(Utterance)
    <3>1. PICK i \in DOMAIN opened : \E s \in opened[i].sessions : x = [of |-> i, project |-> opened[i].project, session |-> s]
      BY FoundHere DEF FoundIn
    <3>2. opened[i] \in Release
      OBVIOUS
    <3> QED BY <3>1, <3>2, ScopeFacts
  <2> QED BY <2>1
<1>3. S = UNION {U(x) : x \in A}
  BY DEF Said
<1>. HIDE DEF A
<1>4. \A x \in A : IsFiniteSet(U(x))
  <2>1. ASSUME NEW x \in A PROVE IsFiniteSet(U(x))
    <3>. DEFINE E == at(x)
                e == [k \in E |-> [of |-> x.of, session |-> x.session.id, at |-> k, link |-> x.session.says[k].link]]
    <3>1. IsFiniteSet(E)
      <4>. DEFINE s == x.session.says
      <4>1. s \in Seq(Utterance)
        BY <1>2
      <4>2. E \subseteq DOMAIN s
        OBVIOUS
      <4>. HIDE DEF s, E
      <4>3. DOMAIN s = 1..Len(s) /\ Len(s) \in Nat
        BY <4>1
      <4>4. IsFiniteSet(1..Len(s))
        BY <4>3, FS_Interval
      <4> QED BY <4>2, <4>3, <4>4, FS_Subset
    <3>2. U(x) = {e[k] : k \in E}
      OBVIOUS
    <3>. HIDE DEF e, E
    <3>3. IsFiniteSet({e[k] : k \in E})
      BY <3>1, ImageIsFinite
    <3> QED BY <3>2, <3>3
  <2> QED BY <2>1
<1>5. IsFiniteSet(S)
  <2>. DEFINE h == [x \in A |-> U(x)]
              parts == {U(x) : x \in A}
  <2>1. parts = {h[x] : x \in A}
    BY Zenon
  <2>. HIDE DEF h, U
  <2>2. IsFiniteSet({h[x] : x \in A})
    BY <1>1, ImageIsFinite
  <2>3. IsFiniteSet(parts) /\ \A t \in parts : IsFiniteSet(t)
    BY <1>4, <2>1, <2>2
  <2>. HIDE DEF parts
  <2>4. IsFiniteSet(UNION parts)
    BY <2>3, FS_UNION
  <2> QED BY <1>3, <2>4 DEF parts
<1>6. ASSUME NEW y \in S
      PROVE  y.at \in Nat /\ y = [of |-> y.of, session |-> y.session, at |-> y.at, link |-> y.link]
  <2>1. PICK x \in A : y \in U(x)
    BY <1>3
  <2>2. PICK k \in at(x) : y = [of |-> x.of, session |-> x.session.id, at |-> k, link |-> x.session.says[k].link]
    BY <2>1
  <2>3. k \in Nat
    <3>. DEFINE s == x.session.says
    <3>1. s \in Seq(Utterance) /\ k \in DOMAIN s
      BY <1>2, <2>2
    <3>. HIDE DEF s
    <3> QED BY <3>1
  <2> QED BY <2>2, <2>3
<1>. HIDE DEF S
<1>7. ASSUME NEW x \in S, NEW y \in S, Together(x, y), x.at = y.at PROVE x = y
  <2>1. x.of = y.of /\ x.session = y.session /\ x.link = y.link
    BY <1>7 DEF Together
  <2>2. /\ x = [of |-> x.of, session |-> x.session, at |-> x.at, link |-> x.link]
        /\ y = [of |-> y.of, session |-> y.session, at |-> y.at, link |-> y.link]
    BY <1>6
  <2> QED BY <1>7, <2>1, <2>2
<1> QED BY <1>5, <1>6, <1>7 DEF ToldByPlace, S

\* Whatever the rows hold, pairing takes every call and result once.
LEMMA PairingAccounts ==
  ASSUME opened \in Seq(Release)
  PROVE  /\ \A c \in Said("call") : Cardinality({x \in Lineage : c \in x.call}) = 1
         /\ \A r \in Said("result") : Cardinality({x \in Lineage : r \in x.result}) = 1
         /\ \A x \in Lineage : \A c \in x.call, r \in x.result : Together(c, r) /\ c.link # 0
         /\ \A x, y \in Lineage :
              x.outcome = "missing_result" /\ y.outcome = "unlinked_result" =>
                \A c \in x.call, r \in y.result : ~Together(c, r)
<1>. DEFINE calls == Said("call")
            results == Said("result")
            outcome(c, rs) == IF rs # {} THEN "result" ELSE IF c.link # 0 THEN "missing_result" ELSE "unlinked_call"
            rs(c) == {r \in results : Paired(c, r)}
            row(c) == [call |-> {c}, result |-> rs(c), outcome |-> outcome(c, rs(c))]
            left == {r \in results : \A c \in calls : ~Paired(c, r)}
            alone(r) == [call |-> {}, result |-> {r}, outcome |-> "unlinked_result"]
            lines == Lineage
<1>1. ToldByPlace(calls) /\ ToldByPlace(results)
  BY SaidIsPlaced
<1>2. \A c, r : Paired(c, r) <=> c.link # 0 /\ Together(c, r) /\ Place(c, calls) = Place(r, results)
  BY DEF Paired
<1>3. \A x : x \in lines <=> (\E c \in calls : x = row(c)) \/ (\E r \in left : x = alone(r))
  BY DEF Lineage
<1>. HIDE DEF calls, results, lines
<1>4. ASSUME NEW c \in calls, NEW d \in calls, NEW r \in results, Paired(c, r), Paired(d, r)
      PROVE  c = d
  <2>1. Together(r, c) /\ Together(r, d) /\ Place(c, calls) = Place(d, calls)
    BY <1>2, <1>4 DEF Together
  <2>. DEFINE T == {y \in calls : Together(r, y)}
  <2>2. c \in T /\ d \in T
    BY <2>1
  <2>3. \A x, y \in T : Place(x, calls) = Place(y, calls) => x = y
    <3>1. ToldByPlace(calls)
      BY <1>1
    <3>2. T = Sharing(calls, r)
      BY DEF Sharing
    <3>. HIDE DEF T
    <3> QED BY <3>1, <3>2, PlacesAreTaken
  <2> QED BY <2>1, <2>2, <2>3
<1>5. ASSUME NEW c \in calls PROVE Cardinality({x \in lines : c \in x.call}) = 1
  <2>1. row(c) \in lines /\ c \in row(c).call
    BY <1>3
  <2>2. \A x \in lines : c \in x.call => x = row(c)
    <3>1. ASSUME NEW x \in lines, c \in x.call PROVE x = row(c)
      <4>1. CASE \E d \in calls : x = row(d)
        <5>1. PICK d \in calls : x = row(d)
          BY <4>1
        <5>2. x.call = {d}
          BY <5>1
        <5>3. d = c
          BY <3>1, <5>2
        <5> QED BY <5>1, <5>3
      <4>2. CASE \E r \in left : x = alone(r)
        <5>1. x.call = {}
          BY <4>2
        <5> QED BY <3>1, <5>1
      <4> QED BY <1>3, <4>1, <4>2
    <3> QED BY <3>1
  <2>. HIDE DEF row
  <2>3. {x \in lines : c \in x.call} = {row(c)}
    BY <2>1, <2>2
  <2> QED BY <2>3, FS_Singleton
<1>6. ASSUME NEW r \in results PROVE Cardinality({x \in lines : r \in x.result}) = 1
  <2>1. \A d \in calls : r \in row(d).result <=> Paired(d, r)
    OBVIOUS
  <2>2. \A q \in left : r \in alone(q).result <=> q = r
    OBVIOUS
  <2>3. r \in left <=> \A c \in calls : ~Paired(c, r)
    OBVIOUS
  <2>. HIDE DEF row, alone, left
  <2>4. CASE \E c \in calls : Paired(c, r)
    <3>1. PICK c \in calls : Paired(c, r)
      BY <2>4
    <3>2. row(c) \in lines /\ r \in row(c).result
      BY <1>3, <2>1, <3>1
    <3>3. \A x \in lines : r \in x.result => x = row(c)
      BY <1>3, <1>4, <2>1, <2>2, <2>3, <3>1
    <3>4. {x \in lines : r \in x.result} = {row(c)}
      BY <3>2, <3>3
    <3> QED BY <3>4, FS_Singleton
  <2>5. CASE ~(\E c \in calls : Paired(c, r))
    <3>1. alone(r) \in lines /\ r \in alone(r).result
      BY <1>3, <2>2, <2>3, <2>5
    <3>2. \A x \in lines : r \in x.result => x = alone(r)
      BY <1>3, <2>1, <2>2, <2>5
    <3>3. {x \in lines : r \in x.result} = {alone(r)}
      BY <3>1, <3>2
    <3> QED BY <3>3, FS_Singleton
  <2> QED BY <2>4, <2>5
<1>7. ASSUME NEW x \in lines, NEW c \in x.call, NEW r \in x.result PROVE Together(c, r) /\ c.link # 0
  <2>1. CASE \E d \in calls : x = row(d)
    <3>1. PICK d \in calls : x = row(d)
      BY <2>1
    <3>2. x.call = {d} /\ x.result = rs(d)
      BY <3>1
    <3>3. Paired(c, r)
      BY <3>2
    <3> QED BY <1>2, <3>3
  <2>2. CASE \E q \in left : x = alone(q)
    <3>1. x.call = {}
      BY <2>2
    <3> QED BY <3>1
  <2> QED BY <1>3, <2>1, <2>2
<1>8. ASSUME NEW x \in lines, NEW y \in lines, x.outcome = "missing_result", y.outcome = "unlinked_result",
             NEW c \in x.call, NEW r \in y.result, Together(c, r)
      PROVE  FALSE
  <2>1. c \in calls /\ c.link # 0 /\ \A q \in results : ~Paired(c, q)
    <3>1. PICK d \in calls : x = row(d)
      <4>1. ~ \E q \in left : x = alone(q)
        <5>1. \A q \in left : alone(q).outcome = "unlinked_result"
          OBVIOUS
        <5> QED BY <1>8, <5>1
      <4> QED BY <1>3, <4>1
    <3>2. x.call = {d} /\ x.result = rs(d) /\ x.outcome = outcome(d, rs(d))
      BY <3>1
    <3>3. d = c /\ rs(d) = {} /\ d.link # 0
      BY <1>8, <3>2
    <3> QED BY <3>3
  <2>2. r \in results /\ \A d \in calls : ~Paired(d, r)
    <3>1. PICK q \in left : y = alone(q)
      <4>1. ~ \E d \in calls : y = row(d)
        <5>1. ASSUME NEW d \in calls, y = row(d) PROVE FALSE
          <6>1. y.outcome = outcome(d, rs(d))
            BY <5>1
          <6> QED BY <1>8, <6>1
        <5> QED BY <5>1
      <4> QED BY <1>3, <4>1
    <3>2. y.result = {q}
      BY <3>1
    <3>3. q = r
      BY <3>2
    <3> QED BY <3>3
  <2>. DEFINE C == {d \in calls : Together(c, d)}
              R == {q \in results : Together(c, q)}
              m == Cardinality(C)
              n == Cardinality(R)
              k == Place(c, calls)
              l == Place(r, results)
  <2>3. /\ m \in Nat /\ \A d \in C : Place(d, calls) \in 1..m
        /\ \A i \in 1..m : \E d \in C : Place(d, calls) = i
    <3>1. ToldByPlace(calls)
      BY <1>1
    <3>2. C = Sharing(calls, c)
      BY DEF Sharing
    <3>. HIDE DEF calls, results, C, R
    <3> QED BY <3>1, <3>2, PlacesAreTaken
  <2>4. /\ n \in Nat /\ \A q \in R : Place(q, results) \in 1..n
        /\ \A i \in 1..n : \E q \in R : Place(q, results) = i
    <3>1. ToldByPlace(results)
      BY <1>1
    <3>2. R = Sharing(results, c)
      BY DEF Sharing
    <3>. HIDE DEF calls, results, C, R
    <3> QED BY <3>1, <3>2, PlacesAreTaken
  <2>5. c \in C /\ r \in R
    BY <1>8, <2>1, <2>2 DEF Together
  <2>6. k \in 1..m /\ l \in 1..n
    BY <2>3, <2>4, <2>5
  <2>7. k \notin 1..n
    <3>1. ASSUME k \in 1..n PROVE FALSE
      <4>1. PICK q \in R : Place(q, results) = k
        BY <2>4, <3>1
      <4>2. Paired(c, q)
        BY <1>2, <2>1, <4>1
      <4> QED BY <2>1, <4>2
    <3> QED BY <3>1
  <2>8. l \notin 1..m
    <3>1. ASSUME l \in 1..m PROVE FALSE
      <4>1. PICK d \in C : Place(d, calls) = l
        BY <2>3, <3>1
      <4>2. Together(d, r) /\ d.link # 0 /\ d \in calls
        BY <1>8, <2>1, <4>1 DEF Together
      <4>3. Paired(d, r)
        BY <1>2, <4>1, <4>2
      <4> QED BY <2>2, <4>2, <4>3
    <3> QED BY <3>1
  <2>. HIDE DEF k, l, m, n
  <2> QED BY <2>3, <2>4, <2>6, <2>7, <2>8
<1> QED BY <1>5, <1>6, <1>7, <1>8 DEF calls, results, lines

\* The last listing and the Session shown are of what some releases hold.
Listed ==
  IF listing.made
  THEN \E o \in Seq(Release) : \E v : \E n \in Nat \cup {AnyNumber} :
         /\ listing.reading = ReadingOf(o, v) /\ listing.rows = FirstOf(Sorted(FoundIn(o, v)), n)
  ELSE listing.rows = <<>>
Shown ==
  shown.made =>
    \/ shown.number = 0
    \/ \E o \in Seq(Release) : \E v : \E n \in Nat :
         /\ n = shown.number /\ shown.reading = ReadingOf(o, v)
         /\ n \in DOMAIN FirstOf(Sorted(FoundIn(o, v)), n)
         /\ shown.row = <<FirstOf(Sorted(FoundIn(o, v)), n)[n]>>

\* A request saved for Projects by identity names the snapshots read.
RequestKept ==
  request.made /\ request.by # "paths" =>
    /\ request.read \subseteq Release /\ request.read # {}
    /\ request.snapshots = {<<r.project, r.name>> : r \in request.read}

\* What a command answered is of what it has open.
OfTheOpened ==
  /\ replayed => /\ command = "answered" /\ request.made
                 /\ request.snapshots = {} \/ request.snapshots = Observations
  /\ lineage.made => command = "answered" /\ lineage.rows = Lineage

\* The inductive invariant of the commands.
ScopeInv ==
  /\ QueryScopeTypeOK
  /\ registry \in [Project -> [sessions : Nat \cup {-1}, events : Nat \cup {-1}]]
  /\ RegistryCountsOneObservation
  /\ Listed /\ Shown /\ RequestKept /\ OfTheOpened

\* Counts are numbers.
LEMMA CountsAreNumbers ==
  ASSUME NEW o \in Seq(Release), NEW v, NEW S, S \subseteq FoundIn(o, v)
  PROVE  CountsOf(S) \in [sessions : Nat, events : Nat]
<1>. DEFINE piece(x) == {x} \X DOMAIN x.session.says
            parts == {piece(x) : x \in S}
            h == [x \in S |-> piece(x)]
<1>1. IsFiniteSet(S)
  BY FoundIsFinite, FS_Subset
<1>2. ASSUME NEW x \in S PROVE IsFiniteSet(piece(x))
  <2>. DEFINE s == x.session.says
              E == DOMAIN x.session.says
  <2>1. s \in Seq(Utterance)
    <3>1. PICK i \in DOMAIN o : \E y \in o[i].sessions : x = [of |-> i, project |-> o[i].project, session |-> y]
      BY DEF FoundIn
    <3>2. o[i] \in Release
      OBVIOUS
    <3> QED BY <3>1, <3>2, ScopeFacts
  <2>2. IsFiniteSet(E)
    <3>. HIDE DEF s
    <3>1. DOMAIN s = 1..Len(s) /\ Len(s) \in Nat
      BY <2>1
    <3>2. IsFiniteSet(1..Len(s))
      BY <3>1, FS_Interval
    <3> QED BY <3>1, <3>2 DEF s
  <2>. HIDE DEF E
  <2>3. IsFiniteSet({x})
    BY FS_Singleton
  <2>4. IsFiniteSet({x} \X E)
    BY <2>2, <2>3, FS_Product
  <2> QED BY <2>4 DEF E
<1>3. parts = {h[x] : x \in S}
  BY Zenon
<1>4. CountsOf(S) = [sessions |-> Cardinality(S), events |-> Cardinality(UNION parts)]
  BY DEF CountsOf
<1>. HIDE DEF h, piece
<1>5. IsFiniteSet({h[x] : x \in S})
  BY <1>1, ImageIsFinite
<1>6. IsFiniteSet(parts) /\ \A t \in parts : IsFiniteSet(t)
  BY <1>2, <1>3, <1>5
<1>. HIDE DEF parts
<1>7. IsFiniteSet(UNION parts)
  BY <1>6, FS_UNION
<1>8. Cardinality(S) \in Nat /\ Cardinality(UNION parts) \in Nat
  BY <1>1, <1>7, FS_CardinalityType
<1> QED BY <1>4, <1>8

\* A Project that was not counted has the counts that say so.
LEMMA NoCountsAreTyped == NoCounts \in [sessions : Nat \cup {-1}, events : Nat \cup {-1}]
BY DEF NoCounts

\* The invariant of the commands holds at first.
LEMMA ScopeStarts == QueryScopeInit => ScopeInv
<1>. SUFFICES ASSUME QueryScopeInit PROVE ScopeInv
  OBVIOUS
<1>1. /\ disposition \in [Project -> {"absent", "active", "excluded"}] /\ serving \in [Project -> Nat]
      /\ available \subseteq Release /\ scopes \in Seq(Project \X Nat) /\ opened \in Seq(Release)
      /\ command = "none" /\ doubled = {} /\ commands \in 0..MaxCommands
  BY ScopeFacts DEF QueryScopeInit, NoSnapshot
<1>2. /\ listing.made = FALSE /\ listing.rows = <<>> /\ shown.made = FALSE /\ request.made = FALSE
      /\ lineage.made = FALSE /\ replayed = FALSE
  BY DEF QueryScopeInit, NoListing, NoRow, NoSaved, NoLineage
<1>3. \A p \in Project : registry[p] = NoCounts
  BY DEF QueryScopeInit
<1>4. registry \in [Project -> [sessions : Nat \cup {-1}, events : Nat \cup {-1}]]
  BY NoCountsAreTyped DEF QueryScopeInit
<1>5. \A p \in Project : registry[p].sessions >= -1 /\ registry[p].events >= -1
  BY <1>3 DEF NoCounts
<1>6. QueryScopeTypeOK
  BY <1>1, <1>2, <1>5 DEF QueryScopeTypeOK
<1>7. RegistryCountsOneObservation
  BY <1>3 DEF RegistryCountsOneObservation
<1> QED BY <1>2, <1>4, <1>6, <1>7 DEF ScopeInv, Listed, Shown, RequestKept, OfTheOpened

\* What earlier commands left stays true of what they had open.
LEMMA LeftAsItWas ==
  ASSUME ScopeInv, QueryScopeTypeOK', OfTheOpened',
         UNCHANGED <<registry, doubled, listing, shown, request>>
  PROVE  ScopeInv'
BY DEF ScopeInv, RegistryCountsOneObservation, Listed, Shown, RequestKept

\* A step of a command at work, that reports nothing.
LEMMA WorkKeeps ==
  ASSUME ScopeInv, command = "opening", UNCHANGED <<worldVars, selector, registry, doubled, commands, outputVars>>,
         opened' \in Seq(Release), scopes' \in Seq(Project \X Nat), command' \in {"opening", "refused"}
  PROVE  ScopeInv'
<1>1. UNCHANGED <<disposition, serving, available, selector, registry, doubled, commands, listing, shown,
                  request, replayed, lineage>>
  BY DEF worldVars, outputVars
<1>2. QueryScopeTypeOK'
  BY <1>1 DEF ScopeInv, QueryScopeTypeOK
<1>3. OfTheOpened'
  BY <1>1 DEF ScopeInv, OfTheOpened
<1> QED BY <1>1, <1>2, <1>3, LeftAsItWas

\* What ingest and the catalog do meanwhile keeps it.
LEMMA MeanwhileKeeps == ASSUME ScopeInv, Meanwhile PROVE ScopeInv'
<1>1. UNCHANGED <<selector, scopes, opened, command, registry, doubled, commands, listing, shown, request,
                  replayed, lineage>>
  BY DEF Meanwhile, outputVars
<1>2. /\ disposition \in [Project -> {"absent", "active", "excluded"}]
      /\ serving \in [Project -> Nat] /\ available \subseteq Release
  BY DEF ScopeInv, QueryScopeTypeOK
<1>3. /\ disposition' \in [Project -> {"absent", "active", "excluded"}]
      /\ serving' \in [Project -> Nat] /\ available' \subseteq Release
  <2>1. ASSUME NEW r \in Release, Publish(r)
        PROVE  /\ disposition' \in [Project -> {"absent", "active", "excluded"}]
               /\ serving' \in [Project -> Nat] /\ available' \subseteq Release
    <3>1. r.name \in Nat /\ r.project \in Project
      BY ScopeFacts
    <3>2. serving' = [serving EXCEPT ![r.project] = r.name] /\ available' = available \cup {r}
      BY <2>1 DEF Publish
    <3>3. disposition' = [disposition EXCEPT ![r.project] = IF @ = "absent" THEN "active" ELSE @]
      BY <2>1 DEF Publish
    <3>4. disposition' \in [Project -> {"absent", "active", "excluded"}]
      BY <1>2, <3>1, <3>3
    <3> QED BY <1>2, <3>1, <3>2, <3>4
  <2>2. ASSUME NEW p \in Project, Curate(p)
        PROVE  /\ disposition' \in [Project -> {"absent", "active", "excluded"}]
               /\ serving' \in [Project -> Nat] /\ available' \subseteq Release
    BY <1>2, <2>2 DEF Curate
  <2>3. ASSUME NEW r \in Release, PruneRelease(r)
        PROVE  /\ disposition' \in [Project -> {"absent", "active", "excluded"}]
               /\ serving' \in [Project -> Nat] /\ available' \subseteq Release
    BY <1>2, <2>3 DEF PruneRelease
  <2> QED BY <2>1, <2>2, <2>3 DEF Meanwhile
<1>4. QueryScopeTypeOK'
  BY <1>1, <1>3 DEF ScopeInv, QueryScopeTypeOK
<1>5. Lineage' = Lineage /\ Observations' = Observations
  BY <1>1 DEF Lineage, Paired, Said, AllFound, Found, Ours, Observations
<1>6. OfTheOpened'
  BY <1>1, <1>5 DEF ScopeInv, OfTheOpened
<1> QED BY <1>1, <1>4, <1>6, LeftAsItWas

\* The list of items to open has a Project and a snapshot in each place.
LEMMA ScopesAreItems ==
  ASSUME serving \in [Project -> Nat], NEW S \in SUBSET (Project \X Nat), IsFiniteSet(S)
  PROVE  RootsInOrder(S) \in Seq(Project \X Nat) /\ InOrder(S) \in Seq(Project \X Nat)
<1>1. \A x \in S : x[1] \in Project /\ x[1] \in Nat /\ x[2] \in Nat /\ x = <<x[1], x[2]>>
  BY ScopeFacts
<1>2. \A x \in S : AtCurrent(x) \in Project \X Nat /\ AtCurrent(x)[1] = x[1] /\ AtCurrent(x)[2] \in Nat
                   /\ AtCurrent(x) = <<x[1], AtCurrent(x)[2]>>
  BY <1>1 DEF AtCurrent
<1>. DEFINE Q == {p \in S \X S : RootBefore(p[1], p[2])}
            R == {p \in S \X S : ItemBefore(p[1], p[2])}
            n == Cardinality(S)
<1>3. Linear(Q, S)
  <2>1. \A x, y \in S : <<x, y>> \in Q <=> RootBefore(x, y)
    OBVIOUS
  <2>. HIDE DEF Q
  <2>2. \A x \in S : ~RootBefore(x, x)
    BY <1>1 DEF RootBefore
  <2>3. \A x, y \in S : x = y \/ RootBefore(x, y) \/ RootBefore(y, x)
    <3>1. ASSUME NEW x \in S, NEW y \in S, ~RootBefore(x, y), ~RootBefore(y, x) PROVE x = y
      <4>1. x[1] = y[1] /\ x[2] = y[2]
        BY <1>1, <3>1 DEF RootBefore
      <4> QED BY <1>1, <4>1
    <3> QED BY <3>1
  <2>4. \A x, y, z \in S : RootBefore(x, y) /\ RootBefore(y, z) => RootBefore(x, z)
    BY <1>1 DEF RootBefore
  <2> QED BY <2>1, <2>2, <2>3, <2>4 DEF Linear
<1>4. Linear(R, S)
  <2>1. \A x, y \in S : <<x, y>> \in R <=> ItemBefore(x, y)
    OBVIOUS
  <2>. HIDE DEF R
  <2>2. \A x, y \in S : ItemBefore(x, y) <=>
          \/ x[1] < y[1]
          \/ x[1] = y[1] /\ AtCurrent(x)[2] < AtCurrent(y)[2]
          \/ x[1] = y[1] /\ AtCurrent(x)[2] = AtCurrent(y)[2] /\ x[2] < y[2]
    <3>1. ASSUME NEW x \in S, NEW y \in S
          PROVE  ItemBefore(x, y) <=>
                   \/ x[1] < y[1]
                   \/ x[1] = y[1] /\ AtCurrent(x)[2] < AtCurrent(y)[2]
                   \/ x[1] = y[1] /\ AtCurrent(x)[2] = AtCurrent(y)[2] /\ x[2] < y[2]
      <4>. DEFINE a == AtCurrent(x)
                  b == AtCurrent(y)
      <4>1. a[1] = x[1] /\ b[1] = y[1] /\ (a = b <=> x[1] = y[1] /\ a[2] = b[2])
        BY <1>2
      <4>. HIDE DEF a, b
      <4>2. ItemBefore(x, y) <=> RootBefore(a, b) \/ (a = b /\ x[2] < y[2])
        BY DEF ItemBefore, a, b
      <4>3. RootBefore(a, b) <=> x[1] < y[1] \/ (x[1] = y[1] /\ a[2] < b[2])
        BY <4>1 DEF RootBefore
      <4>4. ItemBefore(x, y) <=>
              \/ x[1] < y[1]
              \/ x[1] = y[1] /\ a[2] < b[2]
              \/ x[1] = y[1] /\ a[2] = b[2] /\ x[2] < y[2]
        BY <4>1, <4>2, <4>3
      <4> QED BY <4>4 DEF a, b
    <3> QED BY <3>1
  <2>3. \A x \in S : ~ItemBefore(x, x)
    BY <1>1, <1>2, <2>2
  <2>4. \A x, y \in S : x = y \/ ItemBefore(x, y) \/ ItemBefore(y, x)
    <3>1. ASSUME NEW x \in S, NEW y \in S, ~ItemBefore(x, y), ~ItemBefore(y, x) PROVE x = y
      <4>1. x[1] = y[1] /\ x[2] = y[2]
        BY <1>1, <1>2, <2>2, <3>1
      <4> QED BY <1>1, <4>1
    <3> QED BY <3>1
  <2>5. \A x, y, z \in S : ItemBefore(x, y) /\ ItemBefore(y, z) => ItemBefore(x, z)
    BY <1>1, <1>2, <2>2
  <2> QED BY <2>1, <2>3, <2>4, <2>5 DEF Linear
<1>5. RootsInOrder(S) = Enumerate(S, Q) /\ ListOf(S, ItemBefore) = Enumerate(S, R)
  BY DEF RootsInOrder, ListOf
<1>. HIDE DEF Q, R, n
<1>6. n \in Nat /\ Enumerate(S, Q) \in [1..n -> S] /\ Enumerate(S, R) \in [1..n -> S]
  BY <1>3, <1>4, Enumerates DEF n
<1>7. RootsInOrder(S) \in Seq(Project \X Nat)
  BY <1>5, <1>6
<1>8. InOrder(S) \in Seq(Project \X Nat)
  <2>. DEFINE e == Enumerate(S, R)
  <2>1. InOrder(S) = [i \in DOMAIN e |-> AtCurrent(e[i])]
    BY <1>5 DEF InOrder
  <2>2. e \in [1..n -> S]
    BY <1>6
  <2>. HIDE DEF e
  <2>3. InOrder(S) \in [1..n -> Project \X Nat]
    <3>1. \A i \in 1..n : AtCurrent(e[i]) \in Project \X Nat
      BY <1>2, <2>2
    <3> QED BY <2>1, <2>2, <3>1
  <2> QED BY <1>6, <2>3
<1> QED BY <1>7, <1>8

\* What is current can be listed.
LEMMA AllCurrentIsListed ==
  ASSUME serving \in [Project -> Nat], NEW q
  PROVE  AllCurrent(q) \subseteq Project \X Nat /\ IsFiniteSet(AllCurrent(q))
<1>. DEFINE P == {x \in Project : /\ disposition[x] = "active" /\ serving[x] # NoSnapshot
                                  /\ Openable(ReleaseOf(x, serving[x]), q)}
            f == [p \in P |-> <<p, serving[p]>>]
<1>1. IsFiniteSet(P) /\ P \subseteq Project
  <2>1. P \subseteq Project
    OBVIOUS
  <2>. HIDE DEF P
  <2> QED BY <2>1, ScopeFacts, FS_Subset
<1>2. AllCurrent(q) = {f[p] : p \in P}
  BY DEF AllCurrent
<1>3. \A p \in P : f[p] \in Project \X Nat
  BY <1>1
<1>. HIDE DEF f, P
<1>4. IsFiniteSet({f[p] : p \in P})
  BY <1>1, ImageIsFinite
<1> QED BY <1>2, <1>3, <1>4

\* A new command leaves the listing and the saved request, and shows nothing yet.
LEMMA ResolveKeeps == ASSUME ScopeInv, NEW q \in ScopeRequest, Resolve(q) PROVE ScopeInv'
<1>1. /\ UNCHANGED <<disposition, serving, available, registry, doubled, listing, request>>
      /\ shown' = NoRow /\ replayed' = FALSE /\ lineage' = NoLineage
      /\ opened' = <<>> /\ commands' = commands + 1 /\ commands < MaxCommands
  BY DEF Resolve, worldVars
<1>2. serving \in [Project -> Nat] /\ commands \in 0..MaxCommands /\ MaxCommands \in Nat
  BY ScopeFacts DEF ScopeInv, QueryScopeTypeOK
<1>3. commands' \in 0..MaxCommands
  BY <1>1, <1>2
<1>4. command' \in {"opening", "refused"} /\ scopes' \in Seq(Project \X Nat)
  <2>1. CASE Refusable(q)
    <3>1. command' = "refused" /\ scopes' = <<>>
      BY <2>1 DEF Resolve
    <3> QED BY <3>1
  <2>2. CASE ~Refusable(q)
    <3>1. /\ command' = "opening"
          /\ scopes' = IF q.by = "paths" THEN RootsInOrder(q.items) ELSE InOrder(Requested(q))
      BY <2>2 DEF Resolve
    <3>2. q.items \in SUBSET (Project \X Nat) /\ IsFiniteSet(q.items)
      BY ScopeFacts
    <3>3. AllCurrent(q) \in SUBSET (Project \X Nat) /\ IsFiniteSet(AllCurrent(q))
      BY <1>2, AllCurrentIsListed
    <3>4. Requested(q) \in SUBSET (Project \X Nat) /\ IsFiniteSet(Requested(q))
      BY <3>2, <3>3 DEF Requested
    <3>5. RootsInOrder(q.items) \in Seq(Project \X Nat)
      BY <1>2, <3>2, ScopesAreItems
    <3>6. InOrder(Requested(q)) \in Seq(Project \X Nat)
      BY <1>2, <3>4, ScopesAreItems
    <3> QED BY <3>1, <3>5, <3>6
  <2> QED BY <2>1, <2>2
<1>5. opened' \in Seq(Release)
  BY <1>1
<1>6. shown'.made = FALSE /\ lineage'.made = FALSE
  BY <1>1 DEF NoRow, NoLineage
<1>7. QueryScopeTypeOK'
  BY <1>1, <1>3, <1>4, <1>5, <1>6 DEF ScopeInv, QueryScopeTypeOK
<1>8. OfTheOpened' /\ Shown'
  BY <1>1, <1>6 DEF OfTheOpened, Shown
<1>9. Listed' /\ RequestKept'
  BY <1>1 DEF ScopeInv, Listed, RequestKept
<1> QED BY <1>1, <1>7, <1>8, <1>9 DEF ScopeInv, RegistryCountsOneObservation

\* Opening the next of the list, or failing to.
LEMMA OpenNextKeeps == ASSUME ScopeInv, OpenNext PROVE ScopeInv'
<1>1. /\ command = "opening" /\ scopes # <<>>
      /\ UNCHANGED <<worldVars, selector, registry, doubled, commands, outputVars>>
  BY DEF OpenNext
<1>2. scopes \in Seq(Project \X Nat) /\ opened \in Seq(Release)
  BY DEF ScopeInv, QueryScopeTypeOK
<1>3. Tail(scopes) \in Seq(Project \X Nat)
  BY <1>1, <1>2
<1>. DEFINE found == {r \in Release : r.project = Head(scopes)[1] /\ r.name = Wanted(Head(scopes))}
<1>4. \/ /\ \E r \in found : opened' = Append(opened, r)
         /\ scopes' = Tail(scopes) /\ command' = command
      \/ scopes' = Tail(scopes) /\ opened' = opened /\ command' = command
      \/ RefuseCommand
  BY DEF OpenNext
<1>5. opened' \in Seq(Release) /\ scopes' \in Seq(Project \X Nat) /\ command' \in {"opening", "refused"}
  <2>1. ASSUME NEW r \in found, opened' = Append(opened, r) PROVE opened' \in Seq(Release)
    BY <1>2, <2>1
  <2>2. ASSUME RefuseCommand
        PROVE  opened' \in Seq(Release) /\ scopes' \in Seq(Project \X Nat) /\ command' \in {"opening", "refused"}
    <3>1. opened' = <<>> /\ scopes' = <<>> /\ command' = "refused"
      BY <2>2 DEF RefuseCommand
    <3> QED BY <3>1
  <2>. HIDE DEF found
  <2> QED BY <1>1, <1>2, <1>3, <1>4, <2>1, <2>2
<1> QED BY <1>1, <1>5, WorkKeeps

\* A scope without a store keeps it.
LEMMA NoStoreKeeps == ASSUME ScopeInv, NoStore PROVE ScopeInv'
<1>1. /\ command = "opening" /\ opened' = <<>> /\ scopes' = <<>> /\ command' = "refused"
      /\ UNCHANGED <<worldVars, selector, registry, doubled, commands, outputVars>>
  BY DEF NoStore, RefuseCommand
<1>2. opened' \in Seq(Release) /\ scopes' \in Seq(Project \X Nat) /\ command' \in {"opening", "refused"}
  BY <1>1
<1> QED BY <1>1, <1>2, WorkKeeps

\* A report that is not of saved requests or of calls leaves what was replayed.
LEMMA ReportTyped ==
  ASSUME ScopeInv, Done, Ready, registry' \in [Project -> [sessions : Nat \cup {-1}, events : Nat \cup {-1}]],
         doubled' \subseteq Project, {listing'.made, shown'.made, request'.made, lineage'.made, replayed'} \subseteq BOOLEAN
  PROVE  QueryScopeTypeOK' /\ opened' = opened /\ selector' = selector /\ command' = "answered"
<1>1. /\ UNCHANGED <<disposition, serving, available, selector, scopes, opened, commands>>
      /\ command' = "answered"
  BY DEF Done, worldVars
<1>2. \A p \in Project : registry'[p].sessions >= -1 /\ registry'[p].events >= -1
  <2>1. ASSUME NEW p \in Project PROVE registry'[p].sessions >= -1 /\ registry'[p].events >= -1
    <3>1. registry'[p].sessions \in Nat \cup {-1} /\ registry'[p].events \in Nat \cup {-1}
      OBVIOUS
    <3> QED BY <3>1
  <2> QED BY <2>1
<1> QED BY <1>1, <1>2 DEF ScopeInv, QueryScopeTypeOK

\* While a command works, it has answered nothing yet.
LEMMA NothingYet == ASSUME ScopeInv, Ready PROVE replayed = FALSE /\ lineage.made = FALSE
BY DEF ScopeInv, QueryScopeTypeOK, OfTheOpened, Ready

\* A command that cannot report refuses.
LEMMA RefusedKeeps ==
  ASSUME ScopeInv, Ready, RefuseCommand,
         UNCHANGED <<worldVars, selector, registry, doubled, commands, outputVars>>
  PROVE  ScopeInv'
<1>1. command = "opening" /\ opened' = <<>> /\ scopes' = <<>> /\ command' = "refused"
  BY DEF RefuseCommand, Ready
<1>2. opened' \in Seq(Release) /\ scopes' \in Seq(Project \X Nat) /\ command' \in {"opening", "refused"}
  BY <1>1
<1> QED BY <1>1, <1>2, WorkKeeps

\* Listing keeps it.
LEMMA ListSessionsKeeps ==
  ASSUME ScopeInv, NEW n \in Nat \cup {AnyNumber}, ListSessions(n) PROVE ScopeInv'
<1>1. /\ Ready /\ Done /\ UNCHANGED <<registry, doubled, shown, request, replayed, lineage>>
      /\ listing' = [made |-> TRUE, reading |-> Reading, rows |-> SessionsInOrder(n)]
  BY DEF ListSessions
<1>2. listing'.made = TRUE /\ listing'.reading = Reading /\ listing'.rows = SessionsInOrder(n)
  BY <1>1
<1>3. replayed = FALSE /\ lineage.made = FALSE
  BY <1>1, NothingYet
<1>4. QueryScopeTypeOK'
  <2>1. /\ registry \in [Project -> [sessions : Nat \cup {-1}, events : Nat \cup {-1}]]
        /\ doubled \subseteq Project /\ {shown.made, request.made} \subseteq BOOLEAN
    BY DEF ScopeInv, QueryScopeTypeOK
  <2> QED BY <1>1, <1>2, <1>3, <2>1, ReportTyped
<1>5. OfTheOpened'
  BY <1>1, <1>3 DEF OfTheOpened
<1>6. Listed'
  <2>1. /\ opened \in Seq(Release)
        /\ listing'.reading = ReadingOf(opened, selector.vendors)
        /\ listing'.rows = FirstOf(Sorted(FoundIn(opened, selector.vendors)), n)
    BY <1>2, FoundHere DEF ScopeInv, QueryScopeTypeOK, SessionsInOrder
  <2> QED BY <1>2, <2>1 DEF Listed
<1>7. Shown' /\ RequestKept' /\ RegistryCountsOneObservation'
  BY <1>1 DEF ScopeInv, Shown, RequestKept, RegistryCountsOneObservation
<1> QED BY <1>1, <1>4, <1>5, <1>6, <1>7 DEF ScopeInv

\* A Session shown, whatever the number says of it.
LEMMA ShownKeeps ==
  ASSUME ScopeInv, Ready, Done, UNCHANGED <<registry, doubled, listing, request, replayed, lineage>>,
         shown'.made = TRUE, Shown'
  PROVE  ScopeInv'
<1>1. replayed = FALSE /\ lineage.made = FALSE
  BY NothingYet
<1>2. QueryScopeTypeOK'
  <2>1. /\ registry \in [Project -> [sessions : Nat \cup {-1}, events : Nat \cup {-1}]]
        /\ doubled \subseteq Project /\ {listing.made, request.made} \subseteq BOOLEAN
    BY DEF ScopeInv, QueryScopeTypeOK
  <2> QED BY <1>1, <2>1, ReportTyped
<1>3. OfTheOpened'
  BY <1>1 DEF OfTheOpened
<1>4. Listed' /\ RequestKept' /\ RegistryCountsOneObservation'
  BY DEF ScopeInv, Listed, RequestKept, RegistryCountsOneObservation
<1> QED BY <1>2, <1>3, <1>4 DEF ScopeInv

\* Showing a Session by its number keeps it.
LEMMA ShowNumberKeeps ==
  ASSUME ScopeInv, NEW n \in Nat, ShowNumber(n) PROVE ScopeInv'
<1>1. Ready /\ UNCHANGED <<registry, doubled, listing, request, replayed, lineage>>
  BY DEF ShowNumber
<1>2. CASE n \in DOMAIN SessionsInOrder(n)
  <2>1. /\ Done
        /\ shown' = [made |-> TRUE, reading |-> Reading, number |-> n, row |-> <<SessionsInOrder(n)[n]>>]
    BY <1>2 DEF ShowNumber
  <2>2. shown'.made = TRUE /\ shown'.number = n /\ shown'.reading = Reading /\ shown'.row = <<SessionsInOrder(n)[n]>>
    BY <2>1
  <2>3. /\ opened \in Seq(Release) /\ Reading = ReadingOf(opened, selector.vendors)
        /\ SessionsInOrder(n) = FirstOf(Sorted(FoundIn(opened, selector.vendors)), n)
    BY FoundHere DEF ScopeInv, QueryScopeTypeOK, SessionsInOrder
  <2>4. Shown'
    BY <1>2, <2>2, <2>3 DEF Shown
  <2> QED BY <1>1, <2>1, <2>2, <2>4, ShownKeeps
<1>3. CASE n \notin DOMAIN SessionsInOrder(n)
  <2>1. RefuseCommand /\ UNCHANGED <<worldVars, selector, commands, shown>>
    BY <1>3 DEF ShowNumber
  <2> QED BY <1>1, <2>1, RefusedKeeps DEF outputVars
<1> QED BY <1>2, <1>3

\* Showing a Session by its identifier keeps it.
LEMMA ShowIdentifiedKeeps ==
  ASSUME ScopeInv, NEW id, ShowIdentified(id) PROVE ScopeInv'
<1>. DEFINE same == {x \in AllFound : x.session.id = id}
<1>1. Ready /\ UNCHANGED <<registry, doubled, listing, request, replayed, lineage>>
  BY DEF ShowIdentified
<1>2. CASE Cardinality(same) = 1
  <2>1. Done /\ shown' = [made |-> TRUE, reading |-> Reading, number |-> 0, row |-> SetToSeq(same)]
    BY <1>2 DEF ShowIdentified
  <2>2. shown'.made = TRUE /\ shown'.number = 0
    BY <2>1
  <2>3. Shown'
    BY <2>2 DEF Shown
  <2> QED BY <1>1, <2>1, <2>2, <2>3, ShownKeeps
<1>3. CASE Cardinality(same) # 1
  <2>1. RefuseCommand /\ UNCHANGED <<worldVars, selector, commands, shown>>
    BY <1>3 DEF ShowIdentified
  <2> QED BY <1>1, <2>1, RefusedKeeps DEF outputVars
<1> QED BY <1>2, <1>3

\* Counting a Project opened once remembers that release; one not opened, nothing.
LEMMA CountStatsKeeps == ASSUME ScopeInv, CountStats PROVE ScopeInv'
<1>1. Ready /\ Done /\ UNCHANGED <<listing, shown, request, replayed, lineage>>
  BY DEF CountStats, outputVars
<1>2. /\ opened \in Seq(Release) /\ doubled \subseteq Project
      /\ registry \in [Project -> [sessions : Nat \cup {-1}, events : Nat \cup {-1}]]
  BY DEF ScopeInv, QueryScopeTypeOK
<1>3. AllFound = FoundIn(opened, selector.vendors)
  BY FoundHere
<1>. DEFINE R == [sessions : Nat \cup {-1}, events : Nat \cup {-1}]
<1>4. registry' \in [Project -> R] /\ doubled' \subseteq Project
  <2>1. CASE ~Remembers
    <3>1. registry' = registry /\ doubled' = doubled
      BY <2>1 DEF CountStats
    <3> QED BY <1>2, <3>1
  <2>2. CASE Remembers
    <3>. DEFINE c(p) == CountsOf({x \in AllFound : x.project = p})
    <3>1. registry' = [p \in Project |-> IF p \in Roots THEN c(p) ELSE registry[p]]
      BY <2>2 DEF CountStats
    <3>2. \A p \in Project : c(p) \in [sessions : Nat, events : Nat]
      <4>1. ASSUME NEW p \in Project PROVE c(p) \in [sessions : Nat, events : Nat]
        <5>. DEFINE S == {x \in AllFound : x.project = p}
        <5>1. S \subseteq FoundIn(opened, selector.vendors)
          BY <1>3
        <5>. HIDE DEF S
        <5>2. CountsOf(S) \in [sessions : Nat, events : Nat]
          BY <1>2, <5>1, CountsAreNumbers
        <5> QED BY <5>2 DEF S
      <4> QED BY <4>1
    <3>3. [sessions : Nat, events : Nat] \subseteq R
      OBVIOUS
    <3>4. doubled' = doubled \cup {p \in Project : \E i, j \in DOMAIN opened :
                                     i # j /\ opened[i].project = p /\ opened[j].project = p}
      BY <2>2 DEF CountStats
    <3>. HIDE DEF c
    <3>5. \A p \in Project : (IF p \in Roots THEN c(p) ELSE registry[p]) \in R
      BY <1>2, <3>2, <3>3
    <3>. HIDE DEF R
    <3> QED BY <1>2, <3>1, <3>4, <3>5
  <2> QED BY <2>1, <2>2
<1>5. RegistryCountsOneObservation'
  <2>1. CASE ~Remembers
    <3>1. registry' = registry /\ doubled' = doubled
      BY <2>1 DEF CountStats
    <3> QED BY <3>1 DEF ScopeInv, RegistryCountsOneObservation
  <2>2. CASE Remembers
    <3>. DEFINE Of(p) == {[sessions |-> Cardinality(r.sessions),
                           events   |-> Cardinality(UNION {{s} \X DOMAIN s.says : s \in r.sessions})] :
                            r \in {x \in Release : x.project = p}}
                c(p) == CountsOf({x \in AllFound : x.project = p})
    <3>1. registry' = [p \in Project |-> IF p \in Roots THEN c(p) ELSE registry[p]]
      BY <2>2 DEF CountStats
    <3>2. doubled' = doubled \cup {p \in Project : \E i, j \in DOMAIN opened :
                                     i # j /\ opened[i].project = p /\ opened[j].project = p}
      BY <2>2 DEF CountStats
    <3>3. AllFound = FoundIn(opened, {})
      BY <1>3, <2>2 DEF Remembers
    <3>4. ASSUME NEW p \in Project \ doubled', p \in Roots
          PROVE  c(p) \in {NoCounts, [sessions |-> 0, events |-> 0]} \cup Of(p)
      <4>1. CASE \E i \in DOMAIN opened : opened[i].project = p
        <5>1. PICK i \in DOMAIN opened : opened[i].project = p
          BY <4>1
        <5>2. \A j \in DOMAIN opened : opened[j].project = opened[i].project => j = i
          BY <3>2, <5>1
        <5>3. c(p) = [sessions |-> Cardinality(opened[i].sessions),
                      events |-> Cardinality(UNION {{s} \X DOMAIN s.says : s \in opened[i].sessions})]
          <6>1. CountsOf({x \in FoundIn(opened, {}) : x.project = opened[i].project}) =
                  [sessions |-> Cardinality(opened[i].sessions),
                   events |-> Cardinality(UNION {{s} \X DOMAIN s.says : s \in opened[i].sessions})]
            BY <1>2, <5>2, CountsAreOfTheRelease
          <6> QED BY <3>3, <5>1, <6>1
        <5>4. opened[i] \in Release
          BY <1>2
        <5>5. c(p) \in Of(p)
          <6>. DEFINE g(r) == [sessions |-> Cardinality(r.sessions),
                               events   |-> Cardinality(UNION {{s} \X DOMAIN s.says : s \in r.sessions})]
                      L == {x \in Release : x.project = p}
          <6>1. Of(p) = {g(r) : r \in L}
            OBVIOUS
          <6>2. opened[i] \in L /\ c(p) = g(opened[i])
            BY <5>1, <5>3, <5>4
          <6>. HIDE DEF g, L, c, Of
          <6> QED BY <6>1, <6>2
        <5> QED BY <5>5
      <4>2. CASE ~ \E i \in DOMAIN opened : opened[i].project = p
        <5>1. {x \in AllFound : x.project = p} = {}
          BY <3>3, <4>2 DEF FoundIn
        <5>2. c(p) = [sessions |-> 0, events |-> 0]
          BY <5>1, NothingIsCounted
        <5> QED BY <5>2
      <4> QED BY <4>1, <4>2
    <3>5. \A p \in Project \ doubled : registry[p] \in {NoCounts, [sessions |-> 0, events |-> 0]} \cup Of(p)
      BY DEF ScopeInv, RegistryCountsOneObservation
    <3>6. \A p \in Project \ doubled' : registry'[p] \in {NoCounts, [sessions |-> 0, events |-> 0]} \cup Of(p)
      <4>1. \A p \in Project : registry'[p] = IF p \in Roots THEN c(p) ELSE registry[p]
        BY <3>1
      <4>2. Project \ doubled' \subseteq Project \ doubled
        BY <3>2
      <4>. HIDE DEF Of, c
      <4> QED BY <3>4, <3>5, <4>1, <4>2
    <3>7. (RegistryCountsOneObservation)' <=>
            \A p \in Project \ doubled' : registry'[p] \in {NoCounts, [sessions |-> 0, events |-> 0]} \cup Of(p)
      BY DEF RegistryCountsOneObservation
    <3> QED BY <3>6, <3>7
  <2> QED BY <2>1, <2>2
<1>6. replayed = FALSE /\ lineage.made = FALSE
  BY <1>1, NothingYet
<1>7. QueryScopeTypeOK'
  <2>1. {listing.made, shown.made, request.made} \subseteq BOOLEAN
    BY DEF ScopeInv, QueryScopeTypeOK
  <2> QED BY <1>1, <1>4, <1>6, <2>1, ReportTyped
<1>8. OfTheOpened' /\ Listed' /\ Shown' /\ RequestKept'
  BY <1>1, <1>6 DEF OfTheOpened, ScopeInv, Listed, Shown, RequestKept
<1> QED BY <1>4, <1>5, <1>7, <1>8 DEF ScopeInv

\* A request saved names the snapshots opened.
LEMMA SaveRequestKeeps == ASSUME ScopeInv, SaveRequest PROVE ScopeInv'
<1>1. /\ Ready /\ Done /\ UNCHANGED <<registry, doubled, listing, shown, replayed, lineage>>
      /\ request' = [made |-> TRUE, by |-> selector.by, snapshot |-> selector.snapshot,
                     projects |-> ProjectsOpened, snapshots |-> Observations, read |-> ToSet(opened)]
  BY DEF SaveRequest
<1>2. /\ request'.made = TRUE /\ request'.by = selector.by /\ request'.snapshots = Observations
      /\ request'.read = ToSet(opened)
  BY <1>1
<1>3. replayed = FALSE /\ lineage.made = FALSE
  BY <1>1, NothingYet
<1>4. QueryScopeTypeOK'
  <2>1. /\ registry \in [Project -> [sessions : Nat \cup {-1}, events : Nat \cup {-1}]]
        /\ doubled \subseteq Project /\ {listing.made, shown.made} \subseteq BOOLEAN
    BY DEF ScopeInv, QueryScopeTypeOK
  <2> QED BY <1>1, <1>2, <1>3, <2>1, ReportTyped
<1>5. RequestKept'
  <2>1. ASSUME request'.by # "paths"
        PROVE  /\ request'.read \subseteq Release /\ request'.read # {}
               /\ request'.snapshots = {<<r.project, r.name>> : r \in request'.read}
    <3>1. opened \in Seq(Release) /\ opened # <<>>
      BY <1>1 DEF Ready, ScopeInv, QueryScopeTypeOK
    <3>. DEFINE T == ToSet(opened)
    <3>2. T = {opened[i] : i \in DOMAIN opened}
      BY DEF ToSet
    <3>3. T \subseteq Release /\ T # {}
      BY <3>1, <3>2
    <3>4. Observations = {<<opened[i].project, opened[i].name>> : i \in DOMAIN opened}
      BY <1>2, <2>1 DEF Observations
    <3>5. Observations = {<<r.project, r.name>> : r \in T}
      BY <3>2, <3>4
    <3> QED BY <1>2, <3>3, <3>5
  <2> QED BY <2>1 DEF RequestKept
<1>6. OfTheOpened' /\ Listed' /\ Shown' /\ RegistryCountsOneObservation'
  BY <1>1, <1>3 DEF OfTheOpened, ScopeInv, Listed, Shown, RegistryCountsOneObservation
<1> QED BY <1>1, <1>4, <1>5, <1>6 DEF ScopeInv

\* Repeating a saved request keeps it.
LEMMA ReplayKeeps == ASSUME ScopeInv, Replay PROVE ScopeInv'
<1>1. Ready /\ request.made /\ UNCHANGED <<registry, doubled, listing, shown, request, lineage>>
  BY DEF Replay
<1>2. CASE SameScope
  <2>1. Done /\ replayed' = TRUE
    BY <1>2 DEF Replay
  <2>2. lineage.made = FALSE
    BY <1>1, NothingYet
  <2>3. /\ registry \in [Project -> [sessions : Nat \cup {-1}, events : Nat \cup {-1}]]
        /\ doubled \subseteq Project /\ {listing.made, shown.made, request.made} \subseteq BOOLEAN
    BY DEF ScopeInv, QueryScopeTypeOK
  <2>4. QueryScopeTypeOK' /\ opened' = opened /\ selector' = selector /\ command' = "answered"
    BY <1>1, <2>1, <2>2, <2>3, ReportTyped
  <2>5. Observations' = Observations
    BY <2>4 DEF Observations
  <2>6. request.snapshots = {} \/ request.snapshots = Observations
    BY <1>2 DEF SameScope
  <2>7. OfTheOpened'
    BY <1>1, <2>2, <2>4, <2>5, <2>6 DEF OfTheOpened
  <2> QED BY <1>1, <2>4, <2>7, LeftAsItWas
<1>3. CASE ~SameScope
  <2>1. RefuseCommand /\ UNCHANGED <<worldVars, selector, commands, replayed>>
    BY <1>3 DEF Replay
  <2> QED BY <1>1, <2>1, RefusedKeeps DEF outputVars
<1> QED BY <1>2, <1>3

\* Pairing calls with results keeps it.
LEMMA PairCallsKeeps == ASSUME ScopeInv, PairCalls PROVE ScopeInv'
<1>1. /\ Ready /\ Done /\ UNCHANGED <<registry, doubled, listing, shown, request, replayed>>
      /\ lineage' = [made |-> TRUE, rows |-> Lineage]
  BY DEF PairCalls
<1>2. lineage'.made = TRUE /\ lineage'.rows = Lineage
  BY <1>1
<1>3. replayed = FALSE
  BY <1>1, NothingYet
<1>4. /\ registry \in [Project -> [sessions : Nat \cup {-1}, events : Nat \cup {-1}]]
      /\ doubled \subseteq Project /\ {listing.made, shown.made, request.made} \subseteq BOOLEAN
  BY DEF ScopeInv, QueryScopeTypeOK
<1>5. QueryScopeTypeOK' /\ opened' = opened /\ selector' = selector /\ command' = "answered"
  BY <1>1, <1>2, <1>3, <1>4, ReportTyped
<1>6. Lineage' = Lineage
  BY <1>5 DEF Lineage, Paired, Said, AllFound, Found, Ours
<1>7. OfTheOpened'
  BY <1>1, <1>2, <1>3, <1>5, <1>6 DEF OfTheOpened
<1> QED BY <1>1, <1>5, <1>7, LeftAsItWas

\* Every step keeps it.
LEMMA ScopeKeeps == ASSUME ScopeInv, [QueryScopeNext]_scopeVars PROVE ScopeInv'
<1>1. CASE Meanwhile
  BY <1>1, MeanwhileKeeps
<1>2. ASSUME NEW q \in ScopeRequest, Resolve(q) PROVE ScopeInv'
  BY <1>2, ResolveKeeps
<1>3. CASE OpenNext
  BY <1>3, OpenNextKeeps
<1>4. CASE NoStore
  BY <1>4, NoStoreKeeps
<1>5. ASSUME NEW n \in {AnyNumber, 1, 2}, ListSessions(n) PROVE ScopeInv'
  BY <1>5, ListSessionsKeeps
<1>6. ASSUME NEW n \in 1..3, ShowNumber(n) PROVE ScopeInv'
  BY <1>6, ShowNumberKeeps
<1>7. ASSUME NEW id, ShowIdentified(id) PROVE ScopeInv'
  BY <1>7, ShowIdentifiedKeeps
<1>8. CASE CountStats
  BY <1>8, CountStatsKeeps
<1>9. CASE SaveRequest
  BY <1>9, SaveRequestKeeps
<1>10. CASE Replay
  BY <1>10, ReplayKeeps
<1>11. CASE PairCalls
  BY <1>11, PairCallsKeeps
<1>12. CASE UNCHANGED scopeVars
  <2>1. /\ UNCHANGED <<disposition, serving, available, selector, scopes, opened, command, registry, doubled>>
        /\ UNCHANGED <<listing, shown, request, replayed, lineage, commands>>
    BY <1>12 DEF scopeVars
  <2>2. Lineage' = Lineage /\ Observations' = Observations
    BY <2>1 DEF Lineage, Paired, Said, AllFound, Found, Ours, Observations
  <2>3. OfTheOpened' /\ QueryScopeTypeOK'
    BY <2>1, <2>2 DEF ScopeInv, OfTheOpened, QueryScopeTypeOK
  <2> QED BY <2>1, <2>3, LeftAsItWas
<1> QED BY <1>1, <1>2, <1>3, <1>4, <1>5, <1>6, <1>7, <1>8, <1>9, <1>10, <1>11, <1>12 DEF QueryScopeNext

\* What the invariant says of the four reports.
LEMMA ScopeInvTells == ScopeInv => CommandsReadTheirSnapshots
<1>. SUFFICES ASSUME ScopeInv PROVE CommandsReadTheirSnapshots
  OBVIOUS
<1>1. NumbersNameTheListed
  <2>. SUFFICES ASSUME shown.made, shown.number \in DOMAIN listing.rows, shown.reading = listing.reading
                PROVE  shown.row = <<listing.rows[shown.number]>>
    BY DEF NumbersNameTheListed
  <2>1. listing.made
    <3>1. ~listing.made => listing.rows = <<>>
      BY DEF ScopeInv, Listed
    <3> QED BY <3>1
  <2>2. PICK o, v, n :
          /\ o \in Seq(Release) /\ n \in Nat \cup {AnyNumber}
          /\ listing.reading = ReadingOf(o, v) /\ listing.rows = FirstOf(Sorted(FoundIn(o, v)), n)
    <3>1. \E o \in Seq(Release) : \E v : \E n \in Nat \cup {AnyNumber} :
            /\ listing.reading = ReadingOf(o, v) /\ listing.rows = FirstOf(Sorted(FoundIn(o, v)), n)
      BY <2>1 DEF ScopeInv, Listed
    <3> QED BY <3>1, Zenon
  <2>3. shown.number \in Nat \ {0}
    BY <2>2, SameNumberSameRow
  <2>4. PICK p, w, m :
          /\ p \in Seq(Release) /\ m \in Nat
          /\ m = shown.number /\ shown.reading = ReadingOf(p, w)
          /\ m \in DOMAIN FirstOf(Sorted(FoundIn(p, w)), m)
          /\ shown.row = <<FirstOf(Sorted(FoundIn(p, w)), m)[m]>>
    <3>1. \E p \in Seq(Release) : \E w : \E m \in Nat :
            /\ m = shown.number /\ shown.reading = ReadingOf(p, w)
            /\ m \in DOMAIN FirstOf(Sorted(FoundIn(p, w)), m)
            /\ shown.row = <<FirstOf(Sorted(FoundIn(p, w)), m)[m]>>
      BY <2>3 DEF ScopeInv, Shown
    <3> QED BY <3>1, Zenon
  <2>5. o = p /\ v = w
    BY <2>2, <2>4, ReadingTells
  <2>6. FirstOf(Sorted(FoundIn(o, v)), n)[m] = FirstOf(Sorted(FoundIn(o, v)), m)[m]
    BY <2>2, <2>4, <2>5, SameNumberSameRow
  <2> QED BY <2>2, <2>4, <2>5, <2>6
<1>2. ReplayReadsTheSame
  <2>. SUFFICES ASSUME replayed, "paths" \notin {request.by, selector.by}
                PROVE  request.read = ToSet(opened)
    BY DEF ReplayReadsTheSame
  <2>. DEFINE T == ToSet(opened)
              r == request.read
  <2>1. /\ r \subseteq Release /\ r # {}
        /\ request.snapshots = {<<x.project, x.name>> : x \in r}
        /\ request.snapshots = {} \/ request.snapshots = Observations
    BY DEF ScopeInv, OfTheOpened, RequestKept
  <2>2. opened \in Seq(Release) /\ T = {opened[i] : i \in DOMAIN opened}
    BY DEF ScopeInv, QueryScopeTypeOK, ToSet
  <2>3. Observations = {<<opened[i].project, opened[i].name>> : i \in DOMAIN opened}
    BY DEF Observations
  <2>4. T \subseteq Release
    BY <2>2
  <2>5. \A q : q \in Observations <=> \E x \in T : q = <<x.project, x.name>>
    BY <2>2, <2>3
  <2>6. \A q : q \in request.snapshots <=> \E x \in r : q = <<x.project, x.name>>
    BY <2>1
  <2>7. request.snapshots = Observations
    <3>. HIDE DEF r
    <3>1. PICK x : x \in r
      BY <2>1
    <3>2. <<x.project, x.name>> \in request.snapshots
      BY <2>6, <3>1
    <3> QED BY <2>1, <3>2
  <2>. HIDE DEF T, r
  <2>8. \A x \in r : x \in T
    <3>1. ASSUME NEW x \in r PROVE x \in T
      <4>1. PICK y \in T : <<x.project, x.name>> = <<y.project, y.name>>
        BY <2>5, <2>6, <2>7
      <4>2. x.project = y.project /\ x.name = y.name
        BY <4>1
      <4> QED BY <2>1, <2>4, <4>2, ScopeFacts
    <3> QED BY <3>1
  <2>9. \A x \in T : x \in r
    <3>1. ASSUME NEW x \in T PROVE x \in r
      <4>1. PICK y \in r : <<x.project, x.name>> = <<y.project, y.name>>
        BY <2>5, <2>6, <2>7
      <4>2. x.project = y.project /\ x.name = y.name
        BY <4>1
      <4> QED BY <2>1, <2>4, <4>2, ScopeFacts
    <3> QED BY <3>1
  <2> QED BY <2>8, <2>9 DEF T, r
<1>3. LineageAccountsForAll
  <2>. SUFFICES ASSUME lineage.made PROVE LineageAccountsForAll
    BY DEF LineageAccountsForAll
  <2>1. lineage.rows = Lineage /\ opened \in Seq(Release)
    BY DEF ScopeInv, OfTheOpened, QueryScopeTypeOK
  <2> QED BY <2>1, PairingAccounts DEF LineageAccountsForAll
<1> QED BY <1>1, <1>2, <1>3 DEF ScopeInv, CommandsReadTheirSnapshots

\* What commands select, open, list, show and keep is well typed (query_cmd.py).
THEOREM CommandsAreTyped == QueryScopeSpec => []QueryScopeTypeOK
<1>1. ScopeInv => QueryScopeTypeOK
  BY DEF ScopeInv
<1> QED BY <1>1, ScopeStarts, ScopeKeeps, PTL DEF QueryScopeSpec

\* The number of a listing names the same Session to a later command that reads the
\* same, the counts the registry remembers of a Project are all of one snapshot, a
\* saved request is answered again only over the snapshots it was made of, and every
\* call and result is in one row of the lineage (query_cmd.py, query_reports.py).
THEOREM CommandsTellTheirSnapshots == QueryScopeSpec => []CommandsReadTheirSnapshots
BY ScopeStarts, ScopeKeeps, ScopeInvTells, PTL DEF QueryScopeSpec

---------------------------------------------------------------------------
(* The overview. *)

\* The greatest of some numbers.
LEMMA MaxIs ==
  ASSUME NEW S, S \subseteq Nat, NEW m \in S, \A x \in S : x <= m
  PROVE  Max(S) = m
<1>1. m \in S /\ \A x \in S : m >= x
  OBVIOUS
<1>2. Max(S) \in S /\ \A x \in S : Max(S) >= x
  BY <1>1 DEF Max
<1>. DEFINE k == Max(S)
<1>3. k \in Nat /\ m \in Nat /\ k >= m /\ k <= m
  BY <1>1, <1>2
<1>. HIDE DEF k
<1>4. k = m
  BY <1>3
<1> QED BY <1>4 DEF k

\* The lesser of two numbers.
LEMMA MinOfTwo ==
  ASSUME NEW a \in Nat, NEW b \in Nat
  PROVE  Min({a, b}) \in Nat /\ Min({a, b}) <= b /\ (a >= b => Min({a, b}) = b)
<1>1. \E x \in {a, b} : \A y \in {a, b} : x =< y
  <2>1. a <= b \/ b <= a
    OBVIOUS
  <2> QED BY <2>1
<1>2. Min({a, b}) \in {a, b} /\ \A y \in {a, b} : Min({a, b}) =< y
  BY <1>1 DEF Min
<1>. DEFINE m == Min({a, b})
<1>3. (m = a \/ m = b) /\ m <= a /\ m <= b
  BY <1>2
<1>. HIDE DEF m
<1>4. m \in Nat /\ m <= b /\ (a >= b => m = b)
  BY <1>3
<1> QED BY <1>4 DEF m

Gaps(times, cap) == [i \in DOMAIN times |-> IF i = 1 THEN 0 ELSE Min({cap, times[i] - times[i - 1]})]
Span(times) == IF times = <<>> THEN 0 ELSE times[Len(times)] - times[1]

\* Capped gaps add up to the span at most, and to it when no gap is above the cap.
LEMMA GapsAddUp ==
  ASSUME NEW times \in Seq(Nat), \A i, j \in DOMAIN times : i < j => times[i] <= times[j], NEW cap \in Nat
  PROVE  /\ Span(times) \in Nat /\ Total(Gaps(times, cap)) \in Nat
         /\ Total(Gaps(times, cap)) <= Span(times)
         /\ cap >= Span(times) => Total(Gaps(times, cap)) = Span(times)
<1>. DEFINE n == Len(times)
            s == Gaps(times, cap)
            x == Span(times)
<1>1. n \in Nat /\ DOMAIN times = 1..n /\ (\A i \in 1..n : times[i] \in Nat) /\ (times = <<>> <=> n = 0)
  OBVIOUS
<1>2. /\ x \in Nat /\ (n = 0 => x = 0) /\ (n # 0 => x = times[n] - times[1])
      /\ \A i \in 1..n : times[i] <= times[n] /\ times[1] <= times[i]
  <2>1. CASE n = 0
    BY <1>1, <2>1 DEF Span
  <2>2. CASE n # 0
    <3>1. n \in 1..n /\ 1 \in 1..n
      BY <1>1, <2>2
    <3>2. ASSUME NEW i \in 1..n PROVE times[i] <= times[n] /\ times[1] <= times[i]
      <4>1. (i = n \/ i < n) /\ (i = 1 \/ 1 < i)
        <5>. HIDE DEF n
        <5> QED BY <1>1
      <4>2. times[i] \in Nat
        BY <1>1
      <4>3. times[n] \in Nat /\ times[1] \in Nat
        BY <1>1, <3>1
      <4>4. i = n => times[i] <= times[n]
        BY <4>3
      <4>5. i = 1 => times[1] <= times[i]
        BY <4>3
      <4>6. i < n => times[i] <= times[n]
        <5>. HIDE DEF n
        <5> QED BY <1>1, <3>1
      <4>7. 1 < i => times[1] <= times[i]
        <5>. HIDE DEF n
        <5> QED BY <1>1, <3>1
      <4> QED BY <4>1, <4>4, <4>5, <4>6, <4>7
    <3>3. x = times[n] - times[1]
      BY <1>1, <2>2 DEF Span
    <3>. DEFINE a == times[n]
                b == times[1]
    <3>4. a \in Nat /\ b \in Nat /\ b <= a /\ x = a - b
      BY <1>1, <3>1, <3>2, <3>3
    <3>. HIDE DEF a, b, x
    <3>5. x \in Nat
      BY <3>4
    <3> QED BY <2>2, <3>2, <3>3, <3>5
  <2> QED BY <2>1, <2>2
<1>3. \A i \in 1..n : i # 1 => s[i] \in Nat /\ s[i] <= times[i] - times[i - 1]
                                /\ (cap >= x => s[i] = times[i] - times[i - 1])
  <2>1. ASSUME NEW i \in 1..n, i # 1
        PROVE  /\ s[i] \in Nat /\ s[i] <= times[i] - times[i - 1]
               /\ cap >= x => s[i] = times[i] - times[i - 1]
    <3>. DEFINE a == times[i]
                b == times[i - 1]
                g == a - b
                e == times[n]
                f == times[1]
    <3>1. i - 1 \in 1..n /\ i - 1 < i /\ n # 0
      BY <1>1, <2>1
    <3>2. a \in Nat /\ b \in Nat /\ b <= a /\ e \in Nat /\ f \in Nat /\ a <= e /\ f <= b /\ x = e - f
      <4>1. n \in 1..n /\ 1 \in 1..n
        BY <1>1, <3>1
      <4> QED BY <1>1, <1>2, <2>1, <3>1, <4>1
    <3>3. g \in Nat /\ g <= x
      <4>. HIDE DEF a, b, e, f, x
      <4> QED BY <3>2
    <3>4. s[i] = Min({cap, g})
      BY <1>1, <2>1 DEF Gaps
    <3>. HIDE DEF g, x
    <3>5. Min({cap, g}) \in Nat /\ Min({cap, g}) <= g /\ (cap >= g => Min({cap, g}) = g)
      BY <3>3, MinOfTwo
    <3>6. cap >= x => cap >= g
      BY <1>2, <3>3
    <3>. HIDE DEF s
    <3>7. s[i] \in Nat /\ s[i] <= g /\ (cap >= x => s[i] = g)
      BY <3>4, <3>5, <3>6
    <3> QED BY <3>7 DEF g
  <2> QED BY <2>1
<1>4. s[1] = 0 \/ n = 0
  BY <1>1 DEF Gaps
<1>5. s \in [1..n -> Nat] /\ s \in Seq(Nat) /\ Len(s) = n
  <2>1. DOMAIN s = 1..n /\ s = [i \in 1..n |-> s[i]]
    BY <1>1 DEF Gaps
  <2>2. \A i \in 1..n : s[i] \in Nat
    <3>. HIDE DEF s, n
    <3>1. ASSUME NEW i \in 1..n PROVE s[i] \in Nat
      <4>1. i = 1 => s[i] \in Nat
        BY <1>1, <1>4
      <4> QED BY <1>3, <4>1
    <3> QED BY <3>1
  <2>. HIDE DEF s, n
  <2>3. s \in [1..n -> Nat]
    BY <2>1, <2>2
  <2> QED BY <1>1, <2>3
<1>. HIDE DEF s, n
<1>6. PICK t : Sums(s, t) /\ Total(s) = t[n]
  BY <1>5, TotalSums
<1>7. /\ t \in [0..n -> Nat] /\ t[0] = 0 /\ \A i \in 1..n : t[i] = t[i - 1] + s[i] /\ t[i] \in Nat /\ t[i - 1] \in Nat
  BY <1>1, <1>5, <1>6 DEF Sums
<1>. DEFINE K == {i \in 1..n : t[i] <= times[i] - times[1] /\ (cap >= x => t[i] = times[i] - times[1])}
<1>. HIDE DEF x
<1>8. 1 \in K \/ n = 0
  <2>1. ASSUME n # 0 PROVE 1 \in K
    <3>1. 1 \in 1..n /\ 1 - 1 = 0
      BY <1>1, <2>1
    <3>2. t[1] = 0
      BY <1>4, <1>7, <2>1, <3>1
    <3>3. times[1] \in Nat
      BY <1>1, <3>1
    <3>4. times[1] - times[1] = 0
      BY <3>3
    <3> QED BY <3>1, <3>2, <3>4
  <2> QED BY <2>1
<1>9. ASSUME NEW i \in 1..n - 1, i \in K PROVE i + 1 \in K
  <2>1. i + 1 \in 1..n /\ (i + 1) - 1 = i /\ i + 1 # 1 /\ i \in 1..n /\ 1 \in 1..n
    BY <1>1
  <2>. DEFINE a == times[i + 1]
              b == times[i]
              f == times[1]
              p == t[i + 1]
              q == t[i]
              g == s[i + 1]
  <2>2. a \in Nat /\ b \in Nat /\ f \in Nat /\ p \in Nat /\ q \in Nat /\ p = q + g
    BY <1>1, <1>7, <2>1
  <2>3. g \in Nat /\ g <= a - b /\ (cap >= x => g = a - b)
    <3>. DEFINE j == i + 1
    <3>1. j \in 1..n /\ j # 1 /\ j - 1 = i
      BY <2>1
    <3>. HIDE DEF j
    <3>2. s[j] \in Nat /\ s[j] <= times[j] - times[i] /\ (cap >= x => s[j] = times[j] - times[i])
      BY <1>3, <3>1
    <3> QED BY <3>2 DEF j
  <2>4. q <= b - f /\ (cap >= x => q = b - f)
    BY <1>9
  <2>. HIDE DEF a, b, f, p, q, g
  <2>5. p <= a - f /\ (cap >= x => p = a - f)
    BY <2>2, <2>3, <2>4
  <2> QED BY <2>1, <2>5 DEF p, a, f
<1>10. \A i \in 1..n : i \in K
  <2>. HIDE DEF K
  <2> QED BY <1>1, <1>8, <1>9, UpTo
<1>11. CASE n = 0
  <2>1. x = 0 /\ Total(s) = 0
    BY <1>2, <1>6, <1>7, <1>11
  <2>2. x \in Nat /\ Total(s) \in Nat /\ Total(s) <= x /\ (cap >= x => Total(s) = x)
    BY <2>1
  <2> QED BY <2>2 DEF x, s
<1>12. CASE n # 0
  <2>1. n \in 1..n
    BY <1>1, <1>12
  <2>2. t[n] <= x /\ (cap >= x => t[n] = x) /\ t[n] \in Nat
    BY <1>2, <1>7, <1>10, <1>12, <2>1
  <2> QED BY <1>2, <1>6, <2>2 DEF x, s
<1> QED BY <1>11, <1>12

\* The sizes of the parts of a set add up to its own.
LEMMA PartsAddUp ==
  ASSUME NEW R, IsFiniteSet(R), NEW n \in Nat, NEW parts \in [1..n -> SUBSET R], NEW s \in Seq(Nat), Len(s) = n,
         \A i \in 1..n : s[i] = Cardinality(parts[i]),
         \A i, j \in 1..n : i < j => parts[i] \cap parts[j] = {},
         \A r \in R : \E i \in 1..n : r \in parts[i]
  PROVE  Total(s) = Cardinality(R)
<1>. DEFINE U(k) == {r \in R : \E j \in 1..k : r \in parts[j]}
<1>1. PICK t : Sums(s, t) /\ Total(s) = t[n]
  BY TotalSums
<1>2. t \in [0..n -> Nat] /\ t[0] = 0 /\ \A i \in 1..n : t[i] = t[i - 1] + s[i]
  BY <1>1 DEF Sums
<1>3. \A k \in 0..n : IsFiniteSet(U(k))
  <2>1. \A k \in 0..n : U(k) \in SUBSET R
    OBVIOUS
  <2>. HIDE DEF U
  <2> QED BY <2>1, FS_Subset
<1>4. U(0) = {} /\ Cardinality({}) = 0
  BY FS_EmptySet
<1>. DEFINE K == {k \in 1..n : t[k] = Cardinality(U(k))}
<1>5. ASSUME NEW k \in 0..n - 1, t[k] = Cardinality(U(k)) PROVE t[k + 1] = Cardinality(U(k + 1))
  <2>. DEFINE m == k + 1
              A == U(k)
              B == parts[m]
  <2>1. m \in 1..n /\ m - 1 = k /\ k \in 0..n /\ k \in Nat /\ m \in 0..n
    OBVIOUS
  <2>2. U(m) = A \cup B
    <3>1. \A j : j \in 1..m <=> j \in 1..k \/ j = m
      BY <2>1
    <3>2. B \subseteq R
      BY <2>1
    <3>. HIDE DEF m
    <3> QED BY <3>1, <3>2
  <2>3. A \cap B = {}
    <3>1. \A j \in 1..k : j \in 1..n /\ j < m
      BY <2>1
    <3>. HIDE DEF m
    <3> QED BY <2>1, <3>1
  <2>4. IsFiniteSet(A) /\ IsFiniteSet(B)
    <3>1. B \in SUBSET R
      BY <2>1
    <3>. HIDE DEF B, U, m
    <3> QED BY <1>3, <2>1, <3>1, FS_Subset
  <2>. HIDE DEF A, B
  <2>5. /\ Cardinality(A \cup B) = Cardinality(A) + Cardinality(B) - Cardinality(A \cap B)
        /\ Cardinality(A) \in Nat /\ Cardinality(B) \in Nat
    BY <2>4, FS_Union, FS_CardinalityType
  <2>6. Cardinality(A \cap B) = 0
    BY <2>3, <1>4
  <2>. DEFINE a == Cardinality(A)
              b == Cardinality(B)
              c == Cardinality(A \cup B)
              z == Cardinality(A \cap B)
  <2>7. a \in Nat /\ b \in Nat /\ c = a + b - z /\ z = 0
    BY <2>5, <2>6
  <2>. HIDE DEF a, b, c, z
  <2>8. c = a + b
    BY <2>7
  <2>9. t[m] = t[k] + s[m] /\ s[m] = b /\ t[k] = a
    <3>1. t[m] = t[m - 1] + s[m]
      BY <1>2, <2>1
    <3>2. s[m] = b
      BY <2>1 DEF b, B
    <3> QED BY <1>5, <2>1, <3>1, <3>2 DEF a, A
  <2>10. Cardinality(U(m)) = c
    BY <2>2 DEF c, U
  <2> QED BY <2>8, <2>9, <2>10
<1>. HIDE DEF U
<1>6. t[0] = Cardinality(U(0))
  BY <1>2, <1>4
<1>7. 1 \in K \/ n = 0
  <2>1. ASSUME n # 0 PROVE 1 \in K
    <3>1. 0 \in 0..n - 1 /\ 1 \in 1..n /\ 0 + 1 = 1
      BY <2>1
    <3>2. t[0 + 1] = Cardinality(U(0 + 1))
      BY <1>5, <1>6, <3>1
    <3> QED BY <3>1, <3>2
  <2> QED BY <2>1
<1>8. ASSUME NEW k \in 1..n - 1, k \in K PROVE k + 1 \in K
  <2>1. k \in 0..n - 1 /\ k + 1 \in 1..n
    OBVIOUS
  <2> QED BY <1>5, <1>8, <2>1
<1>9. \A k \in 1..n : k \in K
  <2>. HIDE DEF K
  <2> QED BY <1>7, <1>8, UpTo
<1>10. t[n] = Cardinality(U(n))
  <2>1. n = 0 \/ n \in 1..n
    OBVIOUS
  <2> QED BY <1>6, <1>9, <2>1
<1>11. U(n) = R
  BY DEF U
<1> QED BY <1>1, <1>10, <1>11

\* The timed rows read, and those of a day.
TimedRead == {r \in selected \ unread : r.at # 0}
ReadOn(d) == {r \in TimedRead : Day(r.at) = d}

\* A bucket is that of the rows G of a day.
BucketOf(b, G) ==
  /\ b \in [rows : Nat, prompts : SUBSET (Nat \X Nat), lastAt : Nat, lastOf : Nat \X Nat]
  /\ IsFiniteSet(G) /\ b.rows = Cardinality(G)
  /\ b.prompts \subseteq {r.exchange : r \in G}
  /\ \/ b.lastAt = 0 /\ b.lastOf = <<0, 0>> /\ \A q \in G : q.does # "prompts"
     \/ \E r \in G : /\ r.does = "prompts" /\ b.lastAt = r.at /\ b.lastOf = r.exchange
                     /\ \A q \in G : q.does = "prompts" => q.at <= r.at

\* v is the last response to x among the rows R.
LastResponse(v, x, R) ==
  /\ \E r \in R : Responds(r) /\ r.exchange = x /\ v = r.at
  /\ \A r \in R : Responds(r) /\ r.exchange = x => r.at <= v

\* The buckets, the last responses and the stamps are those of the rows read.
BucketsFollow ==
  /\ IsFiniteSet(DOMAIN buckets)
  /\ \A d : d \in DOMAIN buckets <=> \E r \in TimedRead : d = Day(r.at)
  /\ \A d \in DOMAIN buckets : BucketOf(buckets[d], ReadOn(d))

LatestFollows ==
  /\ \A x : x \in DOMAIN latest <=> \E r \in TimedRead : Responds(r) /\ r.exchange = x
  /\ \A x \in DOMAIN latest : LastResponse(latest[x], x, TimedRead)

StampsFollow ==
  /\ IsFiniteSet(stamps)
  /\ \A s : s \in stamps <=> \E r \in TimedRead : s = <<r.at, r.key>>

\* The inductive invariant of the overview.
OverviewInv ==
  /\ selected \in Selections \cup {{}} /\ unread \subseteq selected
  /\ BucketsFollow /\ LatestFollows /\ StampsFollow
  /\ overview.made \in BOOLEAN /\ {overview.of, overview.active, overview.span} \subseteq Nat
  /\ overview.made => unread = {}
  /\ OverviewFollowsTheRows

\* What is assumed of selections, and what is read is finite.
LEMMA OverviewFacts ==
  ASSUME selected \in Selections \cup {{}}, unread \subseteq selected
  PROVE  /\ IsFiniteSet(selected) /\ selected \subseteq OverviewRow
         /\ IsFiniteSet(TimedRead) /\ TimedRead \subseteq OverviewRow
         /\ \A r \in selected : r.at \in Nat /\ r.key \in Nat /\ r.exchange \in Nat \X Nat
         /\ DayLength \in Nat \ {0} /\ DayLimit \in Nat \ {0} /\ GapCap \in Nat
<1>1. IsFiniteSet(selected) /\ selected \subseteq OverviewRow
  BY OverviewAssumption, FS_EmptySet DEF OverviewAssumption
<1>2. TimedRead \in SUBSET selected
  BY DEF TimedRead
<1>3. IsFiniteSet(TimedRead)
  BY <1>1, <1>2, FS_Subset
<1> QED BY <1>1, <1>2, <1>3, OverviewAssumption DEF OverviewAssumption, OverviewRow

\* The invariant of the overview holds at first.
LEMMA OverviewStarts == OverviewInit => OverviewInv
<1>. SUFFICES ASSUME OverviewInit PROVE OverviewInv
  OBVIOUS
<1>1. selected = {} /\ unread = {} /\ stamps = {} /\ overview = NoOverview /\ DOMAIN buckets = {} /\ DOMAIN latest = {}
  BY DEF OverviewInit
<1>2. TimedRead = {}
  BY <1>1 DEF TimedRead
<1>3. ~overview.made /\ overview.of = 0 /\ overview.active = 0 /\ overview.span = 0
  BY <1>1 DEF NoOverview
<1>4. OverviewFollowsTheRows
  BY <1>3 DEF OverviewFollowsTheRows, LastPromptIsAnswered, DaysCoverTheRows
<1>5. BucketsFollow /\ LatestFollows /\ StampsFollow
  BY <1>1, <1>2, FS_EmptySet DEF BucketsFollow, LatestFollows, StampsFollow
<1>6. overview.made \in BOOLEAN /\ {overview.of, overview.active, overview.span} \subseteq Nat
  BY <1>1 DEF NoOverview
<1> QED BY <1>1, <1>3, <1>4, <1>5, <1>6 DEF OverviewInv

\* Selecting rows keeps it.
LEMMA SelectKeeps == ASSUME OverviewInv, Select PROVE OverviewInv'
<1>1. /\ selected = {} /\ ~overview.made /\ selected' \in Selections /\ unread' = selected'
      /\ UNCHANGED <<buckets, latest, stamps, overview>>
  BY DEF Select
<1>2. TimedRead = {} /\ TimedRead' = {}
  BY <1>1 DEF TimedRead, OverviewInv
<1>3. BucketsFollow' /\ LatestFollows' /\ StampsFollow'
  <2>. DEFINE D == DOMAIN buckets
              E == DOMAIN latest
  <2>1. /\ IsFiniteSet(D) /\ \A d : d \in D <=> \E r \in TimedRead : d = Day(r.at)
        /\ \A x : x \in E <=> \E r \in TimedRead : Responds(r) /\ r.exchange = x
        /\ IsFiniteSet(stamps) /\ \A s : s \in stamps <=> \E r \in TimedRead : s = <<r.at, r.key>>
    BY DEF OverviewInv, BucketsFollow, LatestFollows, StampsFollow
  <2>2. D = {} /\ E = {} /\ stamps = {}
    <3>. HIDE DEF D, E
    <3> QED BY <1>2, <2>1
  <2>3. D' = {} /\ E' = {} /\ stamps' = {}
    BY <1>1, <2>2
  <2> QED BY <1>2, <2>3, FS_EmptySet DEF BucketsFollow, LatestFollows, StampsFollow
<1>4. OverviewFollowsTheRows'
  BY <1>1 DEF OverviewFollowsTheRows, LastPromptIsAnswered, DaysCoverTheRows
<1>5. overview' = overview /\ overview.made \in BOOLEAN /\ {overview.of, overview.active, overview.span} \subseteq Nat
  BY <1>1 DEF OverviewInv
<1> QED BY <1>1, <1>3, <1>4, <1>5 DEF OverviewInv

\* The bucket of a day without rows.
LEMMA NoBucketIsEmpty == BucketOf(NoBucket, {})
<1>1. NoBucket \in [rows : Nat, prompts : SUBSET (Nat \X Nat), lastAt : Nat, lastOf : Nat \X Nat]
  BY DEF NoBucket
<1>2. IsFiniteSet({}) /\ Cardinality({}) = 0
  BY FS_EmptySet
<1> QED BY <1>1, <1>2 DEF BucketOf, NoBucket

\* A bucket that takes a row is that of the rows with it.
LEMMA BucketTakesRow ==
  ASSUME NEW b, NEW G, G \subseteq OverviewRow, NEW r \in OverviewRow, r \notin G, BucketOf(b, G)
  PROVE  BucketOf(WithRow(b, r), G \cup {r})
<1>. DEFINE c == WithRow(b, r)
            last == r.does = "prompts" /\ r.at >= b.lastAt
            H == G \cup {r}
<1>1. b \in [rows : Nat, prompts : SUBSET (Nat \X Nat), lastAt : Nat, lastOf : Nat \X Nat]
  BY DEF BucketOf
<1>2. r.at \in Nat /\ r.exchange \in Nat \X Nat /\ \A q \in G : q.at \in Nat
  BY DEF OverviewRow
<1>3. /\ c = [b EXCEPT !.rows = @ + 1,
                       !.prompts = IF r.does = "prompts" /\ Named(r.exchange) THEN @ \cup {r.exchange} ELSE @,
                       !.lastAt = IF last THEN r.at ELSE @,
                       !.lastOf = IF last THEN r.exchange ELSE @]
  BY DEF WithRow
<1>. HIDE DEF c, last
<1>4. /\ c.rows = b.rows + 1
      /\ c.prompts = IF r.does = "prompts" /\ Named(r.exchange) THEN b.prompts \cup {r.exchange} ELSE b.prompts
      /\ c.lastAt = IF last THEN r.at ELSE b.lastAt
      /\ c.lastOf = IF last THEN r.exchange ELSE b.lastOf
      /\ c = [rows |-> c.rows, prompts |-> c.prompts, lastAt |-> c.lastAt, lastOf |-> c.lastOf]
  BY <1>1, <1>3
<1>5. /\ c.rows \in Nat /\ c.prompts \in SUBSET (Nat \X Nat) /\ c.lastAt \in Nat /\ c.lastOf \in Nat \X Nat
  BY <1>1, <1>2, <1>4
<1>6. c \in [rows : Nat, prompts : SUBSET (Nat \X Nat), lastAt : Nat, lastOf : Nat \X Nat]
  BY <1>4, <1>5
<1>7. IsFiniteSet(H) /\ c.rows = Cardinality(H)
  <2>1. IsFiniteSet(G) /\ b.rows = Cardinality(G)
    BY DEF BucketOf
  <2>2. IsFiniteSet(H) /\ Cardinality(H) = Cardinality(G) + 1
    BY <2>1, FS_AddElement
  <2> QED BY <1>4, <2>1, <2>2
<1>8. c.prompts \subseteq {q.exchange : q \in H}
  <2>1. b.prompts \subseteq {q.exchange : q \in G}
    BY DEF BucketOf
  <2> QED BY <1>4, <2>1
<1>9. \/ c.lastAt = 0 /\ c.lastOf = <<0, 0>> /\ \A q \in H : q.does # "prompts"
      \/ \E s \in H : /\ s.does = "prompts" /\ c.lastAt = s.at /\ c.lastOf = s.exchange
                      /\ \A q \in H : q.does = "prompts" => q.at <= s.at
  <2>1. \/ b.lastAt = 0 /\ b.lastOf = <<0, 0>> /\ \A q \in G : q.does # "prompts"
        \/ \E s \in G : /\ s.does = "prompts" /\ b.lastAt = s.at /\ b.lastOf = s.exchange
                        /\ \A q \in G : q.does = "prompts" => q.at <= s.at
    BY DEF BucketOf
  <2>2. CASE last
    <3>1. \A q \in H : q.does = "prompts" => q.at <= r.at
      <4>1. \A q \in G : q.does = "prompts" => q.at <= b.lastAt
        BY <2>1
      <4>2. r.at >= b.lastAt /\ b.lastAt \in Nat
        BY <1>1, <2>2 DEF last
      <4>3. ASSUME NEW q \in G, q.does = "prompts" PROVE q.at <= r.at
        <5>. DEFINE x == q.at
                    y == b.lastAt
                    z == r.at
        <5>1. x \in Nat /\ y \in Nat /\ z \in Nat /\ x <= y /\ z >= y
          BY <1>2, <4>1, <4>2, <4>3
        <5>. HIDE DEF x, y, z
        <5>2. x <= z
          BY <5>1
        <5> QED BY <5>2 DEF x, z
      <4>4. r.at <= r.at
        BY <1>2
      <4> QED BY <4>3, <4>4
    <3>2. r \in H /\ r.does = "prompts" /\ c.lastAt = r.at /\ c.lastOf = r.exchange
      BY <1>4, <2>2 DEF last
    <3> QED BY <3>1, <3>2
  <2>3. CASE ~last
    <3>1. c.lastAt = b.lastAt /\ c.lastOf = b.lastOf
      BY <1>4, <2>3
    <3>2. CASE r.does # "prompts"
      BY <2>1, <3>1, <3>2
    <3>3. CASE r.does = "prompts"
      <4>1. ~(r.at >= b.lastAt)
        BY <2>3, <3>3 DEF last
      <4>2. PICK s \in G : /\ s.does = "prompts" /\ b.lastAt = s.at /\ b.lastOf = s.exchange
                           /\ \A q \in G : q.does = "prompts" => q.at <= s.at
        BY <1>2, <2>1, <4>1
      <4>3. r.at <= s.at
        BY <1>2, <4>1, <4>2
      <4> QED BY <3>1, <4>2, <4>3
    <3> QED BY <3>2, <3>3
  <2> QED BY <2>2, <2>3
<1> QED BY <1>6, <1>7, <1>8, <1>9 DEF BucketOf, c

\* So is the last response to an exchange.
LEMMA LastTakesRow ==
  ASSUME NEW R, R \subseteq OverviewRow, NEW r \in OverviewRow, NEW x, NEW v, NEW Q, Q = R \cup {r}
  PROVE  /\ LastResponse(v, x, R) /\ Responds(r) /\ r.exchange = x => LastResponse(Max({r.at, v}), x, Q)
         /\ LastResponse(v, x, R) /\ ~(Responds(r) /\ r.exchange = x) => LastResponse(v, x, Q)
         /\ (\A q \in R : ~(Responds(q) /\ q.exchange = x)) /\ Responds(r) /\ r.exchange = x
              => LastResponse(Max({r.at, r.at}), x, Q)
<1>1. r.at \in Nat /\ \A q \in R : q.at \in Nat
  BY DEF OverviewRow
<1>2. ASSUME LastResponse(v, x, R), Responds(r), r.exchange = x
      PROVE  LastResponse(Max({r.at, v}), x, Q)
  <2>1. PICK s \in R : Responds(s) /\ s.exchange = x /\ v = s.at
    BY <1>2 DEF LastResponse
  <2>2. v \in Nat /\ \A q \in R : Responds(q) /\ q.exchange = x => q.at <= v
    BY <1>1, <1>2, <2>1 DEF LastResponse
  <2>. DEFINE a == r.at
  <2>. DEFINE S == {a, v}
  <2>3. CASE a <= v
    <3>1. S \subseteq Nat /\ v \in S /\ \A y \in S : y <= v
      BY <1>1, <2>2, <2>3
    <3>. HIDE DEF S
    <3>2. Max(S) = v
      BY <3>1, MaxIs
    <3>3. LastResponse(v, x, Q)
      BY <2>1, <2>2, <2>3 DEF LastResponse
    <3> QED BY <3>2, <3>3 DEF S
  <2>4. CASE ~(a <= v)
    <3>1. S \subseteq Nat /\ a \in S /\ \A y \in S : y <= a
      BY <1>1, <2>2, <2>4
    <3>2. \A q \in Q : Responds(q) /\ q.exchange = x => q.at <= a
      <4>1. ASSUME NEW q \in R, Responds(q), q.exchange = x PROVE q.at <= a
        <5>1. q.at <= v /\ q.at \in Nat /\ a \in Nat
          BY <1>1, <2>2, <4>1
        <5>. DEFINE y == q.at
        <5>. HIDE DEF y, a
        <5>2. y <= a
          BY <2>2, <2>4, <5>1 DEF y
        <5> QED BY <5>2 DEF y
      <4>2. a <= a
        BY <1>1
      <4> QED BY <4>1, <4>2
    <3>. HIDE DEF S
    <3>3. Max(S) = a
      BY <3>1, MaxIs
    <3>4. LastResponse(a, x, Q)
      BY <1>2, <3>2 DEF LastResponse
    <3> QED BY <3>3, <3>4 DEF S
  <2> QED BY <2>3, <2>4
<1>3. ASSUME LastResponse(v, x, R), ~(Responds(r) /\ r.exchange = x)
      PROVE  LastResponse(v, x, Q)
  BY <1>3 DEF LastResponse
<1>4. ASSUME \A q \in R : ~(Responds(q) /\ q.exchange = x), Responds(r), r.exchange = x
      PROVE  LastResponse(Max({r.at, r.at}), x, Q)
  <2>. DEFINE a == r.at
              S == {a, a}
  <2>1. S \subseteq Nat /\ a \in S /\ \A y \in S : y <= a
    BY <1>1
  <2>2. \A q \in Q : Responds(q) /\ q.exchange = x => q.at <= a
    BY <1>1, <1>4
  <2>. HIDE DEF S
  <2>3. Max(S) = a
    BY <2>1, MaxIs
  <2>4. LastResponse(a, x, Q)
    BY <1>4, <2>2 DEF LastResponse
  <2> QED BY <2>3, <2>4 DEF S
<1> QED BY <1>2, <1>3, <1>4

\* A step that takes up no timed row leaves what is known of those taken up.
LEMMA NothingTakenUp ==
  ASSUME BucketsFollow, LatestFollows, StampsFollow, UNCHANGED <<buckets, latest, stamps>>, TimedRead' = TimedRead
  PROVE  BucketsFollow' /\ LatestFollows' /\ StampsFollow'
<1>1. \A d : ReadOn(d)' = ReadOn(d)
  <2>1. \A d : ReadOn(d)' = {r \in TimedRead' : Day(r.at) = d}
    BY DEF ReadOn
  <2> QED BY <2>1 DEF ReadOn
<1>2. BucketsFollow'
  <2>1. \A d \in DOMAIN buckets : BucketOf(buckets'[d], ReadOn(d)')
    BY <1>1 DEF BucketsFollow
  <2>2. \A d \in DOMAIN buckets : BucketOf(buckets[d], ReadOn(d))'
    BY <2>1 DEF BucketOf
  <2> QED BY <2>2 DEF BucketsFollow
<1>3. LatestFollows'
  <2>1. \A x \in DOMAIN latest : LastResponse(latest'[x], x, TimedRead')
    BY DEF LatestFollows
  <2>2. \A x \in DOMAIN latest : LastResponse(latest[x], x, TimedRead)'
    BY <2>1 DEF LastResponse, Responds
  <2> QED BY <2>2 DEF LatestFollows, Responds
<1>4. StampsFollow'
  BY DEF StampsFollow
<1> QED BY <1>2, <1>3, <1>4

\* Reading a row keeps the invariant.
LEMMA ReadRowKeeps == ASSUME OverviewInv, ReadRow PROVE OverviewInv'
<1>1. PICK r \in unread :
        /\ unread' = unread \ {r}
        /\ IF r.at = 0 THEN UNCHANGED <<buckets, latest, stamps>>
           ELSE LET d == Day(r.at)
                IN /\ stamps' = stamps \cup {<<r.at, r.key>>}
                   /\ buckets' = Put(buckets, d, WithRow(ValueAt(buckets, d, NoBucket), r))
                   /\ latest' = IF Responds(r)
                                THEN Put(latest, r.exchange, Max({r.at, ValueAt(latest, r.exchange, r.at)}))
                                ELSE latest
        /\ UNCHANGED <<selected, overview>>
  BY DEF ReadRow
<1>2. /\ selected \in Selections \cup {{}} /\ unread \subseteq selected
      /\ BucketsFollow /\ LatestFollows /\ StampsFollow
      /\ overview.made \in BOOLEAN /\ {overview.of, overview.active, overview.span} \subseteq Nat
      /\ ~overview.made
  BY <1>1 DEF OverviewInv
<1>3. TimedRead \subseteq OverviewRow /\ r \in OverviewRow /\ r.at \in Nat /\ r.exchange \in Nat \X Nat
  BY <1>1, <1>2, OverviewFacts
<1>4. OverviewFollowsTheRows' /\ overview' = overview
  BY <1>1, <1>2 DEF OverviewFollowsTheRows, LastPromptIsAnswered, DaysCoverTheRows
<1>5. selected' = selected /\ unread' \subseteq selected'
  BY <1>1, <1>2
<1>6. CASE r.at = 0
  <2>1. TimedRead' = TimedRead
    BY <1>1, <1>6 DEF TimedRead
  <2>2. UNCHANGED <<buckets, latest, stamps>>
    BY <1>1, <1>6
  <2>3. BucketsFollow' /\ LatestFollows' /\ StampsFollow'
    BY <1>2, <2>1, <2>2, NothingTakenUp
  <2> QED BY <1>2, <1>4, <1>5, <2>3 DEF OverviewInv
<1>7. CASE r.at # 0
  <2>. DEFINE d == Day(r.at)
              R == TimedRead
              Q == TimedRead'
              x == r.exchange
  <2>1. /\ stamps' = stamps \cup {<<r.at, r.key>>}
        /\ buckets' = Put(buckets, d, WithRow(ValueAt(buckets, d, NoBucket), r))
        /\ latest' = IF Responds(r) THEN Put(latest, x, Max({r.at, ValueAt(latest, x, r.at)})) ELSE latest
    BY <1>1, <1>7
  <2>2. Q = R \cup {r} /\ r \notin R
    BY <1>1, <1>2, <1>7 DEF TimedRead
  <2>3. StampsFollow'
    <3>1. IsFiniteSet(stamps) /\ \A s : s \in stamps <=> \E q \in R : s = <<q.at, q.key>>
      BY <1>2 DEF StampsFollow
    <3>. DEFINE p == <<r.at, r.key>>
                T == stamps \cup {p}
    <3>2. IsFiniteSet(T)
      <4>. HIDE DEF p
      <4> QED BY <3>1, FS_AddElement
    <3>3. \A s : s \in T <=> \E q \in Q : s = <<q.at, q.key>>
      <4>. HIDE DEF R, Q
      <4> QED BY <2>2, <3>1
    <3>. HIDE DEF T
    <3>4. stamps' = T
      BY <2>1 DEF T
    <3> QED BY <3>2, <3>3, <3>4 DEF StampsFollow
  <2>4. BucketsFollow'
    <3>. DEFINE D == DOMAIN buckets
                b == ValueAt(buckets, d, NoBucket)
                G == ReadOn(d)
    <3>1. /\ IsFiniteSet(D) /\ (\A e : e \in D <=> \E q \in R : e = Day(q.at))
          /\ \A e \in D : BucketOf(buckets[e], ReadOn(e))
      BY <1>2 DEF BucketsFollow
    <3>2. BucketOf(b, G) /\ G \subseteq OverviewRow /\ r \notin G
      <4>1. CASE d \in D
        <5>1. b = buckets[d]
          BY <4>1 DEF ValueAt
        <5>2. G \subseteq OverviewRow /\ r \notin G
          BY <1>3, <2>2 DEF ReadOn
        <5> QED BY <3>1, <4>1, <5>1, <5>2
      <4>2. CASE d \notin D
        <5>1. b = NoBucket
          BY <4>2 DEF ValueAt
        <5>2. G = {}
          <6>. HIDE DEF d, D
          <6> QED BY <3>1, <4>2 DEF ReadOn
        <5>. HIDE DEF b, G
        <5> QED BY <5>1, <5>2, NoBucketIsEmpty
      <4> QED BY <4>1, <4>2
    <3>3. BucketOf(WithRow(b, r), G \cup {r})
      <4>. HIDE DEF b, G
      <4> QED BY <1>3, <3>2, BucketTakesRow
    <3>4. \A e : ReadOn(e)' = IF e = d THEN G \cup {r} ELSE ReadOn(e)
      <4>1. \A e : ReadOn(e)' = {q \in Q : Day(q.at) = e}
        BY DEF ReadOn
      <4>. HIDE DEF Q
      <4>2. \A e : {q \in Q : Day(q.at) = e} = {q \in R : Day(q.at) = e} \cup {q \in {r} : Day(q.at) = e}
        BY <2>2
      <4>3. G = {q \in R : Day(q.at) = d} /\ \A e : ReadOn(e) = {q \in R : Day(q.at) = e}
        BY DEF ReadOn
      <4>4. \A e : {q \in {r} : Day(q.at) = e} = IF e = d THEN {r} ELSE {}
        OBVIOUS
      <4>. HIDE DEF G, R, d
      <4> QED BY <4>1, <4>2, <4>3, <4>4
    <3>5. DOMAIN buckets' = D \cup {d} /\ \A e \in D \cup {d} : buckets'[e] = IF e = d THEN WithRow(b, r) ELSE buckets[e]
      <4>1. buckets' = [y \in D \cup {d} |-> IF y = d THEN WithRow(b, r) ELSE buckets[y]]
        BY <2>1 DEF Put
      <4>. HIDE DEF D, d, b
      <4> QED BY <4>1
    <3>. DEFINE E == DOMAIN buckets'
    <3>6. E = D \cup {d}
      BY <3>5
    <3>. HIDE DEF D, E, G, b
    <3>7. IsFiniteSet(E)
      BY <3>1, <3>6, FS_AddElement
    <3>8. \A e : e \in E <=> \E q \in Q : e = Day(q.at)
      <4>. HIDE DEF Q, R
      <4> QED BY <2>2, <3>1, <3>6
    <3>9. \A e \in E : BucketOf(buckets'[e], ReadOn(e)')
      <4>1. ASSUME NEW e \in E PROVE BucketOf(buckets'[e], ReadOn(e)')
        <5>1. CASE e = d
          <6>1. buckets'[e] = WithRow(b, r) /\ ReadOn(e)' = G \cup {r}
            BY <3>4, <3>5, <5>1
          <6> QED BY <3>3, <6>1
        <5>2. CASE e # d
          <6>1. e \in D /\ buckets'[e] = buckets[e] /\ ReadOn(e)' = ReadOn(e)
            BY <3>4, <3>5, <3>6, <5>2
          <6> QED BY <3>1, <6>1
        <5> QED BY <5>1, <5>2
      <4> QED BY <4>1
    <3>10. \A e \in E : BucketOf(buckets[e], ReadOn(e))'
      BY <3>9 DEF BucketOf
    <3> QED BY <3>7, <3>8, <3>10 DEF BucketsFollow, E
  <2>5. LatestFollows'
    <3>. DEFINE D == DOMAIN latest
    <3>1. /\ \A y : y \in D <=> \E q \in R : Responds(q) /\ q.exchange = y
          /\ \A y \in D : LastResponse(latest[y], y, R)
      BY <1>2 DEF LatestFollows
    <3>2. CASE ~Responds(r)
      <4>1. latest' = latest
        BY <2>1, <3>2
      <4>2. \A y \in D : LastResponse(latest[y], y, Q)
        <5>1. ASSUME NEW y \in D PROVE LastResponse(latest[y], y, Q)
          <6>. DEFINE v == latest[y]
          <6>1. LastResponse(v, y, R)
            BY <3>1
          <6>. HIDE DEF v, R, Q
          <6>2. LastResponse(v, y, Q)
            BY <1>3, <2>2, <3>2, <6>1, LastTakesRow DEF R
          <6> QED BY <6>2 DEF v
        <5> QED BY <5>1
      <4>3. \A y : y \in D <=> \E q \in Q : Responds(q) /\ q.exchange = y
        <5>. HIDE DEF D, Q, R
        <5> QED BY <2>2, <3>1, <3>2
      <4> QED BY <4>1, <4>2, <4>3 DEF LatestFollows, LastResponse, Responds, Named
    <3>3. CASE Responds(r)
      <4>. DEFINE v == ValueAt(latest, x, r.at)
                  m == Max({r.at, v})
                  E == DOMAIN latest'
      <4>1. latest' = [y \in D \cup {x} |-> IF y = x THEN m ELSE latest[y]]
        BY <2>1, <3>3 DEF Put
      <4>2. E = D \cup {x} /\ latest'[x] = m /\ \A y \in D : y # x => latest'[y] = latest[y]
        <5>. HIDE DEF D, x, m
        <5> QED BY <4>1
      <4>3. \A y : y \in E <=> \E q \in Q : Responds(q) /\ q.exchange = y
        <5>. HIDE DEF D, E, Q, R
        <5> QED BY <2>2, <3>1, <3>3, <4>2
      <4>4. LastResponse(m, x, Q)
        <5>1. CASE x \in D
          <6>1. v = latest[x] /\ LastResponse(v, x, R)
            BY <3>1, <5>1 DEF ValueAt
          <6>. HIDE DEF v, R, Q
          <6>2. LastResponse(Max({r.at, v}), x, Q)
            BY <1>3, <2>2, <3>3, <6>1, LastTakesRow DEF R
          <6> QED BY <6>2
        <5>2. CASE x \notin D
          <6>1. v = r.at
            BY <5>2 DEF ValueAt
          <6>2. \A q \in R : ~(Responds(q) /\ q.exchange = x)
            <7>. HIDE DEF D, R, x
            <7> QED BY <3>1, <5>2
          <6>. HIDE DEF v, R, Q
          <6>3. LastResponse(Max({r.at, r.at}), x, Q)
            BY <1>3, <2>2, <3>3, <6>2, LastTakesRow DEF R
          <6> QED BY <6>1, <6>3
        <5> QED BY <5>1, <5>2
      <4>5. ASSUME NEW y \in D, y # x PROVE LastResponse(latest[y], y, Q)
        <5>. DEFINE u == latest[y]
        <5>1. LastResponse(u, y, R)
          BY <3>1
        <5>. HIDE DEF u, R, Q
        <5>2. LastResponse(u, y, Q)
          BY <1>3, <2>2, <4>5, <5>1, LastTakesRow DEF R
        <5> QED BY <5>2 DEF u
      <4>6. \A y \in E : LastResponse(latest'[y], y, Q)
        <5>. HIDE DEF D, E, Q, x, m
        <5> QED BY <4>2, <4>4, <4>5
      <4>. HIDE DEF m
      <4> QED BY <4>3, <4>6 DEF LatestFollows, LastResponse, Responds, Named
    <3> QED BY <3>2, <3>3
  <2> QED BY <1>2, <1>4, <1>5, <2>3, <2>4, <2>5 DEF OverviewInv
<1> QED BY <1>6, <1>7

\* A day is a number.
LEMMA DaysAreNumbers == ASSUME NEW at \in Nat, DayLength \in Nat \ {0} PROVE Day(at) \in Nat
BY DEF Day

\* The buckets stand for their days, all rows read.
LEMMA RowsOfADay ==
  ASSUME OverviewInv, unread = {}, NEW d \in DOMAIN buckets
  PROVE  /\ d \in Nat /\ BucketOf(buckets[d], ReadOn(d))
         /\ PromptsOn(d) = {r \in ReadOn(d) : r.does = "prompts"}
         /\ TimedRead = {r \in selected : r.at # 0}
<1>1. BucketsFollow /\ selected \in Selections \cup {{}} /\ unread \subseteq selected
  BY DEF OverviewInv
<1>2. TimedRead = {r \in selected : r.at # 0}
  BY DEF TimedRead
<1>3. PICK r \in TimedRead : d = Day(r.at)
  BY <1>1 DEF BucketsFollow
<1>4. r.at \in Nat /\ DayLength \in Nat \ {0}
  BY <1>1, <1>2, OverviewFacts
<1>5. d \in Nat
  BY <1>3, <1>4, DaysAreNumbers
<1>6. PromptsOn(d) = {q \in ReadOn(d) : q.does = "prompts"}
  BY <1>2 DEF PromptsOn, ReadOn
<1> QED BY <1>1, <1>2, <1>5, <1>6 DEF BucketsFollow

\* When all rows are read the last responses are those of the selection.
LEMMA FinalAnswers ==
  ASSUME OverviewInv, unread = {}, NEW x
  PROVE  /\ x \in DOMAIN latest <=> Answers(x) # {}
         /\ x \in DOMAIN latest => latest[x] = Max(Answers(x)) /\ latest[x] \in Nat
<1>1. LatestFollows /\ selected \in Selections \cup {{}} /\ unread \subseteq selected
  BY DEF OverviewInv
<1>2. TimedRead = {r \in selected : r.at # 0}
  BY DEF TimedRead
<1>3. \A t : t \in Answers(x) <=> \E r \in TimedRead : Responds(r) /\ r.exchange = x /\ t = r.at
  BY <1>2 DEF Answers
<1>4. x \in DOMAIN latest <=> \E r \in TimedRead : Responds(r) /\ r.exchange = x
  BY <1>1 DEF LatestFollows
<1>5. ASSUME x \in DOMAIN latest PROVE latest[x] = Max(Answers(x)) /\ latest[x] \in Nat
  <2>. DEFINE v == latest[x]
              A == Answers(x)
  <2>1. LastResponse(v, x, TimedRead)
    BY <1>1, <1>5 DEF LatestFollows
  <2>. HIDE DEF v, A
  <2>2. v \in A /\ \A t \in A : t <= v
    BY <1>3, <2>1 DEF LastResponse, A
  <2>3. A \subseteq Nat
    <3>1. \A r \in TimedRead : r.at \in Nat
      BY <1>1, OverviewFacts DEF OverviewRow
    <3> QED BY <1>3, <3>1 DEF A
  <2>4. Max(A) = v /\ v \in Nat
    BY <2>2, <2>3, MaxIs
  <2> QED BY <2>4 DEF v, A
<1> QED BY <1>3, <1>4, <1>5

\* What a day is said to end with.
LEMMA DayLineTells ==
  ASSUME OverviewInv, unread = {}, NEW d \in DOMAIN buckets, NEW l, l = DayLine(d),
         NEW last, last = {r \in PromptsOn(l.day) : r.at = l.lastAt},
         NEW ends, ends = {Max(Answers(r.exchange)) : r \in {q \in last : Named(q.exchange) /\ Answers(q.exchange) # {}}}
  PROVE  /\ PromptsOn(l.day) # {} => l.lastAt = Max({r.at : r \in PromptsOn(l.day)})
         /\ l.finalAt = 0 \/ l.finalAt \in {t \in ends : t >= l.lastAt}
         /\ Cardinality(last) = 1 /\ (\E t \in ends : t >= l.lastAt) => l.finalAt # 0
<1>. DEFINE b == buckets[d]
            G == ReadOn(d)
            P == PromptsOn(d)
            x == b.lastOf
            a == b.lastAt
<1>1. l.day = d /\ l.lastAt = a /\ l.finalAt = FinalAt(b)
  BY DEF DayLine
<1>2. BucketOf(b, G) /\ P = {r \in G : r.does = "prompts"} /\ TimedRead = {r \in selected : r.at # 0}
  BY RowsOfADay
<1>3. \A r \in G : r.at \in Nat /\ r.at # 0
  <2>1. selected \in Selections \cup {{}} /\ unread \subseteq selected
    BY DEF OverviewInv
  <2>2. \A r \in TimedRead : r.at \in Nat /\ r.at # 0
    BY <2>1, OverviewFacts DEF OverviewRow, TimedRead
  <2> QED BY <2>2 DEF ReadOn
<1>4. a \in Nat /\ x \in Nat \X Nat
  BY <1>2 DEF BucketOf
<1>5. \/ a = 0 /\ x = <<0, 0>> /\ P = {}
      \/ \E r \in P : a = r.at /\ x = r.exchange /\ \A q \in P : q.at <= r.at
  <2>1. \/ a = 0 /\ x = <<0, 0>> /\ \A q \in G : q.does # "prompts"
        \/ \E r \in G : /\ r.does = "prompts" /\ a = r.at /\ x = r.exchange
                        /\ \A q \in G : q.does = "prompts" => q.at <= r.at
    BY <1>2 DEF BucketOf
  <2>. HIDE DEF b, G, P, x, a
  <2> QED BY <1>2, <2>1
<1>6. \A r \in P : r.at \in Nat /\ r.at # 0
  BY <1>2, <1>3
<1>7. last = {r \in P : r.at = a}
  BY <1>1
<1>8. FinalAt(b) = LET answered == IF Named(x) THEN ValueAt(latest, x, 0) ELSE 0
                   IN IF answered < a THEN 0 ELSE answered
  BY DEF FinalAt
<1>. DEFINE f == FinalAt(b)
<1>9. /\ Named(x) /\ x \in DOMAIN latest => f = IF latest[x] < a THEN 0 ELSE latest[x]
      /\ ~(Named(x) /\ x \in DOMAIN latest) => f = 0
  <2>1. ASSUME Named(x), x \in DOMAIN latest PROVE f = IF latest[x] < a THEN 0 ELSE latest[x]
    BY <1>8, <2>1 DEF ValueAt
  <2>2. ASSUME ~(Named(x) /\ x \in DOMAIN latest) PROVE f = 0
    <3>1. f = IF 0 < a THEN 0 ELSE 0
      BY <1>8, <2>2 DEF ValueAt
    <3> QED BY <3>1
  <2> QED BY <2>1, <2>2
<1>10. ~Named(<<0, 0>>)
  BY DEF Named
<1>11. /\ x \in DOMAIN latest <=> Answers(x) # {}
       /\ x \in DOMAIN latest => latest[x] = Max(Answers(x)) /\ latest[x] \in Nat
  <2>. HIDE DEF x
  <2> QED BY FinalAnswers
<1>. HIDE DEF b, G, P, x, a, f
<1>12. P # {} => a = Max({r.at : r \in P})
  <2>1. ASSUME P # {} PROVE a = Max({r.at : r \in P})
    <3>. DEFINE S == {r.at : r \in P}
    <3>1. PICK r \in P : a = r.at /\ \A q \in P : q.at <= r.at
      BY <1>5, <2>1
    <3>2. S \subseteq Nat /\ a \in S /\ \A y \in S : y <= a
      BY <1>6, <3>1
    <3>. HIDE DEF S
    <3>3. Max(S) = a
      BY <3>2, MaxIs
    <3> QED BY <3>3 DEF S
  <2> QED BY <2>1
<1>13. f = 0 \/ f \in {t \in ends : t >= a}
  <2>1. ASSUME f # 0 PROVE f \in {t \in ends : t >= a}
    <3>1. Named(x) /\ x \in DOMAIN latest /\ f = IF latest[x] < a THEN 0 ELSE latest[x]
      BY <1>9, <2>1
    <3>2. f = latest[x] /\ ~(latest[x] < a)
      BY <2>1, <3>1
    <3>3. f >= a
      <4>1. latest[x] \in Nat
        BY <1>11, <3>1
      <4>. DEFINE z == latest[x]
      <4>. HIDE DEF z
      <4>2. z >= a
        BY <1>4, <3>2, <4>1 DEF z
      <4> QED BY <3>2, <4>2 DEF z
    <3>4. PICK r \in P : a = r.at /\ x = r.exchange
      BY <1>5, <1>10, <3>1
    <3>5. r \in last /\ Named(r.exchange) /\ Answers(r.exchange) # {} /\ f = Max(Answers(r.exchange))
      BY <1>7, <1>11, <3>1, <3>2, <3>4
    <3>6. f \in ends
      BY <3>5
    <3> QED BY <3>3, <3>6
  <2> QED BY <2>1
<1>14. ASSUME Cardinality(last) = 1, NEW t \in ends, t >= a PROVE f # 0
  <2>1. IsFiniteSet(last)
    <3>1. IsFiniteSet(G)
      BY <1>2 DEF BucketOf
    <3>2. last \in SUBSET G
      BY <1>2, <1>7
    <3> QED BY <3>1, <3>2, FS_Subset
  <2>2. PICK y : last = {y}
    BY <1>14, <2>1, FS_Singleton
  <2>3. PICK q \in last : Named(q.exchange) /\ Answers(q.exchange) # {} /\ t = Max(Answers(q.exchange))
    BY <1>14
  <2>4. q = y /\ q \in P /\ q.at = a
    BY <1>7, <2>2, <2>3
  <2>5. PICK r \in P : a = r.at /\ x = r.exchange
    BY <1>5, <2>4
  <2>6. r \in last
    BY <1>7, <2>5
  <2>7. x = q.exchange
    BY <2>2, <2>4, <2>5, <2>6
  <2>8. Named(x) /\ x \in DOMAIN latest /\ latest[x] = t /\ t \in Nat
    BY <1>11, <2>3, <2>7
  <2>9. a # 0
    BY <1>6, <2>4
  <2>10. f = IF t < a THEN 0 ELSE t
    BY <1>9, <2>8
  <2> QED BY <1>4, <1>14, <2>8, <2>9, <2>10
<1> QED BY <1>1, <1>12, <1>13, <1>14 DEF P, a, f, b

\* The times are listed, the earlier before the later.
LEMMA TimesRise ==
  ASSUME OverviewInv
  PROVE  Times \in Seq(Nat) /\ \A i, j \in DOMAIN Times : i < j => Times[i] <= Times[j]
<1>. DEFINE R == {p \in stamps \X stamps : StampBefore(p[1], p[2])}
            N == Cardinality(stamps)
            list == Enumerate(stamps, R)
<1>1. StampsFollow /\ selected \in Selections \cup {{}} /\ unread \subseteq selected
  BY DEF OverviewInv
<1>2. \A s \in stamps : s[1] \in Nat /\ s[2] \in Nat /\ s = <<s[1], s[2]>>
  <2>1. \A r \in TimedRead : r.at \in Nat /\ r.key \in Nat
    BY <1>1, OverviewFacts DEF OverviewRow
  <2> QED BY <1>1, <2>1 DEF StampsFollow
<1>3. \A x, y \in stamps : <<x, y>> \in R <=> x[1] < y[1] \/ (x[1] = y[1] /\ x[2] < y[2])
  BY DEF StampBefore
<1>. HIDE DEF R
<1>4. Linear(R, stamps)
  <2>1. \A x \in stamps : <<x, x>> \notin R
    BY <1>2, <1>3
  <2>2. ASSUME NEW x \in stamps, NEW y \in stamps PROVE x = y \/ <<x, y>> \in R \/ <<y, x>> \in R
    <3>. DEFINE a == x[1]
                b == x[2]
                c == y[1]
                e == y[2]
    <3>1. a \in Nat /\ b \in Nat /\ c \in Nat /\ e \in Nat /\ x = <<a, b>> /\ y = <<c, e>>
      BY <1>2
    <3>2. (<<x, y>> \in R <=> a < c \/ (a = c /\ b < e)) /\ (<<y, x>> \in R <=> c < a \/ (c = a /\ e < b))
      BY <1>3
    <3>. HIDE DEF a, b, c, e
    <3>3. a < c \/ c < a \/ (a = c /\ (b < e \/ e < b \/ b = e))
      BY <3>1
    <3> QED BY <3>1, <3>2, <3>3
  <2>3. ASSUME NEW x \in stamps, NEW y \in stamps, NEW z \in stamps, <<x, y>> \in R, <<y, z>> \in R PROVE <<x, z>> \in R
    <3>. DEFINE a == x[1]
                b == x[2]
                c == y[1]
                e == y[2]
                g == z[1]
                h == z[2]
    <3>1. a \in Nat /\ b \in Nat /\ c \in Nat /\ e \in Nat /\ g \in Nat /\ h \in Nat
      BY <1>2
    <3>2. /\ a < c \/ (a = c /\ b < e)
          /\ c < g \/ (c = g /\ e < h)
          /\ <<x, z>> \in R <=> a < g \/ (a = g /\ b < h)
      BY <1>3, <2>3
    <3>. HIDE DEF a, b, c, e, g, h
    <3> QED BY <3>1, <3>2
  <2> QED BY <2>1, <2>2, <2>3 DEF Linear
<1>5. IsFiniteSet(stamps)
  BY <1>1 DEF StampsFollow
<1>6. /\ N \in Nat /\ list \in [1..N -> stamps]
      /\ \A i, j \in 1..N : i < j <=> <<list[i], list[j]>> \in R
  BY <1>4, <1>5, Enumerates
<1>7. Times = [i \in DOMAIN list |-> list[i][1]]
  BY DEF Times, ListOf, R
<1>. HIDE DEF list, N
<1>8. /\ DOMAIN list = 1..N
      /\ Times = [i \in 1..N |-> list[i][1]]
  BY <1>6, <1>7
<1>9. \A i \in 1..N : list[i] \in stamps /\ list[i][1] \in Nat /\ Times[i] = list[i][1]
  BY <1>2, <1>6, <1>8
<1>10. Times \in [1..N -> Nat]
  BY <1>8, <1>9
<1>11. Times \in Seq(Nat) /\ DOMAIN Times = 1..N
  BY <1>6, <1>10
<1>12. ASSUME NEW i \in 1..N, NEW j \in 1..N, i < j PROVE Times[i] <= Times[j]
  <2>. DEFINE x == list[i]
              y == list[j]
  <2>1. x \in stamps /\ y \in stamps /\ <<x, y>> \in R /\ Times[i] = x[1] /\ Times[j] = y[1]
    BY <1>6, <1>9, <1>12
  <2>2. x[1] \in Nat /\ y[1] \in Nat /\ (x[1] < y[1] \/ x[1] = y[1])
    BY <1>2, <1>3, <2>1
  <2>. HIDE DEF x, y
  <2>3. x[1] <= y[1]
    BY <2>2
  <2> QED BY <2>1, <2>3
<1> QED BY <1>11, <1>12

\* The days are those of the buckets, each once, and the last k of the n are reported.
ListsDays(n, k, days) ==
  /\ days \in [1..n -> DOMAIN buckets]
  /\ \A i, j \in 1..n : i < j => days[i] < days[j]
  /\ \A d \in DOMAIN buckets : \E i \in 1..n : days[i] = d
  /\ Report.of = n /\ (n <= DayLimit => k = n) /\ k <= n
  /\ Report.days = [i \in 1..k |-> DayLine(days[n - k + i])]

\* The days listed are the last ones that have rows, in their order.
LEMMA DaysAreListed ==
  ASSUME OverviewInv, unread = {}
  PROVE  \E n, k, days : n \in Nat /\ k \in Nat /\ ListsDays(n, k, days)
<1>. DEFINE D == DOMAIN buckets
            R == {p \in D \X D : DayBefore(p[1], p[2])}
            n == Cardinality(D)
            days == Enumerate(D, R)
            limit == DayLimit
            first == IF n > limit THEN n - limit + 1 ELSE 1
            kept == SubSeq(days, first, n)
            k == IF n > limit THEN limit ELSE n
<1>1. BucketsFollow /\ selected \in Selections \cup {{}} /\ unread \subseteq selected
  BY DEF OverviewInv
<1>2. limit \in Nat \ {0}
  BY <1>1, OverviewFacts
<1>3. \A d \in D : d \in Nat
  BY RowsOfADay
<1>4. \A x, y \in D : <<x, y>> \in R <=> x < y
  BY DEF DayBefore
<1>5. IsFiniteSet(D)
  BY <1>1 DEF BucketsFollow
<1>6. ListOf(D, DayBefore) = days
  BY DEF ListOf
<1>. HIDE DEF D, R
<1>7. Linear(R, D)
  BY <1>3, <1>4 DEF Linear
<1>8. /\ n \in Nat /\ days \in [1..n -> D]
      /\ \A i, j \in 1..n : i < j <=> <<days[i], days[j]>> \in R
      /\ \A x \in D : \E i \in 1..n : days[i] = x
  BY <1>5, <1>7, Enumerates
<1>. HIDE DEF days, n
<1>9. days \in Seq(D) /\ Len(days) = n
  BY <1>8
<1>10. \A i, j \in 1..n : i < j => days[i] < days[j]
  BY <1>4, <1>8
<1>11. k \in Nat /\ k <= n /\ first \in Nat /\ first = n - k + 1 /\ (n <= limit => k = n) /\ first >= 1
  <2>. HIDE DEF limit
  <2> QED BY <1>2, <1>8
<1>. HIDE DEF k, first
<1>12. kept = [i \in 1..k |-> days[n - k + i]]
  <2>1. kept = [i \in 1..(n - first + 1) |-> days[first + i - 1]]
    BY <1>8, <1>9, <1>11
  <2>2. n - first + 1 = k
    BY <1>8, <1>11
  <2>3. \A i \in 1..k : first + i - 1 = n - k + i
    BY <1>8, <1>11
  <2> QED BY <2>1, <2>2, <2>3
<1>13. Report.of = n /\ Report.days = [i \in DOMAIN kept |-> DayLine(kept[i])]
  BY <1>6, <1>9 DEF Report, D, first
<1>14. Report.days = [i \in 1..k |-> DayLine(days[n - k + i])]
  <2>1. DOMAIN kept = 1..k /\ \A i \in 1..k : kept[i] = days[n - k + i]
    BY <1>12
  <2>. HIDE DEF kept
  <2> QED BY <1>13, <2>1
<1>15. ListsDays(n, k, days)
  BY <1>8, <1>10, <1>11, <1>13, <1>14 DEF D, ListsDays
<1> QED BY <1>8, <1>11, <1>15, Zenon

\* What is reported of them is well typed.
LEMMA ReportIsTyped ==
  ASSUME OverviewInv, unread = {}
  PROVE  Report.made /\ {Report.of, Report.active, Report.span} \subseteq Nat
<1>1. PICK n, k, days : n \in Nat /\ k \in Nat /\ ListsDays(n, k, days)
  BY DaysAreListed, Zenon
<1>2. Report.of \in Nat
  BY <1>1 DEF ListsDays
<1>3. Times \in Seq(Nat) /\ \A i, j \in DOMAIN Times : i < j => Times[i] <= Times[j]
  BY TimesRise
<1>4. GapCap \in Nat
  BY OverviewAssumption DEF OverviewAssumption
<1>5. Report.made /\ Report.active = Total(Gaps(Times, GapCap)) /\ Report.span = Span(Times)
  BY DEF Report, Capped, Gaps, Span
<1>6. Span(Times) \in Nat /\ Total(Gaps(Times, GapCap)) \in Nat
  BY <1>3, <1>4, GapsAddUp
<1> QED BY <1>2, <1>5, <1>6

\* The activity reported does not exceed the span, capped or not.
LEMMA ActivityIsWithinTheSpan ==
  ASSUME OverviewInv, unread = {}
  PROVE  Report.active <= Report.span /\ Capped(Report.span) = Report.span
<1>1. Times \in Seq(Nat) /\ \A i, j \in DOMAIN Times : i < j => Times[i] <= Times[j]
  BY TimesRise
<1>2. GapCap \in Nat
  BY OverviewAssumption DEF OverviewAssumption
<1>3. Report.active = Total(Gaps(Times, GapCap)) /\ Report.span = Span(Times)
  BY DEF Report, Capped, Gaps, Span
<1>. DEFINE x == Span(Times)
<1>4. x \in Nat /\ Total(Gaps(Times, GapCap)) <= x
  BY <1>1, <1>2, GapsAddUp
<1>5. x >= x
  BY <1>4
<1>. HIDE DEF x
<1>6. x >= Span(Times) => Total(Gaps(Times, x)) = Span(Times)
  BY <1>1, <1>4, GapsAddUp
<1>7. Capped(x) = Total(Gaps(Times, x))
  BY DEF Capped, Gaps
<1> QED BY <1>3, <1>4, <1>5, <1>6, <1>7 DEF x

\* All days reported, their rows are all that have a time.
LEMMA DaysHaveAllRows ==
  ASSUME OverviewInv, unread = {}, Report.of <= DayLimit
  PROVE  Total([i \in DOMAIN Report.days |-> Report.days[i].rows]) = Cardinality({r \in selected : r.at # 0})
<1>1. PICK n, k, days : n \in Nat /\ k \in Nat /\ ListsDays(n, k, days)
  BY DaysAreListed, Zenon
<1>2. /\ days \in [1..n -> DOMAIN buckets]
      /\ \A i, j \in 1..n : i < j => days[i] < days[j]
      /\ \A d \in DOMAIN buckets : \E i \in 1..n : days[i] = d
      /\ k = n /\ Report.days = [i \in 1..k |-> DayLine(days[n - k + i])]
  BY <1>1 DEF ListsDays
<1>. DEFINE R == TimedRead
            parts == [i \in 1..n |-> ReadOn(days[i])]
            s == [i \in DOMAIN Report.days |-> Report.days[i].rows]
<1>3. BucketsFollow /\ selected \in Selections \cup {{}} /\ unread \subseteq selected
  BY DEF OverviewInv
<1>4. IsFiniteSet(R) /\ R = {r \in selected : r.at # 0}
  BY <1>3, OverviewFacts DEF TimedRead
<1>5. \A i \in 1..n : n - k + i = i
  BY <1>1, <1>2
<1>6. s = [i \in 1..n |-> buckets[days[i]].rows]
  <2>. DEFINE y == Report.days
  <2>1. y = [i \in 1..n |-> DayLine(days[i])]
    BY <1>2, <1>5
  <2>. HIDE DEF y
  <2>2. [i \in DOMAIN y |-> y[i].rows] = [i \in 1..n |-> buckets[days[i]].rows]
    BY <2>1 DEF DayLine
  <2> QED BY <2>2 DEF y
<1>7. \A i \in 1..n : days[i] \in DOMAIN buckets /\ days[i] \in Nat /\ BucketOf(buckets[days[i]], ReadOn(days[i]))
  <2>1. ASSUME NEW i \in 1..n PROVE days[i] \in DOMAIN buckets /\ days[i] \in Nat /\ BucketOf(buckets[days[i]], ReadOn(days[i]))
    <3>. DEFINE d == days[i]
    <3>1. d \in DOMAIN buckets
      BY <1>2
    <3>. HIDE DEF d
    <3>2. d \in Nat /\ BucketOf(buckets[d], ReadOn(d))
      BY <3>1, RowsOfADay
    <3> QED BY <3>1, <3>2 DEF d
  <2> QED BY <2>1
<1>8. \A i \in 1..n : s[i] \in Nat /\ s[i] = Cardinality(parts[i])
  <2>1. ASSUME NEW i \in 1..n PROVE s[i] \in Nat /\ s[i] = Cardinality(parts[i])
    <3>1. s[i] = buckets[days[i]].rows /\ parts[i] = ReadOn(days[i])
      BY <1>6
    <3>. HIDE DEF s, parts
    <3> QED BY <1>7, <3>1 DEF BucketOf
  <2> QED BY <2>1
<1>9. s \in Seq(Nat) /\ Len(s) = n
  <2>1. s \in [1..n -> Nat]
    <3>1. DOMAIN s = 1..n /\ s = [i \in 1..n |-> s[i]]
      BY <1>6
    <3>. HIDE DEF s
    <3> QED BY <1>8, <3>1
  <2>. HIDE DEF s
  <2> QED BY <1>1, <2>1
<1>10. parts \in [1..n -> SUBSET R]
  BY DEF ReadOn
<1>11. \A i, j \in 1..n : i < j => parts[i] \cap parts[j] = {}
  <2>1. ASSUME NEW i \in 1..n, NEW j \in 1..n, i < j PROVE parts[i] \cap parts[j] = {}
    <3>. DEFINE x == days[i]
                y == days[j]
    <3>1. x \in Nat /\ y \in Nat /\ x < y
      BY <1>2, <1>7, <2>1
    <3>. HIDE DEF x, y
    <3>2. x # y
      BY <3>1
    <3>3. parts[i] = ReadOn(x) /\ parts[j] = ReadOn(y)
      BY DEF x, y
    <3>. HIDE DEF parts
    <3> QED BY <3>2, <3>3 DEF ReadOn
  <2> QED BY <2>1
<1>12. \A r \in R : \E i \in 1..n : r \in parts[i]
  <2>1. ASSUME NEW r \in R PROVE \E i \in 1..n : r \in parts[i]
    <3>. DEFINE d == Day(r.at)
    <3>1. d \in DOMAIN buckets
      BY <1>3 DEF BucketsFollow
    <3>2. PICK i \in 1..n : days[i] = d
      BY <1>2, <3>1
    <3>3. r \in ReadOn(days[i])
      BY <3>2 DEF ReadOn
    <3> QED BY <3>3
  <2> QED BY <2>1
<1>. HIDE DEF R, parts, s
<1>13. Total(s) = Cardinality(R)
  BY <1>1, <1>4, <1>8, <1>9, <1>10, <1>11, <1>12, PartsAddUp
<1> QED BY <1>4, <1>13 DEF s

\* What the line of a day tells of the rows S.
PromptsOf(S, d) == {r \in S : r.does = "prompts" /\ r.at # 0 /\ Day(r.at) = d}
AnswersOf(S, x) == {r.at : r \in {q \in S : Responds(q) /\ q.exchange = x /\ q.at # 0}}
LastOf(S, l) == {r \in PromptsOf(S, l.day) : r.at = l.lastAt}
EndsOf(S, l) ==
  {Max(AnswersOf(S, r.exchange)) : r \in {q \in LastOf(S, l) : Named(q.exchange) /\ AnswersOf(S, q.exchange) # {}}}
Tells(S, l) ==
  /\ PromptsOf(S, l.day) # {} => l.lastAt = Max({r.at : r \in PromptsOf(S, l.day)})
  /\ l.finalAt = 0 \/ l.finalAt \in {t \in EndsOf(S, l) : t >= l.lastAt}
  /\ Cardinality(LastOf(S, l)) = 1 /\ (\E t \in EndsOf(S, l) : t >= l.lastAt) => l.finalAt # 0

\* What the lines tell is a matter of the selection and the line.
LEMMA LinesTell ==
  /\ LastPromptIsAnswered <=> (overview.made => \A l \in ToSet(overview.days) : Tells(selected, l))
  /\ LastPromptIsAnswered' <=> (overview'.made => \A l \in ToSet(overview'.days) : Tells(selected', l))
<1>1. LastPromptIsAnswered <=> (overview.made => \A l \in ToSet(overview.days) : Tells(selected, l))
  BY DEF LastPromptIsAnswered, Tells, PromptsOn, Answers, PromptsOf, AnswersOf, LastOf, EndsOf
<1>2. LastPromptIsAnswered' <=> (overview'.made => \A l \in ToSet(overview'.days) : Tells(selected', l))
  BY DEF LastPromptIsAnswered, Tells, PromptsOn, Answers, PromptsOf, AnswersOf, LastOf, EndsOf, ToSet, Day, Responds, Named
<1> QED BY <1>1, <1>2

\* Reporting keeps the invariant.
LEMMA SummariseKeeps == ASSUME OverviewInv, Summarise PROVE OverviewInv'
<1>1. unread = {} /\ overview' = Report /\ UNCHANGED <<selected, unread, buckets, latest, stamps>>
  BY DEF Summarise
<1>2. /\ selected \in Selections \cup {{}} /\ unread \subseteq selected
      /\ BucketsFollow /\ LatestFollows /\ StampsFollow
  BY DEF OverviewInv
<1>3. BucketsFollow' /\ LatestFollows' /\ StampsFollow'
  <2>1. TimedRead' = TimedRead
    BY <1>1 DEF TimedRead
  <2> QED BY <1>1, <1>2, <2>1, NothingTakenUp
<1>4. overview'.made /\ {overview'.of, overview'.active, overview'.span} \subseteq Nat
  BY <1>1, ReportIsTyped
<1>6. LastPromptIsAnswered'
  <2>. SUFFICES ASSUME NEW l \in ToSet(overview'.days)
       PROVE  Tells(selected, l)
    BY <1>1, LinesTell
  <2>1. PICK n, k, days : n \in Nat /\ k \in Nat /\ ListsDays(n, k, days)
    BY <1>1, DaysAreListed, Zenon
  <2>2. /\ days \in [1..n -> DOMAIN buckets] /\ k <= n
        /\ overview'.days = [i \in 1..k |-> DayLine(days[n - k + i])]
    BY <1>1, <2>1 DEF ListsDays
  <2>3. PICK i \in 1..k : l = DayLine(days[n - k + i])
    BY <2>2 DEF ToSet
  <2>. DEFINE d == days[n - k + i]
  <2>4. d \in DOMAIN buckets /\ l = DayLine(d)
    <3>1. n - k + i \in 1..n
      BY <2>1, <2>2
    <3> QED BY <2>2, <2>3, <3>1
  <2>. DEFINE last == {r \in PromptsOn(l.day) : r.at = l.lastAt}
              ends == {Max(Answers(r.exchange)) : r \in {q \in last : Named(q.exchange) /\ Answers(q.exchange) # {}}}
  <2>5. /\ last = {r \in PromptsOn(l.day) : r.at = l.lastAt}
        /\ ends = {Max(Answers(r.exchange)) : r \in {q \in last : Named(q.exchange) /\ Answers(q.exchange) # {}}}
    OBVIOUS
  <2>. HIDE DEF d, last, ends
  <2>6. /\ PromptsOn(l.day) # {} => l.lastAt = Max({r.at : r \in PromptsOn(l.day)})
        /\ l.finalAt = 0 \/ l.finalAt \in {t \in ends : t >= l.lastAt}
        /\ Cardinality(last) = 1 /\ (\E t \in ends : t >= l.lastAt) => l.finalAt # 0
    BY <1>1, <2>4, <2>5, DayLineTells
  <2> QED BY <2>6 DEF last, ends, Tells, PromptsOn, Answers, PromptsOf, AnswersOf, LastOf, EndsOf
<1>7. DaysCoverTheRows'
  <2>1. \A c : Capped(c)' = Capped(c)
    BY <1>1 DEF Capped, Times
  <2>2. Report.active <= Report.span /\ Capped(Report.span) = Report.span
    BY <1>1, ActivityIsWithinTheSpan
  <2>3. Capped(overview.span)' = Capped(Report.span)
    BY <1>1 DEF Capped, Times
  <2>4. ASSUME overview'.of <= DayLimit
        PROVE  Total([i \in DOMAIN overview'.days |-> overview'.days[i].rows]) = Cardinality({r \in selected' : r.at # 0})
    BY <1>1, <2>4, DaysHaveAllRows
  <2> QED BY <1>1, <2>2, <2>3, <2>4 DEF DaysCoverTheRows
<1> QED BY <1>1, <1>2, <1>3, <1>4, <1>6, <1>7 DEF OverviewInv, OverviewFollowsTheRows

\* Every step keeps it.
LEMMA OverviewKeeps == OverviewInv /\ [OverviewNext]_overviewVars => OverviewInv'
<1>. SUFFICES ASSUME OverviewInv, [OverviewNext]_overviewVars PROVE OverviewInv'
  OBVIOUS
<1>1. CASE Select
  BY <1>1, SelectKeeps
<1>2. CASE ReadRow
  BY <1>2, ReadRowKeeps
<1>3. CASE Summarise
  BY <1>3, SummariseKeeps
<1>4. CASE UNCHANGED overviewVars
  <2>1. UNCHANGED <<selected, unread, buckets, latest, stamps, overview>>
    BY <1>4 DEF overviewVars
  <2>2. TimedRead' = TimedRead
    BY <2>1 DEF TimedRead
  <2>3. BucketsFollow' /\ LatestFollows' /\ StampsFollow'
    BY <2>1, <2>2, NothingTakenUp DEF OverviewInv
  <2>4. OverviewFollowsTheRows'
    <3>1. OverviewFollowsTheRows
      BY DEF OverviewInv
    <3>2. LastPromptIsAnswered'
      BY <2>1, <3>1, LinesTell DEF OverviewFollowsTheRows
    <3>3. DaysCoverTheRows'
      BY <2>1, <3>1 DEF OverviewFollowsTheRows, DaysCoverTheRows, Capped, Times
    <3> QED BY <3>2, <3>3 DEF OverviewFollowsTheRows
  <2> QED BY <2>1, <2>3, <2>4 DEF OverviewInv
<1> QED BY <1>1, <1>2, <1>3, <1>4 DEF OverviewNext

\* The invariant of the overview.
LEMMA OverviewInvariant == OverviewSpec => []OverviewInv
<1>1. OverviewInit => OverviewInv
  BY OverviewStarts
<1>2. OverviewInv /\ [OverviewNext]_overviewVars => OverviewInv'
  BY OverviewKeeps
<1> QED BY <1>1, <1>2, PTL DEF OverviewSpec

\* Buckets, last responses, stamps and the report are well typed (query_api.py).
THEOREM OverviewIsTyped == OverviewSpec => []OverviewTypeOK
<1>1. OverviewInv => OverviewTypeOK
  <2>. SUFFICES ASSUME OverviewInv PROVE OverviewTypeOK
    OBVIOUS
  <2>1. /\ selected \in Selections \cup {{}} /\ unread \subseteq selected
        /\ BucketsFollow /\ LatestFollows /\ StampsFollow
        /\ overview.made \in BOOLEAN /\ {overview.of, overview.active, overview.span} \subseteq Nat
    BY DEF OverviewInv
  <2>2. TimedRead \subseteq selected /\ \A r \in TimedRead : r.at \in Nat
    BY <2>1, OverviewFacts DEF TimedRead
  <2>3. ASSUME NEW d \in DOMAIN buckets
        PROVE  buckets[d].rows \in Nat /\ buckets[d].lastAt \in Nat /\ buckets[d].prompts \subseteq {r.exchange : r \in selected}
    <3>. DEFINE b == buckets[d]
    <3>1. BucketOf(b, ReadOn(d))
      BY <2>1 DEF BucketsFollow
    <3>. HIDE DEF b
    <3>2. b.rows \in Nat /\ b.lastAt \in Nat /\ b.prompts \subseteq {r.exchange : r \in ReadOn(d)}
      BY <3>1 DEF BucketOf
    <3>3. ReadOn(d) \subseteq selected
      BY <2>2 DEF ReadOn
    <3> QED BY <3>2, <3>3 DEF b
  <2>4. \A x \in DOMAIN latest : latest[x] \in Nat
    BY <2>1, <2>2 DEF LatestFollows, LastResponse
  <2>5. stamps \subseteq {<<r.at, r.key>> : r \in selected}
    BY <2>1, <2>2 DEF StampsFollow
  <2> QED BY <2>1, <2>3, <2>4, <2>5 DEF OverviewTypeOK
<1> QED BY <1>1, OverviewInvariant, PTL

\* In whatever order rows are read, a day's line has its last prompt and the last
\* response to it, no timed row is lost or counted on two days, and activity neither
\* exceeds the span nor misses part of it that has no long gap (query_api._overview).
THEOREM OverviewsFollowTheRows == OverviewSpec => []OverviewFollowsTheRows
<1>1. OverviewInv => OverviewFollowsTheRows
  BY DEF OverviewInv
<1> QED BY <1>1, OverviewInvariant, PTL

---------------------------------------------------------------------------
(* The nine together (Decodings). *)

Parts == {"codex", "claude", "cursor", "session", "store", "query", "command", "overview", "tokens"}

\* A behaviour of the nine is one of each: a step of another leaves it alone.
THEOREM DecodingsImplementTheirParts ==
  DecodingsSpec => /\ RolloutSpec /\ TranscriptSpec /\ DecodingSpec /\ GroupingSpec /\ StoreSpec
                   /\ QuerySpec /\ QueryScopeSpec /\ OverviewSpec /\ TokenSpec
<1>1. DecodingsInit => /\ RolloutInit /\ TranscriptInit /\ DecodingInit /\ GroupingInit /\ StoreInit
                       /\ QueryInit /\ QueryScopeInit /\ OverviewInit /\ TokenInit
  BY DEF DecodingsInit
<1>2. [DecodingsNext]_decodingVars => [RolloutNext]_rolloutVars
  BY DEF DecodingsNext, decodingVars
<1>3. [DecodingsNext]_decodingVars => [TranscriptNext]_transcriptVars
  BY DEF DecodingsNext, decodingVars
<1>4. [DecodingsNext]_decodingVars => [DecodingNext]_cursorVars
  BY DEF DecodingsNext, decodingVars
<1>5. [DecodingsNext]_decodingVars => [GroupingNext]_groupingVars
  BY DEF DecodingsNext, decodingVars
<1>6. [DecodingsNext]_decodingVars => [StoreNext]_storeVars
  BY DEF DecodingsNext, decodingVars
<1>7. [DecodingsNext]_decodingVars => [QueryNext]_queryVars
  BY DEF DecodingsNext, decodingVars
<1>8. [DecodingsNext]_decodingVars => [QueryScopeNext]_scopeVars
  BY DEF DecodingsNext, decodingVars
<1>9. [DecodingsNext]_decodingVars => [OverviewNext]_overviewVars
  BY DEF DecodingsNext, decodingVars
<1>10. [DecodingsNext]_decodingVars => [TokenNext]_tokenVars
  BY DEF DecodingsNext, decodingVars
<1> QED BY <1>1, <1>2, <1>3, <1>4, <1>5, <1>6, <1>7, <1>8, <1>9, <1>10, PTL
  DEF DecodingsSpec, RolloutSpec, TranscriptSpec, DecodingSpec, GroupingSpec, StoreSpec,
      QuerySpec, QueryScopeSpec, OverviewSpec, TokenSpec

\* Which component a behaviour is of is settled at its start.
LEMMA PartIsSettled == DecodingsSpec => [](part \in Parts)
<1>1. DecodingsInit => part \in Parts
  BY DEF DecodingsInit, Parts
<1>2. part \in Parts /\ [DecodingsNext]_decodingVars => (part \in Parts)'
  BY DEF DecodingsNext, decodingVars
<1> QED BY <1>1, <1>2, PTL DEF DecodingsSpec

\* The state of whatever decodes, stores or answers is well typed at every step
\* (the variables and rows of codex.py, cc.py, cursor.py, store.py, query_api.py,
\* query_cmd.py and token_usage.py).
THEOREM DecodingsAreTyped == DecodingsSpec => []DecodingsTypeOK
<1>1. part \in Parts /\ RolloutTypeOK /\ TranscriptTypeOK /\ DecodingTypeOK /\ GroupingTypeOK
      /\ StoreTypeOK /\ QueryTypeOK /\ QueryScopeTypeOK /\ OverviewTypeOK /\ TokenTypeOK
      => DecodingsTypeOK
  BY DEF Parts, DecodingsTypeOK
<1> QED BY <1>1, PartIsSettled, DecodingsImplementTheirParts, RolloutIsTyped, TranscriptIsTyped,
           DecodingIsTyped, GroupingIsTyped, StoreTypesHold, QueryIsTyped, CommandsAreTyped,
           OverviewIsTyped, TokensAreTyped, PTL

\* Every answer is what the rows and files it was asked of say: the rows of a query
\* (query_api.py), the listing, counts and lineage of a command (query_cmd.py), the
\* days of an overview (query_api._overview) and the tokens of files (token_usage.py).
THEOREM AnswersAreTrue == DecodingsSpec => []AnswersFollowTheData
<1>1. AnswersFollowTheStores /\ CommandsReadTheirSnapshots /\ OverviewFollowsTheRows /\ TokensFollowTheFiles
      => AnswersFollowTheData
  BY DEF AnswersFollowTheData
<1> QED BY <1>1, DecodingsImplementTheirParts, QueriesFollowTheStores, CommandsTellTheirSnapshots,
           OverviewsFollowTheRows, TokenCountsFollowTheFiles, PTL
=============================================================================
