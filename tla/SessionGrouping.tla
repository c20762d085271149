-------------------------- MODULE SessionGrouping --------------------------
(***************************************************************************)
(* One Session as the store rebuilds it from decoded Events                *)
(* (codess/store.py, replace_session_events): interactions, model turns,   *)
(* the configuration a model Event inherits, tool invocations and the      *)
(* Session's own model, one Event a step, in the order they are decoded.   *)
(***************************************************************************)
EXTENDS Integers, Sequences, FiniteSets, SequencesExt

CONSTANTS
  Params,      \* sets of model parameters, as model_params interns them
  Turns,       \* turn identifiers a vendor states
  Calls,       \* identifiers of tool calls
  Decoded,     \* the Events an adapter may decode
  MaxStored    \* bound: Events of the Session

Unset == "unset"

(* What the store reads of a decoded Event. `continues`: its id begins     *)
(* with the record of the previous Event ("a:0", "a:1").                   *)
GroupingAssumption ==
  /\ MaxStored \in Nat /\ Unset \notin Params \cup Turns \cup Calls
  /\ Decoded \subseteq
       [kind : {"prompt", "response", "call", "result", "context"},
        params : Params \cup {Unset}, provenance : BOOLEAN,
        turn : Turns \cup {Unset}, continues : BOOLEAN, call : Calls \cup {Unset}]

ASSUME GroupingBounds == GroupingAssumption

VARIABLES
  session,       \* [cursor, params, basis, models]: the Session's row
  stored,        \* the Events, with the group each was given
  interactions,  \* [initiation, opener] in order
  turns,         \* [key, interaction, params] in order
  force,         \* [params, anchor]: the configuration in force, and the Event
                 \*   whose provenance states it (0 when none does)
  invocations    \* call -> [kind, turn, results]

groupingVars == <<session, stored, interactions, turns, force, invocations>>

NoInvocation == [kind |-> Unset, turn |-> 0, results |-> 0]

GroupingTypeOK ==
  /\ session \in [open : BOOLEAN, cursor : BOOLEAN, params : Params \cup {Unset},
                  basis : {Unset, "vendor", "initial_event"}, models : Nat]
  /\ \A i \in DOMAIN stored :
       /\ stored[i].event \in Decoded
       /\ stored[i].interaction \in 0..Len(interactions)
       /\ stored[i].turn \in 0..Len(turns)
       /\ stored[i].inherits \in 0..Len(stored)
  /\ \A i \in DOMAIN turns : turns[i].interaction \in 1..Len(interactions)
  /\ force.anchor \in 0..Len(stored)
  /\ \A c \in Calls : invocations[c].turn \in 0..Len(turns)

-----------------------------------------------------------------------------
(*                               One Event                                 *)

OfModel(e) == e.kind \in {"response", "call"}

(* Only prompts and model Events are asked for parameters.                 *)
States(e) == (OfModel(e) \/ e.kind = "prompt") /\ e.params # Unset

(* A prompt always opens an interaction; model activity opens one only     *)
(* where none is open (a scheduled or looped turn).                        *)
Opens(e) == e.kind = "prompt" \/ (OfModel(e) /\ interactions = <<>>)

Grouped(e) ==
  IF Opens(e)
  THEN Append(interactions,
              [initiation |-> IF e.kind = "prompt" THEN "human" ELSE "autonomous",
               opener |-> Len(stored) + 1])
  ELSE interactions

(* The configuration in force after an Event.                              *)
\* Faulty variant: parameters that differ keep the provenance of the former ones.
InForceKept(e) ==
  IF ~States(e) THEN force
  ELSE [params |-> e.params,
        anchor |-> IF e.provenance THEN Len(stored) + 1 ELSE force.anchor]

InForce(e) ==
  IF ~States(e) THEN force
  ELSE [params |-> e.params,
        anchor |-> IF e.provenance THEN Len(stored) + 1
                   ELSE IF e.kind = "prompt" \/ e.params # force.params THEN 0
                   ELSE force.anchor]

(* A model Event without provenance of its own takes the one in force.     *)
Inherits(e) ==
  IF OfModel(e) /\ ~e.provenance /\ InForce(e).params # Unset THEN InForce(e).anchor ELSE 0

(* What tells turns apart: the interaction for Cursor, the turn the vendor *)
(* states, or the record the Event came from.                              *)
TurnKey(e) ==
  IF session.cursor THEN <<"interaction", Len(Grouped(e))>>
  ELSE IF e.turn # Unset THEN <<"vendor", e.turn>>
  ELSE <<"record", IF e.continues /\ stored # <<>> THEN Last(stored).line ELSE Len(stored) + 1>>

TurnOf(e) ==
  IF \E i \in DOMAIN turns : turns[i].key = TurnKey(e)
  THEN CHOOSE i \in DOMAIN turns : turns[i].key = TurnKey(e)
  ELSE Len(turns) + 1

WithTurn(e) ==
  IF OfModel(e) /\ TurnOf(e) > Len(turns)
  THEN Append(turns, [key |-> TurnKey(e), interaction |-> Len(Grouped(e)),
                      params |-> InForce(e).params])
  ELSE turns

(* An invocation is created by whichever of its records comes first; a     *)
(* request promotes it, nothing demotes it, and its turn stays.            *)
\* Faulty variant: the last record decides the kind.
WithRecordLast(i, e, turn) ==
  [kind |-> IF e.kind = "call" THEN "model_requested" ELSE "harness_observed",
   turn |-> IF i.kind = Unset THEN turn ELSE i.turn,
   results |-> i.results + IF e.kind = "result" THEN 1 ELSE 0]

WithRecord(i, e, turn) ==
  [kind |-> IF e.kind = "call" THEN "model_requested"
            ELSE IF i.kind = Unset THEN "harness_observed" ELSE i.kind,
   turn |-> IF i.kind = Unset THEN turn ELSE i.turn,
   results |-> i.results + IF e.kind = "result" THEN 1 ELSE 0]

-----------------------------------------------------------------------------
GroupingInit ==
  /\ session = [open |-> FALSE, cursor |-> FALSE, params |-> Unset, basis |-> Unset, models |-> 0]
  /\ stored = <<>> /\ interactions = <<>> /\ turns = <<>>
  /\ force = [params |-> Unset, anchor |-> 0]
  /\ invocations = [c \in Calls |-> NoInvocation]

(* The Session's row is written first; its parameters start the chain.     *)
UpsertSession(cursor, params) ==
  /\ ~session.open
  /\ session' = [session EXCEPT !.open = TRUE, !.cursor = cursor, !.params = params]
  /\ force' = [params |-> params, anchor |-> 0]
  /\ UNCHANGED <<stored, interactions, turns, invocations>>

StoreEvent(e) ==
  LET turn == IF OfModel(e) THEN TurnOf(e) ELSE 0 IN
  /\ session.open /\ Len(stored) < MaxStored
  /\ stored' = Append(stored,
       [event |-> e, interaction |-> Len(Grouped(e)), turn |-> turn, inherits |-> Inherits(e),
        line |-> IF e.continues /\ stored # <<>> THEN Last(stored).line ELSE Len(stored) + 1])
  /\ interactions' = Grouped(e)
  /\ force' = InForce(e)
  /\ turns' = WithTurn(e)
  /\ invocations' =
       IF e.kind \in {"call", "result"} /\ e.call # Unset
       THEN [invocations EXCEPT ![e.call] = WithRecord(@, e, turn)]
       ELSE invocations
  /\ UNCHANGED session

(* The Session's model: what the vendor stated, else the first parameters  *)
(* a turn carries; and how many different ones its turns carry.            *)
Served == {turns[i].params : i \in DOMAIN turns} \ {Unset}
FirstServed == SelectInSeq(turns, LAMBDA t : t.params # Unset)

RecordModelEvidence ==
  /\ session.open /\ session.basis = Unset /\ stored # <<>>
  /\ session' =
       [session EXCEPT
          !.open = FALSE, !.models = Cardinality(Served),
          !.params = IF @ = Unset /\ Served # {} THEN turns[FirstServed].params ELSE @,
          !.basis = IF session.params # Unset THEN "vendor"
                    ELSE IF Served # {} THEN "initial_event" ELSE Unset]
  /\ UNCHANGED <<stored, interactions, turns, force, invocations>>

GroupingNext ==
  \/ stored = <<>> /\ \E cursor \in BOOLEAN, params \in Params \cup {Unset} :
       UpsertSession(cursor, params)
  \/ session.open /\ \E e \in Decoded : StoreEvent(e)
  \/ RecordModelEvidence

GroupingSpec == GroupingInit /\ [][GroupingNext]_groupingVars

-----------------------------------------------------------------------------
(* A configuration marked as inherited really governs the Event: the Event *)
(* it names comes earlier, states it with provenance, and no prompt or     *)
(* model Event from there to here states other parameters.                 *)
InheritedConfigurationGoverns ==
  \A i \in DOMAIN stored : LET g == stored[i].inherits IN
    g # 0 =>
      /\ g < i /\ stored[g].event.provenance
      /\ \A j \in g..i : States(stored[j].event) => stored[j].event.params = stored[g].event.params

(* An invocation counts as requested by the model exactly when some record *)
(* of its call is a request, in whatever order request and result arrive.  *)
RequestsAreRemembered ==
  \A c \in Calls :
    invocations[c].kind = "model_requested" <=>
      \E i \in DOMAIN stored : stored[i].event.kind = "call" /\ stored[i].event.call = c

(* What the store derives from the order of Events, in one pass over them, *)
(* is what the whole Session says.                                         *)
GroupingIsCoherent == InheritedConfigurationGoverns /\ RequestsAreRemembered
=============================================================================
