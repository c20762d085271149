--------------------------- MODULE CursorDecoding ---------------------------
(***************************************************************************)
(* Decoding of the composers of one Cursor database (adapters/cursor.py,   *)
(* process_db).                                                            *)
(*                                                                         *)
(* The rows of all composers stand in one table, in the order of their     *)
(* keys.  A pass over them finds which composer states which request and    *)
(* which tool call, and binds to it the agentKv messages, which state no   *)
(* composer.  The main pass collects the bubbles of one composer, drops     *)
(* the copies the server wrote, orders them by time, yields their Events,  *)
(* then those of the messages bound to the composer, and forgets it.  The  *)
(* consumer takes a change of composer for the end of the earlier one.     *)
(***************************************************************************)
EXTENDS Naturals, Sequences, FiniteSets, SequencesExt, Orders

CONSTANTS
  Composer,     \* composers, numbered in the order of their keys
  Bubbles,      \* sets of bubbles a database may hold, of the form Bubble
  Messages,     \* sets of agentKv messages, of the form Message
  Reference     \* identities of requests and tool calls

None == "none"
\* The parts of a bubble that may become Events.  A prompt is a user's; the
\* others an assistant's.  The policy refuses kinds of parts, a response
\* before or after it was bounded.
Part == {"prompt", "response", "reasoning", "compaction", "call", "result"}
Bubble == [composer : Composer, key : Nat \ {0}, time : Nat,      \* time 0: not stated
           server : {None} \cup Reference,   \* identity the server gave it
           states : SUBSET Reference,        \* requests and calls it states
           call : {None} \cup Reference,     \* the tool call it records
           context : BOOLEAN,                \* has a request context of its own
           parts : SUBSET Part, readable : BOOLEAN]
Message == [key : Nat, states : SUBSET Reference, unique : BOOLEAN]

\* A bubble is read by its composer and its key (the key of its row).
KeysTellApart(B) ==
  \A a, b \in B : a.composer = b.composer /\ a.key = b.key => a = b

ASSUME DatabaseAssumption ==
  /\ Composer \subseteq Nat \ {0}
  /\ \A B \in Bubbles : IsFiniteSet(B) /\ B \subseteq Bubble /\ KeysTellApart(B)
  /\ \A M \in Messages : IsFiniteSet(M) /\ M \subseteq Message

VARIABLES
  rows,       \* bubble rows still to be read
  corpus,     \* the agentKv messages
  policy,     \* what the content policy refuses
  bound,      \* messages bound to each composer and not yielded
  current,    \* composer being collected, 0 for none
  pending,    \* its bubbles
  yielded,    \* Events, each with its composer
  rejected,   \* rows and messages refused with a stored reason
  malformed,  \* rows that only a counter of the run knows about
  phase        \* "open", "bind", "read", "done"

cursorVars == <<rows, corpus, policy, bound, current, pending, yielded,
                rejected, malformed, phase>>

DecodingTypeOK ==
  /\ rows \subseteq Bubble /\ corpus \subseteq Message
  /\ policy \subseteq Part \cup {"late"}
  /\ bound \in [Composer -> SUBSET corpus]
  /\ current \in Composer \cup {0}
  /\ pending \subseteq Bubble
  /\ \A b \in pending : b.composer = current
  /\ yielded \in Seq([composer : Composer, from : Bubble \cup Message,
                      part : Part \cup {"context", "message"}, tokens : BOOLEAN,
                      duplicateOf : Nat])
  /\ phase \in {"open", "bind", "read", "done"}

DecodingInit ==
  /\ rows = {} /\ corpus = {} /\ policy = {}
  /\ bound = [c \in Composer |-> {}] /\ current = 0 /\ pending = {}
  /\ yielded = <<>> /\ rejected = {} /\ malformed = {} /\ phase = "open"

OpenDatabase ==
  /\ phase = "open" /\ phase' = "bind"
  /\ rows' \in Bubbles /\ corpus' \in Messages
  /\ policy' \in {{}, {"prompt"}, {"response"}, {"response", "late"}, {"result"}}
  /\ UNCHANGED <<bound, current, pending, yielded, rejected, malformed>>

\* The composers of which a readable bubble states something a message states.
Holders(m) == {b.composer : b \in {x \in rows : x.readable /\ x.states \cap m.states # {}}}

\* A message goes to one composer that holds what it states (the code takes
\* the last for a request and the first for a call).  One that cannot be
\* placed is refused.  Without bindings the corpus is not read.
BindMessages ==
  /\ phase = "bind" /\ phase' = "read"
  /\ \E place \in [corpus -> Composer \cup {0}] :
       /\ \A m \in corpus : IF Holders(m) = {} THEN place[m] = 0 ELSE place[m] \in Holders(m)
       /\ bound' = [c \in Composer |-> {m \in corpus : place[m] = c /\ m.unique}]
       /\ rejected' = IF \E b \in rows : b.readable /\ b.states # {}
                      THEN rejected \cup {m \in corpus : place[m] = 0} ELSE rejected
  /\ UNCHANGED <<rows, corpus, policy, current, pending, yielded, malformed>>

-----------------------------------------------------------------------------
(* One composer. *)

\* Bubbles without a time come last; the key decides between equals.
Before(a, b) ==
  \/ a.time # 0 /\ b.time = 0
  \/ /\ (a.time = 0) = (b.time = 0)
     /\ (a.time < b.time \/ (a.time = b.time /\ a.key < b.key))

IsUser(b) == "prompt" \in b.parts

\* Of the copies the server made of a bubble, the earliest.  A bubble without
\* an identity from the server is never taken for a copy.
SameServer(a, b) == a.server # None /\ a.server = b.server /\ IsUser(a) = IsUser(b)
Canonical(B) == {b \in B : \A a \in B : SameServer(a, b) => a = b \/ Before(b, a)}

Ordered(B) == ListOf(B, Before)

\* Faulty variant: in the order of the keys, as the rows were read.
RepeatsUnsorted(B, b) ==
  {a.key : a \in {x \in B : x.call # None /\ x.call = b.call /\ x.key < b.key
                  /\ \A y \in B : y.call = b.call => x.key <= y.key}}
\* The key of the first bubble that recorded the tool call of b, if b repeats it.
Repeats(B, b) ==
  {a.key : a \in {x \in B : x.call # None /\ x.call = b.call /\ Before(x, b)
                  /\ \A y \in B : y.call = b.call => x = y \/ Before(x, y)}}

Opt(cond, part) == IF cond THEN <<part>> ELSE <<>>
Keeps(b, part) == part \in b.parts /\ part \notin policy

PromptParts(b)    == Opt(Keeps(b, "prompt"), "prompt")
ResponseParts(b)  == Opt(Keeps(b, "response"), "response")
ReasoningParts(b) == Opt(Keeps(b, "reasoning"), "reasoning")
SummaryParts(b)   == Opt(Keeps(b, "compaction"), "compaction")
\* A tool call becomes an Event whatever the policy says of its input.
ToolParts(b)      == Opt("call" \in b.parts, "call") \o Opt(Keeps(b, "result"), "result")

\* A response refused after it was bounded ends the decoding of its bubble.
PartsOf(b) ==
  IF IsUser(b) THEN PromptParts(b)
  ELSE IF "response" \in b.parts /\ {"response", "late"} \subseteq policy THEN <<>>
  ELSE ResponseParts(b) \o ReasoningParts(b) \o SummaryParts(b) \o ToolParts(b)

\* Faulty variant: every Event carries the tokens of the bubble.
CarriesEvery(i) == TRUE
\* The first Event of a bubble carries its tokens.
CarriesTokens(i) == i = 1

EventsOf(b, B) ==
  LET parts == PartsOf(b)
      first == Repeats(B, b)
  IN  [i \in DOMAIN parts |->
         [composer |-> b.composer, from |-> b, part |-> parts[i],
          tokens |-> CarriesTokens(i),
          duplicateOf |-> IF first = {} THEN 0 ELSE CHOOSE k \in first : TRUE]]

Loose(c, from, part) == [composer |-> c, from |-> from, part |-> part,
                         tokens |-> FALSE, duplicateOf |-> 0]
ContextEvents(b) == IF b.context THEN <<Loose(b.composer, b, "context")>> ELSE <<>>
\* (A policy that refuses the text of a message is left out.)
MessageEvents(c) ==
  LET list == SetToSeq(bound[c])
  IN  [i \in DOMAIN list |-> Loose(c, list[i], "message")]

\* What the collected composer yields: its bubbles, each with its request
\* context, and the contexts of the copies that were dropped.
ComposerEvents ==
  LET B == Canonical(pending)
      order == Ordered(B)
      dropped == Ordered(pending \ B)
  IN  FlattenSeq([i \in DOMAIN order |-> EventsOf(order[i], B) \o ContextEvents(order[i])])
      \o FlattenSeq([i \in DOMAIN dropped |-> ContextEvents(dropped[i])])

\* Faulty variant: the messages of all composers follow the last one.
FlushApart ==
  /\ yielded' = yielded \o ComposerEvents
       \o (IF rows = {} THEN FlattenSeq([c \in 1..Cardinality(Composer) |-> MessageEvents(c)])
                        ELSE <<>>)
  /\ UNCHANGED bound
\* Faulty variant: the messages of a composer are forgotten with it.
FlushBare ==
  /\ yielded' = yielded \o ComposerEvents
  /\ bound' = [c \in Composer |-> IF c = current THEN {} ELSE bound[c]]
\* The composer collected so far is yielded as a whole.
Flush ==
  /\ yielded' = yielded \o ComposerEvents \o (IF current = 0 THEN <<>> ELSE MessageEvents(current))
  /\ bound' = [c \in Composer |-> IF c = current THEN {} ELSE bound[c]]
Refusals == {b \in Canonical(pending) : PartsOf(b) = <<>>}

\* The next row by key.
NextRow(b) == \A a \in rows : \/ b.composer < a.composer
                              \/ b.composer = a.composer /\ b.key <= a.key
ReadBubble(b) ==
  /\ phase = "read" /\ b \in rows /\ NextRow(b)
  /\ rows' = rows \ {b}
  /\ IF ~b.readable
     THEN malformed' = malformed \cup {b}
          /\ UNCHANGED <<bound, current, pending, yielded, rejected>>
     ELSE /\ current' = b.composer /\ UNCHANGED malformed
          /\ IF b.composer = current
             THEN pending' = pending \cup {b} /\ UNCHANGED <<bound, yielded, rejected>>
             ELSE pending' = {b} /\ Flush /\ rejected' = rejected \cup Refusals
  /\ UNCHANGED <<corpus, policy, phase>>

EndRows ==
  /\ phase = "read" /\ rows = {} /\ phase' = "done"
  /\ Flush /\ rejected' = rejected \cup Refusals /\ pending' = {} /\ current' = 0
  /\ UNCHANGED <<rows, corpus, policy, malformed>>

DecodingNext ==
  \/ OpenDatabase \/ BindMessages \/ EndRows
  \/ \E b \in rows : ReadBubble(b)

DecodingSpec == DecodingInit /\ [][DecodingNext]_cursorVars

-----------------------------------------------------------------------------
(* Properties *)

\* The Events of a composer stand together: the consumer stores a Session when
\* the composer changes and refuses one that it has stored.
ComposersStandTogether ==
  \A i, j \in DOMAIN yielded : \A k \in i..j :
    yielded[i].composer = yielded[j].composer => yielded[k].composer = yielded[i].composer

\* The tokens of a bubble are counted exactly once if it left any Event.
TokensCountOnce ==
  \A i \in DOMAIN yielded : yielded[i].part \in Part =>
    Cardinality({j \in DOMAIN yielded : yielded[j].from = yielded[i].from
                                        /\ yielded[j].tokens}) = 1

\* A bubble said to repeat another one follows it in the order of time, both
\* record the same call, and the other is no repetition itself.
RepeatsFollowTheOriginal ==
  \A i \in DOMAIN yielded : yielded[i].duplicateOf # 0 =>
    \A j \in DOMAIN yielded :
      /\ yielded[j].from.key = yielded[i].duplicateOf /\ yielded[j].part \in Part
      /\ yielded[j].composer = yielded[i].composer
      => /\ j < i /\ yielded[j].from.call = yielded[i].from.call
         /\ yielded[j].duplicateOf = 0

\* Usage is counted once: the tokens of a bubble, and a tool call recorded again
\* (CarriesTokens; _repeat_references).
NothingCountsTwice == TokensCountOnce /\ RepeatsFollowTheOriginal

\* If the agentKv messages were read, every one that carries evidence of its
\* own ends as an Event of one composer or as a stored refusal.
MessagesFindTheirComposer ==
  LET traced(m) == m \in rejected \/ \E i \in DOMAIN yielded : yielded[i].from = m
  IN  phase = "done" /\ (\E m \in corpus : traced(m)) =>
        \A m \in corpus : m.unique => traced(m)

\* What belongs to a composer is yielded with it, and counted once: its bubbles,
\* their repetitions and the agentKv messages that only the composer can place.
ComposersAreWhole ==
  ComposersStandTogether /\ NothingCountsTwice /\ MessagesFindTheirComposer
=============================================================================
