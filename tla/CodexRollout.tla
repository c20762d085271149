---------------------------- MODULE CodexRollout ----------------------------
(***************************************************************************)
(* Decoding of one Codex rollout (adapters/codex.py, process_file).        *)
(*                                                                         *)
(* A rollout is a file of records, one per line.  A first pass over it     *)
(* collects what a record can only learn from others: the name under which *)
(* each call was made, how often each text was submitted by the person at  *)
(* the keyboard, and which MCP calls answered with a failure.  The second  *)
(* pass turns one line after the other into Events.  It carries the        *)
(* configuration that is in force and the submissions that no message has  *)
(* claimed yet.  The content policy may refuse the body of any record that *)
(* has one: that is a choice here.  A text is its comparison key.          *)
(***************************************************************************)
EXTENDS Naturals, Sequences, FiniteSets

CONSTANTS
  Text,        \* comparison keys of messages
  Call, Tool,  \* identities of tool calls, names of tools
  Field, Setting,   \* what a configuration record may state, and its values
  MaxLines     \* bound on the length of a rollout

ASSUME RolloutAssumption == MaxLines \in Nat

Stated == UNION {[S -> Setting] : S \in SUBSET Field}

\* What the decoder tells apart.  "status" stands for the collaboration
\* records, "lifecycle" for the other notifications that become an Event,
\* "known" for the kinds refused by name (token counts, repeated envelopes,
\* snapshots), "unknown" for any other type.
RolloutRecord ==
       [type : {"malformed", "status", "lifecycle", "known", "unknown"}]
  \cup [type : {"configuration"}, states : Stated]
  \cup [type : {"submission"}, text : Text]
  \cup [type : {"message"}, role : {"user", "developer", "assistant", "other"},
        text : Text]
  \cup [type : {"reasoning"}, shape : {"summary", "encrypted", "neither"}]
  \cup [type : {"compacted"}, summaries : 1..2]
  \cup [type : {"call"}, call : Call, tool : Tool]
  \cup [type : {"output"}, call : Call, fails : BOOLEAN]
  \cup [type : {"mcp_end"}, call : Call]

NoName == "none"
Event == [id : (1..MaxLines) \X (0..1),
          kind : {"prompt", "context", "response", "reasoning", "compaction",
                  "call", "result", "transport", "status", "lifecycle"},
          about : Text \cup Call \cup {NoName},
          tool : Tool \cup {NoName}, failed : BOOLEAN, config : Stated]

VARIABLES
  rollout,    \* the records of the file; empty before it is opened
  line,       \* lines decoded so far
  config,     \* configuration in force
  unclaimed,  \* submissions of each text that no message has claimed
  emitted,     \* Events yielded
  refused,    \* lines refused with a reason that is stored with the Source
  counted     \* lines of which a counter of the run is the only trace

rolloutVars == <<rollout, line, config, unclaimed, emitted, refused, counted>>

Submitted(file, t) ==
  Cardinality({l \in DOMAIN file : file[l] = [type |-> "submission", text |-> t]})

RolloutTypeOK ==
  /\ rollout \in Seq(RolloutRecord) /\ Len(rollout) <= MaxLines
  /\ line \in 0..Len(rollout) /\ config \in Stated
  /\ unclaimed \in [Text -> 0..MaxLines] /\ emitted \in Seq(Event)
  /\ refused \subseteq 1..line /\ counted \subseteq 1..line

RolloutInit ==
  /\ rollout = <<>> /\ line = 0 /\ config = <<>> /\ emitted = <<>>
  /\ unclaimed = [t \in Text |-> 0] /\ refused = {} /\ counted = {}

-----------------------------------------------------------------------------
(* The first pass. *)

\* The last call record under an identity names it, wherever it stands.
NameOf(file, c) ==
  LET calls == {l \in DOMAIN file : file[l].type = "call" /\ file[l].call = c}
  IN  IF calls = {} THEN NoName
      ELSE file[CHOOSE l \in calls : \A m \in calls : m <= l].tool

\* Faulty variant: an output judges itself, whatever the others say.
FailsNow(file, c) ==
  LET outputs == {l \in DOMAIN file : l <= line + 1 /\ file[l].type = "output"
                                                  /\ file[l].call = c}
  IN  /\ \E l \in DOMAIN file : file[l] = [type |-> "mcp_end", call |-> c]
      /\ outputs # {}
      /\ file[CHOOSE l \in outputs : \A m \in outputs : m <= l].fails

\* An MCP call failed when the last of its outputs shows a failure.
Fails(file, c) ==
  LET outputs == {l \in DOMAIN file : file[l].type = "output" /\ file[l].call = c}
  IN  /\ \E l \in DOMAIN file : file[l] = [type |-> "mcp_end", call |-> c]
      /\ outputs # {}
      /\ file[CHOOSE l \in outputs : \A m \in outputs : m <= l].fails

OpenRollout ==
  /\ rollout = <<>>
  /\ \E n \in 1..MaxLines : rollout' \in [1..n -> RolloutRecord]
  /\ unclaimed' = [t \in Text |-> Submitted(rollout', t)]
  /\ UNCHANGED <<line, config, emitted, refused, counted>>

-----------------------------------------------------------------------------
(* The second pass: one line. *)

At(type) == line < Len(rollout) /\ rollout[line + 1].type = type
Here == rollout[line + 1]

Bare(kind) == [id |-> <<line + 1, 0>>, kind |-> kind, about |-> NoName,
               tool |-> NoName, failed |-> FALSE, config |-> <<>>]
Configured(kind) == [Bare(kind) EXCEPT !.config = config]

\* A line ends as Events, as a stored refusal, or as a count.
Yield(new) == /\ line' = line + 1 /\ emitted' = emitted \o new
              /\ UNCHANGED <<rollout, refused, counted>>
Refuse     == /\ line' = line + 1 /\ refused' = refused \cup {line + 1}
              /\ UNCHANGED <<rollout, emitted, counted>>
Count      == /\ line' = line + 1 /\ counted' = counted \cup {line + 1}
              /\ UNCHANGED <<rollout, emitted, refused>>

\* The body was kept, or the policy refused it before or after it was bounded.
Bounded(new) == Yield(new) \/ Count

Skip ==
  /\ \/ (At("malformed") \/ At("unknown")) /\ Count
     \/ (At("known") \/ At("submission")) /\ Refuse
  /\ UNCHANGED <<config, unclaimed>>

\* Faulty variant: a record replaces what earlier ones stated.
UpdateAnew(observed) == config' = observed
\* A record adds to the configuration what it states itself.
Update(observed) ==
  config' = [f \in DOMAIN observed \cup DOMAIN config |->
               IF f \in DOMAIN observed THEN observed[f] ELSE config[f]]

DecodeConfiguration ==
  /\ At("configuration") /\ Update(Here.states)
  /\ Count /\ UNCHANGED unclaimed

\* Some of n summaries, in their order.
Kept(n) == {some \in UNION {[1..m -> 0..n - 1] : m \in 0..n} :
              \A i, j \in DOMAIN some : i < j => some[i] < some[j]}

\* Every summary of a compaction is an Event of its own.
DecodeCompacted ==
  /\ At("compacted")
  /\ \E kept \in Kept(Here.summaries) :
       IF DOMAIN kept = {} THEN Count
       ELSE /\ line' = line + 1 /\ UNCHANGED <<rollout, refused>>
            /\ emitted' = emitted \o [k \in DOMAIN kept |->
                 [Bare("compaction") EXCEPT !.id = <<line + 1, kept[k]>>]]
            /\ counted' = IF Len(kept) = Here.summaries THEN counted
                          ELSE counted \cup {line + 1}
  /\ UNCHANGED <<config, unclaimed>>

DecodeReasoning ==
  /\ At("reasoning")
  /\ CASE Here.shape = "summary"   -> Bounded(<<Configured("reasoning")>>)
       [] Here.shape = "encrypted" -> Yield(<<Configured("reasoning")>>)
       [] OTHER                    -> Refuse
  /\ UNCHANGED <<config, unclaimed>>

AnySubmitted == \E t \in Text : Submitted(rollout, t) > 0

\* Faulty variant: a message claims a submission that is not there.
ClaimAlways(t) == unclaimed' = [unclaimed EXCEPT ![t] = @ - 1]
\* Faulty variant: a submission is claimed by every message that repeats it.
ClaimNever(t) == unclaimed' = unclaimed
\* A user message claims a submission of its text, if one is left.
Claim(t) == unclaimed' = IF unclaimed[t] = 0 THEN unclaimed
                         ELSE [unclaimed EXCEPT ![t] = @ - 1]

\* Without any submission on file, every user message is taken for a prompt.
IsPrompt(t) == ~AnySubmitted \/ unclaimed[t] > 0

DecodeUserMessage ==
  /\ At("message") /\ Here.role = "user"
  /\ Claim(Here.text)
  /\ Bounded(<<[Configured(IF IsPrompt(Here.text) THEN "prompt" ELSE "context")
                  EXCEPT !.about = Here.text]>>)
  /\ UNCHANGED config

DecodeMessage ==
  /\ At("message") /\ Here.role # "user"
  /\ IF Here.role = "other" THEN Count
     ELSE Bounded(<<[Configured(IF Here.role = "assistant" THEN "response"
                                ELSE "context") EXCEPT !.about = Here.text]>>)
  /\ UNCHANGED <<config, unclaimed>>

DecodeCall ==
  /\ At("call")
  /\ Yield(<<[Configured("call") EXCEPT !.about = Here.call, !.tool = Here.tool]>>)
  /\ UNCHANGED <<config, unclaimed>>

DecodeOutput ==
  /\ At("output")
  /\ Bounded(<<[Configured("result") EXCEPT
                  !.about = Here.call, !.tool = NameOf(rollout, Here.call),
                  !.failed = Fails(rollout, Here.call)]>>)
  /\ UNCHANGED <<config, unclaimed>>

DecodeMcpEnd ==
  /\ At("mcp_end")
  /\ Yield(<<[Bare("transport") EXCEPT !.about = Here.call,
                                       !.failed = Fails(rollout, Here.call)]>>)
  /\ UNCHANGED <<config, unclaimed>>

DecodeCollaboration ==
  /\ At("status") /\ Bounded(<<Configured("status")>>)
  /\ UNCHANGED <<config, unclaimed>>

DecodeLifecycle ==
  /\ At("lifecycle") /\ Bounded(<<Bare("lifecycle")>>)
  /\ UNCHANGED <<config, unclaimed>>

RolloutNext ==
  \/ OpenRollout \/ Skip \/ DecodeConfiguration \/ DecodeCompacted \/ DecodeReasoning
  \/ DecodeUserMessage \/ DecodeMessage \/ DecodeCall \/ DecodeOutput
  \/ DecodeMcpEnd \/ DecodeCollaboration \/ DecodeLifecycle

RolloutSpec == RolloutInit /\ [][RolloutNext]_rolloutVars

-----------------------------------------------------------------------------
(* Properties *)

\* Where submissions are on file, the first messages of a text, as many as it
\* was submitted, are prompts of the person, and every later one is context of
\* the harness -- also when the policy refused some of them in between.
PromptsWereSubmitted ==
  \A i \in DOMAIN emitted :
    LET l == emitted[i].id[1] IN
    rollout[l].type = "message" /\ rollout[l].role = "user" =>
      LET rank == Cardinality({m \in 1..l : rollout[m] = rollout[l]}) IN
      emitted[i].kind = "prompt" <=>
        (AnySubmitted => rank <= Submitted(rollout, rollout[l].text))

\* An Event that carries a configuration carries, of each field, what the
\* latest record before it stated, and nothing of a field no record stated.
ConfigurationIsInForce ==
  \A i \in DOMAIN emitted : emitted[i].kind \in {"prompt", "response", "call", "result"} =>
    \A f \in Field :
      LET stating == {l \in 1..emitted[i].id[1] :
                        rollout[l].type = "configuration" /\ f \in DOMAIN rollout[l].states}
          has == f \in DOMAIN emitted[i].config
      IN  /\ has <=> stating # {}
          /\ has => \E l \in stating : /\ \A m \in stating : m <= l
                                       /\ emitted[i].config[f] = rollout[l].states[f]

\* The two records an MCP call leaves, its transport and its output, agree
\* on whether it failed, in whichever order and how often they were written.
RecordsOfACallAgree ==
  \A i, j \in DOMAIN emitted :
    /\ emitted[i].kind = "transport" /\ emitted[j].kind = "result"
    /\ emitted[i].about = emitted[j].about
    => emitted[i].failed = emitted[j].failed

\* What an Event says of other records is what they say, in whatever order they
\* stand: who submitted its text, the configuration before it, the outcome of its
\* call anywhere.
EventsFollowTheRollout ==
  PromptsWereSubmitted /\ ConfigurationIsInForce /\ RecordsOfACallAgree
=============================================================================
