-------------------------- MODULE ClaudeTranscript --------------------------
(***************************************************************************)
(* Decoding of one Claude transcript (adapters/cc.py, process_file).       *)
(*                                                                         *)
(* As in a Codex rollout a first pass collects the names under which tools *)
(* were called, and a second pass turns one record after the other into    *)
(* Events.  A message is a list of blocks, each of which may become an     *)
(* Event; the body of an oversized tool result is a file beside the        *)
(* transcript, read here and checked while it is read.  With strict        *)
(* mapping what cannot be decoded ends the decoding of the Source, without *)
(* it the record is counted.  The content policy may refuse any body.      *)
(***************************************************************************)
EXTENDS Naturals, Sequences, FiniteSets

CONSTANTS
  UseId, ToolName,  \* identities of tool uses, names of tools
  McpTool,          \* tools served over MCP
  MaxRecords,       \* bound on the length of a transcript
  MaxBlocks         \* bound on the blocks of a transcript

ASSUME TranscriptAssumption ==
  /\ McpTool \subseteq ToolName
  /\ MaxRecords \in Nat /\ MaxBlocks \in Nat \ {0}

\* Blocks; one of any other kind leaves nothing, as if it were not there.  A
\* result may say that it is an error, or only read like one.
AssistantBlock == [is : {"text"}] \cup [is : {"use"}, use : UseId, tool : ToolName]
UserBlock == [is : {"text", "image"}]
        \cup [is : {"result"}, use : UseId, error : {"stated", "inText", "no"}]

\* Whether the body of a result was written out, and how reading it ends:
\* "broken" is a file outside the tree of the session, one that changes while
\* it is read and one that cannot be read.
Persisted == {"no", "read", "refused", "oversize", "broken"}

BlockList(B) == UNION {[1..n -> B] : n \in 0..MaxBlocks}

\* A user message that is a plain text is one with a single text block; one
\* that is neither text nor a list ends like a summary without text.
TranscriptRecord ==
       [type : {"malformed", "boundary", "product", "local_command",
                "skipped", "unsupported"}]
  \cup [type : {"assistant"}, blocks : BlockList(AssistantBlock)]
  \cup [type : {"user"}, blocks : BlockList(UserBlock), persisted : Persisted]
  \cup [type : {"summary"}, text : BOOLEAN]

VARIABLES
  transcript,   \* the records of the file; empty before it is opened
  options,      \* strict_mapping and include_product_state of the run
  position,     \* records decoded so far
  entries,      \* Events yielded
  declined,     \* records refused with a stored reason, and the reason
  tallied,      \* records that only a counter of the run knows about
  raised        \* whether decoding ended with an error

transcriptVars == <<transcript, options, position, entries, declined, tallied, raised>>

Nobody == "none"
Entry == [id : (1..MaxRecords) \X (0..MaxBlocks),
          is : {"text", "call", "image", "result", "external", "state"},
          tool : ToolName \cup {Nobody}, failed : BOOLEAN,
          cause : 0..MaxBlocks]      \* 0 for none, else index of its result + 1

TranscriptTypeOK ==
  /\ transcript \in Seq(TranscriptRecord) /\ Len(transcript) <= MaxRecords
  /\ options \in [strict : BOOLEAN, state : BOOLEAN]
  /\ position \in 0..Len(transcript) /\ entries \in Seq(Entry)
  /\ declined \subseteq (1..position) \X
       {"unsupported", "excluded", "kind_not_mapped", "unclassified", "oversize"}
  /\ tallied \subseteq 1..position /\ raised \in BOOLEAN

TranscriptInit ==
  /\ transcript = <<>> /\ options = [strict |-> FALSE, state |-> TRUE]
  /\ position = 0 /\ entries = <<>> /\ declined = {} /\ tallied = {}
  /\ raised = FALSE

-----------------------------------------------------------------------------
(* The first pass, and what a record is. *)

\* The uses of a tool an assistant record states, with the names.
UsesIn(record) ==
  IF record.type # "assistant" THEN {}
  ELSE {<<b.use, b.tool>> : b \in {record.blocks[i] : i \in
          {j \in DOMAIN record.blocks : record.blocks[j].is = "use"}}}

\* Faulty variant: only the records decoded so far are known.
KnownUse(u) == {t \in ToolName : \E p \in 1..position : <<u, t>> \in UsesIn(transcript[p])}
\* Names of a tool use, from the whole transcript (_build_tool_map).
NamesOf(u) ==
  {t \in ToolName : \E p \in DOMAIN transcript : <<u, t>> \in UsesIn(transcript[p])}

\* A name is one of those stated: an identity is stated once.
ToolOf(u) == IF NamesOf(u) = {} THEN Nobody ELSE CHOOSE t \in NamesOf(u) : TRUE

\* A result failed when it says so, or when an MCP tool answered with one.
ResultFailed(b) ==
  b.error = "stated" \/ (b.error = "inText" /\ ToolOf(b.use) \in McpTool)

OpenTranscript ==
  /\ transcript = <<>>
  /\ \E n \in 1..MaxRecords : transcript' \in [1..n -> TranscriptRecord]
  /\ Cardinality({at \in (DOMAIN transcript') \X (1..MaxBlocks) :
                    /\ transcript'[at[1]].type \in {"assistant", "user"}
                    /\ at[2] \in DOMAIN transcript'[at[1]].blocks}) <= MaxBlocks
  /\ \A p, q \in DOMAIN transcript' : \A u \in UsesIn(transcript'[p]), v \in UsesIn(transcript'[q]) :
       u[1] = v[1] => u = v
  /\ options' \in [strict : BOOLEAN, state : BOOLEAN]
  /\ UNCHANGED <<position, entries, declined, tallied, raised>>

-----------------------------------------------------------------------------
(* The second pass: one record. *)

Reached(type) ==
  /\ position < Len(transcript) /\ ~raised /\ transcript[position + 1].type = type
Now == transcript[position + 1]

Blank(index, is) == [id |-> <<position + 1, index>>, is |-> is,
                     tool |-> Nobody, failed |-> FALSE, cause |-> 0]

\* The outcome of a record: Events, stored reasons, a count, an error.
Outcome(new, reasons, count, error) ==
  /\ position' = position + 1 /\ entries' = entries \o new
  /\ declined' = declined \cup {<<position + 1, r>> : r \in reasons}
  /\ tallied' = IF count THEN tallied \cup {position + 1} ELSE tallied
  /\ raised' = error
  /\ UNCHANGED <<transcript, options>>

DecodeSkipped ==
  \/ Reached("malformed") /\ Outcome(<<>>, {}, TRUE, FALSE)
  \/ Reached("skipped") /\ Outcome(<<>>, {"kind_not_mapped"}, FALSE, FALSE)
  \/ Reached("unsupported") /\ Outcome(<<>>, {}, TRUE, options.strict)

DecodeBoundary ==
  Reached("boundary") /\ Outcome(<<Blank(0, "state")>>, {}, FALSE, FALSE)

\* A local command whose text the policy refuses yields no Event, and is then
\* taken for a record of a kind that is skipped.
DecodeProductState ==
  \/ /\ (Reached("product") \/ Reached("local_command"))
     /\ IF options.state THEN Outcome(<<Blank(0, "state")>>, {}, FALSE, FALSE)
        ELSE Outcome(<<>>, {"excluded"}, FALSE, FALSE)
  \/ Reached("local_command") /\ Outcome(<<>>, {"kind_not_mapped"}, TRUE, FALSE)

\* The blocks of a set, in their order; each becomes an Event.
InTurn(S) == {order \in [1..Cardinality(S) -> S] :
                \A i, j \in DOMAIN order : i < j => order[i] < order[j]}
Mapped(kinds) == {i \in DOMAIN Now.blocks : Now.blocks[i].is \in kinds}

AssistantEvent(index, b) ==
  IF b.is = "text" THEN Blank(index, "text")
  ELSE [Blank(index, "call") EXCEPT !.tool = b.tool]
AssistantEvents(order) ==
  [k \in DOMAIN order |-> AssistantEvent(k - 1, Now.blocks[order[k]])]

DecodeAssistant ==
  /\ Reached("assistant")
  /\ \E kept \in SUBSET Mapped({"text"}) : \E order \in InTurn(kept \cup Mapped({"use"})) :
       Outcome(AssistantEvents(order), IF DOMAIN order = {} THEN {"unclassified"} ELSE {},
               kept # Mapped({"text"}), FALSE)

UserEvent(index, b) ==
  CASE b.is = "text"  -> Blank(index, "text")
    [] b.is = "image" -> Blank(index, "image")
    [] OTHER -> [Blank(index, "result") EXCEPT
                   !.tool = ToolOf(b.use), !.failed = ResultFailed(b)]
UserEvents(order) == [k \in DOMAIN order |-> UserEvent(k - 1, Now.blocks[order[k]])]

\* Faulty variant: an image does not take an identity of its own.
NextIndexSparse(new) == Cardinality({k \in DOMAIN new : new[k].is # "image"})
\* The identity of the Event of a persisted result follows those before it.
NextIndex(new) == Len(new)

\* The body that was written out is part of the first result that is kept.
External(new) ==
  LET results == {k \in DOMAIN new : new[k].is = "result"}
      first   == CHOOSE k \in results : \A j \in results : k <= j
  IN  [Blank(NextIndex(new), "external") EXCEPT
         !.cause = IF results = {} THEN 0 ELSE first,
         !.tool = IF results = {} THEN Nobody ELSE new[first].tool]

DecodeUser ==
  /\ Reached("user")
  /\ \E kept \in SUBSET Mapped({"text", "result"}) : \E order \in InTurn(kept \cup Mapped({"image"})) :
       LET new    == UserEvents(order)
           how    == Now.persisted
           broken == how \in {"oversize", "broken"}
           all    == IF how = "read" THEN Append(new, External(new)) ELSE new
       IN  Outcome(IF broken /\ options.strict THEN <<>> ELSE all,
                   IF how = "oversize" THEN {"oversize"} ELSE {},
                   \/ broken \/ how = "refused" \/ all = <<>>
                   \/ kept # Mapped({"text", "result"}),
                   broken /\ options.strict)

\* The summary a compaction leaves in place of what it removed.
DecodeSummary ==
  /\ Reached("summary")
  /\ \/ Now.text /\ Outcome(<<Blank(0, "text")>>, {}, FALSE, FALSE)
     \/ Now.text /\ Outcome(<<>>, {}, TRUE, FALSE)
     \/ ~Now.text /\ Outcome(<<>>, {"unsupported"}, ~options.strict, options.strict)

TranscriptNext ==
  \/ OpenTranscript \/ DecodeSkipped \/ DecodeBoundary \/ DecodeProductState
  \/ DecodeAssistant \/ DecodeUser \/ DecodeSummary

TranscriptSpec == TranscriptInit /\ [][TranscriptNext]_transcriptVars

-----------------------------------------------------------------------------
(* Properties *)

\* No two Events of a transcript have the same identity: the store would keep
\* one of them.
IdentitiesDiffer ==
  \A i, j \in DOMAIN entries : entries[i].id = entries[j].id => i = j

\* A result bears the name of the tool that was called, and the failure of an
\* MCP tool is seen, although the call may stand after its result.
ResultsKnowTheirTool ==
  \A i \in DOMAIN entries : entries[i].is = "result" =>
    \E b \in DOMAIN transcript[entries[i].id[1]].blocks :
      LET block == transcript[entries[i].id[1]].blocks[b]
          called == {t \in ToolName : \E p \in DOMAIN transcript :
                       <<block.use, t>> \in UsesIn(transcript[p])}
      IN  /\ block.is = "result"
          /\ IF called = {} THEN entries[i].tool = Nobody ELSE entries[i].tool \in called
          /\ block.error = "inText" /\ called \cap McpTool # {} => entries[i].failed

\* Whatever records a transcript has and in whatever order a call and its result
\* stand, no Event replaces another and every result knows its call.
EntriesAreDistinctAndLinked == IdentitiesDiffer /\ ResultsKnowTheirTool
=============================================================================
