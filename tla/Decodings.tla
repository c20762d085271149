----------------------------- MODULE Decodings -----------------------------
(***************************************************************************)
(* What turns vendor records into rows and rows into answers: the three    *)
(* adapters (CodexRollout, ClaudeTranscript, CursorDecoding), the grouping *)
(* of one Session and the rows Sessions share (StoredRows), the typed      *)
(* queries (QuerySelection), the commands that make them (QueryScope), the *)
(* overview (ActivityOverview) and the token counts (TokenUsage).  They    *)
(* share nothing; a behaviour is one of any of them.                       *)
(***************************************************************************)
EXTENDS CodexRollout, ClaudeTranscript, CursorDecoding, StoredRows, QuerySelection,
        QueryScope, ActivityOverview, TokenUsage

VARIABLE part   \* the component this is a behaviour of

decodingVars == <<part, rolloutVars, transcriptVars, cursorVars, groupingVars, storeVars,
                  queryVars, scopeVars, overviewVars, tokenVars>>

DecodingsInit ==
  /\ part \in {"codex", "claude", "cursor", "session", "store", "query", "command", "overview", "tokens"}
  /\ RolloutInit /\ TranscriptInit /\ DecodingInit /\ GroupingInit /\ StoreInit
  /\ QueryInit /\ QueryScopeInit /\ OverviewInit /\ TokenInit

DecodingsNext ==
  \/ /\ part = "codex" /\ RolloutNext
     /\ UNCHANGED <<part, transcriptVars, cursorVars, groupingVars, storeVars,
                    queryVars, scopeVars, overviewVars, tokenVars>>
  \/ /\ part = "claude" /\ TranscriptNext
     /\ UNCHANGED <<part, rolloutVars, cursorVars, groupingVars, storeVars,
                    queryVars, scopeVars, overviewVars, tokenVars>>
  \/ /\ part = "cursor" /\ DecodingNext
     /\ UNCHANGED <<part, rolloutVars, transcriptVars, groupingVars, storeVars,
                    queryVars, scopeVars, overviewVars, tokenVars>>
  \/ /\ part = "session" /\ GroupingNext
     /\ UNCHANGED <<part, rolloutVars, transcriptVars, cursorVars, storeVars,
                    queryVars, scopeVars, overviewVars, tokenVars>>
  \/ /\ part = "store" /\ StoreNext
     /\ UNCHANGED <<part, rolloutVars, transcriptVars, cursorVars, groupingVars,
                    queryVars, scopeVars, overviewVars, tokenVars>>
  \/ /\ part = "query" /\ QueryNext
     /\ UNCHANGED <<part, rolloutVars, transcriptVars, cursorVars, groupingVars,
                    storeVars, scopeVars, overviewVars, tokenVars>>
  \/ /\ part = "command" /\ QueryScopeNext
     /\ UNCHANGED <<part, rolloutVars, transcriptVars, cursorVars, groupingVars,
                    storeVars, queryVars, overviewVars, tokenVars>>
  \/ /\ part = "overview" /\ OverviewNext
     /\ UNCHANGED <<part, rolloutVars, transcriptVars, cursorVars, groupingVars,
                    storeVars, queryVars, scopeVars, tokenVars>>
  \/ /\ part = "tokens" /\ TokenNext
     /\ UNCHANGED <<part, rolloutVars, transcriptVars, cursorVars, groupingVars,
                    storeVars, queryVars, scopeVars, overviewVars>>

DecodingsSpec == DecodingsInit /\ [][DecodingsNext]_decodingVars

\* The component at work is well typed (the type invariants of the nine modules).
DecodingsTypeOK ==
  CASE part = "codex"   -> RolloutTypeOK
    [] part = "claude"  -> TranscriptTypeOK
    [] part = "cursor"  -> DecodingTypeOK
    [] part = "session" -> GroupingTypeOK
    [] part = "store"   -> StoreTypeOK
    [] part = "query"   -> QueryTypeOK
    [] part = "command" -> QueryScopeTypeOK
    [] part = "overview" -> OverviewTypeOK
    [] part = "tokens"  -> TokenTypeOK

\* What a query, a command, an overview and a token count answer is what the rows
\* and files they were asked of say (query_api.py, query_cmd.py, token_usage.py).
AnswersFollowTheData ==
  /\ part = "query" => AnswersFollowTheStores
  /\ part = "command" => CommandsReadTheirSnapshots
  /\ part = "overview" => OverviewFollowsTheRows
  /\ part = "tokens" => TokensFollowTheFiles
=============================================================================
