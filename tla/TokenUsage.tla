----------------------------- MODULE TokenUsage -----------------------------
(***************************************************************************)
(* Token observations of the live vendor files current stores name         *)
(* (token_usage.py).  A message of Claude counts once however many records *)
(* and files state it; the counters of Codex are cumulative in a file, and *)
(* a fall starts them anew.  The result is kept under the sizes and times  *)
(* the files had before they were read, while the vendors append to them.  *)
(***************************************************************************)
EXTENDS Naturals, Sequences, FiniteSets, Orders

CONSTANTS
  Transcript,   \* files of Claude, numbered in the order of their paths
  MessageId,    \* identities of messages; 0 for a record without one
  MaxTokens,    \* BOUND: tokens a record states
  MaxAppends    \* BOUND: records appended

ASSUME TokenAssumption ==
  /\ Transcript \subseteq Nat \ {0} /\ IsFiniteSet(Transcript) /\ MessageId \subseteq Nat
  /\ MaxTokens \in Nat /\ MaxAppends \in Nat

VARIABLES
  transcripts,  \* usage records of each transcript, as <<message, tokens>>
  counters,     \* the cumulative counter records of the rollout
  tokenCache,   \* the cache file
  marks,        \* sizes and times taken before reading
  unreadFiles,  \* files still to be read; 0 is the rollout
  seen,         \* messages counted so far
  tokens,       \* tokens so far, of Claude and of Codex
  collecting,   \* "idle", "reading", "done", "hit"
  atStart,      \* the files when the marks were taken
  appends

tokenVars == <<transcripts, counters, tokenCache, marks, unreadFiles, seen, tokens, collecting,
               atStart, appends>>

NoCache == [held |-> FALSE, marks |-> <<>>, tokens |-> [claude |-> 0, codex |-> 0]]

TokenTypeOK ==
  /\ transcripts \in [Transcript -> Seq(MessageId \X (0..MaxTokens))]
  /\ counters \in Seq(0..MaxTokens)
  /\ tokenCache.held \in BOOLEAN
  /\ unreadFiles \subseteq Transcript \cup {0}
  /\ {tokens.claude, tokens.codex} \subseteq Nat
  /\ collecting \in {"idle", "reading", "done", "hit"}
  /\ appends \in 0..MaxAppends

TokenInit ==
  /\ transcripts = [f \in Transcript |-> <<>>] /\ counters = <<>>
  /\ tokenCache = NoCache /\ marks = <<>> /\ unreadFiles = {} /\ seen = {}
  /\ tokens = [claude |-> 0, codex |-> 0] /\ collecting = "idle"
  /\ atStart = <<transcripts, counters>> /\ appends = 0

---------------------------------------------------------------------------
\* The vendors append: a message stated again, in another file too, or a counter.
AppendRecord ==
  /\ appends < MaxAppends /\ appends' = appends + 1
  /\ \/ /\ \E f \in Transcript, m \in MessageId, t \in 1..MaxTokens :
             transcripts' = [transcripts EXCEPT ![f] = Append(@, <<m, t>>)]
        /\ UNCHANGED counters
     \/ /\ \E t \in 0..MaxTokens : counters' = Append(counters, t)
        /\ UNCHANGED transcripts
  /\ UNCHANGED <<tokenCache, marks, unreadFiles, seen, tokens, collecting, atStart>>

\* A record without the identity of its message is told apart by its place.
Identity(f, i, m) == IF m = 0 THEN <<f, i>> ELSE <<m>>

\* The first record of a message counts, over all files read so far.
CountFile(f, state) ==
  LET lines == DOMAIN transcripts[f]
      id(i) == Identity(f, i, transcripts[f][i][1])
      counts == {i \in lines : id(i) \notin state.seen /\ \A j \in 1..i - 1 : id(j) # id(i)}
  IN [seen |-> state.seen \cup {id(i) : i \in lines},
      sum  |-> state.sum + Total([i \in lines |-> IF i \in counts THEN transcripts[f][i][2] ELSE 0])]

\* What a counter adds to the one before it: the difference, or all of it after
\* a fall.
Delta(now, before) == IF now >= before THEN now - before ELSE now
Derived(c) == Total([i \in DOMAIN c |-> Delta(c[i], IF i = 1 THEN 0 ELSE c[i - 1])])

\* What is compared of a file: its size, which an append changes.
Marks == [f \in Transcript \cup {0} |-> IF f = 0 THEN Len(counters) ELSE Len(transcripts[f])]

\* The marks of all files are taken; a result kept under the same is reported.
Collect ==
  /\ collecting # "reading"
  /\ marks' = Marks /\ atStart' = <<transcripts, counters>>
  /\ IF tokenCache.held /\ tokenCache.marks = marks'
     THEN /\ collecting' = "hit" /\ tokens' = tokenCache.tokens
          /\ UNCHANGED <<unreadFiles, seen>>
     ELSE /\ collecting' = "reading" /\ tokens' = [claude |-> 0, codex |-> 0]
          /\ unreadFiles' = Transcript \cup {0} /\ seen' = {}
  /\ UNCHANGED <<transcripts, counters, tokenCache, appends>>

\* Transcripts are read in the order of their paths, then the rollout.
NextFile(f) == f \in unreadFiles /\ \A g \in unreadFiles : g = f \/ g = 0 \/ g > f

ReadTranscript(f) ==
  /\ collecting = "reading" /\ NextFile(f)
  /\ LET s == CountFile(f, [seen |-> seen, sum |-> tokens.claude])
     IN seen' = s.seen /\ tokens' = [tokens EXCEPT !.claude = s.sum]
  /\ unreadFiles' = unreadFiles \ {f}
  /\ UNCHANGED <<transcripts, counters, tokenCache, marks, collecting, atStart, appends>>

ReadRollout ==
  /\ collecting = "reading" /\ unreadFiles = {0}
  /\ tokens' = [tokens EXCEPT !.codex = Derived(counters)]
  /\ unreadFiles' = {}
  /\ UNCHANGED <<transcripts, counters, tokenCache, marks, seen, collecting, atStart, appends>>

KeepResult ==
  /\ collecting = "reading" /\ unreadFiles = {}
  /\ tokenCache' = [held |-> TRUE, marks |-> marks, tokens |-> tokens]
  /\ collecting' = "done"
  /\ UNCHANGED <<transcripts, counters, marks, unreadFiles, seen, tokens, atStart, appends>>

TokenNext ==
  AppendRecord \/ Collect \/ (\E f \in Transcript : ReadTranscript(f)) \/ ReadRollout \/ KeepResult

TokenSpec == TokenInit /\ [][TokenNext]_tokenVars

---------------------------------------------------------------------------
\* The records of all transcripts, and the first of each message in the order of
\* the paths and of the records.
StatedIn(ts) == UNION {{f} \X DOMAIN ts[f] : f \in Transcript}
IdentityOf(ts, x) == Identity(x[1], x[2], ts[x[1]][x[2]][1])
FirstStated(ts, x) ==
  \A y \in StatedIn(ts) : IdentityOf(ts, y) = IdentityOf(ts, x) =>
    x[1] < y[1] \/ (x[1] = y[1] /\ x[2] <= y[2])
ClaudeTotal(ts) ==
  Weight({x \in StatedIn(ts) : FirstStated(ts, x)}, [x \in StatedIn(ts) |-> ts[x[1]][x[2]][2]])

\* What Codex used: the last counter before each fall, and the last one.
CodexTotal(c) == Weight({i \in DOMAIN c : i = Len(c) \/ c[i + 1] < c[i]}, c)

\* A message counts once whatever restates it, and a counter for what it rose:
\* a result is that of the files, as they were or have become while it was read
\* (token_usage._claude, _codex).
CountsWhatWasUsed ==
  collecting = "done" =>
    /\ CodexTotal(atStart[2]) <= tokens.codex
    /\ atStart = <<transcripts, counters>> =>
         tokens = [claude |-> ClaudeTotal(transcripts), codex |-> CodexTotal(counters)]

\* A result taken from the cache is the one reading the files would give
\* (token_usage.collect_token_usage).
CacheSaysTheSame ==
  collecting = "hit" => tokens = [claude |-> ClaudeTotal(atStart[1]), codex |-> CodexTotal(atStart[2])]

\* Tokens count once and for what was used, from the cache as from the files.
TokensFollowTheFiles == CountsWhatWasUsed /\ CacheSaysTheSame
=============================================================================
