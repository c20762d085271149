----------------------------- MODULE MCDecoding -----------------------------
(* An instance of Decodings: what the adapters may meet, the rows of two    *)
(* stores, the releases of two Projects and the files of two vendors.       *)
EXTENDS Decodings, TLC

CONSTANTS ref1, srv1,                   \* references and a server identity of Cursor
          par1, par2, turn1, call1,     \* parameters, a turn and a call of a Session
          p1, p2, f1, f2                \* Sessions and files of a vendor store

MCSymmetry == Permutations({p1, p2}) \cup Permutations({f1, f2})

\* Bubbles of Cursor: a tool call, an assistant's turn, a prompt or an empty one.
MCTool  == [time : {0, 1, 2}, server : {None, srv1}, states : {{ref1}}, call : {ref1},
            parts : {{"call", "result"}}, readable : {TRUE}]
MCTalk  == [time : {1}, server : {None, srv1}, states : {{}}, call : {None},
            parts : {{"response", "reasoning"}}, readable : {TRUE}]
MCOther == [time : {0}, server : {None}, states : {{}}, call : {None},
            parts : {{"prompt"}, {}}, readable : BOOLEAN]
MCShape == MCTool \cup MCTalk \cup MCOther
MCPlace(comp, k, x) ==
  [composer |-> comp, key |-> k, time |-> x.time, server |-> x.server, states |-> x.states,
   call |-> x.call, context |-> x.server # None, parts |-> x.parts, readable |-> x.readable]
MCBubbles == {{MCPlace(1, 1, x), MCPlace(1, 2, y), MCPlace(comp, 3, z)} :
                x, y, z \in MCShape, comp \in {1, 2}}
MCMessages == {{}, {[key |-> 1, states |-> {ref1}, unique |-> TRUE],
                    [key |-> 2, states |-> {}, unique |-> TRUE],
                    [key |-> 3, states |-> {ref1}, unique |-> FALSE]}}

\* Events of a Session: model Events of either configuration, with and without
\* provenance and a turn; a prompt, a result and a context Event.
MCConfigs == {<<Unset, FALSE>>, <<par1, FALSE>>, <<par1, TRUE>>, <<par2, FALSE>>, <<par2, TRUE>>}
MCEvent(k, x, tu, co, ca) ==
  [kind |-> k, params |-> x[1], provenance |-> x[2], turn |-> tu, continues |-> co, call |-> ca]
MCDecoded ==
       {MCEvent("prompt", x, Unset, FALSE, Unset) : x \in MCConfigs}
  \cup {MCEvent("response", x, y[1], y[2], Unset) :
          x \in MCConfigs, y \in {<<turn1, FALSE>>, <<Unset, TRUE>>, <<Unset, FALSE>>}}
  \cup {MCEvent("call", x, turn1, FALSE, call1) : x \in {<<Unset, FALSE>>, <<par2, FALSE>>, <<par2, TRUE>>}}
  \cup {MCEvent(k, <<Unset, FALSE>>, Unset, FALSE, call1) : k \in {"result", "context"}}

\* What a Session may decode to: a result that names no call, with a body and a
\* file, or an Event that has neither beside a refused record.
MCDecodings == {[body |-> "body", path |-> "file", loose |-> TRUE, refused |-> FALSE],
                [body |-> Nothing, path |-> Nothing, loose |-> FALSE, refused |-> TRUE]}

\* Rows of two stores: an Event the stores state alike, one they state
\* differently, one without time and one without turn.
MCRow(i, se, k, tu, at, b) ==
  [id |-> i, session |-> se, seq |-> k, turn |-> tu, kind |-> IF k = 1 THEN "prompt" ELSE "response",
   at |-> at, size |-> IF i = 2 THEN 2 ELSE 1, body |-> b]
e1  == MCRow(1, 1, 1, 1, 1, 1)
e1x == MCRow(1, 1, 1, 1, 1, 2)
e2  == MCRow(2, 1, 2, 1, 0, 1)
e3  == MCRow(3, 2, 1, 2, 1, 1)
e4  == MCRow(4, 1, 3, 0, 2, 1)
MCRows == {e1, e1x, e2, e3, e4}
MCContents == {<<a, b>> : a \in {{}, {e1, e2}, {e1, e2, e4}}, b \in {{e3}, {e1x, e3}, {e2, e3, e4}}}
MCRequest(i, k, x, w, l, b) ==
  [ids |-> i, sessions |-> {}, turns |-> {}, kinds |-> k, expand |-> x, before |-> w, after |-> w,
   limit |-> l, room |-> b]
MCRequests ==
  {MCRequest({}, {}, FALSE, 0, NoLimit, NoLimit), MCRequest({}, {}, FALSE, 0, 2, NoLimit),
   MCRequest({}, {}, FALSE, 0, 0, 0),             MCRequest({}, {}, FALSE, 0, NoLimit, 3),
   MCRequest({}, {"response"}, FALSE, 0, 1, NoLimit),
   MCRequest({1}, {}, TRUE, 0, NoLimit, NoLimit), MCRequest({2}, {}, FALSE, 1, NoLimit, NoLimit),
   MCRequest({3, 4}, {}, FALSE, 0, NoLimit, NoLimit), MCRequest({}, {}, TRUE, 0, 2, NoLimit),
   MCRequest({}, {}, FALSE, 1, 2, 2)}

\* Releases of two Projects: Sessions with calls and results, linked and not; one
\* snapshot is of another contract, and one Project has stores before its first.
MCSays(d, l) == [does |-> d, link |-> l]
MCRun(i, v, at, says) == [id |-> i, vendor |-> v, ended |-> at, says |-> says]
MCOld  == MCRun(1, 1, 1, <<MCSays("call", 1), MCSays("call", 1), MCSays("result", 1), MCSays("result", 1)>>)
MCLost == MCRun(2, 2, 0, <<MCSays("result", 2), MCSays("call", 0), MCSays("result", 0), MCSays("call", 2)>>)
MCLate == MCRun(3, 1, 2, <<MCSays("call", 3), MCSays("result", 4)>>)
MCPublished(p, n, m, s) == [project |-> p, name |-> n, matches |-> m, sessions |-> s]
MCReleases == {MCPublished(1, 1, TRUE, {MCOld, MCLost}), MCPublished(1, 3, TRUE, {MCOld, MCLate}),
               MCPublished(2, 2, FALSE, {MCLost, MCLate}), MCPublished(2, 0, TRUE, {MCLate})}
MCSelect(b, i, n, v, c) ==
  [by |-> b, items |-> i, snapshot |-> n, vendors |-> v, compatible |-> c]
MCSelectors ==
  {MCSelect("projects", {<<1, 0>>}, 0, {}, FALSE), MCSelect("projects", {<<1, 0>>}, 0, {1}, FALSE),
   MCSelect("projects", {<<1, 0>>}, 1, {}, FALSE), MCSelect("projects", {<<1, 0>>, <<2, 0>>}, 0, {}, TRUE),
   MCSelect("set", {<<1, 1>>}, 0, {}, FALSE),      MCSelect("set", {<<1, 0>>, <<1, 1>>}, 0, {}, FALSE),
   MCSelect("all", {}, 0, {}, FALSE),              MCSelect("all", {}, 0, {}, TRUE),
   MCSelect("paths", {<<1, 0>>, <<2, 0>>}, 0, {}, FALSE), MCSelect("paths", {<<1, 0>>}, 0, {}, TRUE)}

\* Rows an overview reads: prompts and responses of two exchanges on several days.
MCSaw(k, a, x, d) == [key |-> k, at |-> a, exchange |-> x, does |-> d]
MCSeen ==
  {MCSaw(1, 1, <<1, 1>>, "prompts"),   MCSaw(2, 2, <<1, 2>>, "prompts"),
   MCSaw(3, 2, <<2, 1>>, "prompts"),   MCSaw(4, 4, <<1, 1>>, "prompts"),
   MCSaw(5, 2, <<1, 0>>, "prompts"),   MCSaw(6, 1, <<1, 2>>, "responds"),
   MCSaw(7, 3, <<1, 1>>, "responds"),  MCSaw(8, 5, <<2, 1>>, "responds"),
   MCSaw(9, 3, <<1, 2>>, "responds"),  MCSaw(10, 0, <<1, 1>>, "responds"),
   MCSaw(11, 8, <<1, 1>>, "other")}
MCSelections == UNION {kSubset(k, MCSeen) : k \in 0..4}
=============================================================================
