----------------------------- MODULE StreamDecoder -----------------------------
(***************************************************************************)
(* How the frames of an upstream become the events of a reply: the decoder *)
(* of each platform as an operator on its state. WorkBuddy, TRAE and       *)
(* OpenRouter (whose decoder Kilo shares) send fragments of a message and  *)
(* an end marker; Cursor sends the turns of an agent session.              *)
(*                                                                         *)
(* A frame carries one part: text, thinking, a fragment of a tool call     *)
(* (with or without its id, its name and a piece of its arguments), usage, *)
(* a finish reason, or the end. The piece of content of the n-th frame is  *)
(* n itself.                                                               *)
(***************************************************************************)
EXTENDS Integers, Sequences, FiniteSets, SequencesExt, ProtocolEncoders

CONSTANTS Platforms, ToolSlots

ASSUME PlatformsAssumption == Platforms \subseteq {"workbuddy", "trae", "openrouter", "cursor"} /\ 1 \in ToolSlots

TextFrame == [k |-> "text"]
ThinkFrame == [k |-> "think"]
ToolFrames == {f \in [k : {"tool"}, up : ToolSlots, id : BOOLEAN, name : BOOLEAN, args : BOOLEAN] :
                 f.id \/ f.name \/ f.args}
FinishFrames == [k : {"finish"}, reason : {"tool_calls", "length"}]
Parts == {TextFrame, ThinkFrame, [k |-> "usage"], [k |-> "fault"]} \cup ToolFrames
WorkBuddyFrames == Parts \cup FinishFrames \cup {[k |-> "junk"], [k |-> "end"]}
OpenRouterFrames == Parts \cup FinishFrames \cup {[k |-> "end"]}
TraeFrames == Parts \cup [k : {"end"}, reason : {"stop", "length", "error", ""}, valid : BOOLEAN]
CursorFrames == {TextFrame, ThinkFrame, [k |-> "thinkingCompleted"], [k |-> "tokenLimit"], [k |-> "turnEnded"],
                 [k |-> "fault"]} \cup [k : {"kv"}, known : BOOLEAN]
                \cup [k : {"exec"}, what : {"mcpState", "mcpArgs", "readArgs", "host"}, declared : BOOLEAN]
Frames(p) == CASE p = "workbuddy" -> WorkBuddyFrames [] p = "openrouter" -> OpenRouterFrames
               [] p = "trae" -> TraeFrames [] p = "cursor" -> CursorFrames

(* The decoder: the block it has open and its index, the next index, the   *)
(* tool calls in order of their first fragment, and the events emitted.    *)
NewStream == [started |-> FALSE, block |-> "none", at |-> -1, next |-> 0, tools |-> <<>>, stop |-> "stop", out |-> <<>>]
Emit(s, ev) == [s EXCEPT !.out = Append(@, ev)]
Begin(s) == IF s.started THEN s ELSE Emit([s EXCEPT !.started = TRUE], StartEvent)

CloseBlock(s) ==
  IF s.block = "none" THEN s ELSE Emit([s EXCEPT !.block = "none"], CloseEvent(s.block, s.at, <<>>))
OpenBlock(s, k) ==
  IF s.block = k THEN s
  ELSE LET c == CloseBlock(s) IN
       Emit([c EXCEPT !.block = k, !.at = c.next, !.next = @ + 1], OpenEvent(k, c.next))
Delta(s, k, n) == LET o == OpenBlock(s, k) IN Emit(o, DeltaEvent(k, o.at, <<n>>))

(* A tool call is announced once its name is known, and its id too except  *)
(* at WorkBuddy, where a missing id is made up; what came of its arguments *)
(* before that goes out with the announcement.                             *)
Announceable(p, t) == t.name /\ (p = "workbuddy" \/ t.id)
StartToolCall(s, j) ==
  LET t == s.tools[j]
      opened == Emit([CloseBlock(s) EXCEPT !.tools[j].started = TRUE], OpenEvent("tool", t.index))
  IN IF t.args = <<>> THEN opened ELSE Emit(opened, DeltaEvent("tool", t.index, t.args))
ToolSlot(s, up) == CHOOSE j \in DOMAIN s.tools : s.tools[j].up = up
KnownTool(s, up) ==
  IF \E j \in DOMAIN s.tools : s.tools[j].up = up THEN s
  ELSE [s EXCEPT !.tools = Append(@, [up |-> up, index |-> s.next, id |-> FALSE, name |-> FALSE,
                                      args |-> <<>>, started |-> FALSE]),
                 !.next = @ + 1]
(* Variant: the decoder does not return after the announcement, and the    *)
(* fragment that completes it goes out a second time.                      *)
ConsumeToolCallTwice(p, s, f, n) ==
  LET piece == IF f.args THEN <<n>> ELSE <<>>
      known == KnownTool(s, f.up)
      j == ToolSlot(known, f.up)
      t == known.tools[j]
      m == [known EXCEPT !.tools[j] = [t EXCEPT !.id = @ \/ f.id, !.name = @ \/ f.name, !.args = @ \o piece]]
      a == IF ~m.tools[j].started /\ Announceable(p, m.tools[j]) THEN StartToolCall(m, j) ELSE m
  IN IF f.args /\ a.tools[j].started THEN Emit(a, DeltaEvent("tool", a.tools[j].index, piece)) ELSE a
ConsumeToolCall(p, s, f, n) ==
  LET piece == IF f.args THEN <<n>> ELSE <<>>
      known == KnownTool(s, f.up)
      j == ToolSlot(known, f.up)
      t == known.tools[j]
      m == [known EXCEPT !.tools[j] = [t EXCEPT !.id = @ \/ f.id, !.name = @ \/ f.name, !.args = @ \o piece]]
  IN IF m.tools[j].started
     THEN IF f.args THEN Emit(m, DeltaEvent("tool", m.tools[j].index, piece)) ELSE m
     ELSE IF Announceable(p, m.tools[j]) THEN StartToolCall(m, j) ELSE m

EndToolCall(s, j) == Emit(s, CloseEvent("tool", s.tools[j].index, s.tools[j].args))
EndToolCalls(s) == FoldLeft(EndToolCall, s, [j \in DOMAIN s.tools |-> j])

(* What a frame makes of the decoder: its state, whether it reads on, and  *)
(* the failure it reports instead.                                         *)
Goes(s) == [s |-> s, over |-> FALSE, fault |-> "none"]
Ends(s) == [s |-> s, over |-> TRUE, fault |-> "none"]
Fails(s, code) == [s |-> [s EXCEPT !.out = <<>>], over |-> TRUE, fault |-> code]

(* WorkBuddy ends every reply well: a tool call that never got its name is *)
(* announced without one, and a response that merely stops is finished.    *)
WorkBuddyFinish(s) ==
  LET announced == FoldLeft(LAMBDA a, j : IF a.tools[j].started THEN a ELSE StartToolCall(a, j), s, [j \in DOMAIN s.tools |-> j])
  IN Ends(Emit(EndToolCalls(CloseBlock(announced)), DoneEvent(s.stop)))

(* OpenRouter: an empty reply is a failure; a tool call that cannot be     *)
(* announced ends the reply with an error event.                           *)
OpenRouterFinish(s) ==
  LET bare == {j \in DOMAIN s.tools : ~s.tools[j].started}
      first == CHOOSE j \in bare : \A i \in bare : j <= i
      closed == CloseBlock(s)
  IN IF ~s.started THEN Fails(s, "empty_stream")
     ELSE IF bare = {} THEN Ends(Emit(EndToolCalls(closed), DoneEvent(s.stop)))
     ELSE Ends(Emit(FoldLeft(EndToolCall, closed, [j \in 1 .. first - 1 |-> j]), ErrorEvent))

(* TRAE: the end event gives the reason; every tool call must be announced *)
(* and its arguments must be JSON, which no empty text is.                 *)
TraeFinish(s, f) ==
  LET broken == \E j \in DOMAIN s.tools : ~s.tools[j].started \/ s.tools[j].args = <<>> \/ ~f.valid
      reason == IF s.tools = <<>> THEN f.reason ELSE "tool_calls"
  IN IF ~s.started \/ f.reason \in {"error", ""} THEN Fails(s, "trae_failed")
     ELSE IF broken THEN Fails(s, "trae_invalid_tool")
     ELSE Ends(Emit(EndToolCalls(CloseBlock(s)), DoneEvent(reason)))

(* A part of the message, whatever the platform.                           *)
Part(p, s, f, n) == IF f.k = "tool" THEN ConsumeToolCall(p, s, f, n) ELSE Delta(s, f.k, n)
Content == {"text", "think", "tool"}

(* WorkBuddy: a frame that is not JSON is skipped; any other begins the    *)
(* reply, even one that holds nothing it reads, as a report of an error.   *)
WorkBuddyConsume(s, f, n) ==
  LET b == Begin(s) IN
  CASE f.k \in Content -> Goes(Part("workbuddy", b, f, n))
    [] f.k = "finish" -> Goes([b EXCEPT !.stop = f.reason])
    [] f.k \in {"usage", "fault"} -> Goes(b)
    [] f.k = "junk" -> Goes(s)
    [] f.k = "end" -> WorkBuddyFinish(s)

(* OpenRouter: a frame with a choice begins the reply; a reported error, a *)
(* frame that is not JSON and the finish reason "error" end it.            *)
OpenRouterConsume(s, f, n) ==
  LET b == Begin(s) IN
  CASE f.k \in Content -> Goes(Part("openrouter", b, f, n))
    [] f.k = "finish" -> Goes([b EXCEPT !.stop = f.reason])
    [] f.k = "usage" -> Goes(s)
    [] f.k = "fault" -> Fails(s, "upstream_error")
    [] f.k = "end" -> OpenRouterFinish(s)

(* TRAE: an output frame with content begins the reply.                    *)
TraeConsume(s, f, n) ==
  CASE f.k \in Content -> Goes(Part("trae", Begin(s), f, n))
    [] f.k = "usage" -> Goes(s)
    [] f.k = "fault" -> Fails(s, "trae_upstream")
    [] f.k = "end" -> TraeFinish(s, f)

(* Cursor: one tool call, whole, ends the reply, as do the end of the turn *)
(* and the token limit of the request. A request that demands a tool call  *)
(* is not satisfied by a turn without one. Anything else the agent session *)
(* asks for, or a session that ends without a turn, is a failure.          *)
CursorFinish(s, reason) == Ends(Emit(CloseBlock(Begin(s)), DoneEvent(reason)))
RelayTool(s, n) ==
  LET c == CloseBlock(Begin(s))
      t == [up |-> 1, index |-> c.next, id |-> TRUE, name |-> TRUE, args |-> <<n>>, started |-> TRUE]
      called == [c EXCEPT !.tools = <<t>>, !.next = @ + 1,
                          !.out = @ \o <<OpenEvent("tool", t.index), DeltaEvent("tool", t.index, <<n>>),
                                         CloseEvent("tool", t.index, <<n>>)>>]
  IN CursorFinish(called, "tool_calls")
Called(f) == f.k = "exec" /\ f.what \in {"mcpArgs", "readArgs"} /\ f.declared
Exec(s, f, n) ==
  CASE f.what = "mcpState" -> Goes(s)
    [] Called(f) -> RelayTool(s, n)
    [] OTHER -> Fails(s, "client_fixable")
CursorConsume(mustCall, s, f, n) ==
  CASE f.k \in {"text", "think"} -> Goes(Delta(Begin(s), f.k, n))
    [] f.k = "thinkingCompleted" -> Goes(IF s.block = "think" THEN CloseBlock(s) ELSE s)
    [] f.k = "kv" -> IF f.known THEN Goes(s) ELSE Fails(s, "cursor_missing_blob")
    [] f.k = "exec" -> Exec(s, f, n)
    [] f.k = "tokenLimit" -> CursorFinish(s, "length")
    [] f.k = "turnEnded" -> IF mustCall THEN Fails(s, "client_fixable") ELSE CursorFinish(s, "stop")
    [] f.k = "fault" -> Fails(s, "cursor_fault")

Consume(p, mustCall, s, f, n) ==
  CASE p = "workbuddy" -> WorkBuddyConsume(s, f, n) [] p = "openrouter" -> OpenRouterConsume(s, f, n)
    [] p = "trae" -> TraeConsume(s, f, n) [] p = "cursor" -> CursorConsume(mustCall, s, f, n)

(* Nothing more comes: the response ended, broke, or was closed by its     *)
(* idle timer. WorkBuddy takes the first for the end of the reply and does *)
(* not tell the last from a break.                                         *)
WorkBuddyReadEnds(s, broken) == IF broken THEN Fails(s, "upstream_read_failed") ELSE WorkBuddyFinish(s)
OpenRouterReadEnds(s, timedOut) == Fails(s, IF timedOut THEN "stream_idle_timeout" ELSE "upstream_read_failed")
TraeReadEnds(s, timedOut) == Fails(s, IF timedOut THEN "trae_stream_idle" ELSE "trae_stream_incomplete")
CursorReadEnds(s, timedOut) == Fails(s, IF timedOut THEN "cursor_idle_timeout" ELSE "cursor_incomplete_stream")
EndOfRead(p, s, timedOut, broken) ==
  CASE p = "workbuddy" -> WorkBuddyReadEnds(s, broken) [] p = "openrouter" -> OpenRouterReadEnds(s, timedOut)
    [] p = "trae" -> TraeReadEnds(s, timedOut) [] p = "cursor" -> CursorReadEnds(s, timedOut)

===============================================================================
