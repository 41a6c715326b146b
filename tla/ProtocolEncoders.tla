--------------------------- MODULE ProtocolEncoders ---------------------------
(***************************************************************************)
(* How a reply is written for a client: the three streaming encoders       *)
(* (internal/api), each a fold over the events of the stream, and the      *)
(* message that a reply which is not streamed is put together as (aggregate*)
(* of internal/app). An event and a frame are records of one shape: what   *)
(* it is (t), its kind of block (k), its block index (i) and its content   *)
(* (d), a sequence of pieces of text.                                      *)
(***************************************************************************)
EXTENDS Integers, Sequences, FiniteSets, SequencesExt

(* The vocabulary of llm/stream.go: a block of text, thinking or a tool    *)
(* call is opened, grows and is closed.                                    *)
Event(t, k, i, d) == [t |-> t, k |-> k, i |-> i, d |-> d]
StartEvent == Event("start", "none", -1, <<>>)
OpenEvent(k, i) == Event("open", k, i, <<>>)
DeltaEvent(k, i, d) == Event("delta", k, i, d)
CloseEvent(k, i, args) == Event("close", k, i, args)
DoneEvent(reason) == Event("done", reason, -1, <<>>)
ErrorEvent == Event("error", "none", -1, <<>>)

(* Encoder: what an encoder has written (out) and what it remembers of the *)
(* blocks: those it has announced (seen, in order, each with its kind and  *)
(* the content so far) and, of those, the ones still open.                 *)
NewStreamEncoder == [out |-> <<>>, role |-> FALSE, seen |-> <<>>, open |-> {}, completed |-> {}]
Seen(e, i) == \E n \in DOMAIN e.seen : e.seen[n].i = i
Ordinal(e, i) == CHOOSE n \in DOMAIN e.seen : e.seen[n].i = i
Write(e, frames) == [e EXCEPT !.out = @ \o frames]
Frame(t, k, i, d) == Event(t, k, i, d)
(* Block indices in the order their blocks are listed in (sort.Ints).      *)
Ascending(S) ==
  CHOOSE q \in [1 .. Cardinality(S) -> S] : \A m, n \in 1 .. Cardinality(S) : m < n => q[m] < q[n]

(* Chat Completions: the role once, text and thinking as they come, tools  *)
(* numbered in the order they are announced; only Done and Error end it.   *)
ChatTool(e, ev) == IF Seen(e, ev.i) THEN e
                   ELSE [e EXCEPT !.seen = Append(@, [i |-> ev.i, k |-> "tool", d |-> <<>>])]
ChatEncode(e, ev) ==
  CASE ev.t = "open" /\ ev.k = "tool" ->
         LET m == ChatTool(e, ev) IN Write(m, <<Frame("tool", "tool", Ordinal(m, ev.i), <<>>)>>)
    [] ev.t = "delta" /\ ev.k = "tool" ->
         LET m == ChatTool(e, ev) IN Write(m, <<Frame("args", "tool", Ordinal(m, ev.i), ev.d)>>)
    [] ev.t = "open" /\ ev.k # "tool" /\ ~e.role ->
         Write([e EXCEPT !.role = TRUE], <<Frame("role", "none", -1, <<>>)>>)
    [] ev.t = "delta" /\ ev.k # "tool" ->
         Write([e EXCEPT !.role = TRUE],
               (IF e.role THEN <<>> ELSE <<Frame("role", "none", -1, <<>>)>>) \o <<Frame("content", ev.k, -1, ev.d)>>)
    [] ev.t = "done" -> Write(e, <<Frame("finish", ev.k, -1, <<>>), Frame("[DONE]", "none", -1, <<>>)>>)
    [] ev.t = "error" -> Write(e, <<Frame("error", "none", -1, <<>>)>>)
    [] OTHER -> e

(* Anthropic Messages: a block is announced once, a delta announces its    *)
(* block if nothing has, a close is written only for an open block and     *)
(* Done closes what is still open.                                         *)
EnsureStarted(e, i, k) ==
  IF Seen(e, i) THEN e
  ELSE Write([e EXCEPT !.seen = Append(@, [i |-> i, k |-> k, d |-> <<>>]), !.open = @ \cup {i}],
             <<Frame("content_block_start", k, i, <<>>)>>)
(* Variant: a block that is stopped stays among the open ones.             *)
StopBlockKept(e, i) == IF i \in e.open THEN Write(e, <<Frame("content_block_stop", "none", i, <<>>)>>) ELSE e
StopBlock(e, i) ==
  IF i \in e.open THEN Write([e EXCEPT !.open = @ \ {i}], <<Frame("content_block_stop", "none", i, <<>>)>>) ELSE e
StopBlocks(e) == MapThenFoldSet(LAMBDA i, s : StopBlock(s, i), e, LAMBDA i : i, LAMBDA set : Max(set), e.open)
MessagesDone(e, reason) ==
  Write(StopBlocks(e), <<Frame("message_delta", reason, -1, <<>>), Frame("message_stop", "none", -1, <<>>)>>)
MessagesEncode(e, ev) ==
  CASE ev.t = "start" -> Write(e, <<Frame("message_start", "none", -1, <<>>)>>)
    [] ev.t = "open"  -> EnsureStarted(e, ev.i, ev.k)
    [] ev.t = "delta" -> Write(EnsureStarted(e, ev.i, IF ev.k = "think" THEN "think" ELSE "text"),
                               <<Frame("content_block_delta", ev.k, ev.i, ev.d)>>)
    [] ev.t = "close" -> StopBlock(e, ev.i)
    [] ev.t = "done"  -> MessagesDone(e, ev.k)
    [] ev.t = "error" -> Write(e, <<Frame("error", "none", -1, <<>>)>>)

(* Responses: every block is an output item. Its content is kept, and the  *)
(* frame that ends the reply lists every item by index: as it was          *)
(* completed, or as an incomplete one made from what was kept.             *)
Item(e, i, k) == IF Seen(e, i) THEN e ELSE [e EXCEPT !.seen = Append(@, [i |-> i, k |-> k, d |-> <<>>])]
Grown(e, i, d) == [e EXCEPT !.seen[Ordinal(e, i)].d = @ \o d]
Kept(e, ev) == IF ev.k = "tool" THEN ev.d ELSE e.seen[Ordinal(e, ev.i)].d
ResponseShell(e) ==
  LET indices == Ascending({e.seen[n].i : n \in DOMAIN e.seen})
      Completed(i) == \E f \in e.completed : f.i = i
  IN [n \in DOMAIN indices |->
        LET s == e.seen[Ordinal(e, indices[n])] IN
        IF Completed(s.i) THEN CHOOSE f \in e.completed : f.i = s.i ELSE Frame("incomplete", s.k, s.i, s.d)]
ResponseStatus(reason) == IF reason \in {"length", "content_filter"} THEN "response.incomplete" ELSE "response.completed"
ResponsesEncode(e, ev) ==
  CASE ev.t = "start" -> Write(e, <<Frame("response.created", "none", -1, <<>>)>>)
    [] ev.t = "open"  -> Write(Item(e, ev.i, ev.k), <<Frame("output_item.added", ev.k, ev.i, <<>>)>>)
    [] ev.t = "delta" -> Write(Grown(Item(e, ev.i, ev.k), ev.i, ev.d), <<Frame("output.delta", ev.k, ev.i, ev.d)>>)
    [] ev.t = "close" ->
         LET m == Item(e, ev.i, ev.k)
             done == Frame("output_item.done", ev.k, ev.i, Kept(m, ev))
         IN Write([m EXCEPT !.completed = {f \in @ : f.i # ev.i} \cup {done}], <<done>>)
    [] ev.t = "done"  -> Write(e, <<Frame(ResponseStatus(ev.k), "none", -1, ResponseShell(e))>>)
    [] ev.t = "error" -> Write(e, <<Frame("error", "none", -1, <<>>)>>)

Protocols == {"chat", "messages", "responses"}
Encode(p, e, ev) == CASE p = "chat" -> ChatEncode(e, ev)
                      [] p = "messages" -> MessagesEncode(e, ev)
                      [] p = "responses" -> ResponsesEncode(e, ev)

(* aggregate: the blocks by index, in order of index; the arguments that   *)
(* close a tool call replace the ones that were streamed.                  *)
AggregateStep(blocks, ev) ==
  LET n == {m \in DOMAIN blocks : blocks[m].i = ev.i}
      with == IF n # {} THEN blocks ELSE Append(blocks, [i |-> ev.i, k |-> ev.k, d |-> <<>>])
      at == CHOOSE m \in DOMAIN with : with[m].i = ev.i
  IN CASE ev.t = "open"  -> with
       [] ev.t = "delta" -> [with EXCEPT ![at].d = @ \o ev.d]
       [] ev.t = "close" /\ ev.k = "tool" /\ ev.d # <<>> -> [with EXCEPT ![at].d = ev.d]
       [] OTHER -> blocks
Aggregate(events) ==
  LET blocks == FoldLeft(AggregateStep, <<>>, events)
      order == Ascending({blocks[m].i : m \in DOMAIN blocks})
  IN [n \in DOMAIN order |-> blocks[CHOOSE m \in DOMAIN blocks : blocks[m].i = order[n]]]

(* What is put together from the frames, or blocks, of these kinds at      *)
(* these places: the pieces of their content, each with its kind.          *)
Pieces(f) == [m \in DOMAIN f.d |-> <<f.k, f.d[m]>>]
Gathered(frames, kinds, places) ==
  FoldLeft(LAMBDA c, f : IF f.k \in kinds /\ f.i \in places THEN c \o Pieces(f) ELSE c, <<>>, frames)

(* The whole message in each protocol: Chat has one text and one thinking, *)
(* Anthropic leaves empty blocks out and gives a tool call whose arguments *)
(* are not JSON an empty input, Responses lists every block.               *)
ChatFinal(blocks, k) == Gathered(blocks, {k}, Int)
Input(b, json) == IF b.k = "tool" /\ ~json THEN [b EXCEPT !.d = <<>>] ELSE b
MessagesContent(blocks, json) ==
  FoldLeft(LAMBDA c, b : IF b.k # "tool" /\ b.d = <<>> THEN c ELSE Append(c, Input(b, json)), <<>>, blocks)
MessagesFinal(blocks, json) ==
  LET content == MessagesContent(blocks, json)
  IN IF content = <<>> THEN <<[i |-> 0, k |-> "text", d |-> <<>>]>> ELSE content
ResponsesFinal(blocks) == blocks

===============================================================================
