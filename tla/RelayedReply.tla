------------------------------ MODULE RelayedReply ------------------------------
(***************************************************************************)
(* One reply on its way from the upstream to the client. The decoder reads *)
(* frames; the relay (writeStream, or aggregate when the client did not    *)
(* ask for a stream) receives its events and writes them. Three decoders   *)
(* read when the relay asks for an event and nothing is pending; Cursor's  *)
(* pump runs by itself and fills a channel of Buffer events. An idle timer *)
(* closes the response of an upstream, or of a pump, that stands still.    *)
(***************************************************************************)
EXTENDS StreamDecoder

CONSTANTS
  MaxFrames,  \* bound on the frames the upstream sends before the one that ends the reply
  Buffer      \* events the channel of Cursor's stream holds

ASSUME BoundsAssumption == MaxFrames \in Nat /\ Buffer \in Nat \ {0}

VARIABLES
  platform,   \* whose decoder it is
  mustCall,   \* the request demands a tool call
  dec,        \* the decoder
  unsent,     \* events the pump has made and not yet sent
  pending,    \* events ready to be received
  pumping,    \* the decoder reads on
  fault,      \* the failure it reports when nothing is pending any more
  closed,     \* the response has been closed by the idle timer
  sent,       \* the events the relay has received and encoded
  reply,      \* the reply: open, complete, failed, or gone with its client
  heard,      \* what the upstream has said: text, thinking, and arguments by tool call
  count,      \* frames read
  marker      \* the upstream has said that the reply is over

vars == <<platform, mustCall, dec, unsent, pending, pumping, fault, closed, sent, reply, heard, count, marker>>

Init ==
  /\ platform \in Platforms
  /\ mustCall \in (IF platform = "cursor" THEN BOOLEAN ELSE {FALSE})
  /\ dec = NewStream /\ unsent = <<>> /\ pending = <<>> /\ sent = <<>>
  /\ pumping = TRUE /\ fault = "none" /\ closed = FALSE /\ reply = "open"
  /\ heard = <<>> /\ count = 0 /\ marker = FALSE

Ahead == platform = "cursor"
Reading == reply = "open" /\ pumping /\ unsent = <<>> /\ (Ahead \/ pending = <<>>)

(* What the upstream said with its n-th frame.                             *)
Hear(f, n) ==
  CASE f.k \in {"text", "think"} -> Append(heard, [k |-> f.k, i |-> 0, d |-> <<n>>])
    [] f.k = "tool" -> Append(heard, [k |-> "tool", i |-> f.up, d |-> IF f.args THEN <<n>> ELSE <<>>])
    [] Called(f) -> Append(heard, [k |-> "tool", i |-> 1, d |-> <<n>>])
    [] OTHER -> heard

(* The outcome of a read: the events go to the pump's hands or straight to *)
(* the pending ones.                                                       *)
Take(r) ==
  /\ dec' = [r.s EXCEPT !.out = <<>>]
  /\ pumping' = ~r.over
  /\ fault' = r.fault
  /\ unsent' = IF Ahead THEN r.s.out ELSE <<>>
  /\ pending' = IF Ahead THEN pending ELSE r.s.out

(* What says that the reply is over.                                       *)
Marks(f) == f.k \in {"end", "tokenLimit", "turnEnded"} \/ Called(f)
ReadFrame(f) ==
  LET n == count + 1
      r == Consume(platform, mustCall, dec, f, n)
  IN /\ Reading /\ (count < MaxFrames \/ Marks(f))
     /\ closed => platform = "workbuddy"   \* lines its scanner has already read
     /\ Take(r)
     /\ heard' = Hear(f, n)
     /\ count' = n
     /\ marker' = Marks(f)
     /\ UNCHANGED <<platform, mustCall, closed, sent, reply>>

ReadEnds(broken) ==
  /\ Reading
  /\ closed => broken
  /\ Take(EndOfRead(platform, dec, closed, broken))
  /\ UNCHANGED <<platform, mustCall, closed, sent, reply, heard, count, marker>>

(* The pump sends an event, waiting for room in the channel.               *)
PumpSends ==
  /\ unsent # <<>> /\ Len(pending) < Buffer
  /\ pending' = Append(pending, Head(unsent)) /\ unsent' = Tail(unsent)
  /\ UNCHANGED <<platform, mustCall, dec, pumping, fault, closed, sent, reply, heard, count, marker>>

(* The pump waits for room when its stream is closed: it gives up with the *)
(* error of its cancelled context.                                         *)
PumpAborts ==
  /\ unsent # <<>> /\ closed
  /\ unsent' = <<>> /\ pumping' = FALSE /\ fault' = "canceled"
  /\ UNCHANGED <<platform, mustCall, dec, pending, closed, sent, reply, heard, count, marker>>

(* Variant: the timer is armed by the first frame.                         *)
IdleTimeoutAfterFirst ==
  /\ reply = "open" /\ ~closed /\ (pumping \/ unsent # <<>>) /\ count > 0
  /\ closed' = TRUE
  /\ UNCHANGED <<platform, mustCall, dec, unsent, pending, pumping, fault, sent, reply, heard, count, marker>>

(* No data for the idle time. The timer runs on while the client is slow.  *)
IdleTimeout ==
  /\ reply = "open" /\ ~closed /\ (pumping \/ unsent # <<>>)
  /\ closed' = TRUE
  /\ UNCHANGED <<platform, mustCall, dec, unsent, pending, pumping, fault, sent, reply, heard, count, marker>>

(* The relay receives an event and writes what it encodes to; an error     *)
(* event is turned into the stream's failure on the way (observedStream).  *)
Relay ==
  /\ reply = "open" /\ pending # <<>>
  /\ pending' = Tail(pending)
  /\ IF Head(pending).t = "error" THEN reply' = "failed" /\ UNCHANGED sent
     ELSE sent' = Append(sent, Head(pending)) /\ UNCHANGED reply
  /\ UNCHANGED <<platform, mustCall, dec, unsent, pumping, fault, closed, heard, count, marker>>

Done == \E n \in DOMAIN sent : sent[n].t = "done"

(* The relay is told that the stream is done or has failed. A stream that  *)
(* ends without a Done is a failure.                                       *)
RecvEnds ==
  /\ reply = "open" /\ pending = <<>> /\ unsent = <<>> /\ ~pumping
  /\ reply' = IF fault = "none" /\ Done THEN "complete" ELSE "failed"
  /\ UNCHANGED <<platform, mustCall, dec, unsent, pending, pumping, fault, closed, sent, heard, count, marker>>

ClientLeaves ==
  /\ reply = "open" /\ reply' = "gone" /\ pumping' = FALSE /\ unsent' = <<>>
  /\ UNCHANGED <<platform, mustCall, dec, pending, fault, closed, sent, heard, count, marker>>

Next ==
  \/ \E f \in Frames(platform) : ReadFrame(f)
  \/ \E broken \in BOOLEAN : ReadEnds(broken)
  \/ PumpSends \/ PumpAborts \/ IdleTimeout \/ Relay \/ RecvEnds \/ ClientLeaves

(* The relay runs, the pump runs, and the timer of a silent upstream runs  *)
(* out: a response that has been closed ends the read that waits for it.   *)
Fairness ==
  /\ WF_vars(Relay) /\ WF_vars(RecvEnds) /\ WF_vars(PumpSends \/ PumpAborts)
  /\ WF_vars(IdleTimeout) /\ WF_vars(closed /\ ReadEnds(TRUE))
Spec == Init /\ [][Next]_vars /\ Fairness
-------------------------------------------------------------------------------
(* What the client of protocol p has been written so far. A failure before *)
(* the first frame is an ordinary error response; after it, a frame.       *)
Encoder(p) == FoldLeft(LAMBDA e, ev : Encode(p, e, ev), NewStreamEncoder, sent)
Wire(p) ==
  LET e == Encoder(p) IN
  IF reply = "failed" /\ e.out # <<>> THEN Encode(p, e, ErrorEvent).out ELSE e.out

Announcing == {"tool", "content_block_start", "output_item.added"}
Growing == {"args", "content_block_delta", "output.delta"}
Closing == {"content_block_stop", "output_item.done"}
Successful == {"[DONE]", "message_stop", "response.completed", "response.incomplete"}

(* A block is announced once, grows as what it was announced to be, while  *)
(* it is open, and is closed at most once.                                 *)
BlocksInOrder(w) ==
  \A n \in DOMAIN w :
    LET Before(set) == {m \in 1 .. n - 1 : w[m].t \in set /\ w[m].i = w[n].i} IN
    /\ w[n].t \in Announcing => Before(Announcing) = {}
    /\ w[n].t \in Growing \cup Closing => Before(Announcing) # {} /\ Before(Closing) = {}
    /\ w[n].t \in Growing => \A m \in Before(Announcing) : w[m].k = w[n].k

(* The reply ends once, and what ends it is the last that is written; when *)
(* it ends well, no block of it is left open (Anthropic and Responses).    *)
EndsOnce(p, w) ==
  /\ \A n \in DOMAIN w : w[n].t \in Successful \cup {"error"} => n = Len(w)
  /\ reply = "complete" => w # <<>> /\ Last(w).t \in Successful
  /\ reply = "failed" /\ w # <<>> => Last(w).t = "error"
  /\ w # <<>> /\ Last(w).t \in Successful /\ p # "chat" =>
       \A n \in DOMAIN w : w[n].t \in Announcing => \E m \in n .. Len(w) : w[m].t \in Closing /\ w[m].i = w[n].i

(* In every protocol what is written is well formed at every moment: the   *)
(* blocks in order, one ending, nothing after it, and an ending of the     *)
(* right kind. The client sees failure as failure.                         *)
WireWellFormed == \A p \in Protocols : LET w == Wire(p) IN BlocksInOrder(w) /\ EndsOnce(p, w)

(* What a client puts together: the talk in order, and the arguments of    *)
(* each tool call, from the frames that carry content.                     *)
Talk(frames) == Gathered(frames, {"text", "think"}, Int)
Args(frames, i) == Gathered(frames, {"tool"}, {i})
GrownFrames(w) == [n \in DOMAIN w |-> IF w[n].t \in Growing \cup {"content"} THEN w[n] ELSE StartEvent]
Written(p, e, w, t) ==
  IF Seen(e, t.index) THEN Args(GrownFrames(w), IF p = "chat" THEN Ordinal(e, t.index) ELSE t.index) ELSE <<>>

ToolsOf == {dec.tools[j] : j \in DOMAIN dec.tools}
Same(blocks) ==
  /\ Talk(blocks) = Talk(heard)
  /\ \A t \in ToolsOf : Args(blocks, t.index) = Args(heard, t.up) /\ \E n \in DOMAIN blocks : blocks[n].i = t.index
  /\ {t.up : t \in ToolsOf} = {heard[n].i : n \in {m \in DOMAIN heard : heard[m].k = "tool"}}

(* A stream that was cut off is not taken for a complete reply: except for *)
(* WorkBuddy, whose decoder takes a response that stops for a finished     *)
(* one, the last frame before a complete reply has said that it was over.  *)
CompleteIsMarked == reply = "complete" => marker \/ platform = "workbuddy"

(* What a client has been streamed is the beginning of what the upstream   *)
(* has said, nothing twice and nothing out of order, and all of it when    *)
(* the reply is complete.                                                  *)
StreamIsWhatWasSaid ==
  \A p \in Protocols :
    LET e == Encoder(p)
        w == Wire(p)
        talk == Talk(GrownFrames(w))
    IN /\ IsPrefix(talk, Talk(heard))
       /\ \A t \in ToolsOf : IsPrefix(Written(p, e, w, t), Args(heard, t.up))
       /\ reply = "complete" =>
            /\ talk = Talk(heard)
            /\ \A t \in ToolsOf : Seen(e, t.index) /\ Written(p, e, w, t) = Args(heard, t.up)

(* So is a complete reply that is put together: the list of items that     *)
(* ends a Responses stream, and the message of each protocol.              *)
MessageIsWhatWasSaid ==
  reply = "complete" =>
    LET items == Last(Wire("responses")).d
        blocks == Aggregate(sent)
    IN /\ Same(items) /\ \A n \in DOMAIN items : items[n].t # "incomplete"
       /\ Same(ResponsesFinal(blocks)) /\ \A json \in BOOLEAN : Talk(MessagesFinal(blocks, json)) = Talk(heard)
       /\ \A k \in {"text", "think"} : ChatFinal(blocks, k) = Gathered(heard, {k}, Int)

(* What a client is given is what the upstream has said, streamed or put   *)
(* together, and a reply that was cut off is not given as a complete one.  *)
ReplyIsWhatWasSaid == CompleteIsMarked /\ StreamIsWhatWasSaid /\ MessageIsWhatWasSaid

(* Whatever the upstream does, the reply ends: it never hangs on a silent  *)
(* upstream or on a full channel.                                          *)
EveryReplyEnds == <>(reply # "open")

===============================================================================
