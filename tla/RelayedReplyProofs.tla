--------------------------- MODULE RelayedReplyProofs ---------------------------
(***************************************************************************)
(* What every client is written is well formed at every moment, and what   *)
(* it is streamed, or given as one message, is what the upstream has said, *)
(* for any platforms, any frames in any order, any number of them and any  *)
(* room in the channel: what a decoder emits fits what it has emitted      *)
(* before and tells what it has heard; an encoder makes well-formed frames *)
(* of events that do, frames which tell the same; and so does the message  *)
(* that the table of the blocks of all those events is written as.         *)
(***************************************************************************)
EXTENDS RelayedReply, SequenceTheorems, InductionLemmas, TLAPS

Kinds == {"none", "text", "think", "tool"}
Reasons == {"stop", "length", "tool_calls", "error", ""}
Events == [t : {"start", "open", "delta", "close", "done", "error"}, k : Kinds \cup Reasons, i : Int, d : Seq(Nat)]

(* The blocks a stream of events has opened and closed, and its end.       *)
Opens(s, i, k) == \E n \in DOMAIN s : s[n].t = "open" /\ s[n].i = i /\ s[n].k = k
Shuts(s, i) == \E n \in DOMAIN s : s[n].t = "close" /\ s[n].i = i
Over(s) == \E n \in DOMAIN s : s[n].t \in {"done", "error"}

(* An event that may come after the stream s: a block is opened once,      *)
(* grows and is closed as what it was opened, while it is open; all are    *)
(* closed when the reply is done, and nothing comes after its end.         *)
Fits(s, e) ==
  /\ ~Over(s)
  /\ e.t = "open" => e.k \in Content /\ \A k : ~Opens(s, e.i, k)
  /\ e.t \in {"delta", "close"} => Opens(s, e.i, e.k) /\ ~Shuts(s, e.i)
  /\ e.t = "done" => \A i, k : Opens(s, i, k) => Shuts(s, i)
EventsOK(s) == \A n \in DOMAIN s : Fits(SubSeq(s, 1, n - 1), s[n])

LEMMA AppendSays ==
  ASSUME NEW s \in Seq(Events), NEW e \in Events
  PROVE  /\ Append(s, e) \in Seq(Events)
         /\ \A i, k : Opens(Append(s, e), i, k) <=> Opens(s, i, k) \/ (e.t = "open" /\ e.i = i /\ e.k = k)
         /\ \A i : Shuts(Append(s, e), i) <=> Shuts(s, i) \/ (e.t = "close" /\ e.i = i)
         /\ Over(Append(s, e)) <=> Over(s) \/ e.t \in {"done", "error"}
<1> DEFINE a == Append(s, e)
<1>1. /\ Len(s) \in Nat /\ DOMAIN s = 1 .. Len(s) /\ a \in Seq(Events) /\ Len(a) = Len(s) + 1
      /\ DOMAIN a = 1 .. Len(s) + 1 /\ a[Len(s) + 1] = e /\ \A n \in DOMAIN s : a[n] = s[n]
  BY AppendProperties, LenProperties
<1> HIDE DEF a
<1>2. \A n : n \in DOMAIN a <=> n \in DOMAIN s \/ n = Len(s) + 1
  BY <1>1
<1>3. \A i, k : Opens(a, i, k) <=> Opens(s, i, k) \/ (e.t = "open" /\ e.i = i /\ e.k = k)
  BY <1>1, <1>2 DEF Opens
<1>4. \A i : Shuts(a, i) <=> Shuts(s, i) \/ (e.t = "close" /\ e.i = i)
  BY <1>1, <1>2 DEF Shuts
<1>5. Over(a) <=> Over(s) \/ e.t \in {"done", "error"}
  BY <1>1, <1>2 DEF Over
<1> QED
  BY <1>1, <1>3, <1>4, <1>5 DEF a

LEMMA NothingSaid == ~Over(<<>>) /\ EventsOK(<<>>) /\ \A i, k : ~Opens(<<>>, i, k) /\ ~Shuts(<<>>, i)
<1>1. DOMAIN <<>> = {}
  OBVIOUS
<1> QED
  BY <1>1 DEF Over, EventsOK, Opens, Shuts

LEMMA EventsAppend ==
  ASSUME NEW s \in Seq(Events), NEW e \in Events, EventsOK(s), Fits(s, e) PROVE EventsOK(Append(s, e))
<1> DEFINE a == Append(s, e)
<1>1. /\ Len(s) \in Nat /\ DOMAIN s = 1 .. Len(s) /\ DOMAIN a = 1 .. Len(s) + 1 /\ a = s \o <<e>>
      /\ a[Len(s) + 1] = e /\ \A n \in DOMAIN s : a[n] = s[n]
  BY AppendProperties, LenProperties, AppendIsConcat
<1>2. <<e>> \in Seq(Events)
  OBVIOUS
<1> HIDE DEF a
<1>3. SUFFICES ASSUME NEW n \in 1 .. Len(s) + 1 PROVE Fits(SubSeq(a, 1, n - 1), a[n])
  BY <1>1 DEF EventsOK, a
<1>4. SubSeq(a, 1, n - 1) = SubSeq(s, 1, n - 1)
  BY <1>1, <1>2, BeforeInBeginning
<1>5. CASE n \in DOMAIN s
  BY <1>1, <1>4, <1>5 DEF EventsOK
<1>6. CASE n = Len(s) + 1
  <2>1. n - 1 = Len(s)
    BY <1>1, <1>6
  <2>2. SubSeq(s, 1, n - 1) = s
    BY <2>1, SubSeqFull
  <2>3. a[n] = e
    BY <1>1, <1>6
  <2> QED
    BY <1>4, <2>2, <2>3
<1> QED
  BY <1>1, <1>5, <1>6

(* A beginning of a stream is one, and what comes next fits it.            *)
LEMMA EventsBegin ==
  ASSUME NEW b \in Seq(Events), NEW c \in Seq(Events), EventsOK(b \o c)
  PROVE  EventsOK(b) /\ (c # <<>> => Fits(b, Head(c)))
<1> DEFINE a == b \o c
<1>1. /\ Len(b) \in Nat /\ Len(c) \in Nat /\ DOMAIN b = 1 .. Len(b) /\ DOMAIN a = 1 .. Len(b) + Len(c)
      /\ \A n \in 1 .. Len(b) : a[n] = b[n]
  BY ConcatProperties, LenProperties
<1>2. c # <<>> => Len(c) > 0 /\ a[Len(b) + 1] = Head(c)
  <2>1. SUFFICES ASSUME c # <<>> PROVE Len(c) > 0 /\ a[Len(b) + 1] = Head(c)
    OBVIOUS
  <2>2. Len(c) > 0
    BY <1>1, <2>1, EmptySeq
  <2>3. Len(b) + 1 \in 1 .. Len(b) + Len(c)
    BY <1>1, <2>2
  <2>4. a[Len(b) + 1] = c[1]
    BY <1>1, <2>3, ConcatProperties
  <2> QED
    BY <2>2, <2>4
<1>3. \A n \in 1 .. Len(b) + 1 : SubSeq(a, 1, n - 1) = SubSeq(b, 1, n - 1)
  BY BeforeInBeginning
<1> HIDE DEF a
<1>4. \A n \in 1 .. Len(b) + Len(c) : Fits(SubSeq(a, 1, n - 1), a[n])
  BY <1>1 DEF EventsOK, a
<1>5. EventsOK(b)
  <2>1. \A n \in 1 .. Len(b) : n \in 1 .. Len(b) + 1 /\ n \in 1 .. Len(b) + Len(c)
    BY <1>1
  <2> QED
    BY <1>1, <1>3, <1>4, <2>1 DEF EventsOK
<1>6. ASSUME c # <<>> PROVE Fits(b, Head(c))
  <2>1. PICK k : k = Len(b) + 1
    OBVIOUS
  <2>2. k \in 1 .. Len(b) + 1 /\ k \in 1 .. Len(b) + Len(c) /\ k - 1 = Len(b)
    BY <1>1, <1>2, <1>6, <2>1
  <2>3. SubSeq(a, 1, k - 1) = b
    BY <1>3, <2>2, SubSeqFull
  <2> QED
    BY <1>2, <1>4, <1>6, <2>1, <2>2, <2>3
<1> QED
  BY <1>5, <1>6

-------------------------------------------------------------------------------
(* The decoders                                                              *)

ToolCalls == [up : ToolSlots, index : Nat, id : BOOLEAN, name : BOOLEAN, args : Seq(Nat), started : BOOLEAN]
Decoders == [started : BOOLEAN, block : {"none", "text", "think"}, at : Int, next : Nat,
             tools : Seq(ToolCalls), stop : Reasons, out : Seq(Events)]

(* What a decoder knows of the stream a it has emitted, when it has closed *)
(* the first m of its tool calls: which block is open, which tool calls    *)
(* are announced, and an index no block has yet.                           *)
Fresh(s, a) == \A i \in Int : (Shuts(a, i) \/ \E k : Opens(a, i, k)) => i < s.next
KnowsBlock(s, a) == s.block # "none" => Opens(a, s.at, s.block) /\ ~Shuts(a, s.at) /\ s.at \in Nat /\ s.at < s.next
KnowsTool(s, t, a, shut) ==
  /\ t.index < s.next /\ (s.block # "none" => t.index # s.at)
  /\ t.started => Opens(a, t.index, "tool") /\ (Shuts(a, t.index) <=> shut)
  /\ ~t.started => ~Shuts(a, t.index) /\ \A k : ~Opens(a, t.index, k)
KnowsTools(s, a, m) == \A j \in DOMAIN s.tools : KnowsTool(s, s.tools[j], a, j <= m)
OneCallEach(s) == \A j, l \in DOMAIN s.tools : s.tools[j].index = s.tools[l].index => j = l
KnowsAll(s, a, m) ==
  \A i \in Int : (\E k : Opens(a, i, k)) =>
    \/ Shuts(a, i) \/ (s.block # "none" /\ s.at = i)
    \/ \E j \in DOMAIN s.tools : s.tools[j].started /\ j > m /\ s.tools[j].index = i
Knows(s, a, m) ==
  ~Over(a) /\ Fresh(s, a) /\ KnowsBlock(s, a) /\ KnowsTools(s, a, m) /\ OneCallEach(s) /\ KnowsAll(s, a, m)
(* It has emitted b and, with this frame, s.out.                           *)
Decodes(s, b, m) ==
  s \in Decoders /\ b \in Seq(Events) /\ EventsOK(b \o s.out) /\ Knows(s, b \o s.out, m)

(* One more event: from s, that has emitted a, to v, that has emitted c.   *)
Adds(s, a, e, v, c) ==
  /\ v \in Decoders /\ EventsOK(c)
  /\ v.started = s.started /\ v.block = s.block /\ v.at = s.at
  /\ v.next = s.next /\ v.tools = s.tools /\ v.stop = s.stop
  /\ \A i, k : Opens(c, i, k) <=> Opens(a, i, k) \/ (e.t = "open" /\ e.i = i /\ e.k = k)
  /\ \A i : Shuts(c, i) <=> Shuts(a, i) \/ (e.t = "close" /\ e.i = i)
  /\ Over(c) <=> Over(a) \/ e.t \in {"done", "error"}
LEMMA Emitting ==
  ASSUME NEW s \in Decoders, NEW b \in Seq(Events), NEW e \in Events,
         NEW x, x = b \o s.out, EventsOK(x), Fits(x, e), NEW v, v = Emit(s, e), NEW c, c = b \o v.out
  PROVE  Adds(s, x, e, v, c)
<1>1. PICK o : o = s.out
  OBVIOUS
<1>2. o \in Seq(Events)
  BY <1>1 DEF Decoders
<1>3. PICK a : a = b \o o
  OBVIOUS
<1>4. Append(o, e) \in Seq(Events) /\ a \in Seq(Events) /\ Append(o, e) = o \o <<e>> /\ <<e>> \in Seq(Events)
  BY <1>2, <1>3, AppendProperties, AppendIsConcat, ConcatProperties
<1>6. v = [s EXCEPT !.out = Append(o, e)]
  BY <1>1 DEF Emit
<1>7. /\ v \in Decoders /\ v.out = Append(o, e) /\ v.started = s.started /\ v.block = s.block /\ v.at = s.at
      /\ v.next = s.next /\ v.tools = s.tools /\ v.stop = s.stop
  BY <1>4, <1>6 DEF Decoders
<1>8. b \o (o \o <<e>>) = (b \o o) \o <<e>>
  BY <1>2, <1>4, ConcatAssociative
<1>9. b \o v.out = Append(a, e)
  <2>1. Append(a, e) = a \o <<e>>
    BY <1>4, AppendIsConcat
  <2> QED
    BY <1>3, <1>4, <1>7, <1>8, <2>1
<1>10. EventsOK(Append(a, e))
  BY <1>1, <1>3, <1>4, EventsAppend
<1>11. /\ \A i, k : Opens(Append(a, e), i, k) <=> Opens(a, i, k) \/ (e.t = "open" /\ e.i = i /\ e.k = k)
       /\ \A i : Shuts(Append(a, e), i) <=> Shuts(a, i) \/ (e.t = "close" /\ e.i = i)
       /\ Over(Append(a, e)) <=> Over(a) \/ e.t \in {"done", "error"}
  BY <1>4, AppendSays
<1>12. x = a /\ c = Append(a, e)
  BY <1>1, <1>3, <1>9
<1> HIDE DEF Opens, Shuts, Over, EventsOK
<1> QED
  BY <1>7, <1>10, <1>11, <1>12 DEF Adds

(* What it knows rests on its blocks and tool calls, and on those of the   *)
(* stream.                                                                 *)
LEMMA KnowsSame ==
  ASSUME NEW s, NEW v, NEW a, NEW c, NEW m, Knows(s, a, m),
         v.block = s.block, v.at = s.at, v.next = s.next, v.tools = s.tools,
         \A i, k : Opens(c, i, k) <=> Opens(a, i, k), \A i : Shuts(c, i) <=> Shuts(a, i), Over(c) <=> Over(a)
  PROVE  Knows(v, c, m)
<1>1. ~Over(c) /\ Fresh(v, c)
  BY DEF Knows, Fresh
<1>2. KnowsBlock(v, c)
  BY DEF Knows, KnowsBlock
<1>3. KnowsTools(v, c, m)
  BY DEF Knows, KnowsTools, KnowsTool
<1>4. OneCallEach(v)
  BY DEF Knows, OneCallEach
<1>5. KnowsAll(v, c, m)
  BY DEF Knows, KnowsAll
<1> QED
  BY <1>1, <1>2, <1>3, <1>4, <1>5 DEF Knows

LEMMA EventIsEvent ==
  /\ StartEvent \in Events /\ ErrorEvent \in Events
  /\ \A k \in Kinds, i \in Int : OpenEvent(k, i) \in Events
  /\ \A k \in Kinds, i \in Int, d \in Seq(Nat) : DeltaEvent(k, i, d) \in Events /\ CloseEvent(k, i, d) \in Events
  /\ \A r \in Reasons : DoneEvent(r) \in Events
<1>1. <<>> \in Seq(Nat) /\ -1 \in Int
  OBVIOUS
<1> QED
  BY <1>1 DEF Events, Event, StartEvent, ErrorEvent, OpenEvent, DeltaEvent, CloseEvent, DoneEvent, Kinds, Reasons

(* A reply begins.                                                         *)
LEMMA BeginStep ==
  ASSUME NEW s, NEW b, Decodes(s, b, 0) PROVE Decodes(Begin(s), b, 0) /\ Begin(s).started
<1>1. s \in Decoders /\ b \in Seq(Events) /\ EventsOK(b \o s.out) /\ Knows(s, b \o s.out, 0)
  BY DEF Decodes
<1>2. CASE s.started
  BY <1>2 DEF Begin
<1>3. CASE ~s.started
  <2>1. PICK u : u = [s EXCEPT !.started = TRUE]
    OBVIOUS
  <2>2. u \in Decoders /\ u.out = s.out /\ u.started /\ Begin(s) = Emit(u, StartEvent)
    BY <1>1, <1>3, <2>1 DEF Decoders, Begin
  <2>3. Knows(u, b \o u.out, 0)
    <3>1. u.block = s.block /\ u.at = s.at /\ u.next = s.next /\ u.tools = s.tools
      BY <1>1, <2>1 DEF Decoders
    <3> QED
      BY <1>1, <2>2, <3>1, KnowsSame
  <2>4. StartEvent \in Events /\ StartEvent.t = "start"
    BY EventIsEvent DEF StartEvent, Event
  <2>5. Fits(b \o u.out, StartEvent)
    BY <2>3, <2>4 DEF Knows, Fits
  <2>6. PICK v : v = Emit(u, StartEvent)
    OBVIOUS
  <2>7. PICK a, c : a = b \o u.out /\ c = b \o v.out
    OBVIOUS
  <2>8. /\ v \in Decoders /\ v.started = u.started /\ v.block = u.block /\ v.at = u.at /\ v.next = u.next
        /\ v.tools = u.tools /\ EventsOK(c)
        /\ \A i, k : Opens(c, i, k) <=> Opens(a, i, k)
        /\ \A i : Shuts(c, i) <=> Shuts(a, i)
        /\ Over(c) <=> Over(a)
    <3>1. b \in Seq(Events) /\ EventsOK(a) /\ Fits(a, StartEvent)
      BY <1>1, <2>2, <2>5, <2>7
    <3>2. Adds(u, a, StartEvent, v, c)
      BY ONLY <2>2, <2>4, <2>6, <2>7, <3>1, Emitting
    <3> QED
      BY <2>4, <3>2 DEF Adds
  <2>9. Knows(v, c, 0)
    BY <2>3, <2>7, <2>8, KnowsSame
  <2> QED
    BY <1>1, <2>2, <2>6, <2>7, <2>8, <2>9 DEF Decodes
<1> QED
  BY <1>2, <1>3

(* The open block of talk is closed.                                       *)
LEMMA CloseStep ==
  ASSUME NEW s, NEW b, NEW m, Decodes(s, b, m)
  PROVE  LET v == CloseBlock(s) IN
         /\ Decodes(v, b, m) /\ v.block = "none" /\ v.tools = s.tools /\ v.started = s.started /\ v.next = s.next
         /\ v.stop = s.stop
<1>1. s \in Decoders /\ b \in Seq(Events) /\ EventsOK(b \o s.out) /\ Knows(s, b \o s.out, m)
  BY DEF Decodes
<1>2. CASE s.block = "none"
  BY <1>2 DEF CloseBlock
<1>3. CASE s.block # "none"
  <2>1. PICK u : u = [s EXCEPT !.block = "none"]
    OBVIOUS
  <2>2. PICK e : e = CloseEvent(s.block, s.at, <<>>)
    OBVIOUS
  <2>3. e \in Events /\ e.t = "close" /\ e.i = s.at /\ e.k = s.block
    <3>1. s.block \in Kinds /\ s.at \in Int /\ <<>> \in Seq(Nat)
      BY <1>1 DEF Decoders, Kinds
    <3>2. e \in Events
      BY <2>2, <3>1, EventIsEvent
    <3> QED
      BY <2>2, <3>2 DEF CloseEvent, Event
  <2>4. /\ u \in Decoders /\ u.out = s.out /\ u.block = "none" /\ u.started = s.started /\ u.at = s.at
        /\ u.next = s.next /\ u.tools = s.tools /\ u.stop = s.stop /\ CloseBlock(s) = Emit(u, e)
    BY <1>1, <1>3, <2>1, <2>2 DEF Decoders, CloseBlock
  <2>5. PICK v : v = Emit(u, e)
    OBVIOUS
  <2>6. PICK a, c : a = b \o u.out /\ c = b \o v.out
    OBVIOUS
  <2>7. Fits(a, e)
    BY <1>1, <1>3, <2>3, <2>4, <2>6 DEF Knows, KnowsBlock, Fits
  <2>8. Adds(u, a, e, v, c)
    <3>1. u \in Decoders /\ b \in Seq(Events) /\ EventsOK(a) /\ a = b \o u.out /\ c = b \o v.out
      BY <1>1, <2>4, <2>6
    <3> QED
      BY ONLY <2>3, <2>5, <2>7, <3>1, Emitting
  <2>9. Knows(s, a, m) /\ a = b \o s.out
    BY <1>1, <2>4, <2>6
  <2>10. /\ \A i, k : Opens(c, i, k) <=> Opens(a, i, k)
         /\ \A i : Shuts(c, i) <=> Shuts(a, i) \/ s.at = i
         /\ ~Over(c) /\ v.block = "none" /\ v.at = s.at /\ v.next = s.next /\ v.tools = s.tools
    BY <2>3, <2>4, <2>8, <2>9 DEF Knows, Adds
  <2>11. Fresh(v, c)
    BY <1>3, <2>9, <2>10 DEF Knows, Fresh, KnowsBlock
  <2>12. KnowsBlock(v, c)
    BY <2>10 DEF KnowsBlock
  <2>13. KnowsTools(v, c, m)
    <3>1. SUFFICES ASSUME NEW j \in DOMAIN s.tools PROVE KnowsTool(v, s.tools[j], c, j <= m)
      BY <2>10 DEF KnowsTools
    <3>2. KnowsTool(s, s.tools[j], a, j <= m)
      BY <2>9 DEF Knows, KnowsTools
    <3> QED
      BY <1>3, <2>10, <3>2 DEF KnowsTool
  <2>14. OneCallEach(v)
    BY <2>9, <2>10 DEF Knows, OneCallEach
  <2>15. KnowsAll(v, c, m)
    BY <1>3, <2>9, <2>10 DEF Knows, KnowsAll
  <2>16. Knows(v, c, m)
    BY <2>10, <2>11, <2>12, <2>13, <2>14, <2>15 DEF Knows
  <2> QED
    BY <1>1, <2>4, <2>5, <2>6, <2>8, <2>16 DEF Decodes, Adds
<1> QED
  BY <1>1, <1>2, <1>3

(* An event that opens and closes nothing.                                 *)
LEMMA QuietStep ==
  ASSUME NEW s, NEW b, NEW m, Decodes(s, b, m), NEW e \in Events, e.t \in {"start", "delta"}, Fits(b \o s.out, e)
  PROVE  LET v == Emit(s, e) IN
         /\ Decodes(v, b, m) /\ v.block = s.block /\ v.at = s.at /\ v.tools = s.tools /\ v.started = s.started
         /\ v.next = s.next /\ v.stop = s.stop
<1>1. s \in Decoders /\ b \in Seq(Events) /\ EventsOK(b \o s.out) /\ Knows(s, b \o s.out, m)
  BY DEF Decodes
<1>2. PICK v : v = Emit(s, e)
  OBVIOUS
<1>3. PICK a, c : a = b \o s.out /\ c = b \o v.out
  OBVIOUS
<1>4. EventsOK(a) /\ Fits(a, e) /\ Knows(s, a, m)
  BY <1>1, <1>3
<1>5. Adds(s, a, e, v, c)
  BY ONLY <1>1, <1>2, <1>3, <1>4, e \in Events, Emitting
<1>6. /\ \A i, k : Opens(c, i, k) <=> Opens(a, i, k)
      /\ \A i : Shuts(c, i) <=> Shuts(a, i)
      /\ Over(c) <=> Over(a)
  BY <1>5 DEF Adds
<1>7. v.block = s.block /\ v.at = s.at /\ v.next = s.next /\ v.tools = s.tools
  BY <1>5 DEF Adds
<1>8. Knows(v, c, m)
  BY <1>4, <1>6, <1>7, KnowsSame
<1> QED
  BY <1>1, <1>2, <1>3, <1>5, <1>8 DEF Decodes, Adds

(* A block of talk is opened, unless it is open.                           *)
LEMMA OpenStep ==
  ASSUME NEW s, NEW b, Decodes(s, b, 0), NEW k \in {"text", "think"}
  PROVE  LET v == OpenBlock(s, k) IN
         Decodes(v, b, 0) /\ v.block = k /\ v.tools = s.tools /\ v.started = s.started /\ v.stop = s.stop
<1>1. CASE s.block = k
  BY <1>1 DEF OpenBlock
<1>2. CASE s.block # k
  <2>1. PICK w : w = CloseBlock(s)
    OBVIOUS
  <2>2. Decodes(w, b, 0) /\ w.block = "none" /\ w.tools = s.tools /\ w.started = s.started /\ w.stop = s.stop
    BY <2>1, CloseStep
  <2>3. w \in Decoders /\ b \in Seq(Events) /\ EventsOK(b \o w.out) /\ Knows(w, b \o w.out, 0)
    BY <2>2 DEF Decodes
  <2>4. PICK n : n = w.next
    OBVIOUS
  <2>5. PICK u : u = [w EXCEPT !.block = k, !.at = n, !.next = n + 1]
    OBVIOUS
  <2>6. /\ u \in Decoders /\ u.out = w.out /\ u.block = k /\ u.started = w.started /\ u.at = n
        /\ u.next = n + 1 /\ u.tools = w.tools /\ u.stop = w.stop /\ n \in Nat
    <3>1. n \in Nat /\ n \in Int /\ n + 1 \in Nat
      BY <2>3, <2>4 DEF Decoders
    <3>2. PICK y : y = [w EXCEPT !.block = k, !.at = n]
      OBVIOUS
    <3>3. /\ y \in Decoders /\ y.out = w.out /\ y.block = k /\ y.started = w.started /\ y.at = n
          /\ y.next = n /\ y.tools = w.tools /\ y.stop = w.stop
      BY <2>3, <2>4, <3>1, <3>2 DEF Decoders
    <3>4. u = [y EXCEPT !.next = n + 1]
      BY <2>3, <2>5, <3>2 DEF Decoders
    <3> QED
      BY <3>1, <3>3, <3>4 DEF Decoders
  <2>7. PICK e : e = OpenEvent(k, n)
    OBVIOUS
  <2>8. e \in Events /\ e.t = "open" /\ e.i = n /\ e.k = k
    <3>1. k \in Kinds /\ n \in Int
      BY <2>6 DEF Kinds
    <3>2. e \in Events
      BY <2>7, <3>1, EventIsEvent
    <3> QED
      BY <2>7, <3>2 DEF OpenEvent, Event
  <2>9. PICK v : v = Emit(u, e)
    OBVIOUS
  <2>10. OpenBlock(s, k) = v
    BY <1>2, <2>1, <2>4, <2>5, <2>7, <2>9 DEF OpenBlock
  <2>11. PICK a, c : a = b \o u.out /\ c = b \o v.out
    OBVIOUS
  <2>12. EventsOK(a) /\ Knows(w, a, 0)
    BY <2>3, <2>6, <2>11
  <2>13. \A l : ~Opens(a, n, l) /\ ~Shuts(a, n)
    BY <2>4, <2>6, <2>12 DEF Knows, Fresh
  <2>14. Fits(a, e)
    BY <2>8, <2>12, <2>13 DEF Fits, Knows, Content
  <2>15. Adds(u, a, e, v, c)
    BY ONLY <2>3, <2>6, <2>8, <2>9, <2>11, <2>12, <2>14, Emitting
  <2>16. /\ \A i, l : Opens(c, i, l) <=> Opens(a, i, l) \/ (n = i /\ k = l)
         /\ \A i : Shuts(c, i) <=> Shuts(a, i)
         /\ ~Over(c) /\ v.block = k /\ v.at = n /\ v.next = n + 1 /\ v.tools = w.tools /\ n \in Nat /\ n = w.next
    BY <2>4, <2>6, <2>8, <2>12, <2>15 DEF Knows, Adds
  <2>17. Fresh(v, c)
    <3>1. ASSUME NEW i \in Int, Shuts(c, i) \/ \E l : Opens(c, i, l) PROVE i < n + 1
      <4>1. i = n \/ Shuts(a, i) \/ \E l : Opens(a, i, l)
        BY <2>16, <3>1
      <4>2. i = n \/ i < n
        BY <2>12, <2>16, <4>1 DEF Knows, Fresh
      <4> QED
        BY <2>16, <4>2
    <3> QED
      BY <2>16, <3>1 DEF Fresh
  <2>18. KnowsBlock(v, c)
    BY <2>13, <2>16 DEF KnowsBlock
  <2>19. KnowsTools(v, c, 0)
    <3>1. SUFFICES ASSUME NEW j \in DOMAIN w.tools PROVE KnowsTool(v, w.tools[j], c, j <= 0)
      BY <2>16 DEF KnowsTools
    <3>2. KnowsTool(w, w.tools[j], a, j <= 0)
      BY <2>12 DEF Knows, KnowsTools
    <3>3. w.tools[j].index \in Nat /\ w.tools[j].index < n /\ w.tools[j].index # n
      <4>1. w.tools[j] \in ToolCalls
        BY <2>3 DEF Decoders
      <4> QED
        BY <2>16, <3>2, <4>1 DEF ToolCalls, KnowsTool
    <3> QED
      BY <2>16, <3>2, <3>3 DEF KnowsTool
  <2>20. OneCallEach(v)
    BY <2>12, <2>16 DEF Knows, OneCallEach
  <2>21. KnowsAll(v, c, 0)
    BY <1>2, <2>2, <2>12, <2>16 DEF Knows, KnowsAll
  <2>22. Knows(v, c, 0)
    BY <2>16, <2>17, <2>18, <2>19, <2>20, <2>21 DEF Knows
  <2> QED
    BY <2>2, <2>3, <2>6, <2>10, <2>11, <2>15, <2>22 DEF Decodes, Adds
<1> QED
  BY <1>1, <1>2

(* A piece of talk.                                                        *)
LEMMA DeltaStep ==
  ASSUME NEW s, NEW b, Decodes(s, b, 0), NEW k \in {"text", "think"}, NEW n \in Nat
  PROVE  LET v == Delta(s, k, n) IN Decodes(v, b, 0) /\ v.tools = s.tools /\ v.started = s.started
<1>1. PICK w : w = OpenBlock(s, k)
  OBVIOUS
<1>2. Decodes(w, b, 0) /\ w.block = k /\ w.tools = s.tools /\ w.started = s.started
  BY <1>1, OpenStep
<1>3. PICK e : e = DeltaEvent(k, w.at, <<n>>)
  OBVIOUS
<1>4. w \in Decoders /\ Knows(w, b \o w.out, 0)
  BY <1>2 DEF Decodes
<1>5. e \in Events /\ e.t = "delta" /\ e.i = w.at /\ e.k = k
  <2>1. k \in Kinds /\ w.at \in Int /\ <<n>> \in Seq(Nat)
    BY <1>4 DEF Kinds, Decoders
  <2>2. e \in Events
    BY <1>3, <2>1, EventIsEvent
  <2> QED
    BY <1>3, <2>2 DEF DeltaEvent, Event
<1>6. Fits(b \o w.out, e)
  BY <1>2, <1>4, <1>5 DEF Fits, Knows, KnowsBlock
<1>7. Delta(s, k, n) = Emit(w, e)
  BY <1>1, <1>3 DEF Delta
<1> QED
  BY <1>2, <1>5, <1>6, <1>7, QuietStep

(* Of a tool call it knows the index and whether it is announced.          *)
LEMMA KnowsAlike ==
  ASSUME NEW s, NEW v, NEW a, NEW m, Knows(s, a, m),
         v.block = s.block, v.at = s.at, v.next = s.next, DOMAIN v.tools = DOMAIN s.tools,
         \A j \in DOMAIN s.tools : v.tools[j].index = s.tools[j].index /\ v.tools[j].started = s.tools[j].started
  PROVE  Knows(v, a, m)
<1>1. ~Over(a) /\ Fresh(v, a)
  BY DEF Knows, Fresh
<1>2. KnowsBlock(v, a)
  BY DEF Knows, KnowsBlock
<1>3. KnowsTools(v, a, m)
  <2>1. SUFFICES ASSUME NEW j \in DOMAIN s.tools PROVE KnowsTool(v, v.tools[j], a, j <= m)
    BY DEF KnowsTools
  <2>2. KnowsTool(s, s.tools[j], a, j <= m)
    BY DEF Knows, KnowsTools
  <2> QED
    BY <2>2 DEF KnowsTool
<1>4. OneCallEach(v)
  BY DEF Knows, OneCallEach
<1>5. KnowsAll(v, a, m)
  BY DEF Knows, KnowsAll
<1> QED
  BY <1>1, <1>2, <1>3, <1>4, <1>5 DEF Knows

(* The tool calls of a decoder, one of them replaced.                      *)
LEMMA ToolReplaced ==
  ASSUME NEW s \in Decoders, NEW j \in DOMAIN s.tools, NEW t \in ToolCalls, NEW v, v = [s EXCEPT !.tools[j] = t]
  PROVE  /\ v \in Decoders /\ v.started = s.started /\ v.block = s.block /\ v.at = s.at /\ v.next = s.next
         /\ v.stop = s.stop /\ v.out = s.out /\ DOMAIN v.tools = DOMAIN s.tools /\ v.tools[j] = t
         /\ \A l \in DOMAIN s.tools : l # j => v.tools[l] = s.tools[l]
<1>1. PICK q : q = s.tools
  OBVIOUS
<1>2. q \in Seq(ToolCalls) /\ j \in 1 .. Len(q) /\ DOMAIN q = 1 .. Len(q)
  BY <1>1, LenProperties DEF Decoders
<1>3. PICK p : p = [q EXCEPT ![j] = t]
  OBVIOUS
<1>4. p \in Seq(ToolCalls) /\ DOMAIN p = DOMAIN q /\ p[j] = t /\ \A l \in DOMAIN q : l # j => p[l] = q[l]
  BY <1>2, <1>3, ExceptSeq
<1>5. v = [s EXCEPT !.tools = p]
  BY <1>1, <1>3
<1>6. v \in Decoders /\ v.tools = p
  BY <1>4, <1>5 DEF Decoders
<1> QED
  BY <1>1, <1>4, <1>5, <1>6 DEF Decoders

(* The first fragment of a tool call takes an index.                       *)
LEMMA KnownToolStep ==
  ASSUME NEW s, NEW b, Decodes(s, b, 0), NEW up \in ToolSlots
  PROVE  LET v == KnownTool(s, up) IN
         Decodes(v, b, 0) /\ v.started = s.started /\ v.out = s.out /\ ToolSlot(v, up) \in DOMAIN v.tools
<1>1. CASE \E j \in DOMAIN s.tools : s.tools[j].up = up
  BY <1>1 DEF KnownTool, ToolSlot
<1>2. CASE ~ \E j \in DOMAIN s.tools : s.tools[j].up = up
  <2>1. s \in Decoders /\ b \in Seq(Events) /\ EventsOK(b \o s.out) /\ Knows(s, b \o s.out, 0)
    BY DEF Decodes
  <2>2. PICK n, q : n = s.next /\ q = s.tools
    OBVIOUS
  <2>3. PICK t : t = [up |-> up, index |-> n, id |-> FALSE, name |-> FALSE, args |-> <<>>, started |-> FALSE]
    OBVIOUS
  <2>4. n \in Nat /\ n + 1 \in Nat /\ q \in Seq(ToolCalls) /\ <<>> \in Seq(Nat)
    BY <2>1, <2>2 DEF Decoders
  <2>5. t \in ToolCalls /\ t.index = n /\ ~t.started /\ t.up = up
    BY <2>3, <2>4 DEF ToolCalls
  <2>6. PICK p : p = Append(q, t)
    OBVIOUS
  <2>7. PICK k : k = Len(q)
    OBVIOUS
  <2>8. /\ p \in Seq(ToolCalls) /\ DOMAIN q = 1 .. k /\ DOMAIN p = 1 .. k + 1 /\ p[k + 1] = t /\ k \in Nat
        /\ \A j \in DOMAIN q : p[j] = q[j]
    BY <2>4, <2>5, <2>6, <2>7, AppendProperties, LenProperties
  <2>9. PICK y : y = [s EXCEPT !.tools = p]
    OBVIOUS
  <2>10. PICK v : v = [y EXCEPT !.next = n + 1]
    OBVIOUS
  <2>11. /\ y \in Decoders /\ y.started = s.started /\ y.block = s.block /\ y.at = s.at /\ y.out = s.out
         /\ y.tools = p
         /\ y.next = n
    BY <2>1, <2>2, <2>8, <2>9 DEF Decoders
  <2>12. /\ v \in Decoders /\ v.started = s.started /\ v.block = s.block /\ v.at = s.at /\ v.out = s.out
         /\ v.tools = p
         /\ v.next = n + 1
    BY <2>4, <2>10, <2>11 DEF Decoders
  <2>13. KnownTool(s, up) = v
    <3>1. KnownTool(s, up) = [s EXCEPT !.tools = p, !.next = n + 1]
      BY <1>2, <2>2, <2>3, <2>6 DEF KnownTool
    <3> QED
      BY <2>1, <2>9, <2>10, <3>1 DEF Decoders
  <2>14. PICK a : a = b \o s.out
    OBVIOUS
  <2>15. Knows(s, a, 0)
    BY <2>1, <2>14
  <2>16. ~Shuts(a, n) /\ \A l : ~Opens(a, n, l)
    BY <2>2, <2>4, <2>15 DEF Knows, Fresh
  <2>17. \A j \in DOMAIN q : KnowsTool(s, q[j], a, j <= 0) /\ q[j].index \in Nat /\ q[j].index < n
    <3>1. SUFFICES ASSUME NEW j \in DOMAIN q
                   PROVE  KnowsTool(s, q[j], a, j <= 0) /\ q[j].index \in Nat /\ q[j].index < n
      OBVIOUS
    <3>2. KnowsTool(s, q[j], a, j <= 0)
      BY <2>2, <2>15 DEF Knows, KnowsTools
    <3>3. q[j] \in ToolCalls
      BY <2>4, <2>8, ElementOfSeq
    <3> QED
      BY <2>2, <3>2, <3>3 DEF KnowsTool, ToolCalls
  <2>18. Fresh(v, a)
    <3>1. ASSUME NEW i \in Int, i < n PROVE i < n + 1
      BY <2>4, <3>1
    <3> QED
      BY <2>2, <2>12, <2>15, <3>1 DEF Knows, Fresh
  <2>19. KnowsBlock(v, a) /\ (v.block # "none" => v.at # n)
    BY <2>2, <2>4, <2>12, <2>15 DEF Knows, KnowsBlock
  <2>20. KnowsTools(v, a, 0)
    <3>1. SUFFICES ASSUME NEW j \in DOMAIN p PROVE KnowsTool(v, p[j], a, j <= 0)
      BY <2>12 DEF KnowsTools
    <3>2. CASE j \in DOMAIN q
      <4>1. p[j] = q[j] /\ KnowsTool(s, q[j], a, j <= 0) /\ q[j].index < n + 1
        BY <2>4, <2>8, <2>17, <3>2
      <4> QED
        BY <2>12, <4>1 DEF KnowsTool
    <3>3. CASE j = k + 1
      BY <2>4, <2>5, <2>8, <2>12, <2>16, <2>19, <3>3 DEF KnowsTool
    <3> QED
      BY <2>8, <3>2, <3>3
  <2>21. OneCallEach(v)
    <3>1. SUFFICES ASSUME NEW j \in DOMAIN p, NEW l \in DOMAIN p, p[j].index = p[l].index PROVE j = l
      BY <2>12 DEF OneCallEach
    <3>2. CASE j \in DOMAIN q /\ l \in DOMAIN q
      BY <2>2, <2>8, <2>15, <3>1, <3>2 DEF Knows, OneCallEach
    <3>3. CASE j \notin DOMAIN q \/ l \notin DOMAIN q
      <4>1. \A x \in DOMAIN p : x \in DOMAIN q \/ x = k + 1
        BY <2>8
      <4> QED
        BY <2>5, <2>8, <2>17, <3>1, <3>3, <4>1
    <3> QED
      BY <3>2, <3>3
  <2>22. KnowsAll(v, a, 0)
    <3>1. \A j \in DOMAIN q : j \in DOMAIN p /\ p[j] = q[j]
      BY <2>8
    <3> QED
      BY <2>2, <2>12, <2>15, <3>1 DEF Knows, KnowsAll
  <2>23. ToolSlot(v, up) \in DOMAIN p
    <3>1. k + 1 \in DOMAIN v.tools /\ v.tools[k + 1].up = up
      BY <2>5, <2>8, <2>12
    <3> QED
      BY <2>12, <3>1 DEF ToolSlot
  <2>24. Knows(v, a, 0)
    BY <2>15, <2>18, <2>19, <2>20, <2>21, <2>22 DEF Knows
  <2> QED
    BY <2>1, <2>12, <2>13, <2>14, <2>23, <2>24 DEF Decodes
<1> QED
  BY <1>1, <1>2

(* A tool call whose first fragments have come is announced.               *)
LEMMA OpenToolStep ==
  ASSUME NEW s, NEW b, Decodes(s, b, 0), s.block = "none",
         NEW j \in DOMAIN s.tools, ~s.tools[j].started
  PROVE  LET u == [s EXCEPT !.tools[j].started = TRUE]
             v == Emit(u, OpenEvent("tool", s.tools[j].index))
         IN /\ Decodes(v, b, 0) /\ v.started = s.started /\ v.stop = s.stop /\ v.block = "none"
            /\ DOMAIN v.tools = DOMAIN s.tools
            /\ v.tools[j].started /\ v.tools[j].index = s.tools[j].index
            /\ \A l \in DOMAIN s.tools : l # j => v.tools[l] = s.tools[l]
<1>1. s \in Decoders /\ b \in Seq(Events) /\ EventsOK(b \o s.out) /\ Knows(s, b \o s.out, 0)
  BY DEF Decodes
<1>2. PICK t : t = s.tools[j]
  OBVIOUS
<1>3. t \in ToolCalls
  BY <1>1, <1>2, ElementOfSeq, LenProperties DEF Decoders
<1>4. PICK n : n = t.index
  OBVIOUS
<1>5. PICK r : r = [t EXCEPT !.started = TRUE]
  OBVIOUS
<1>6. r \in ToolCalls /\ r.index = n /\ r.started /\ n \in Nat
  BY <1>3, <1>4, <1>5 DEF ToolCalls
<1>7. PICK u : u = [s EXCEPT !.tools[j] = r]
  OBVIOUS
<1>8. u = [s EXCEPT !.tools[j].started = TRUE]
  BY <1>2, <1>5, <1>7
<1>9. /\ u \in Decoders /\ u.started = s.started /\ u.block = s.block /\ u.at = s.at /\ u.next = s.next
      /\ u.stop = s.stop /\ u.out = s.out /\ DOMAIN u.tools = DOMAIN s.tools /\ u.tools[j] = r
      /\ \A l \in DOMAIN s.tools : l # j => u.tools[l] = s.tools[l]
  BY <1>1, <1>6, <1>7, ToolReplaced
<1>10. PICK e : e = OpenEvent("tool", n)
  OBVIOUS
<1>11. e \in Events /\ e.t = "open" /\ e.i = n /\ e.k = "tool"
  <2>1. "tool" \in Kinds /\ n \in Int
    BY <1>6 DEF Kinds
  <2>2. e \in Events
    BY <1>10, <2>1, EventIsEvent
  <2> QED
    BY <1>10, <2>2 DEF OpenEvent, Event
<1>12. PICK v : v = Emit(u, e)
  OBVIOUS
<1>13. PICK a, c : a = b \o u.out /\ c = b \o v.out
  OBVIOUS
<1>14. EventsOK(a) /\ Knows(s, a, 0)
  BY <1>1, <1>9, <1>13
<1>15. KnowsTool(s, t, a, j <= 0) /\ ~t.started
  BY <1>2, <1>14 DEF Knows, KnowsTools
<1>16. ~Shuts(a, n) /\ \A k : ~Opens(a, n, k)
  BY <1>4, <1>15 DEF KnowsTool
<1>17. Fits(a, e)
  BY <1>11, <1>14, <1>16 DEF Fits, Knows, Content
<1>18. Adds(u, a, e, v, c)
  BY ONLY <1>1, <1>9, <1>11, <1>12, <1>13, <1>14, <1>17, Emitting
<1>19. /\ \A i, l : Opens(c, i, l) <=> Opens(a, i, l) \/ (n = i /\ "tool" = l)
       /\ \A i : Shuts(c, i) <=> Shuts(a, i)
       /\ ~Over(c)
  BY <1>11, <1>14, <1>18 DEF Knows, Adds
<1>20. /\ v.block = "none" /\ v.next = s.next /\ DOMAIN v.tools = DOMAIN s.tools /\ v.tools[j] = r
       /\ \A l \in DOMAIN s.tools : l # j => v.tools[l] = s.tools[l]
  BY <1>9, <1>18 DEF Adds
<1>21. \A l \in DOMAIN s.tools : l # j => s.tools[l].index # n
  BY <1>2, <1>4, <1>14 DEF Knows, OneCallEach
<1>22. Fresh(v, c) /\ KnowsBlock(v, c)
  BY <1>4, <1>14, <1>15, <1>19, <1>20 DEF Knows, Fresh, KnowsBlock, KnowsTool
<1>23. KnowsTools(v, c, 0)
  <2>1. SUFFICES ASSUME NEW l \in DOMAIN s.tools PROVE KnowsTool(v, v.tools[l], c, l <= 0)
    BY <1>20 DEF KnowsTools
  <2>2. KnowsTool(s, s.tools[l], a, l <= 0)
    BY <1>14 DEF Knows, KnowsTools
  <2>3. l \in 1 .. Len(s.tools)
    BY <1>1, LenProperties DEF Decoders
  <2>4. CASE l = j
    <3>1. ~(j <= 0)
      BY <2>3, <2>4
    <3> QED
      BY <1>4, <1>6, <1>15, <1>16, <1>19, <1>20, <2>4, <3>1 DEF KnowsTool
  <2>5. CASE l # j
    BY <1>19, <1>20, <1>21, <2>2, <2>5 DEF KnowsTool
  <2> QED
    BY <2>4, <2>5
<1>24. OneCallEach(v)
  <2>1. \A l \in DOMAIN s.tools : v.tools[l].index = s.tools[l].index
    BY <1>2, <1>4, <1>6, <1>20
  <2> QED
    BY <1>14, <1>20, <2>1 DEF Knows, OneCallEach
<1>25. KnowsAll(v, c, 0)
  <2>1. SUFFICES ASSUME NEW i \in Int, \E k : Opens(c, i, k)
                 PROVE  Shuts(c, i) \/ \E l \in DOMAIN s.tools : v.tools[l].started /\ l > 0 /\ v.tools[l].index = i
    BY <1>20 DEF KnowsAll
  <2>2. CASE i = n
    <3>1. j > 0
      BY <1>1, LenProperties DEF Decoders
    <3> QED
      BY <1>6, <1>20, <2>2, <3>1
  <2>3. CASE i # n
    <3>1. \E k : Opens(a, i, k)
      BY <1>19, <2>1, <2>3
    <3>2. Shuts(a, i) \/ \E l \in DOMAIN s.tools : s.tools[l].started /\ l > 0 /\ s.tools[l].index = i
      BY <1>14, <3>1 DEF Knows, KnowsAll
    <3> QED
      BY <1>2, <1>15, <1>19, <1>20, <3>2
  <2> QED
    BY <2>2, <2>3
<1>26. Knows(v, c, 0)
  BY <1>19, <1>22, <1>23, <1>24, <1>25 DEF Knows
<1>27. Decodes(v, b, 0) /\ v.started = s.started /\ v.stop = s.stop
  BY <1>1, <1>9, <1>13, <1>18, <1>26 DEF Decodes, Adds
<1> QED
  BY <1>2, <1>4, <1>6, <1>8, <1>10, <1>12, <1>20, <1>27

(* A piece of the arguments of a tool call that has been announced.        *)
LEMMA ArgumentsStep ==
  ASSUME NEW s, NEW b, Decodes(s, b, 0), NEW j \in DOMAIN s.tools, s.tools[j].started, NEW d \in Seq(Nat)
  PROVE  LET v == Emit(s, DeltaEvent("tool", s.tools[j].index, d)) IN
         Decodes(v, b, 0) /\ v.tools = s.tools /\ v.started = s.started /\ v.stop = s.stop /\ v.block = s.block
<1>1. s \in Decoders /\ Knows(s, b \o s.out, 0)
  BY DEF Decodes
<1>2. PICK t : t = s.tools[j]
  OBVIOUS
<1>3. t \in ToolCalls /\ j \in Nat /\ j > 0
  BY <1>1, <1>2, ElementOfSeq, LenProperties DEF Decoders
<1>4. PICK e : e = DeltaEvent("tool", t.index, d)
  OBVIOUS
<1>5. e \in Events /\ e.t = "delta" /\ e.i = t.index /\ e.k = "tool"
  <2>1. "tool" \in Kinds /\ t.index \in Int
    BY <1>3 DEF Kinds, ToolCalls
  <2>2. e \in Events
    BY <1>4, <2>1, EventIsEvent
  <2> QED
    BY <1>4, <2>2 DEF DeltaEvent, Event
<1>6. KnowsTool(s, t, b \o s.out, j <= 0) /\ ~(j <= 0)
  BY <1>1, <1>2, <1>3 DEF Knows, KnowsTools
<1>7. Fits(b \o s.out, e)
  BY <1>1, <1>2, <1>5, <1>6 DEF Fits, Knows, KnowsTool
<1> QED
  BY <1>2, <1>4, <1>5, <1>7, QuietStep

LEMMA StartToolCallStep ==
  ASSUME NEW s, NEW b, Decodes(s, b, 0), NEW j \in DOMAIN s.tools, ~s.tools[j].started
  PROVE  LET v == StartToolCall(s, j) IN
         /\ Decodes(v, b, 0) /\ v.started = s.started /\ v.stop = s.stop /\ v.block = "none"
         /\ DOMAIN v.tools = DOMAIN s.tools
         /\ v.tools[j].started
         /\ \A l \in DOMAIN s.tools : l # j => v.tools[l] = s.tools[l]
<1>1. PICK w : w = CloseBlock(s)
  OBVIOUS
<1>2. /\ Decodes(w, b, 0) /\ w.block = "none" /\ w.tools = s.tools /\ w.started = s.started /\ w.next = s.next
      /\ w.stop = s.stop
  BY <1>1, CloseStep
<1>3. PICK t : t = s.tools[j]
  OBVIOUS
<1>4. PICK o : o = Emit([w EXCEPT !.tools[j].started = TRUE], OpenEvent("tool", t.index))
  OBVIOUS
<1>5. /\ Decodes(o, b, 0) /\ o.started = s.started /\ o.stop = s.stop /\ o.block = "none"
      /\ DOMAIN o.tools = DOMAIN s.tools /\ o.tools[j].started /\ o.tools[j].index = t.index
      /\ \A l \in DOMAIN s.tools : l # j => o.tools[l] = s.tools[l]
  BY <1>2, <1>3, <1>4, OpenToolStep
<1>6. t \in ToolCalls
  BY <1>3, ElementOfSeq, LenProperties DEF Decodes, Decoders
<1>7. CASE t.args = <<>>
  <2>1. StartToolCall(s, j) = o
    BY <1>1, <1>3, <1>4, <1>7 DEF StartToolCall
  <2> QED
    BY <1>5, <2>1
<1>8. CASE t.args # <<>>
  <2>1. PICK v : v = Emit(o, DeltaEvent("tool", t.index, t.args))
    OBVIOUS
  <2>2. StartToolCall(s, j) = v
    BY <1>1, <1>3, <1>4, <1>8, <2>1 DEF StartToolCall
  <2>3. Decodes(v, b, 0) /\ v.tools = o.tools /\ v.started = o.started /\ v.stop = o.stop /\ v.block = o.block
    <3>1. t.args \in Seq(Nat) /\ j \in DOMAIN o.tools
      BY <1>5, <1>6 DEF ToolCalls
    <3> QED
      BY <1>5, <2>1, <3>1, ArgumentsStep
  <2> QED
    BY <1>5, <2>2, <2>3
<1> QED
  BY <1>7, <1>8

(* A fragment of a tool call.                                              *)
LEMMA ToolCallStep ==
  ASSUME NEW s, NEW b, Decodes(s, b, 0), NEW p, NEW f \in ToolFrames, NEW n \in Nat
  PROVE  Decodes(ConsumeToolCall(p, s, f, n), b, 0)
<1>1. PICK w : w = KnownTool(s, f.up)
  OBVIOUS
<1>2. PICK j : j = ToolSlot(w, f.up)
  OBVIOUS
<1>3. Decodes(w, b, 0) /\ j \in DOMAIN w.tools /\ f.id \in BOOLEAN /\ f.name \in BOOLEAN /\ f.args \in BOOLEAN
  BY <1>1, <1>2, KnownToolStep DEF ToolFrames
<1>4. w \in Decoders /\ b \in Seq(Events) /\ EventsOK(b \o w.out) /\ Knows(w, b \o w.out, 0)
  BY <1>3 DEF Decodes
<1>5. PICK piece : piece = (IF f.args THEN <<n>> ELSE <<>>)
  OBVIOUS
<1>6. PICK t : t = w.tools[j]
  OBVIOUS
<1>7. t \in ToolCalls /\ piece \in Seq(Nat)
  BY <1>3, <1>4, <1>5, <1>6, ElementOfSeq, LenProperties DEF Decoders
<1>8. PICK g : g = t.args \o piece
  OBVIOUS
<1>9. g \in Seq(Nat)
  BY <1>7, <1>8, ConcatProperties DEF ToolCalls
<1>10. PICK r : r = [t EXCEPT !.id = @ \/ f.id, !.name = @ \/ f.name, !.args = @ \o piece]
  OBVIOUS
<1>11. (t.id \/ f.id) \in BOOLEAN /\ (t.name \/ f.name) \in BOOLEAN
  OBVIOUS
<1>12. PICK x, y : x = (t.id \/ f.id) /\ y = (t.name \/ f.name)
  OBVIOUS
<1>13. r \in ToolCalls /\ r.index = t.index /\ r.started = t.started
  <2>1. x \in BOOLEAN /\ y \in BOOLEAN
    BY <1>11, <1>12
  <2>2. r = [t EXCEPT !.id = x, !.name = y, !.args = g]
    BY <1>8, <1>10, <1>12, Zenon
  <2> QED
    BY <1>7, <1>9, <2>1, <2>2 DEF ToolCalls
<1>14. PICK u : u = [w EXCEPT !.tools[j] = r]
  OBVIOUS
<1>15. u = [w EXCEPT !.tools[j] = [t EXCEPT !.id = @ \/ f.id, !.name = @ \/ f.name, !.args = @ \o piece]]
  BY <1>10, <1>14, Zenon
<1>16. /\ u \in Decoders /\ u.started = w.started /\ u.block = w.block /\ u.at = w.at /\ u.next = w.next
       /\ u.stop = w.stop /\ u.out = w.out /\ DOMAIN u.tools = DOMAIN w.tools /\ u.tools[j] = r
       /\ \A l \in DOMAIN w.tools : l # j => u.tools[l] = w.tools[l]
  BY <1>3, <1>4, <1>13, <1>14, ToolReplaced
<1>17. Decodes(u, b, 0)
  <2>1. \A l \in DOMAIN w.tools : u.tools[l].index = w.tools[l].index /\ u.tools[l].started = w.tools[l].started
    BY <1>6, <1>13, <1>16
  <2>2. Knows(u, b \o w.out, 0)
    BY <1>4, <1>16, <2>1, KnowsAlike
  <2> QED
    BY <1>4, <1>16, <2>2 DEF Decodes
<1>18. ConsumeToolCall(p, s, f, n) =
         IF u.tools[j].started
         THEN IF f.args THEN Emit(u, DeltaEvent("tool", u.tools[j].index, piece)) ELSE u
         ELSE IF Announceable(p, u.tools[j]) THEN StartToolCall(u, j) ELSE u
  BY <1>1, <1>2, <1>5, <1>6, <1>15 DEF ConsumeToolCall
<1>19. CASE u.tools[j].started
  BY <1>3, <1>7, <1>16, <1>17, <1>18, <1>19, ArgumentsStep
<1>20. CASE ~u.tools[j].started
  BY <1>3, <1>16, <1>17, <1>18, <1>20, StartToolCallStep
<1> QED
  BY <1>19, <1>20

(* The next tool call is closed.                                           *)
LEMMA EndToolCallStep ==
  ASSUME NEW s, NEW b, NEW m \in Nat, Decodes(s, b, m), m + 1 \in DOMAIN s.tools, s.tools[m + 1].started
  PROVE  LET v == EndToolCall(s, m + 1) IN Decodes(v, b, m + 1) /\ v.tools = s.tools /\ v.block = s.block
<1>1. s \in Decoders /\ b \in Seq(Events) /\ EventsOK(b \o s.out) /\ Knows(s, b \o s.out, m)
  BY DEF Decodes
<1>2. PICK t, n, h : t = s.tools[m + 1] /\ n = t.index /\ h = m + 1
  OBVIOUS
<1>3. t \in ToolCalls /\ n \in Nat /\ t.args \in Seq(Nat)
  <2>1. t \in ToolCalls
    BY <1>1, <1>2, ElementOfSeq, LenProperties DEF Decoders
  <2> QED
    BY <1>2, <2>1 DEF ToolCalls
<1>4. PICK e : e = CloseEvent("tool", n, t.args)
  OBVIOUS
<1>5. e \in Events /\ e.t = "close" /\ e.i = n /\ e.k = "tool"
  <2>1. "tool" \in Kinds /\ n \in Int
    BY <1>3 DEF Kinds
  <2>2. e \in Events
    BY <1>3, <1>4, <2>1, EventIsEvent
  <2> QED
    BY <1>4, <2>2 DEF CloseEvent, Event
<1>6. PICK v : v = Emit(s, e)
  OBVIOUS
<1>7. EndToolCall(s, m + 1) = v
  BY <1>2, <1>4, <1>6 DEF EndToolCall
<1>8. PICK a, c : a = b \o s.out /\ c = b \o v.out
  OBVIOUS
<1>9. EventsOK(a) /\ Knows(s, a, m)
  BY <1>1, <1>8
<1>10. KnowsTool(s, t, a, h <= m) /\ t.started /\ ~(h <= m) /\ h \in DOMAIN s.tools /\ t = s.tools[h]
  BY <1>2, <1>9 DEF Knows, KnowsTools
<1>11. Opens(a, n, "tool") /\ ~Shuts(a, n) /\ n < s.next /\ (s.block # "none" => n # s.at)
  BY <1>2, <1>10 DEF KnowsTool
<1>12. Fits(a, e)
  BY <1>5, <1>9, <1>11 DEF Fits, Knows
<1>13. Adds(s, a, e, v, c)
  BY ONLY <1>1, <1>5, <1>6, <1>8, <1>9, <1>12, Emitting
<1>14. /\ \A i, l : Opens(c, i, l) <=> Opens(a, i, l)
       /\ \A i : Shuts(c, i) <=> Shuts(a, i) \/ n = i
       /\ ~Over(c)
  BY <1>5, <1>9, <1>13 DEF Knows, Adds
<1>15. v.block = s.block /\ v.next = s.next /\ v.tools = s.tools /\ v.at = s.at
  BY <1>13 DEF Adds
<1>16. Fresh(v, c)
  BY <1>9, <1>11, <1>14, <1>15 DEF Knows, Fresh
<1>17. KnowsBlock(v, c)
  BY <1>9, <1>11, <1>14, <1>15 DEF Knows, KnowsBlock
<1>18. \A l \in DOMAIN s.tools : l # h => s.tools[l].index # n
  BY <1>2, <1>9, <1>10 DEF Knows, OneCallEach
<1>19. \A l \in DOMAIN s.tools : (l <= h <=> l <= m \/ l = h) /\ (l > m <=> l > h \/ l = h)
  BY <1>1, <1>2, LenProperties DEF Decoders
<1>20. KnowsTools(v, c, h)
  <2>1. SUFFICES ASSUME NEW l \in DOMAIN s.tools PROVE KnowsTool(v, s.tools[l], c, l <= h)
    BY <1>15 DEF KnowsTools
  <2>2. KnowsTool(s, s.tools[l], a, l <= m)
    BY <1>9 DEF Knows, KnowsTools
  <2>3. CASE l = h
    BY <1>2, <1>10, <1>11, <1>14, <1>15, <1>19, <2>3 DEF KnowsTool
  <2>4. CASE l # h
    BY <1>14, <1>15, <1>18, <1>19, <2>2, <2>4 DEF KnowsTool
  <2> QED
    BY <2>3, <2>4
<1>21. OneCallEach(v)
  BY <1>9, <1>15 DEF Knows, OneCallEach
<1>22. KnowsAll(v, c, h)
  <2>1. SUFFICES ASSUME NEW i \in Int, \E k : Opens(c, i, k)
                 PROVE  \/ Shuts(c, i) \/ (s.block # "none" /\ s.at = i)
                        \/ \E l \in DOMAIN s.tools : s.tools[l].started /\ l > h /\ s.tools[l].index = i
    BY <1>15 DEF KnowsAll
  <2>2. \/ Shuts(a, i) \/ (s.block # "none" /\ s.at = i)
        \/ \E l \in DOMAIN s.tools : s.tools[l].started /\ l > m /\ s.tools[l].index = i
    BY <1>9, <1>14, <2>1 DEF Knows, KnowsAll
  <2> QED
    BY <1>2, <1>10, <1>14, <1>19, <2>2
<1>23. Knows(v, c, h)
  BY <1>14, <1>16, <1>17, <1>20, <1>21, <1>22 DEF Knows
<1> QED
  BY <1>1, <1>2, <1>7, <1>8, <1>13, <1>15, <1>23 DEF Decodes, Adds

(* The tool calls are closed, or announced, one after the other: the folds *)
(* and the functions they are values of.                                   *)
EndCalls(s, n) == FoldLeft(EndToolCall, s, [j \in 1 .. n |-> j])
EndsFrom(s, q, g) ==
  g = [x \in SUBSET DOMAIN q |-> IF x = {} THEN s ELSE EndToolCall(g[x \ {Max(x)}], q[Max(x)])]
Announced(s, j) == IF s.tools[j].started THEN s ELSE StartToolCall(s, j)
AnnounceAll(s) ==
  FoldLeft(LAMBDA a, j : IF a.tools[j].started THEN a ELSE StartToolCall(a, j), s, [j \in DOMAIN s.tools |-> j])
AnnouncesFrom(s, q, g) ==
  g = [x \in SUBSET DOMAIN q |-> IF x = {} THEN s ELSE Announced(g[x \ {Max(x)}], q[Max(x)])]

LEMMA EndsExist ==
  ASSUME NEW s \in Decoders, NEW n \in Nat, 1 .. n \subseteq DOMAIN s.tools, NEW q, q = [j \in 1 .. n |-> j]
  PROVE  \E g : EndsFrom(s, q, g)
<1> DEFINE T == {x \in Decoders : x.tools = s.tools}
           F == [p \in T \X (1 .. n) |-> EndToolCall(p[1], p[2])]
<1>1. ASSUME NEW x \in T, NEW i \in 1 .. n PROVE F[<<x, i>>] = EndToolCall(x, i) /\ F[<<x, i>>] \in T
  <2>1. F[<<x, i>>] = EndToolCall(x, i)
    OBVIOUS
  <2>2. PICK t : t = s.tools[i]
    OBVIOUS
  <2>3. t \in ToolCalls
    <3>1. i \in DOMAIN s.tools
      OBVIOUS
    <3> QED
      BY <2>2, <3>1, ElementOfSeq, LenProperties DEF Decoders
  <2>4. PICK e : e = CloseEvent("tool", t.index, t.args)
    OBVIOUS
  <2>5. e \in Events
    BY <2>3, <2>4, EventIsEvent DEF Kinds, ToolCalls
  <2>6. PICK o : o = Append(x.out, e)
    OBVIOUS
  <2>7. o \in Seq(Events) /\ x \in Decoders /\ x.tools = s.tools
    BY <2>5, <2>6, AppendProperties DEF Decoders
  <2>8. EndToolCall(x, i) = [x EXCEPT !.out = o]
    BY <2>2, <2>4, <2>6, <2>7 DEF EndToolCall, Emit
  <2>9. EndToolCall(x, i) \in Decoders /\ EndToolCall(x, i).tools = s.tools
    BY <2>7, <2>8 DEF Decoders
  <2> QED
    BY <2>1, <2>9
<1>2. s \in T /\ DOMAIN q = 1 .. n
  OBVIOUS
<1> HIDE DEF F, T
<1>3. PICK g : FoldFun(g, T, s, F, n)
  BY <1>1, <1>2, FoldExists
<1> DEFINE H(x) == IF x = {} THEN s ELSE EndToolCall(g[x \ {Max(x)}], q[Max(x)])
<1>4. ASSUME NEW x \in SUBSET DOMAIN q PROVE g[x] = H(x)
  <2>1. CASE x = {}
    BY <1>3, <2>1 DEF FoldFun
  <2>2. CASE x # {}
    <3>1. PICK k, y : k = Max(x) /\ y = x \ {Max(x)}
      OBVIOUS
    <3>2. k \in 1 .. n /\ y \in SUBSET (1 .. n) /\ q[k] = k
      BY <1>2, <2>2, <3>1, MaxInside
    <3>3. g[x] = F[<<g[y], k>>] /\ g[y] \in T
      BY <1>2, <1>3, <2>2, <3>1, <3>2 DEF FoldFun
    <3>4. g[x] = EndToolCall(g[y], k)
      BY <1>1, <3>2, <3>3
    <3> QED
      BY <2>2, <3>1, <3>2, <3>4
  <2> QED
    BY <2>1, <2>2
<1>5. g \in [SUBSET DOMAIN q -> T]
  BY <1>2, <1>3 DEF FoldFun
<1> HIDE DEF H
<1>6. g = [x \in SUBSET DOMAIN q |-> H(x)]
  BY <1>4, <1>5
<1> USE DEF H
<1>7. EndsFrom(s, q, g)
  BY ONLY <1>6, Zenon DEF EndsFrom, H
<1> QED
  BY <1>7

LEMMA EndsFold ==
  ASSUME NEW s \in Decoders, NEW n \in Nat, 1 .. n \subseteq DOMAIN s.tools
  PROVE  \E g : /\ EndCalls(s, n) = g[1 .. n] /\ g[1 .. 0] = s
                /\ \A k \in Nat : k + 1 <= n => g[1 .. k + 1] = EndToolCall(g[1 .. k], k + 1)
<1>q. PICK q : q = [j \in 1 .. n |-> j]
  OBVIOUS
<1>1. \E g : EndsFrom(s, q, g)
  BY <1>q, EndsExist
<1>2. PICK g : g = (CHOOSE h : EndsFrom(s, q, h))
  OBVIOUS
<1>3. EndsFrom(s, q, g)
  BY <1>1, <1>2
<1>4. EndCalls(s, n) = (CHOOSE h : EndsFrom(s, q, h))[DOMAIN q]
  <2>1. EndCalls(s, n) = FoldLeft(EndToolCall, s, q)
    BY <1>q DEF EndCalls
  <2> QED
    BY <2>1 DEF EndsFrom, FoldLeft, MapThenFoldSet
<1>5. EndCalls(s, n) = g[1 .. n]
  <2>1. DOMAIN q = 1 .. n
    BY <1>q
  <2> QED
    BY <1>2, <1>4, <2>1
<1>6. \A x \in SUBSET (1 .. n) : g[x] = IF x = {} THEN s ELSE EndToolCall(g[x \ {Max(x)}], q[Max(x)])
  BY <1>q, <1>3 DEF EndsFrom
<1>7. g[1 .. 0] = s
  <2>1. 1 .. 0 = {} /\ {} \in SUBSET (1 .. n)
    OBVIOUS
  <2> QED
    BY <1>6, <2>1
<1>8. ASSUME NEW k \in Nat, k + 1 <= n PROVE g[1 .. k + 1] = EndToolCall(g[1 .. k], k + 1)
  <2>1. PICK x, y, l : x = 1 .. k + 1 /\ y = 1 .. k /\ l = k + 1
    OBVIOUS
  <2>2. x \in SUBSET (1 .. n) /\ x # {} /\ Max(x) = l /\ x \ {l} = y /\ q[l] = l
    <3>1. l \in 1 .. n /\ l \in x
      BY <1>8, <2>1
    <3>2. x \in SUBSET (1 .. n) /\ x # {} /\ q[l] = l
      <4>1. \A z \in 1 .. k + 1 : z \in 1 .. n
        BY <1>8
      <4>2. q[l] = l
        BY <1>q, <3>1
      <4> QED
        BY <2>1, <3>1, <4>1, <4>2
    <3>3. Max(1 .. k + 1) = k + 1 /\ (1 .. k + 1) \ {k + 1} = 1 .. k
      BY MaxOfPrefix
    <3> QED
      BY <2>1, <3>2, <3>3
  <2> QED
    BY <1>6, <2>1, <2>2
<1> QED
  BY <1>5, <1>7, <1>8

LEMMA AnnouncedStep ==
  ASSUME NEW s, NEW b, Decodes(s, b, 0), NEW j \in DOMAIN s.tools
  PROVE  LET v == Announced(s, j) IN
         /\ Decodes(v, b, 0) /\ DOMAIN v.tools = DOMAIN s.tools /\ v.tools[j].started
         /\ \A l \in DOMAIN s.tools : s.tools[l].started => v.tools[l].started
<1>1. CASE s.tools[j].started
  BY <1>1 DEF Announced
<1>2. CASE ~s.tools[j].started
  <2>1. PICK v : v = StartToolCall(s, j)
    OBVIOUS
  <2>2. /\ Decodes(v, b, 0) /\ DOMAIN v.tools = DOMAIN s.tools /\ v.tools[j].started
        /\ \A l \in DOMAIN s.tools : l # j => v.tools[l] = s.tools[l]
    BY <1>2, <2>1, StartToolCallStep
  <2>3. Announced(s, j) = v
    BY <1>2, <2>1 DEF Announced
  <2> QED
    BY <2>2, <2>3
<1> QED
  BY <1>1, <1>2

LEMMA AnnouncesExist ==
  ASSUME NEW s, NEW b, Decodes(s, b, 0), NEW n \in Nat, DOMAIN s.tools = 1 .. n, NEW q, q = [j \in 1 .. n |-> j]
  PROVE  \E g : AnnouncesFrom(s, q, g)
<1> DEFINE T == {x \in Decoders : Decodes(x, b, 0) /\ DOMAIN x.tools = 1 .. n}
           F == [p \in T \X (1 .. n) |-> Announced(p[1], p[2])]
<1>1. ASSUME NEW x \in T, NEW i \in 1 .. n PROVE F[<<x, i>>] = Announced(x, i) /\ F[<<x, i>>] \in T
  <2>1. F[<<x, i>>] = Announced(x, i)
    OBVIOUS
  <2>2. PICK v : v = Announced(x, i)
    OBVIOUS
  <2>3. Decodes(v, b, 0) /\ DOMAIN v.tools = DOMAIN x.tools
    BY <2>2, AnnouncedStep
  <2>4. v \in T
    BY <2>3 DEF Decodes
  <2> QED
    BY <2>1, <2>2, <2>4
<1>2. s \in T /\ DOMAIN q = 1 .. n
  BY DEF Decodes
<1> HIDE DEF F, T
<1>3. PICK g : FoldFun(g, T, s, F, n)
  BY <1>1, <1>2, FoldExists
<1> DEFINE H(x) == IF x = {} THEN s ELSE Announced(g[x \ {Max(x)}], q[Max(x)])
<1>4. ASSUME NEW x \in SUBSET DOMAIN q PROVE g[x] = H(x)
  <2>1. CASE x = {}
    BY <1>3, <2>1 DEF FoldFun
  <2>2. CASE x # {}
    <3>1. PICK k, y : k = Max(x) /\ y = x \ {Max(x)}
      OBVIOUS
    <3>2. k \in 1 .. n /\ y \in SUBSET (1 .. n) /\ q[k] = k
      BY <1>2, <2>2, <3>1, MaxInside
    <3>3. g[x] = F[<<g[y], k>>] /\ g[y] \in T
      BY <1>2, <1>3, <2>2, <3>1, <3>2 DEF FoldFun
    <3>4. g[x] = Announced(g[y], k)
      BY <1>1, <3>2, <3>3
    <3> QED
      BY <2>2, <3>1, <3>2, <3>4
  <2> QED
    BY <2>1, <2>2
<1>5. g \in [SUBSET DOMAIN q -> T]
  BY <1>2, <1>3 DEF FoldFun
<1> HIDE DEF H
<1>6. g = [x \in SUBSET DOMAIN q |-> H(x)]
  BY <1>4, <1>5
<1> USE DEF H
<1>7. AnnouncesFrom(s, q, g)
  BY ONLY <1>6, Zenon DEF AnnouncesFrom, H
<1> QED
  BY <1>7

LEMMA AnnouncesFold ==
  ASSUME NEW s, NEW b, Decodes(s, b, 0), NEW n \in Nat, DOMAIN s.tools = 1 .. n
  PROVE  \E g : /\ AnnounceAll(s) = g[1 .. n] /\ g[1 .. 0] = s
                /\ \A k \in Nat : k + 1 <= n => g[1 .. k + 1] = Announced(g[1 .. k], k + 1)
<1>q. PICK q : q = [j \in 1 .. n |-> j]
  OBVIOUS
<1>1. \E g : AnnouncesFrom(s, q, g)
  BY <1>q, AnnouncesExist
<1>2. PICK g : g = (CHOOSE h : AnnouncesFrom(s, q, h))
  OBVIOUS
<1>3. AnnouncesFrom(s, q, g)
  BY <1>1, <1>2
<1>4. AnnounceAll(s) = (CHOOSE h : AnnouncesFrom(s, q, h))[DOMAIN q]
  <2>1. q = [j \in DOMAIN s.tools |-> j]
    BY <1>q
  <2>2. AnnounceAll(s) = FoldLeft(LAMBDA a, j : IF a.tools[j].started THEN a ELSE StartToolCall(a, j), s, q)
    BY <2>1 DEF AnnounceAll
  <2> QED
    BY <2>2 DEF Announced, AnnouncesFrom, FoldLeft, MapThenFoldSet
<1>5. AnnounceAll(s) = g[1 .. n]
  <2>1. DOMAIN q = 1 .. n
    BY <1>q
  <2> QED
    BY <1>2, <1>4, <2>1
<1>6. \A x \in SUBSET (1 .. n) : g[x] = IF x = {} THEN s ELSE Announced(g[x \ {Max(x)}], q[Max(x)])
  BY <1>q, <1>3 DEF AnnouncesFrom
<1>7. g[1 .. 0] = s
  <2>1. 1 .. 0 = {} /\ {} \in SUBSET (1 .. n)
    OBVIOUS
  <2> QED
    BY <1>6, <2>1
<1>8. ASSUME NEW k \in Nat, k + 1 <= n PROVE g[1 .. k + 1] = Announced(g[1 .. k], k + 1)
  <2>1. PICK x, y, l : x = 1 .. k + 1 /\ y = 1 .. k /\ l = k + 1
    OBVIOUS
  <2>2. x \in SUBSET (1 .. n) /\ x # {} /\ Max(x) = l /\ x \ {l} = y /\ q[l] = l
    <3>1. l \in 1 .. n /\ l \in x
      BY <1>8, <2>1
    <3>2. x \in SUBSET (1 .. n) /\ x # {} /\ q[l] = l
      <4>1. \A z \in 1 .. k + 1 : z \in 1 .. n
        BY <1>8
      <4>2. q[l] = l
        BY <1>q, <3>1
      <4> QED
        BY <2>1, <3>1, <4>1, <4>2
    <3>3. Max(1 .. k + 1) = k + 1 /\ (1 .. k + 1) \ {k + 1} = 1 .. k
      BY MaxOfPrefix
    <3> QED
      BY <2>1, <3>2, <3>3
  <2> QED
    BY <1>6, <2>1, <2>2
<1> QED
  BY <1>5, <1>7, <1>8

(* All the calls are announced, and then all are closed.                   *)
LEMMA AnnounceAllStep ==
  ASSUME NEW s, NEW b, Decodes(s, b, 0), NEW v, v = AnnounceAll(s)
  PROVE  Decodes(v, b, 0) /\ DOMAIN v.tools = DOMAIN s.tools /\ \A j \in DOMAIN v.tools : v.tools[j].started
<1>1. PICK n : n = Len(s.tools)
  OBVIOUS
<1>2. n \in Nat /\ DOMAIN s.tools = 1 .. n
  BY <1>1, LenProperties DEF Decodes, Decoders
<1>3. PICK g : /\ v = g[1 .. n] /\ g[1 .. 0] = s
               /\ \A k \in Nat : k + 1 <= n => g[1 .. k + 1] = Announced(g[1 .. k], k + 1)
  BY <1>2, AnnouncesFold
<1> DEFINE Good(x, k) == /\ Decodes(x, b, 0) /\ DOMAIN x.tools = 1 .. n
                         /\ \A j \in 1 .. n : j <= k => x.tools[j].started
           S == {k \in Nat : k <= n => Good(g[1 .. k], k)}
<1>4. 0 \in S
  BY <1>2, <1>3
<1>5. ASSUME NEW k \in Nat, k \in S PROVE k + 1 \in S
  <2>1. SUFFICES ASSUME k + 1 <= n PROVE Good(g[1 .. k + 1], k + 1)
    OBVIOUS
  <2>2. PICK x, y, l : x = g[1 .. k] /\ y = g[1 .. k + 1] /\ l = k + 1
    OBVIOUS
  <2>3. Good(x, k) /\ y = Announced(x, l) /\ l \in 1 .. n
    <3>1. k <= n
      BY <1>2, <2>1
    <3> QED
      BY <1>3, <1>5, <2>1, <2>2, <3>1
  <2>4. /\ Decodes(y, b, 0) /\ DOMAIN y.tools = DOMAIN x.tools /\ y.tools[l].started
        /\ \A i \in DOMAIN x.tools : x.tools[i].started => y.tools[i].started
    BY <2>3, AnnouncedStep
  <2>5. \A j \in 1 .. n : j <= l => j <= k \/ j = l
    BY <2>2
  <2> QED
    BY <2>2, <2>3, <2>4, <2>5
<1> HIDE DEF S, Good
<1>6. n \in S
  BY <1>2, <1>4, <1>5, NumberInduction
<1> USE DEF S, Good
<1> QED
  BY <1>2, <1>3, <1>6

LEMMA EndCallsStep ==
  ASSUME NEW s, NEW b, Decodes(s, b, 0), NEW n \in Nat, 1 .. n \subseteq DOMAIN s.tools,
         \A j \in 1 .. n : s.tools[j].started, NEW v, v = EndCalls(s, n)
  PROVE  Decodes(v, b, n) /\ v.tools = s.tools /\ v.block = s.block
<1>1. PICK g : /\ v = g[1 .. n] /\ g[1 .. 0] = s
               /\ \A k \in Nat : k + 1 <= n => g[1 .. k + 1] = EndToolCall(g[1 .. k], k + 1)
  BY EndsFold DEF Decodes
<1> DEFINE Good(x, k) == Decodes(x, b, k) /\ x.tools = s.tools /\ x.block = s.block
           S == {k \in Nat : k <= n => Good(g[1 .. k], k)}
<1>2. 0 \in S
  BY <1>1
<1>3. ASSUME NEW k \in Nat, k \in S PROVE k + 1 \in S
  <2>1. SUFFICES ASSUME k + 1 <= n PROVE Good(g[1 .. k + 1], k + 1)
    OBVIOUS
  <2>2. PICK x, y, l : x = g[1 .. k] /\ y = g[1 .. k + 1] /\ l = k + 1
    OBVIOUS
  <2>3. Good(x, k) /\ y = EndToolCall(x, l) /\ l \in 1 .. n
    <3>1. k <= n
      BY <2>1
    <3> QED
      BY <1>1, <1>3, <2>1, <2>2, <3>1
  <2>4. l \in DOMAIN x.tools /\ x.tools[l].started
    BY <2>3
  <2>5. Decodes(y, b, l) /\ y.tools = x.tools /\ y.block = x.block
    BY <2>2, <2>3, <2>4, EndToolCallStep
  <2> QED
    BY <2>2, <2>3, <2>5
<1> HIDE DEF S, Good
<1>4. n \in S
  BY <1>2, <1>3, NumberInduction
<1> USE DEF S, Good
<1> QED
  BY <1>1, <1>4

LEMMA EndToolCallsStep ==
  ASSUME NEW s, NEW b, Decodes(s, b, 0), \A j \in DOMAIN s.tools : s.tools[j].started, NEW v, v = EndToolCalls(s)
  PROVE  Decodes(v, b, Len(s.tools)) /\ v.tools = s.tools /\ v.block = s.block
<1>1. PICK n : n = Len(s.tools)
  OBVIOUS
<1>2. n \in Nat /\ DOMAIN s.tools = 1 .. n
  BY <1>1, LenProperties DEF Decodes, Decoders
<1>3. v = EndCalls(s, n)
  BY <1>2 DEF EndToolCalls, EndCalls
<1>4. Decodes(v, b, n) /\ v.tools = s.tools /\ v.block = s.block
  BY <1>2, <1>3, EndCallsStep
<1> QED
  BY <1>1, <1>4

(* What a frame, or the end of the frames, makes of a decoder after the    *)
(* events b: its events fit, and no failure is reported of a reply that it *)
(* has ended.                                                              *)
Settles(r, b) ==
  /\ r.s \in Decoders /\ r.over \in BOOLEAN /\ EventsOK(b \o r.s.out)
  /\ ~r.over => Decodes(r.s, b, 0)
  /\ r.fault # "none" => ~Over(b \o r.s.out)

LEMMA GoesOn == ASSUME NEW s, NEW b, Decodes(s, b, 0) PROVE Settles(Goes(s), b)
BY DEF Settles, Goes, Decodes

LEMMA NothingNew == ASSUME NEW b \in Seq(Events) PROVE b \o <<>> = b
BY ConcatEmptySeq

LEMMA FailsThen ==
  ASSUME NEW s, NEW b, Decodes(s, b, 0), s.out = <<>>, NEW code PROVE Settles(Fails(s, code), b)
<1>1. PICK v : v = [s EXCEPT !.out = <<>>]
  OBVIOUS
<1>2. v = s
  BY <1>1 DEF Decodes, Decoders
<1>3. Fails(s, code) = [s |-> s, over |-> TRUE, fault |-> code]
  BY <1>1, <1>2 DEF Fails
<1>4. s \in Decoders /\ EventsOK(b \o s.out) /\ ~Over(b \o s.out)
  BY DEF Decodes, Knows
<1>5. PICK r : r = [s |-> s, over |-> TRUE, fault |-> code]
  OBVIOUS
<1>6. r.s = s /\ r.over = TRUE
  BY <1>5
<1>7. Settles(r, b)
  BY <1>4, <1>6 DEF Settles
<1> QED
  BY <1>3, <1>5, <1>7

(* The last event.                                                         *)
LEMMA DoneStep ==
  ASSUME NEW s, NEW b, Decodes(s, b, Len(s.tools)), s.block = "none", NEW r \in Reasons
  PROVE  Settles(Ends(Emit(s, DoneEvent(r))), b)
<1>1. s \in Decoders /\ b \in Seq(Events) /\ EventsOK(b \o s.out) /\ Knows(s, b \o s.out, Len(s.tools))
  BY DEF Decodes
<1>2. PICK e : e = DoneEvent(r)
  OBVIOUS
<1>3. e \in Events /\ e.t = "done"
  BY <1>2, EventIsEvent DEF DoneEvent, Event
<1>4. PICK v : v = Emit(s, e)
  OBVIOUS
<1>5. PICK a, c : a = b \o s.out /\ c = b \o v.out
  OBVIOUS
<1>6. EventsOK(a) /\ Knows(s, a, Len(s.tools)) /\ a \in Seq(Events)
  BY <1>1, <1>5, ConcatProperties DEF Decoders
<1>7. \A i, k : Opens(a, i, k) => Shuts(a, i)
  <2>1. SUFFICES ASSUME NEW i, NEW k, Opens(a, i, k) PROVE Shuts(a, i)
    OBVIOUS
  <2>2. PICK l \in DOMAIN a : a[l].i = i
    BY <2>1 DEF Opens
  <2>3. a[l] \in Events
    BY <1>6, <2>2, ElementOfSeq, LenProperties
  <2>4. i \in Int
    BY <2>2, <2>3 DEF Events
  <2>5. \A j \in DOMAIN s.tools : ~(j > Len(s.tools))
    BY <1>1, LenProperties DEF Decoders
  <2> QED
    BY <1>6, <2>1, <2>4, <2>5 DEF Knows, KnowsAll
<1>8. Fits(a, e)
  BY <1>3, <1>6, <1>7 DEF Fits, Knows
<1>9. Adds(s, a, e, v, c)
  BY ONLY <1>1, <1>3, <1>4, <1>5, <1>6, <1>8, Emitting
<1>10. v \in Decoders /\ EventsOK(c)
  BY <1>9 DEF Adds
<1>11. Ends(Emit(s, DoneEvent(r))) = [s |-> v, over |-> TRUE, fault |-> "none"]
  BY <1>2, <1>4 DEF Ends
<1> QED
  BY <1>5, <1>10, <1>11 DEF Settles

LEMMA ErrorStep ==
  ASSUME NEW s, NEW b, NEW m, Decodes(s, b, m) PROVE Settles(Ends(Emit(s, ErrorEvent)), b)
<1>1. s \in Decoders /\ b \in Seq(Events) /\ EventsOK(b \o s.out) /\ Knows(s, b \o s.out, m)
  BY DEF Decodes
<1>2. PICK e : e = ErrorEvent
  OBVIOUS
<1>3. e \in Events /\ e.t = "error"
  BY <1>2, EventIsEvent DEF ErrorEvent, Event
<1>4. PICK v : v = Emit(s, e)
  OBVIOUS
<1>5. PICK a, c : a = b \o s.out /\ c = b \o v.out
  OBVIOUS
<1>6. EventsOK(a) /\ Fits(a, e)
  BY <1>1, <1>3, <1>5 DEF Fits, Knows
<1>7. Adds(s, a, e, v, c)
  BY ONLY <1>1, <1>3, <1>4, <1>5, <1>6, Emitting
<1>8. v \in Decoders /\ EventsOK(c)
  BY <1>7 DEF Adds
<1>9. Ends(Emit(s, ErrorEvent)) = [s |-> v, over |-> TRUE, fault |-> "none"]
  BY <1>2, <1>4 DEF Ends
<1> QED
  BY <1>5, <1>8, <1>9 DEF Settles

(* The open block and all the calls are closed, and the reply is done.     *)
LEMMA CloseAndDone ==
  ASSUME NEW s, NEW b, Decodes(s, b, 0), \A j \in DOMAIN s.tools : s.tools[j].started, NEW r \in Reasons
  PROVE  Settles(Ends(Emit(EndToolCalls(CloseBlock(s)), DoneEvent(r))), b)
<1>1. PICK w : w = CloseBlock(s)
  OBVIOUS
<1>2. Decodes(w, b, 0) /\ w.block = "none" /\ w.tools = s.tools
  BY <1>1, CloseStep
<1>3. PICK v : v = EndToolCalls(w)
  OBVIOUS
<1>4. Decodes(v, b, Len(w.tools)) /\ v.tools = w.tools /\ v.block = "none"
  BY <1>2, <1>3, EndToolCallsStep
<1>5. Settles(Ends(Emit(v, DoneEvent(r))), b)
  BY <1>4, DoneStep
<1> QED
  BY <1>1, <1>3, <1>5
-------------------------------------------------------------------------------
(* The decoders of the platforms                                           *)

LEMMA WorkBuddyFinishes == ASSUME NEW s, NEW b, Decodes(s, b, 0) PROVE Settles(WorkBuddyFinish(s), b)
<1>1. PICK v : v = AnnounceAll(s)
  OBVIOUS
<1>2. Decodes(v, b, 0) /\ \A j \in DOMAIN v.tools : v.tools[j].started
  BY <1>1, AnnounceAllStep
<1>3. s.stop \in Reasons
  BY DEF Decodes, Decoders
<1>4. WorkBuddyFinish(s) = Ends(Emit(EndToolCalls(CloseBlock(v)), DoneEvent(s.stop)))
  <2>1. WorkBuddyFinish(s) = Ends(Emit(EndToolCalls(CloseBlock(AnnounceAll(s))), DoneEvent(s.stop)))
    BY DEF WorkBuddyFinish, AnnounceAll
  <2> QED
    BY <1>1, <2>1
<1> QED
  BY <1>2, <1>3, <1>4, CloseAndDone

LEMMA OpenRouterFinishes ==
  ASSUME NEW s, NEW b, Decodes(s, b, 0), s.out = <<>> PROVE Settles(OpenRouterFinish(s), b)
<1>1. PICK bare : bare = {j \in DOMAIN s.tools : ~s.tools[j].started}
  OBVIOUS
<1>2. PICK first : first = CHOOSE j \in bare : \A i \in bare : j <= i
  OBVIOUS
<1>3. PICK w : w = CloseBlock(s)
  OBVIOUS
<1>4. Decodes(w, b, 0) /\ w.block = "none" /\ w.tools = s.tools
  BY <1>3, CloseStep
<1>5. s.stop \in Reasons /\ DOMAIN s.tools = 1 .. Len(s.tools) /\ Len(s.tools) \in Nat
  BY LenProperties DEF Decodes, Decoders
<1>6. OpenRouterFinish(s) =
        IF ~s.started THEN Fails(s, "empty_stream")
        ELSE IF bare = {} THEN Ends(Emit(EndToolCalls(w), DoneEvent(s.stop)))
        ELSE Ends(Emit(EndCalls(w, first - 1), ErrorEvent))
  BY <1>1, <1>2, <1>3 DEF OpenRouterFinish, EndCalls
<1>7. CASE ~s.started
  BY <1>6, <1>7, FailsThen
<1>8. CASE s.started /\ bare = {}
  <2>1. \A j \in DOMAIN s.tools : s.tools[j].started
    BY <1>1, <1>8
  <2>2. Settles(Ends(Emit(EndToolCalls(CloseBlock(s)), DoneEvent(s.stop))), b)
    BY <1>5, <2>1, CloseAndDone
  <2> QED
    BY <1>3, <1>6, <1>8, <2>2
<1>9. CASE s.started /\ bare # {}
  <2>1. bare \subseteq Nat
    BY <1>1, <1>5
  <2>2. \E j \in bare : \A i \in bare : j <= i
    BY <1>9, <2>1, NatMin
  <2>3. first \in bare /\ \A i \in bare : first <= i
    BY <1>2, <2>2
  <2>4. PICK n : n = first - 1
    OBVIOUS
  <2>5. n \in Nat /\ 1 .. n \subseteq DOMAIN w.tools /\ \A j \in 1 .. n : j \notin bare
    BY <1>1, <1>4, <1>5, <2>1, <2>3, <2>4
  <2>6. \A j \in 1 .. n : w.tools[j].started
    BY <1>1, <1>4, <2>5
  <2>7. PICK v : v = EndCalls(w, n)
    OBVIOUS
  <2>8. Decodes(v, b, n)
    BY <1>4, <2>5, <2>6, <2>7, EndCallsStep
  <2>9. Settles(Ends(Emit(v, ErrorEvent)), b)
    BY <2>8, ErrorStep
  <2> QED
    BY <1>6, <1>9, <2>4, <2>7, <2>9
<1> QED
  BY <1>7, <1>8, <1>9

(* The reason TRAE gives for the end of a reply.                           *)
LEMMA TraeReason ==
  ASSUME NEW f \in TraeFrames, f.k = "end", NEW tools
  PROVE  (IF tools = <<>> THEN f.reason ELSE "tool_calls") \in Reasons
<1>r. PICK reason : reason = IF tools = <<>> THEN f.reason ELSE "tool_calls"
  OBVIOUS
<1>1. PICK given : given = {"stop", "length", "error", ""}
  <2>1. {"stop", "length", "error", ""} = {"stop", "length", "error", ""}
    OBVIOUS
  <2> QED
    BY <2>1, Zenon
<1>2. f \in Parts \/ f \in [k : {"end"}, reason : given, valid : BOOLEAN]
  BY <1>1, Zenon DEF TraeFrames
<1>3. f \notin Parts
  BY DEF Parts, TextFrame, ThinkFrame, ToolFrames
<1>4. f.reason \in given
  BY <1>2, <1>3
<1>5. reason = f.reason \/ reason = "tool_calls"
  BY <1>r
<1> QED
  BY <1>r, <1>1, <1>4, <1>5, Zenon DEF Reasons

LEMMA TraeFinishes ==
  ASSUME NEW s, NEW b, Decodes(s, b, 0), s.out = <<>>, NEW f \in TraeFrames, f.k = "end"
  PROVE  Settles(TraeFinish(s, f), b)
<1> DEFINE Failed == ~s.started \/ f.reason \in {"error", ""}
           Broken == \E j \in DOMAIN s.tools : ~s.tools[j].started \/ s.tools[j].args = <<>> \/ ~f.valid
<1>1. PICK reason : reason = IF s.tools = <<>> THEN f.reason ELSE "tool_calls"
  OBVIOUS
<1>2. TraeFinish(s, f) =
        IF Failed THEN Fails(s, "trae_failed")
        ELSE IF Broken THEN Fails(s, "trae_invalid_tool")
        ELSE Ends(Emit(EndToolCalls(CloseBlock(s)), DoneEvent(reason)))
  BY <1>1, Zenon DEF TraeFinish
<1>3. reason \in Reasons
  BY <1>1, TraeReason
<1>4. CASE ~Failed /\ ~Broken
  <2>1. \A j \in DOMAIN s.tools : s.tools[j].started
    BY <1>4, Zenon
  <2>2. TraeFinish(s, f) = Ends(Emit(EndToolCalls(CloseBlock(s)), DoneEvent(reason)))
    BY <1>2, <1>4, Zenon
  <2> QED
    BY <1>3, <2>1, <2>2, CloseAndDone
<1>5. CASE Failed \/ Broken
  <2>1. \E code : TraeFinish(s, f) = Fails(s, code)
    BY <1>2, <1>5, Zenon
  <2> QED
    BY <2>1, FailsThen
<1> QED
  BY <1>4, <1>5, Zenon

(* The reason a reply will end for is noted.                               *)
LEMMA StopStep ==
  ASSUME NEW s, NEW b, Decodes(s, b, 0), NEW r \in Reasons, NEW v, v = [s EXCEPT !.stop = r] PROVE Decodes(v, b, 0)
<1>1. s \in Decoders /\ b \in Seq(Events) /\ EventsOK(b \o s.out) /\ Knows(s, b \o s.out, 0)
  BY DEF Decodes
<1>2. /\ v \in Decoders /\ v.block = s.block /\ v.at = s.at /\ v.next = s.next /\ v.tools = s.tools /\ v.out = s.out
  BY <1>1 DEF Decoders
<1>3. Knows(v, b \o s.out, 0)
  <2>1. PICK a : a = b \o s.out
    OBVIOUS
  <2> QED
    BY <1>1, <1>2, <2>1, KnowsAlike
<1> QED
  BY <1>1, <1>2, <1>3 DEF Decodes

LEMMA PartStep ==
  ASSUME NEW s, NEW b, Decodes(s, b, 0), NEW p, NEW n \in Nat,
         NEW f, f.k \in Content, f.k = "tool" => f \in ToolFrames
  PROVE  Decodes(Part(p, s, f, n), b, 0)
<1>1. CASE f.k = "tool"
  <2>1. Decodes(ConsumeToolCall(p, s, f, n), b, 0)
    BY <1>1, ToolCallStep
  <2> QED
    BY <1>1, <2>1 DEF Part
<1>2. CASE f.k # "tool"
  <2>1. f.k \in {"text", "think"}
    BY <1>2 DEF Content
  <2>2. Decodes(Delta(s, f.k, n), b, 0)
    BY <2>1, DeltaStep
  <2> QED
    BY <1>2, <2>2 DEF Part
<1> QED
  BY <1>1, <1>2

LEMMA PartKinds == \A f \in Parts : f.k \in Content \cup {"usage", "fault"} /\ (f.k = "tool" => f \in ToolFrames)
BY DEF Parts, Content, TextFrame, ThinkFrame, ToolFrames

LEMMA WorkBuddyConsumes ==
  ASSUME NEW s, NEW b, Decodes(s, b, 0), NEW f \in WorkBuddyFrames, NEW n \in Nat
  PROVE  Settles(WorkBuddyConsume(s, f, n), b)
<1>1. PICK w : w = Begin(s)
  OBVIOUS
<1>2. Decodes(w, b, 0)
  BY <1>1, BeginStep
<1>3. /\ f.k \in Content \cup {"finish", "usage", "fault", "junk", "end"}
      /\ f.k = "tool" => f \in ToolFrames
      /\ f.k = "finish" => f.reason \in {"tool_calls", "length"}
  BY PartKinds DEF WorkBuddyFrames, FinishFrames, Content
<1>4. WorkBuddyConsume(s, f, n) =
        CASE f.k \in Content -> Goes(Part("workbuddy", w, f, n))
          [] f.k = "finish" -> Goes([w EXCEPT !.stop = f.reason])
          [] f.k \in {"usage", "fault"} -> Goes(w)
          [] f.k = "junk" -> Goes(s)
          [] f.k = "end" -> WorkBuddyFinish(s)
  BY <1>1 DEF WorkBuddyConsume
<1>5. CASE f.k \in Content
  <2>1. Decodes(Part("workbuddy", w, f, n), b, 0)
    BY <1>2, <1>3, <1>5, PartStep
  <2>2. WorkBuddyConsume(s, f, n) = Goes(Part("workbuddy", w, f, n))
    BY <1>4, <1>5 DEF Content
  <2> QED
    BY <2>1, <2>2, GoesOn
<1>6. CASE f.k = "finish"
  <2>1. f.reason \in Reasons
    BY <1>3, <1>6, Zenon DEF Reasons
  <2>2. Decodes([w EXCEPT !.stop = f.reason], b, 0)
    BY <1>2, <2>1, StopStep
  <2>3. WorkBuddyConsume(s, f, n) = Goes([w EXCEPT !.stop = f.reason])
    BY <1>4, <1>6 DEF Content
  <2> QED
    BY <2>2, <2>3, GoesOn
<1>7. CASE f.k \in {"usage", "fault"}
  <2>1. WorkBuddyConsume(s, f, n) = Goes(w)
    BY <1>4, <1>7 DEF Content
  <2> QED
    BY <1>2, <2>1, GoesOn
<1>8. CASE f.k = "junk"
  <2>1. WorkBuddyConsume(s, f, n) = Goes(s)
    BY <1>4, <1>8 DEF Content
  <2> QED
    BY <2>1, GoesOn
<1>9. CASE f.k = "end"
  <2>1. WorkBuddyConsume(s, f, n) = WorkBuddyFinish(s)
    BY <1>4, <1>9 DEF Content
  <2> QED
    BY <2>1, WorkBuddyFinishes
<1> QED
  BY <1>3, <1>5, <1>6, <1>7, <1>8, <1>9

LEMMA OpenRouterConsumes ==
  ASSUME NEW s, NEW b, Decodes(s, b, 0), s.out = <<>>, NEW f \in OpenRouterFrames, NEW n \in Nat
  PROVE  Settles(OpenRouterConsume(s, f, n), b)
<1>1. PICK w : w = Begin(s)
  OBVIOUS
<1>2. Decodes(w, b, 0)
  BY <1>1, BeginStep
<1>3. /\ f.k \in Content \cup {"finish", "usage", "fault", "end"}
      /\ f.k = "tool" => f \in ToolFrames
      /\ f.k = "finish" => f.reason \in {"tool_calls", "length"}
  BY PartKinds DEF OpenRouterFrames, FinishFrames, Content
<1>4. OpenRouterConsume(s, f, n) =
        CASE f.k \in Content -> Goes(Part("openrouter", w, f, n))
          [] f.k = "finish" -> Goes([w EXCEPT !.stop = f.reason])
          [] f.k = "usage" -> Goes(s)
          [] f.k = "fault" -> Fails(s, "upstream_error")
          [] f.k = "end" -> OpenRouterFinish(s)
  BY <1>1 DEF OpenRouterConsume
<1>5. CASE f.k \in Content
  <2>1. Decodes(Part("openrouter", w, f, n), b, 0)
    BY <1>2, <1>3, <1>5, PartStep
  <2>2. OpenRouterConsume(s, f, n) = Goes(Part("openrouter", w, f, n))
    BY <1>4, <1>5 DEF Content
  <2> QED
    BY <2>1, <2>2, GoesOn
<1>6. CASE f.k = "finish"
  <2>1. f.reason \in Reasons
    BY <1>3, <1>6, Zenon DEF Reasons
  <2>2. Decodes([w EXCEPT !.stop = f.reason], b, 0)
    BY <1>2, <2>1, StopStep
  <2>3. OpenRouterConsume(s, f, n) = Goes([w EXCEPT !.stop = f.reason])
    BY <1>4, <1>6 DEF Content
  <2> QED
    BY <2>2, <2>3, GoesOn
<1>7. CASE f.k = "usage"
  <2>1. OpenRouterConsume(s, f, n) = Goes(s)
    BY <1>4, <1>7 DEF Content
  <2> QED
    BY <2>1, GoesOn
<1>8. CASE f.k = "fault"
  <2>1. OpenRouterConsume(s, f, n) = Fails(s, "upstream_error")
    BY <1>4, <1>8 DEF Content
  <2> QED
    BY <2>1, FailsThen
<1>9. CASE f.k = "end"
  <2>1. OpenRouterConsume(s, f, n) = OpenRouterFinish(s)
    BY <1>4, <1>9 DEF Content
  <2> QED
    BY <2>1, OpenRouterFinishes
<1> QED
  BY <1>3, <1>5, <1>6, <1>7, <1>8, <1>9

LEMMA TraeConsumes ==
  ASSUME NEW s, NEW b, Decodes(s, b, 0), s.out = <<>>, NEW f \in TraeFrames, NEW n \in Nat
  PROVE  Settles(TraeConsume(s, f, n), b)
<1>1. PICK w : w = Begin(s)
  OBVIOUS
<1>2. Decodes(w, b, 0)
  BY <1>1, BeginStep
<1>3. f.k \in Content \cup {"usage", "fault", "end"} /\ (f.k = "tool" => f \in ToolFrames)
  <2>1. PICK given : f \in Parts \/ f \in [k : {"end"}, reason : given, valid : BOOLEAN]
    BY Zenon DEF TraeFrames
  <2> QED
    BY <2>1, PartKinds DEF Content
<1>4. TraeConsume(s, f, n) =
        CASE f.k \in Content -> Goes(Part("trae", w, f, n))
          [] f.k = "usage" -> Goes(s)
          [] f.k = "fault" -> Fails(s, "trae_upstream")
          [] f.k = "end" -> TraeFinish(s, f)
  BY <1>1 DEF TraeConsume
<1>5. CASE f.k \in Content
  <2>1. Decodes(Part("trae", w, f, n), b, 0)
    BY <1>2, <1>3, <1>5, PartStep
  <2>2. TraeConsume(s, f, n) = Goes(Part("trae", w, f, n))
    BY <1>4, <1>5 DEF Content
  <2> QED
    BY <2>1, <2>2, GoesOn
<1>6. CASE f.k = "usage"
  <2>1. TraeConsume(s, f, n) = Goes(s)
    BY <1>4, <1>6 DEF Content
  <2> QED
    BY <2>1, GoesOn
<1>7. CASE f.k = "fault"
  <2>1. TraeConsume(s, f, n) = Fails(s, "trae_upstream")
    BY <1>4, <1>7 DEF Content
  <2> QED
    BY <2>1, FailsThen
<1>8. CASE f.k = "end"
  <2>1. TraeConsume(s, f, n) = TraeFinish(s, f)
    BY <1>4, <1>8 DEF Content
  <2> QED
    BY <1>8, <2>1, TraeFinishes
<1> QED
  BY <1>3, <1>5, <1>6, <1>7, <1>8

(* One more event of a stream.                                             *)
Says(a, e, c) ==
  /\ c \in Seq(Events) /\ EventsOK(c)
  /\ \A i, k : Opens(c, i, k) <=> Opens(a, i, k) \/ (e.t = "open" /\ e.i = i /\ e.k = k)
  /\ \A i : Shuts(c, i) <=> Shuts(a, i) \/ (e.t = "close" /\ e.i = i)
  /\ Over(c) <=> Over(a) \/ e.t \in {"done", "error"}
LEMMA SaidNext ==
  ASSUME NEW a \in Seq(Events), EventsOK(a), NEW e \in Events, Fits(a, e), NEW c, c = Append(a, e)
  PROVE  Says(a, e, c)
<1>1. EventsOK(Append(a, e))
  BY EventsAppend
<1>2. /\ Append(a, e) \in Seq(Events)
      /\ \A i, k : Opens(Append(a, e), i, k) <=> Opens(a, i, k) \/ (e.t = "open" /\ e.i = i /\ e.k = k)
      /\ \A i : Shuts(Append(a, e), i) <=> Shuts(a, i) \/ (e.t = "close" /\ e.i = i)
      /\ Over(Append(a, e)) <=> Over(a) \/ e.t \in {"done", "error"}
  BY AppendSays
<1> QED
  BY <1>1, <1>2 DEF Says

(* The next event of a stream, after the k that came first.                *)
LEMMA NextFits ==
  ASSUME NEW s \in Seq(Events), EventsOK(s), NEW k \in Nat, k + 1 <= Len(s), EventsOK(SubSeq(s, 1, k))
  PROVE  LET a == SubSeq(s, 1, k)
             e == s[k + 1]
             c == SubSeq(s, 1, k + 1)
         IN  a \in Seq(Events) /\ e \in Events /\ Fits(a, e) /\ c = Append(a, e) /\ Says(a, e, c)
<1>1. PICK a, e, c : a = SubSeq(s, 1, k) /\ e = s[k + 1] /\ c = SubSeq(s, 1, k + 1)
  OBVIOUS
<1>2. k + 1 \in DOMAIN s /\ e \in Events
  BY <1>1, LenProperties, ElementOfSeq
<1>3. Fits(a, e)
  <2>1. \A n \in DOMAIN s : Fits(SubSeq(s, 1, n - 1), s[n])
    BY DEF EventsOK
  <2>2. (k + 1) - 1 = k
    OBVIOUS
  <2>3. Fits(SubSeq(s, 1, (k + 1) - 1), s[k + 1])
    BY <1>2, <2>1
  <2> QED
    BY <1>1, <2>2, <2>3
<1>4. a \in Seq(Events) /\ c = Append(a, e) /\ EventsOK(a)
  BY <1>1, BeginningGrows
<1>5. Says(a, e, c)
  BY <1>2, <1>3, <1>4, SaidNext
<1> QED
  BY ONLY <1>1, <1>2, <1>3, <1>4, <1>5, Zenon

LEMMA BeginTools == ASSUME NEW s \in Decoders PROVE Begin(s).tools = s.tools
<1>1. CASE s.started
  BY <1>1 DEF Begin
<1>2. CASE ~s.started
  <2>1. PICK u : u = [s EXCEPT !.started = TRUE]
    OBVIOUS
  <2>2. PICK o : o = Append(u.out, StartEvent)
    OBVIOUS
  <2>3. Begin(s) = [u EXCEPT !.out = o]
    BY <1>2, <2>1, <2>2 DEF Begin, Emit
  <2> QED
    BY <2>1, <2>3 DEF Decoders
<1> QED
  BY <1>1, <1>2

(* Cursor ends a reply without a tool call.                                *)
LEMMA CursorFinishes ==
  ASSUME NEW s, NEW b, Decodes(s, b, 0), s.tools = <<>>, NEW r \in Reasons
  PROVE  Settles(CursorFinish(s, r), b) /\ CursorFinish(s, r).over
<1>1. PICK w : w = Begin(s)
  OBVIOUS
<1>2. Decodes(w, b, 0) /\ w.tools = <<>>
  BY <1>1, BeginStep, BeginTools DEF Decodes
<1>3. PICK v : v = CloseBlock(w)
  OBVIOUS
<1>4. Decodes(v, b, 0) /\ v.block = "none" /\ v.tools = <<>>
  BY <1>2, <1>3, CloseStep
<1>5. Len(v.tools) = 0
  BY <1>4
<1>6. Settles(Ends(Emit(v, DoneEvent(r))), b)
  BY <1>4, <1>5, DoneStep
<1>7. CursorFinish(s, r) = Ends(Emit(v, DoneEvent(r)))
  BY <1>1, <1>3 DEF CursorFinish
<1>8. Ends(Emit(v, DoneEvent(r))).over
  BY DEF Ends
<1> QED
  BY <1>6, <1>7, <1>8

(* A whole tool call ends it: the decoder v after that, when c was the     *)
(* decoder before, with no block open.                                     *)
CallEvents(x, n) == <<OpenEvent("tool", x), DeltaEvent("tool", x, <<n>>), CloseEvent("tool", x, <<n>>),
                      DoneEvent("tool_calls")>>
Thereupon(a, e) == Append(Append(Append(Append(a, e[1]), e[2]), e[3]), e[4])
WholeCall(x, n) == [up |-> 1, index |-> x, id |-> TRUE, name |-> TRUE, args |-> <<n>>, started |-> TRUE]
Calls(c, b, n, v) ==
  /\ v \in Decoders /\ v.tools = <<WholeCall(c.next, n)>> /\ v.at = c.at /\ v.next = c.next + 1
  /\ b \o v.out = Thereupon(b \o c.out, CallEvents(c.next, n))
LEMMA RelayToolCalls ==
  ASSUME NEW s, NEW c, c = CloseBlock(Begin(s)), c \in Decoders, c.block = "none", c.started,
         NEW b \in Seq(Events), NEW n \in Nat
  PROVE  \E v : RelayTool(s, n) = Ends(v) /\ Calls(c, b, n, v)
<1>4. c.block = "none" /\ c.started
  OBVIOUS
<1>5. c \in Decoders /\ b \in Seq(Events)
  OBVIOUS
<1>6. PICK x, d, o : x = c.next /\ d = <<n>> /\ o = c.out
  OBVIOUS
<1>7. x \in Nat /\ x + 1 \in Nat /\ d \in Seq(Nat) /\ o \in Seq(Events)
  BY <1>5, <1>6 DEF Decoders
<1>8. PICK e1, e2, e3, e4 : /\ e1 = OpenEvent("tool", x) /\ e2 = DeltaEvent("tool", x, d)
                            /\ e3 = CloseEvent("tool", x, d) /\ e4 = DoneEvent("tool_calls")
  OBVIOUS
<1>9. /\ e1 \in Events /\ e1.t = "open" /\ e1.i = x /\ e1.k = "tool"
      /\ e2 \in Events /\ e2.t = "delta" /\ e2.i = x /\ e2.k = "tool"
      /\ e3 \in Events /\ e3.t = "close" /\ e3.i = x /\ e3.k = "tool"
      /\ e4 \in Events /\ e4.t = "done"
  <2>1. "tool" \in Kinds /\ x \in Int
    BY <1>7 DEF Kinds
  <2>2. "tool_calls" \in Reasons
    BY Zenon DEF Reasons
  <2>3. e1 \in Events /\ e2 \in Events /\ e3 \in Events /\ e4 \in Events
    BY <1>7, <1>8, <2>1, <2>2, EventIsEvent
  <2> QED
    BY <1>8, <2>3 DEF OpenEvent, DeltaEvent, CloseEvent, DoneEvent, Event
<1>10. PICK t : t = [up |-> 1, index |-> x, id |-> TRUE, name |-> TRUE, args |-> d, started |-> TRUE]
  OBVIOUS
<1>11. t \in ToolCalls
  <2>1. 1 \in ToolSlots
    BY PlatformsAssumption
  <2> QED
    BY <1>7, <1>10, <2>1 DEF ToolCalls
<1>12. PICK q, ts : q = <<e1, e2, e3>> /\ ts = <<t>>
  OBVIOUS
<1>13. q \in Seq(Events) /\ ts \in Seq(ToolCalls)
  BY <1>9, <1>11, <1>12
<1>14. PICK p : p = o \o q
  OBVIOUS
<1>15. p \in Seq(Events)
  BY <1>7, <1>13, <1>14, ConcatProperties
<1>16. PICK u : u = [c EXCEPT !.tools = ts, !.next = x + 1, !.out = p]
  OBVIOUS
<1>17. /\ u \in Decoders /\ u.started /\ u.block = "none" /\ u.out = p
       /\ u.tools = ts /\ u.at = c.at /\ u.next = x + 1
  <2>1. PICK y : y = [c EXCEPT !.tools = ts]
    OBVIOUS
  <2>2. y \in Decoders /\ y.started /\ y.block = "none" /\ y.tools = ts /\ y.at = c.at
    BY <1>4, <1>5, <1>13, <2>1 DEF Decoders
  <2>3. PICK z : z = [y EXCEPT !.next = x + 1]
    OBVIOUS
  <2>4. z \in Decoders /\ z.started /\ z.block = "none" /\ z.tools = ts /\ z.at = c.at /\ z.next = x + 1
    BY <1>7, <2>2, <2>3 DEF Decoders
  <2>5. u = [z EXCEPT !.out = p]
    BY <1>5, <1>16, <2>1, <2>3 DEF Decoders
  <2> QED
    BY <1>15, <2>4, <2>5 DEF Decoders
<1>18. RelayTool(s, n) = CursorFinish(u, "tool_calls")
  BY c = CloseBlock(Begin(s)), <1>6, <1>8, <1>10, <1>12, <1>14, <1>16, Zenon DEF RelayTool
<1>19. PICK v : v = Emit(u, e4)
  OBVIOUS
<1>20. CursorFinish(u, "tool_calls") = Ends(v)
  BY <1>8, <1>17, <1>19 DEF CursorFinish, Begin, CloseBlock
<1>21. v \in Decoders /\ v.out = Append(p, e4) /\ v.tools = ts /\ v.at = c.at /\ v.next = x + 1
  <2>1. PICK h : h = Append(p, e4)
    OBVIOUS
  <2>2. h \in Seq(Events) /\ v = [u EXCEPT !.out = h]
    BY <1>9, <1>15, <1>17, <1>19, <2>1, AppendProperties DEF Emit
  <2> QED
    BY <1>17, <2>1, <2>2 DEF Decoders
<1>22. PICK a0 : a0 = b \o o
  OBVIOUS
<1>23. PICK a1, a2, a3, a4 : /\ a1 = Append(a0, e1) /\ a2 = Append(a1, e2)
                             /\ a3 = Append(a2, e3) /\ a4 = Append(a3, e4)
  OBVIOUS
<1>24. b \o v.out = a4
  <2>1. PICK o1, o2 : o1 = Append(o, e1) /\ o2 = Append(o1, e2)
    OBVIOUS
  <2>2. o1 \in Seq(Events) /\ o2 \in Seq(Events)
    BY <1>7, <1>9, <2>1, AppendProperties
  <2>3. p = Append(o2, e3)
    <3>1. PICK q0, q1, q2 : q0 = <<>> /\ q1 = Append(q0, e1) /\ q2 = Append(q1, e2)
      OBVIOUS
    <3>2. q0 \in Seq(Events) /\ q1 \in Seq(Events) /\ q2 \in Seq(Events) /\ o \o q0 = o
      BY <1>7, <1>9, <3>1, NothingNew, AppendProperties
    <3>3. o \o q1 = o1
      BY <1>7, <1>9, <2>1, <3>1, <3>2, ConcatAppend
    <3>4. o \o q2 = o2
      BY <1>7, <1>9, <2>1, <3>1, <3>2, <3>3, ConcatAppend
    <3>5. o \o Append(q2, e3) = Append(o2, e3)
      <4>1. o \o Append(q2, e3) = Append(o \o q2, e3)
        BY <1>7, <1>9, <3>2, ConcatAppend
      <4> QED
        BY ONLY <3>4, <4>1, Zenon
    <3>6. q = Append(q2, e3)
      BY <1>12, <3>1
    <3> QED
      BY <1>14, <3>5, <3>6
  <2>4. b \o p = a3
    <3>1. b \o o1 = a1
      BY <1>5, <1>7, <1>9, <1>22, <1>23, <2>1, ConcatAppend
    <3>2. b \o o2 = a2
      BY <1>5, <1>9, <1>23, <2>1, <2>2, <3>1, ConcatAppend, SMTT(30)
    <3>3. b \o Append(o2, e3) = Append(a2, e3)
      BY <1>5, <1>9, <2>2, <3>2, ConcatAppend
    <3> QED
      BY <1>23, <2>3, <3>3
  <2>5. b \o Append(p, e4) = Append(b \o p, e4)
    BY <1>5, <1>9, <1>15, ConcatAppend
  <2> QED
    BY <1>21, <1>23, <2>4, <2>5
<1>25. Thereupon(a0, CallEvents(x, n)) = a4
  <2>1. PICK z : z = CallEvents(x, n)
    OBVIOUS
  <2>2. z[1] = e1 /\ z[2] = e2 /\ z[3] = e3 /\ z[4] = e4
    BY ONLY <1>6, <1>8, <2>1 DEF CallEvents
  <2> QED
    BY ONLY <1>23, <2>1, <2>2, Zenon DEF Thereupon
<1>26. ts = <<WholeCall(x, n)>>
  BY <1>6, <1>10, <1>12 DEF WholeCall
<1>27. Calls(c, b, n, v)
  BY ONLY <1>6, <1>21, <1>22, <1>24, <1>25, <1>26, Zenon DEF Calls
<1> QED
  BY <1>18, <1>20, <1>27

LEMMA RelayToolEnds ==
  ASSUME NEW s, NEW b, Decodes(s, b, 0), s.tools = <<>>, NEW n \in Nat
  PROVE  Settles(RelayTool(s, n), b) /\ RelayTool(s, n).over
<1>1. PICK w : w = Begin(s)
  OBVIOUS
<1>2. Decodes(w, b, 0) /\ w.tools = <<>> /\ w.started
  BY <1>1, BeginStep, BeginTools DEF Decodes
<1>3. PICK c : c = CloseBlock(w)
  OBVIOUS
<1>4. Decodes(c, b, 0) /\ c.block = "none" /\ c.tools = <<>> /\ c.started
  BY <1>2, <1>3, CloseStep
<1>5. c \in Decoders /\ b \in Seq(Events) /\ EventsOK(b \o c.out) /\ Knows(c, b \o c.out, 0)
  BY <1>4 DEF Decodes
<1>6. PICK x, d : x = c.next /\ d = <<n>>
  OBVIOUS
<1>7. x \in Nat /\ d \in Seq(Nat)
  BY <1>5, <1>6 DEF Decoders
<1>8. PICK e1, e2, e3, e4 : /\ e1 = OpenEvent("tool", x) /\ e2 = DeltaEvent("tool", x, d)
                            /\ e3 = CloseEvent("tool", x, d) /\ e4 = DoneEvent("tool_calls")
  OBVIOUS
<1>9. /\ e1 \in Events /\ e1.t = "open" /\ e1.i = x /\ e1.k = "tool"
      /\ e2 \in Events /\ e2.t = "delta" /\ e2.i = x /\ e2.k = "tool"
      /\ e3 \in Events /\ e3.t = "close" /\ e3.i = x /\ e3.k = "tool"
      /\ e4 \in Events /\ e4.t = "done"
  <2>1. "tool" \in Kinds /\ x \in Int
    BY <1>7 DEF Kinds
  <2>2. "tool_calls" \in Reasons
    BY Zenon DEF Reasons
  <2>3. e1 \in Events /\ e2 \in Events /\ e3 \in Events /\ e4 \in Events
    BY <1>7, <1>8, <2>1, <2>2, EventIsEvent
  <2> QED
    BY <1>8, <2>3 DEF OpenEvent, DeltaEvent, CloseEvent, DoneEvent, Event
<1>10. PICK v : RelayTool(s, n) = Ends(v) /\ Calls(c, b, n, v)
  BY <1>1, <1>3, <1>4, <1>5, RelayToolCalls
<1>22. PICK a0 : a0 = b \o c.out
  OBVIOUS
<1>23. PICK a1, a2, a3, a4 : /\ a1 = Append(a0, e1) /\ a2 = Append(a1, e2)
                             /\ a3 = Append(a2, e3) /\ a4 = Append(a3, e4)
  OBVIOUS
<1>24. v \in Decoders /\ b \o v.out = a4
  <2>1. PICK q : q = CallEvents(x, n)
    OBVIOUS
  <2>2. q[1] = e1 /\ q[2] = e2 /\ q[3] = e3 /\ q[4] = e4
    BY ONLY <1>6, <1>8, <2>1 DEF CallEvents
  <2>3. b \o v.out = Thereupon(a0, q) /\ v \in Decoders
    BY ONLY <1>6, <1>10, <1>22, <2>1, Zenon DEF Calls
  <2> QED
    BY ONLY <1>23, <2>2, <2>3, Zenon DEF Thereupon
<1>25. a0 \in Seq(Events) /\ EventsOK(a0) /\ ~Over(a0) /\ Knows(c, a0, 0)
  BY <1>5, <1>22, ConcatProperties DEF Knows, Decoders
<1>26. ~Shuts(a0, x) /\ \A k : ~Opens(a0, x, k)
  BY <1>6, <1>7, <1>25 DEF Knows, Fresh
<1>27. \A i, k : Opens(a0, i, k) => Shuts(a0, i)
  <2>1. SUFFICES ASSUME NEW i, NEW k, Opens(a0, i, k) PROVE Shuts(a0, i)
    OBVIOUS
  <2>2. PICK l \in DOMAIN a0 : a0[l].i = i
    BY <2>1 DEF Opens
  <2>3. a0[l] \in Events
    BY <1>25, <2>2, ElementOfSeq, LenProperties
  <2>4. i \in Int
    BY <2>2, <2>3 DEF Events
  <2>5. DOMAIN c.tools = {}
    BY <1>4
  <2> QED
    BY <1>4, <1>25, <2>1, <2>4, <2>5 DEF Knows, KnowsAll
<1>28. Fits(a0, e1)
  BY <1>9, <1>25, <1>26 DEF Fits, Content
<1>29. /\ a1 \in Seq(Events) /\ EventsOK(a1) /\ ~Over(a1)
       /\ \A i, k : Opens(a1, i, k) <=> Opens(a0, i, k) \/ (x = i /\ "tool" = k)
       /\ \A i : Shuts(a1, i) <=> Shuts(a0, i)
  <2>1. Says(a0, e1, a1)
    BY ONLY <1>9, <1>23, <1>25, <1>28, SaidNext
  <2> QED
    BY <1>9, <1>25, <2>1 DEF Says
<1>30. Fits(a1, e2)
  BY <1>9, <1>26, <1>29 DEF Fits
<1>31. /\ a2 \in Seq(Events) /\ EventsOK(a2) /\ ~Over(a2)
       /\ \A i, k : Opens(a2, i, k) <=> Opens(a0, i, k) \/ (x = i /\ "tool" = k)
       /\ \A i : Shuts(a2, i) <=> Shuts(a0, i)
  <2>1. Says(a1, e2, a2)
    BY ONLY <1>9, <1>23, <1>29, <1>30, SaidNext
  <2> QED
    BY <1>9, <1>29, <2>1 DEF Says
<1>32. Fits(a2, e3)
  BY <1>9, <1>26, <1>31 DEF Fits
<1>33. /\ a3 \in Seq(Events) /\ EventsOK(a3) /\ ~Over(a3)
       /\ \A i, k : Opens(a3, i, k) <=> Opens(a0, i, k) \/ (x = i /\ "tool" = k)
       /\ \A i : Shuts(a3, i) <=> Shuts(a0, i) \/ x = i
  <2>1. Says(a2, e3, a3)
    BY ONLY <1>9, <1>23, <1>31, <1>32, SaidNext
  <2> QED
    BY <1>9, <1>31, <2>1 DEF Says
<1>34. Fits(a3, e4)
  BY <1>9, <1>27, <1>33 DEF Fits
<1>35. EventsOK(b \o v.out)
  <2>1. Says(a3, e4, a4)
    BY ONLY <1>9, <1>23, <1>33, <1>34, SaidNext
  <2> QED
    BY <1>24, <2>1 DEF Says
<1>36. PICK r : r = Ends(v)
  OBVIOUS
<1>37. r.s = v /\ r.over = TRUE /\ r.fault = "none"
  BY <1>36 DEF Ends
<1>38. Settles(r, b) /\ r.over
  BY <1>24, <1>35, <1>37 DEF Settles
<1> QED
  BY <1>10, <1>36, <1>38

LEMMA CursorConsumes ==
  ASSUME NEW s, NEW b, Decodes(s, b, 0), s.out = <<>>, s.tools = <<>>, NEW f \in CursorFrames, NEW n \in Nat, NEW must
  PROVE  /\ Settles(CursorConsume(must, s, f, n), b)
         /\ (~CursorConsume(must, s, f, n).over => CursorConsume(must, s, f, n).s.tools = <<>>)
<1> DEFINE Good(r) == Settles(r, b) /\ (~r.over => r.s.tools = <<>>)
<1>1. ASSUME NEW v, Decodes(v, b, 0), v.tools = <<>> PROVE Good(Goes(v))
  <2>1. Settles(Goes(v), b)
    BY <1>1, GoesOn
  <2>2. Goes(v).s = v
    BY DEF Goes
  <2> QED
    BY <1>1, <2>1, <2>2
<1>2. ASSUME NEW code PROVE Good(Fails(s, code))
  <2>1. Settles(Fails(s, code), b)
    BY FailsThen
  <2>2. Fails(s, code).over
    BY DEF Fails
  <2> QED
    BY <2>1, <2>2
<1>3. ASSUME NEW r \in {"length", "stop"} PROVE Good(CursorFinish(s, r))
  <2>1. r \in Reasons
    BY Zenon DEF Reasons
  <2> QED
    BY <2>1, CursorFinishes
<1>4. Good(RelayTool(s, n))
  BY RelayToolEnds
<1>0. SUFFICES Good(CursorConsume(must, s, f, n))
  OBVIOUS
<1> HIDE DEF Good
<1>5. Good(Goes(s))
  BY <1>1
<1>6. PICK r : r = CursorConsume(must, s, f, n)
  OBVIOUS
<1>7. r = CASE f.k \in {"text", "think"} -> Goes(Delta(Begin(s), f.k, n))
            [] f.k = "thinkingCompleted" -> Goes(IF s.block = "think" THEN CloseBlock(s) ELSE s)
            [] f.k = "kv" -> IF f.known THEN Goes(s) ELSE Fails(s, "cursor_missing_blob")
            [] f.k = "exec" -> Exec(s, f, n)
            [] f.k = "tokenLimit" -> CursorFinish(s, "length")
            [] f.k = "turnEnded" -> IF must THEN Fails(s, "client_fixable") ELSE CursorFinish(s, "stop")
            [] f.k = "fault" -> Fails(s, "cursor_fault")
  BY <1>6 DEF CursorConsume
<1>8. f.k \in {"text", "think", "thinkingCompleted", "kv", "exec", "tokenLimit", "turnEnded", "fault"}
  BY DEF CursorFrames, TextFrame, ThinkFrame
<1>9. CASE f.k \in {"text", "think"}
  <2>1. PICK w : w = Begin(s)
    OBVIOUS
  <2>2. Decodes(w, b, 0) /\ w.tools = <<>>
    BY <2>1, BeginStep, BeginTools DEF Decodes
  <2>3. PICK v : v = Delta(w, f.k, n)
    OBVIOUS
  <2>4. Decodes(v, b, 0) /\ v.tools = <<>>
    BY <1>9, <2>2, <2>3, DeltaStep
  <2>5. r = Goes(v)
    BY <1>7, <1>9, <2>1, <2>3
  <2> QED
    BY <1>6, <1>1, <2>4, <2>5
<1>10. CASE f.k = "thinkingCompleted"
  <2>1. PICK v : v = IF s.block = "think" THEN CloseBlock(s) ELSE s
    OBVIOUS
  <2>2. Decodes(v, b, 0) /\ v.tools = <<>>
    BY <2>1, CloseStep
  <2>3. r = Goes(v)
    BY <1>7, <1>10, <2>1
  <2> QED
    BY <1>6, <1>1, <2>2, <2>3
<1>11. CASE f.k = "kv"
  <2>1. r = Goes(s) \/ r = Fails(s, "cursor_missing_blob")
    BY <1>7, <1>11
  <2> QED
    BY <1>6, <1>2, <1>5, <2>1
<1>12. CASE f.k = "exec"
  <2>1. r = Exec(s, f, n)
    BY <1>7, <1>12
  <2>2. Exec(s, f, n) = Goes(s) \/ Exec(s, f, n) = RelayTool(s, n) \/ Exec(s, f, n) = Fails(s, "client_fixable")
    BY DEF Exec
  <2> QED
    BY <1>6, <1>2, <1>4, <1>5, <2>1, <2>2
<1>13. CASE f.k = "tokenLimit"
  <2>1. r = CursorFinish(s, "length")
    BY <1>7, <1>13
  <2> QED
    BY <1>6, <1>3, <2>1
<1>14. CASE f.k = "turnEnded"
  <2>1. r = Fails(s, "client_fixable") \/ r = CursorFinish(s, "stop")
    BY <1>7, <1>14
  <2> QED
    BY <1>6, <1>2, <1>3, <2>1
<1>15. CASE f.k = "fault"
  <2>1. r = Fails(s, "cursor_fault")
    BY <1>7, <1>15
  <2> QED
    BY <1>6, <1>2, <2>1
<1> QED
  BY <1>8, <1>9, <1>10, <1>11, <1>12, <1>13, <1>14, <1>15

(* A frame is taken by the decoder of the reply's platform.                *)
LEMMA ConsumeSettles ==
  ASSUME NEW p \in Platforms, NEW must, NEW s, NEW b, Decodes(s, b, 0), s.out = <<>>,
         p = "cursor" => s.tools = <<>>, NEW f \in Frames(p), NEW n \in Nat
  PROVE  LET r == Consume(p, must, s, f, n) IN Settles(r, b) /\ (p = "cursor" /\ ~r.over => r.s.tools = <<>>)
<1>1. p \in {"workbuddy", "openrouter", "trae", "cursor"}
  BY PlatformsAssumption
<1>2. CASE p = "workbuddy"
  <2>1. f \in WorkBuddyFrames /\ Consume(p, must, s, f, n) = WorkBuddyConsume(s, f, n)
    BY <1>2 DEF Frames, Consume
  <2> QED
    BY <1>2, <2>1, WorkBuddyConsumes
<1>3. CASE p = "openrouter"
  <2>1. f \in OpenRouterFrames /\ Consume(p, must, s, f, n) = OpenRouterConsume(s, f, n)
    BY <1>3 DEF Frames, Consume
  <2> QED
    BY <1>3, <2>1, OpenRouterConsumes
<1>4. CASE p = "trae"
  <2>1. f \in TraeFrames /\ Consume(p, must, s, f, n) = TraeConsume(s, f, n)
    BY <1>4 DEF Frames, Consume
  <2> QED
    BY <1>4, <2>1, TraeConsumes
<1>5. CASE p = "cursor"
  <2>1. f \in CursorFrames /\ Consume(p, must, s, f, n) = CursorConsume(must, s, f, n)
    BY <1>5 DEF Frames, Consume
  <2> QED
    BY <1>5, <2>1, CursorConsumes
<1> QED
  BY <1>1, <1>2, <1>3, <1>4, <1>5

(* So is the end of the frames, that ends the reply.                       *)
LEMMA EndOfReadSettles ==
  ASSUME NEW p \in Platforms, NEW s, NEW b, Decodes(s, b, 0), s.out = <<>>, NEW timedOut, NEW broken
  PROVE  LET r == EndOfRead(p, s, timedOut, broken) IN Settles(r, b) /\ r.over
<1>1. p \in {"workbuddy", "openrouter", "trae", "cursor"}
  BY PlatformsAssumption
<1>2. PICK r : r = EndOfRead(p, s, timedOut, broken)
  OBVIOUS
<1>3. (\E code : r = Fails(s, code)) \/ r = WorkBuddyFinish(s)
  BY <1>1, <1>2 DEF EndOfRead, WorkBuddyReadEnds, OpenRouterReadEnds, TraeReadEnds, CursorReadEnds
<1>4. WorkBuddyFinish(s).over /\ \A code : Fails(s, code).over
  BY DEF WorkBuddyFinish, Ends, Fails
<1>5. Settles(r, b) /\ r.over
  BY <1>3, <1>4, FailsThen, WorkBuddyFinishes
<1> QED
  BY <1>2, <1>5
-------------------------------------------------------------------------------
(* The events move from the pump over the channel to the relay             *)

(* The events of a decoder have left it.                                   *)
LEMMA Emptied ==
  ASSUME NEW s, NEW b, Decodes(s, b, 0), NEW v, v = [s EXCEPT !.out = <<>>], NEW a, a = b \o s.out
  PROVE  Decodes(v, a, 0) /\ v.out = <<>> /\ v.tools = s.tools
<1>1. s \in Decoders /\ b \in Seq(Events) /\ EventsOK(a) /\ Knows(s, a, 0)
  BY DEF Decodes
<1>2. a \in Seq(Events) /\ <<>> \in Seq(Events) /\ a \o <<>> = a
  BY <1>1, ConcatProperties, NothingNew DEF Decoders
<1>3. /\ v \in Decoders /\ v.block = s.block /\ v.at = s.at /\ v.next = s.next /\ v.tools = s.tools /\ v.out = <<>>
  BY <1>1, <1>2 DEF Decoders
<1>4. Knows(v, a, 0)
  BY <1>1, <1>3, KnowsAlike
<1> QED
  BY <1>1, <1>2, <1>3, <1>4 DEF Decodes

(* The invariant: the events that have been received, wait in the channel  *)
(* or are in the pump's hands fit each other, and the decoder knows them.  *)
(* No failure is reported of a reply that the relay has seen the end of.   *)
AllEvents == sent \o (pending \o unsent)
Going(a) ==
  /\ EventsOK(a) /\ dec.out = <<>>
  /\ pumping => Decodes(dec, a, 0) /\ (platform = "cursor" => dec.tools = <<>>)
  /\ fault # "none" => ~Over(a)
FlowInvariant ==
  /\ platform \in Platforms /\ count \in Nat /\ pumping \in BOOLEAN
  /\ sent \in Seq(Events) /\ pending \in Seq(Events) /\ unsent \in Seq(Events)
  /\ EventsOK(sent) /\ \A n \in DOMAIN sent : sent[n].t # "error"
  /\ reply = "open" => Going(AllEvents)
  /\ reply = "failed" => ~Over(sent)
  /\ reply = "complete" => Over(sent)

LEMMA FlowInit == Init => FlowInvariant
<1> SUFFICES ASSUME Init PROVE FlowInvariant
  OBVIOUS
<1>1. /\ platform \in Platforms /\ count = 0 /\ pumping = TRUE /\ sent = <<>> /\ pending = <<>> /\ unsent = <<>>
      /\ reply = "open" /\ fault = "none" /\ dec = NewStream
  BY DEF Init
<1>2. <<>> \in Seq(Events) /\ <<>> \in Seq(ToolCalls) /\ <<>> \o (<<>> \o <<>>) = <<>>
  OBVIOUS
<1>3. PICK a : a = AllEvents
  OBVIOUS
<1>4. a = <<>>
  BY <1>1, <1>2, <1>3 DEF AllEvents
<1>5. EventsOK(a) /\ ~Over(a) /\ \A i, k : ~Opens(a, i, k) /\ ~Shuts(a, i)
  BY <1>4, NothingSaid
<1>6. "stop" \in Reasons
  BY Zenon DEF Reasons
<1>7. dec \in Decoders /\ dec.out = <<>> /\ dec.tools = <<>> /\ dec.block = "none"
  BY <1>1, <1>2, <1>6 DEF NewStream, Decoders
<1>8. Decodes(dec, a, 0)
  <2>1. DOMAIN dec.tools = {}
    BY <1>7
  <2>2. Fresh(dec, a) /\ KnowsBlock(dec, a) /\ KnowsTools(dec, a, 0) /\ OneCallEach(dec) /\ KnowsAll(dec, a, 0)
    BY <1>5, <1>7, <2>1 DEF Fresh, KnowsBlock, KnowsTools, OneCallEach, KnowsAll
  <2>3. a \o dec.out = a /\ a \in Seq(Events)
    BY <1>2, <1>4, <1>7
  <2> QED
    BY <1>5, <1>7, <2>2, <2>3 DEF Decodes, Knows
<1>9. Going(a)
  BY <1>1, <1>5, <1>7, <1>8 DEF Going
<1>10. EventsOK(sent) /\ DOMAIN sent = {}
  BY <1>1, NothingSaid
<1> QED
  BY <1>1, <1>2, <1>3, <1>9, <1>10 DEF FlowInvariant

LEMMA TakenEvents ==
  ASSUME FlowInvariant, Reading, NEW r, r.s.out \in Seq(Events), Take(r), sent' = sent
  PROVE  AllEvents' = AllEvents \o r.s.out
<1>1. sent \in Seq(Events) /\ pending \in Seq(Events)
  BY DEF FlowInvariant
<1>2. unsent = <<>> /\ (Ahead \/ pending = <<>>)
  BY DEF Reading
<1>3. PICK o, a, c : o = r.s.out /\ a = AllEvents /\ c = AllEvents'
  OBVIOUS
<1>4. unsent' = (IF Ahead THEN o ELSE <<>>) /\ pending' = (IF Ahead THEN pending ELSE o) /\ o \in Seq(Events)
  BY <1>3 DEF Take
<1>5. a = sent \o (pending \o <<>>) /\ pending \o <<>> = pending /\ <<>> \o <<>> = <<>>
  BY <1>1, <1>2, <1>3, NothingNew DEF AllEvents
<1>6. CASE Ahead
  <2>1. c = sent \o (pending \o o)
    BY <1>3, <1>4, <1>6 DEF AllEvents
  <2>2. sent \o (pending \o o) = (sent \o pending) \o o
    BY <1>1, <1>4, ConcatAssociative, SMTT(30)
  <2> QED
    BY <1>3, <1>5, <2>1, <2>2
<1>7. CASE ~Ahead
  <2>1. c = sent \o (o \o <<>>) /\ pending = <<>>
    BY <1>2, <1>3, <1>4, <1>7 DEF AllEvents
  <2>2. sent \o <<>> = sent /\ o \o <<>> = o
    BY <1>1, <1>4, NothingNew
  <2> QED
    BY <1>3, <1>5, <2>1, <2>2
<1> QED
  BY <1>6, <1>7

(* What a read makes of the decoder is taken.                              *)
LEMMA TakeStep ==
  ASSUME FlowInvariant, Reading, NEW r, Settles(r, AllEvents), platform = "cursor" /\ ~r.over => r.s.tools = <<>>,
         Take(r), UNCHANGED <<platform, sent, reply>>, count' \in Nat
  PROVE  FlowInvariant'
<1>1. /\ platform \in Platforms /\ sent \in Seq(Events) /\ pending \in Seq(Events) /\ unsent \in Seq(Events)
      /\ EventsOK(sent) /\ \A n \in DOMAIN sent : sent[n].t # "error"
  BY DEF FlowInvariant
<1>2. reply = "open" /\ unsent = <<>> /\ (Ahead \/ pending = <<>>)
  BY DEF Reading
<1>3. /\ r.s \in Decoders /\ r.over \in BOOLEAN /\ EventsOK(AllEvents \o r.s.out)
      /\ ~r.over => Decodes(r.s, AllEvents, 0)
      /\ r.fault # "none" => ~Over(AllEvents \o r.s.out)
  BY DEF Settles
<1>4. PICK o, d : o = r.s.out /\ d = [r.s EXCEPT !.out = <<>>]
  OBVIOUS
<1>5. o \in Seq(Events) /\ d.out = <<>>
  BY <1>3, <1>4 DEF Decoders
<1>6. /\ dec' = d /\ pumping' = ~r.over /\ fault' = r.fault
      /\ unsent' = (IF Ahead THEN o ELSE <<>>) /\ pending' = (IF Ahead THEN pending ELSE o)
  BY <1>4 DEF Take
<1>7. pending' \in Seq(Events) /\ unsent' \in Seq(Events)
  BY <1>1, <1>5, <1>6
<1>8. PICK a, c : a = AllEvents /\ c = AllEvents'
  OBVIOUS
<1>9. c = a \o o
  BY <1>4, <1>5, <1>8, TakenEvents
<1>10. EventsOK(c) /\ (r.fault # "none" => ~Over(c)) /\ (~r.over => Decodes(r.s, a, 0))
  BY <1>3, <1>4, <1>8, <1>9
<1>11. ~r.over => Decodes(d, c, 0) /\ d.tools = r.s.tools
  BY <1>4, <1>9, <1>10, Emptied
<1>12. Going(AllEvents)'
  BY <1>5, <1>6, <1>8, <1>10, <1>11 DEF Going
<1> QED
  BY <1>1, <1>2, <1>3, <1>6, <1>7, <1>12 DEF FlowInvariant

LEMMA ReadFrameStep == ASSUME FlowInvariant, NEW f \in Frames(platform), ReadFrame(f) PROVE FlowInvariant'
<1>1. PICK n, r : n = count + 1 /\ r = Consume(platform, mustCall, dec, f, n)
  OBVIOUS
<1>2. Reading /\ Take(r) /\ UNCHANGED <<platform, sent, reply>> /\ count' = n
  BY <1>1 DEF ReadFrame
<1>3. platform \in Platforms /\ n \in Nat /\ Going(AllEvents) /\ pumping
  BY <1>1, <1>2 DEF FlowInvariant, Reading
<1>4. PICK a : a = AllEvents
  OBVIOUS
<1>5. Decodes(dec, a, 0) /\ dec.out = <<>> /\ (platform = "cursor" => dec.tools = <<>>)
  BY <1>3, <1>4 DEF Going
<1>6. Settles(r, a) /\ (platform = "cursor" /\ ~r.over => r.s.tools = <<>>)
  BY <1>1, <1>3, <1>5, ConsumeSettles
<1> QED
  BY ONLY FlowInvariant, <1>2, <1>3, <1>4, <1>6, TakeStep

LEMMA ReadEndsStep == ASSUME FlowInvariant, NEW broken \in BOOLEAN, ReadEnds(broken) PROVE FlowInvariant'
<1>1. PICK r : r = EndOfRead(platform, dec, closed, broken)
  OBVIOUS
<1>2. Reading /\ Take(r) /\ UNCHANGED <<platform, sent, reply>> /\ count' = count
  BY <1>1 DEF ReadEnds
<1>3. platform \in Platforms /\ count \in Nat /\ Going(AllEvents) /\ pumping
  BY <1>2 DEF FlowInvariant, Reading
<1>4. PICK a : a = AllEvents
  OBVIOUS
<1>5. Decodes(dec, a, 0) /\ dec.out = <<>>
  BY <1>3, <1>4 DEF Going
<1>6. Settles(r, a) /\ r.over
  BY <1>1, <1>3, <1>5, EndOfReadSettles
<1>7. count' \in Nat
  BY <1>2, <1>3
<1> QED
  BY ONLY FlowInvariant, <1>2, <1>4, <1>6, <1>7, TakeStep

LEMMA PumpSendsStep == ASSUME FlowInvariant, PumpSends PROVE FlowInvariant'
<1>1. /\ unsent # <<>> /\ pending' = Append(pending, Head(unsent)) /\ unsent' = Tail(unsent)
      /\ UNCHANGED <<platform, dec, pumping, fault, sent, reply, count>>
  BY DEF PumpSends
<1>2. pending \in Seq(Events) /\ unsent \in Seq(Events) /\ sent \in Seq(Events)
  BY DEF FlowInvariant
<1>3. /\ Head(unsent) \in Events /\ unsent' \in Seq(Events)
      /\ Append(pending, Head(unsent)) \o Tail(unsent) = pending \o unsent
  BY <1>1, <1>2, HeadMoves
<1>4. pending' \in Seq(Events)
  BY <1>1, <1>2, <1>3, AppendProperties
<1>5. AllEvents' = AllEvents
  BY <1>1, <1>3 DEF AllEvents
<1>6. Going(AllEvents) => Going(AllEvents)'
  BY <1>1, <1>5 DEF Going
<1> QED
  BY <1>1, <1>3, <1>4, <1>6 DEF FlowInvariant

LEMMA PumpAbortsStep == ASSUME FlowInvariant, PumpAborts PROVE FlowInvariant'
<1>1. /\ unsent # <<>> /\ unsent' = <<>> /\ pumping' = FALSE
      /\ UNCHANGED <<platform, dec, pending, sent, reply, count>>
  BY DEF PumpAborts
<1>2. pending \in Seq(Events) /\ unsent \in Seq(Events) /\ sent \in Seq(Events) /\ unsent' \in Seq(Events)
  BY <1>1 DEF FlowInvariant
<1>3. reply = "open" => Going(AllEvents)'
  <2>1. SUFFICES ASSUME reply = "open" PROVE Going(AllEvents)'
    OBVIOUS
  <2>2. EventsOK(AllEvents) /\ dec.out = <<>>
    BY <2>1 DEF FlowInvariant, Going
  <2>3. PICK a : a = sent \o pending
    OBVIOUS
  <2>4. a \in Seq(Events) /\ AllEvents = a \o unsent
    BY <1>2, <2>3, ConcatProperties, ConcatAssociative DEF AllEvents
  <2>5. EventsOK(a) /\ Fits(a, Head(unsent))
    BY <1>1, <1>2, <2>2, <2>4, EventsBegin
  <2>6. AllEvents' = a
    <3>1. pending \o <<>> = pending
      BY <1>2, NothingNew
    <3> QED
      BY <1>1, <2>3, <3>1 DEF AllEvents
  <2>7. ~Over(a)
    BY <2>5 DEF Fits
  <2> QED
    BY <1>1, <2>2, <2>5, <2>6, <2>7 DEF Going
<1> QED
  BY <1>1, <1>2, <1>3 DEF FlowInvariant

LEMMA RelayedEvents ==
  ASSUME sent \in Seq(Events), pending \in Seq(Events), unsent \in Seq(Events), pending # <<>>,
         pending' = Tail(pending), unsent' = unsent, sent' = Append(sent, Head(pending))
  PROVE  AllEvents' = AllEvents
<1>1. PICK h, p, a : h = Head(pending) /\ p = Tail(pending) /\ a = Append(sent, h)
  OBVIOUS
<1>2. h \in Events /\ p \in Seq(Events) /\ a \o p = sent \o pending
  BY <1>1, HeadMoves
<1>3. a \in Seq(Events)
  BY <1>1, <1>2, AppendProperties
<1>4. a \o (p \o unsent) = (a \o p) \o unsent
  <2>1. p \in Seq(Events) /\ unsent \in Seq(Events)
    BY <1>2
  <2> QED
    BY ONLY <1>3, <2>1, ConcatAssociative
<1>5. sent \o (pending \o unsent) = (sent \o pending) \o unsent
  BY ConcatAssociative
<1> QED
  BY <1>1, <1>2, <1>4, <1>5 DEF AllEvents

LEMMA RelayStep == ASSUME FlowInvariant, Relay PROVE FlowInvariant'
<1>1. /\ reply = "open" /\ pending # <<>> /\ pending' = Tail(pending)
      /\ UNCHANGED <<platform, dec, unsent, pumping, fault, count>>
  BY DEF Relay
<1>2. /\ platform \in Platforms /\ count \in Nat /\ pumping \in BOOLEAN /\ EventsOK(sent) /\ Going(AllEvents)
      /\ sent \in Seq(Events) /\ pending \in Seq(Events) /\ unsent \in Seq(Events)
      /\ \A n \in DOMAIN sent : sent[n].t # "error"
  BY <1>1 DEF FlowInvariant
<1>3. PICK h : h = Head(pending)
  OBVIOUS
<1>4. h \in Events /\ pending' \in Seq(Events) /\ Append(sent, h) \o Tail(pending) = sent \o pending
  BY <1>1, <1>2, <1>3, HeadMoves
<1>5. Fits(sent, h)
  <2>1. EventsOK(sent \o pending)
    <3>1. PICK a : a = sent \o pending
      OBVIOUS
    <3>2. a \in Seq(Events) /\ AllEvents = a \o unsent
      <4>1. sent \o (pending \o unsent) = (sent \o pending) \o unsent /\ sent \o pending \in Seq(Events)
        BY <1>2, ConcatProperties, ConcatAssociative, SMTT(30)
      <4> QED
        BY <3>1, <4>1 DEF AllEvents
    <3>3. EventsOK(a)
      BY <1>2, <3>2, EventsBegin DEF Going
    <3> QED
      BY <3>1, <3>3
  <2> QED
    BY <1>1, <1>2, <1>3, <2>1, EventsBegin
<1>6. CASE h.t = "error"
  <2>1. reply' = "failed" /\ sent' = sent
    BY <1>3, <1>6 DEF Relay
  <2>2. ~Over(sent)
    BY <1>5 DEF Fits
  <2> QED
    BY <1>1, <1>2, <1>4, <2>1, <2>2 DEF FlowInvariant
<1>7. CASE h.t # "error"
  <2>1. reply' = "open" /\ sent' = Append(sent, h)
    BY <1>1, <1>3, <1>7 DEF Relay
  <2>2. EventsOK(sent') /\ sent' \in Seq(Events)
    BY <1>2, <1>4, <1>5, <2>1, EventsAppend, AppendProperties
  <2>3. \A n \in DOMAIN sent' : sent'[n].t # "error"
    BY <1>2, <1>4, <1>7, <2>1, AppendProperties, LenProperties
  <2>4. AllEvents' = AllEvents
    BY ONLY <1>1, <1>2, <1>3, <2>1, RelayedEvents
  <2>5. Going(AllEvents)'
    BY <1>1, <1>2, <2>4 DEF Going
  <2> QED
    BY <1>1, <1>2, <1>4, <2>1, <2>2, <2>3, <2>5 DEF FlowInvariant
<1> QED
  BY <1>6, <1>7

LEMMA RecvEndsStep == ASSUME FlowInvariant, RecvEnds PROVE FlowInvariant'
<1>1. /\ reply = "open" /\ pending = <<>> /\ unsent = <<>>
      /\ reply' = (IF fault = "none" /\ Done THEN "complete" ELSE "failed")
      /\ UNCHANGED <<platform, unsent, pending, pumping, sent, count>>
  BY DEF RecvEnds
<1>2. sent \in Seq(Events) /\ Going(AllEvents) /\ \A n \in DOMAIN sent : sent[n].t # "error"
  BY <1>1 DEF FlowInvariant
<1>3. AllEvents = sent
  <2>1. <<>> \o <<>> = <<>> /\ sent \o <<>> = sent
    BY <1>2, NothingNew
  <2> QED
    BY <1>1, <2>1 DEF AllEvents
<1>4. CASE fault = "none" /\ Done
  <2>1. Over(sent) /\ reply' = "complete"
    BY <1>1, <1>4 DEF Done, Over
  <2> QED
    BY <1>1, <2>1 DEF FlowInvariant
<1>5. CASE ~(fault = "none" /\ Done)
  <2>1. ~Over(sent)
    BY <1>2, <1>3, <1>5 DEF Going, Done, Over
  <2>2. reply' = "failed"
    BY <1>1, <1>5
  <2> QED
    BY <1>1, <2>1, <2>2 DEF FlowInvariant
<1> QED
  BY <1>4, <1>5

LEMMA FlowStep == FlowInvariant /\ [Next]_vars => FlowInvariant'
<1> SUFFICES ASSUME FlowInvariant, [Next]_vars PROVE FlowInvariant'
  OBVIOUS
<1>1. ASSUME NEW f \in Frames(platform), ReadFrame(f) PROVE FlowInvariant'
  BY <1>1, ReadFrameStep
<1>2. ASSUME NEW broken \in BOOLEAN, ReadEnds(broken) PROVE FlowInvariant'
  BY <1>2, ReadEndsStep
<1>3. CASE IdleTimeout
  <2>1. UNCHANGED <<platform, dec, unsent, pending, pumping, fault, sent, reply, count>>
    BY <1>3 DEF IdleTimeout
  <2> QED
    BY <2>1 DEF FlowInvariant, Going, AllEvents
<1>4. CASE ClientLeaves
  <2>1. reply' = "gone" /\ pumping' = FALSE /\ unsent' = <<>> /\ UNCHANGED <<platform, pending, sent, count>>
    BY <1>4 DEF ClientLeaves
  <2>2. <<>> \in Seq(Events)
    OBVIOUS
  <2> QED
    BY <2>1, <2>2 DEF FlowInvariant
<1>5. CASE UNCHANGED vars
  BY <1>5 DEF vars, FlowInvariant, Going, AllEvents
<1> QED
  BY <1>1, <1>2, <1>3, <1>4, <1>5, PumpSendsStep, PumpAbortsStep, RelayStep, RecvEndsStep DEF Next

(* What has been said to the relay is well formed: no event is sent that   *)
(* does not fit, whatever the upstream of whatever platform sends.         *)
THEOREM FlowIsInvariant == Spec => []FlowInvariant
BY FlowInit, FlowStep, PTL DEF Spec
-------------------------------------------------------------------------------
(* What is written                                                         *)

AnnouncesAs(w, i, k) == \E n \in DOMAIN w : w[n].t \in Announcing /\ w[n].i = i /\ w[n].k = k
Closes(w, i) == \E n \in DOMAIN w : w[n].t \in Closing /\ w[n].i = i
Ending == Successful \cup {"error"}
Ended(w) == \E n \in DOMAIN w : w[n].t \in Ending

(* A frame that may be written after w.                                    *)
FrameFits(w, f) ==
  /\ ~Ended(w)
  /\ f.t \in Announcing => \A k : ~AnnouncesAs(w, f.i, k)
  /\ f.t \in Growing \cup Closing => (\E k : AnnouncesAs(w, f.i, k)) /\ ~Closes(w, f.i)
  /\ f.t \in Growing => \A k : AnnouncesAs(w, f.i, k) => k = f.k
(* w with the frame f.                                                     *)
Longer(w, f, v) ==
  /\ Framed(v) /\ BlocksInOrder(v)
  /\ Len(v) \in Nat /\ DOMAIN v = 1 .. Len(v) /\ v # <<>> /\ v[Len(v)] = f
  /\ \A i, k : AnnouncesAs(v, i, k) <=> AnnouncesAs(w, i, k) \/ (f.t \in Announcing /\ f.i = i /\ f.k = k)
  /\ \A i : Closes(v, i) <=> Closes(w, i) \/ (f.t \in Closing /\ f.i = i)
  /\ \A n \in DOMAIN v : v[n].t \in Ending => n = Len(v)

LEMMA WireGrows ==
  ASSUME NEW w, Framed(w), BlocksInOrder(w), NEW f, FrameFits(w, f), NEW v, v = w \o <<f>>
  PROVE  Longer(w, f, v)
<1>1. /\ Framed(v) /\ Len(w) \in Nat /\ DOMAIN w = 1 .. Len(w)
      /\ Len(v) = Len(w) + 1 /\ DOMAIN v = 1 .. Len(w) + 1 /\ v[Len(w) + 1] = f
      /\ \A n \in DOMAIN w : v[n] = w[n]
  <2>1. OneLonger(w, f, v)
    BY OneLongerConcat
  <2> QED
    BY <2>1 DEF OneLonger
<1>2. \A n : n \in DOMAIN v <=> n \in DOMAIN w \/ n = Len(w) + 1
  BY <1>1
<1>3. \A i, k : AnnouncesAs(v, i, k) <=> AnnouncesAs(w, i, k) \/ (f.t \in Announcing /\ f.i = i /\ f.k = k)
  BY <1>1, <1>2 DEF AnnouncesAs
<1>4. \A i : Closes(v, i) <=> Closes(w, i) \/ (f.t \in Closing /\ f.i = i)
  BY <1>1, <1>2 DEF Closes
<1>5. \A n \in DOMAIN v : v[n].t \in Ending => n = Len(v)
  BY <1>1, <1>2 DEF FrameFits, Ended
<1>6. BlocksInOrder(v)
  <2> DEFINE Before(u, set, n) == {m \in 1 .. n - 1 : u[m].t \in set /\ u[m].i = u[n].i}
             Ordered(u, n) ==
               /\ u[n].t \in Announcing => Before(u, Announcing, n) = {}
               /\ u[n].t \in Growing \cup Closing => Before(u, Announcing, n) # {} /\ Before(u, Closing, n) = {}
               /\ u[n].t \in Growing => \A m \in Before(u, Announcing, n) : u[m].k = u[n].k
  <2>1. SUFFICES ASSUME NEW n \in DOMAIN v PROVE Ordered(v, n)
    BY DEF BlocksInOrder
  <2>2. CASE n \in DOMAIN w
    <3>1. Ordered(w, n)
      BY <2>2 DEF BlocksInOrder
    <3>2. \A m \in 1 .. n - 1 : m \in DOMAIN w
      BY <1>1, <2>2
    <3>3. v[n] = w[n] /\ \A set : Before(v, set, n) = Before(w, set, n)
      BY <1>1, <2>2, <3>2
    <3>4. \A m \in 1 .. n - 1 : v[m] = w[m]
      BY <1>1, <3>2
    <3> QED
      BY <3>1, <3>3, <3>4
  <2>3. CASE n = Len(w) + 1
    <3>1. v[n] = f /\ 1 .. n - 1 = DOMAIN w
      BY <1>1, <2>3
    <3>2. \A m \in DOMAIN w : m \in 1 .. n - 1 /\ v[m] = w[m]
      BY <1>1, <3>1
    <3>3. \A m \in 1 .. n - 1 : m \in DOMAIN w
      BY <3>1
    <3>4. f.t \in Announcing => Before(v, Announcing, n) = {}
      BY <3>1, <3>2, <3>3 DEF FrameFits, AnnouncesAs
    <3>5. ASSUME f.t \in Growing \cup Closing PROVE Before(v, Announcing, n) # {} /\ Before(v, Closing, n) = {}
      <4>1. PICK k : AnnouncesAs(w, f.i, k)
        BY <3>5 DEF FrameFits
      <4>2. PICK m \in DOMAIN w : w[m].t \in Announcing /\ w[m].i = f.i
        BY <4>1 DEF AnnouncesAs
      <4>3. m \in Before(v, Announcing, n)
        BY <3>1, <3>2, <4>2
      <4>4. ~Closes(w, f.i)
        BY <3>5 DEF FrameFits
      <4>5. Before(v, Closing, n) = {}
        BY <3>1, <3>2, <3>3, <4>4 DEF Closes
      <4> QED
        BY <4>3, <4>5
    <3>6. ASSUME f.t \in Growing, NEW m \in Before(v, Announcing, n) PROVE v[m].k = f.k
      <4>1. m \in DOMAIN w /\ w[m].t \in Announcing /\ w[m].i = f.i /\ v[m] = w[m]
        BY <3>1, <3>2, <3>3
      <4>2. AnnouncesAs(w, f.i, w[m].k)
        BY <4>1 DEF AnnouncesAs
      <4> QED
        BY <3>6, <4>1, <4>2 DEF FrameFits
    <3> QED
      BY <3>1, <3>4, <3>5, <3>6
  <2> QED
    BY <1>2, <2>2, <2>3
<1>7. v # <<>> /\ v[Len(v)] = f /\ Len(v) \in Nat
  BY <1>1
<1> QED
  BY <1>1, <1>3, <1>4, <1>5, <1>6, <1>7 DEF Longer

(* An encoder's fold over the events, and the function it is a value of.   *)
Encodes(p, s, n, g) ==
  g = [x \in SUBSET (1 .. n) |-> IF x = {} THEN NewStreamEncoder ELSE Encode(p, g[x \ {Max(x)}], s[Max(x)])]

LEMMA EncodesOn == ASSUME NEW p, NEW s, NEW n \in Nat, NEW h, Encodes(p, s, n, h) PROVE \E g : Encodes(p, s, n + 1, g)
<1> DEFINE H(x) == IF n + 1 \in x THEN Encode(p, h[x \ {n + 1}], s[n + 1]) ELSE h[x]
           G(g, x) == IF x = {} THEN NewStreamEncoder ELSE Encode(p, g[x \ {Max(x)}], s[Max(x)])
<1>1. PICK g : g = [x \in SUBSET (1 .. n + 1) |-> H(x)]
  OBVIOUS
<1>2. ASSUME NEW x \in SUBSET (1 .. n + 1) PROVE H(x) = G(g, x)
  <2>1. CASE n + 1 \in x
    <3>1. Max(x) = n + 1
      <4>1. Max(x) \in x /\ Max(x) >= n + 1
        <5>1. n + 1 \in Nat /\ x # {}
          BY <2>1
        <5>2. Max(x) \in x /\ \A y \in x : Max(x) >= y
          BY <5>1, MaxWithin
        <5> QED
          BY <2>1, <5>2
      <4>2. Max(x) \in 1 .. n + 1
        BY <4>1
      <4> QED
        BY <4>1, <4>2
    <3>2. PICK y : y = x \ {n + 1}
      OBVIOUS
    <3>3. y \in SUBSET (1 .. n + 1) /\ n + 1 \notin y
      BY <3>2
    <3>4. g[y] = h[y]
      BY <1>1, <3>3
    <3> QED
      BY <2>1, <3>1, <3>2, <3>4
  <2>2. CASE n + 1 \notin x
    <3>1. x \in SUBSET (1 .. n)
      BY <2>2
    <3>2. h[x] = G(h, x)
      BY <3>1 DEF Encodes
    <3>3. PICK y : y = x \ {Max(x)}
      OBVIOUS
    <3>4. y \in SUBSET (1 .. n + 1) /\ n + 1 \notin y
      BY <2>2, <3>3
    <3>5. g[y] = h[y]
      BY <1>1, <3>4, <2>2
    <3>6. H(x) = h[x]
      BY <2>2
    <3> QED
      BY <3>2, <3>3, <3>5, <3>6
  <2> QED
    BY <2>1, <2>2
<1> HIDE DEF H, G
<1>3. g = [x \in SUBSET (1 .. n + 1) |-> G(g, x)]
  BY <1>1, <1>2
<1> USE DEF G
<1>4. Encodes(p, s, n + 1, g)
  BY ONLY <1>3, Zenon DEF Encodes, G
<1> QED
  BY <1>4

LEMMA EncodesExist == ASSUME NEW p, NEW s, NEW n \in Nat PROVE \E g : Encodes(p, s, n, g)
<1> DEFINE S == {m \in Nat : \E g : Encodes(p, s, m, g)}
<1>1. 0 \in S
  <2>1. PICK g : g = [x \in SUBSET (1 .. 0) |-> NewStreamEncoder]
    OBVIOUS
  <2> DEFINE G(x) == IF x = {} THEN NewStreamEncoder ELSE Encode(p, g[x \ {Max(x)}], s[Max(x)])
  <2>2. \A x \in SUBSET (1 .. 0) : NewStreamEncoder = G(x)
    OBVIOUS
  <2> HIDE DEF G
  <2>3. g = [x \in SUBSET (1 .. 0) |-> G(x)]
    BY <2>1, <2>2
  <2> USE DEF G
  <2>4. Encodes(p, s, 0, g)
    BY ONLY <2>3, Zenon DEF Encodes, G
  <2> QED
    BY <2>4
<1>2. \A m \in Nat : m \in S => m + 1 \in S
  BY EncodesOn
<1> HIDE DEF S
<1>3. n \in S
  BY <1>1, <1>2, NumberInduction
<1> USE DEF S
<1> QED
  BY <1>3

LEMMA EncoderIsFold ==
  ASSUME NEW p, sent \in Seq(Events)
  PROVE  \E g : /\ Encoder(p) = g[1 .. Len(sent)] /\ g[1 .. 0] = NewStreamEncoder
                /\ \A k \in Nat : k + 1 <= Len(sent) => g[1 .. k + 1] = Encode(p, g[1 .. k], sent[k + 1])
<1>1. PICK n : n = Len(sent)
  OBVIOUS
<1>2. n \in Nat /\ DOMAIN sent = 1 .. n
  BY <1>1, LenProperties
<1>3. \E g : Encodes(p, sent, n, g)
  BY <1>2, EncodesExist
<1>4. PICK g : g = (CHOOSE h : Encodes(p, sent, n, h))
  OBVIOUS
<1>5. Encodes(p, sent, n, g)
  BY <1>3, <1>4
<1> DEFINE IsFold(d, h) ==
             h = [x \in SUBSET d |-> IF x = {} THEN NewStreamEncoder ELSE Encode(p, h[x \ {Max(x)}], sent[Max(x)])]
<1>6. Encoder(p) = (CHOOSE h : IsFold(DOMAIN sent, h))[DOMAIN sent]
  BY DEF Encoder, FoldLeft, MapThenFoldSet
<1>7. Encoder(p) = g[1 .. n]
  <2>1. g = (CHOOSE h : IsFold(1 .. n, h))
    BY ONLY <1>4, Zenon DEF Encodes
  <2> HIDE DEF IsFold
  <2> QED
    BY ONLY <1>2, <1>6, <2>1, Zenon
<1>8. \A x \in SUBSET (1 .. n) : g[x] = IF x = {} THEN NewStreamEncoder ELSE Encode(p, g[x \ {Max(x)}], sent[Max(x)])
  BY <1>5 DEF Encodes
<1>9. g[1 .. 0] = NewStreamEncoder
  <2>1. 1 .. 0 = {} /\ {} \in SUBSET (1 .. n)
    OBVIOUS
  <2> QED
    BY <1>8, <2>1
<1>10. ASSUME NEW k \in Nat, k + 1 <= n PROVE g[1 .. k + 1] = Encode(p, g[1 .. k], sent[k + 1])
  <2>1. PICK x, y, l : x = 1 .. k + 1 /\ y = 1 .. k /\ l = k + 1
    OBVIOUS
  <2>2. x \in SUBSET (1 .. n) /\ x # {}
    <3>1. \A z \in 1 .. k + 1 : z \in 1 .. n
      BY <1>2, <1>10
    <3>2. l \in x
      BY <2>1
    <3> QED
      BY <2>1, <3>1, <3>2
  <2>3. Max(x) = l /\ x \ {l} = y
    BY <2>1, MaxOfPrefix
  <2> QED
    BY <1>8, <2>1, <2>2, <2>3
<1> QED
  BY <1>1, <1>7, <1>9, <1>10

(* What an encoder that has been given the events a has written, whatever  *)
(* the protocol: frames in order, and an ending just when a is over.       *)
IsEncoder(e) == e = [out |-> e.out, role |-> e.role, seen |-> e.seen, open |-> e.open, completed |-> e.completed]
WrittenOf(e, a) ==
  /\ IsEncoder(e) /\ Framed(e.out) /\ BlocksInOrder(e.out)
  /\ Len(e.out) \in Nat /\ DOMAIN e.out = 1 .. Len(e.out)
  /\ \A n \in DOMAIN e.out : e.out[n].t \in Ending => n = Len(e.out) /\ Over(a)
  /\ Over(a) => /\ e.out # <<>> /\ e.out[Len(e.out)].t \in Successful
                /\ \A i, k : Opens(a, i, k) => Shuts(a, i)
  /\ \A i, k, l : Opens(a, i, k) /\ Opens(a, i, l) => k = l

LEMMA NotEnded == ASSUME NEW e, NEW a, WrittenOf(e, a), ~Over(a) PROVE ~Ended(e.out)
BY DEF WrittenOf, Ended

(* A frame is written.                                                     *)
Wrote(e, w, f, v) ==
  IsEncoder(v) /\ Longer(w, f, v.out) /\ v.seen = e.seen /\ v.open = e.open /\ v.role = e.role
LEMMA Write1 ==
  ASSUME NEW e, IsEncoder(e), NEW w, w = e.out, Framed(w), BlocksInOrder(w), NEW f, FrameFits(w, f),
         NEW v, v = Write(e, <<f>>)
  PROVE  Wrote(e, w, f, v)
<1>1. PICK o : o = w \o <<f>>
  OBVIOUS
<1>2. v = [e EXCEPT !.out = o]
  BY <1>1 DEF Write
<1>3. IsEncoder(v) /\ v.out = o /\ v.seen = e.seen /\ v.open = e.open /\ v.role = e.role
  BY <1>2 DEF IsEncoder
<1>4. Longer(w, f, o)
  BY <1>1, WireGrows
<1> QED
  BY <1>3, <1>4 DEF Wrote

LEMMA WrittenMore ==
  ASSUME NEW e, NEW a, WrittenOf(e, a), ~Over(a),
         NEW v, IsEncoder(v), NEW f, Longer(e.out, f, v.out), f.t \notin Ending
  PROVE  WrittenOf(v, a)
<1>1. PICK w, x : w = e.out /\ x = v.out
  OBVIOUS
<1>2. /\ Framed(x) /\ BlocksInOrder(x) /\ Len(x) \in Nat /\ DOMAIN x = 1 .. Len(x) /\ x[Len(x)] = f
      /\ \A n \in DOMAIN x : x[n].t \in Ending => n = Len(x)
  BY <1>1 DEF Longer
<1>3. \A n \in DOMAIN x : x[n].t \notin Ending
  BY <1>2
<1>4. \A i, k, l : Opens(a, i, k) /\ Opens(a, i, l) => k = l
  BY DEF WrittenOf
<1> QED
  BY <1>1, <1>2, <1>3, <1>4 DEF WrittenOf

LEMMA WrittenNext ==
  ASSUME NEW e, NEW a, WrittenOf(e, a), NEW ev, Fits(a, ev), NEW c, Says(a, ev, c), ev.t \notin {"done", "error"}
  PROVE  WrittenOf(e, c)
<1>1. ~Over(a) /\ ~Over(c)
  BY DEF Fits, Says
<1>2. \A i, k, l : Opens(c, i, k) /\ Opens(c, i, l) => k = l
  BY DEF Fits, Says, WrittenOf
<1> QED
  BY <1>1, <1>2 DEF WrittenOf

LEMMA WrittenDone ==
  ASSUME NEW e, NEW a, WrittenOf(e, a), NEW ev, Fits(a, ev), NEW c, Says(a, ev, c), ev.t = "done",
         NEW v, IsEncoder(v), NEW f, Longer(e.out, f, v.out), f.t \in Successful
  PROVE  WrittenOf(v, c)
<1>1. ~Over(a) /\ Over(c) /\ (\A i, k : Opens(c, i, k) <=> Opens(a, i, k)) /\ \A i : Shuts(c, i) <=> Shuts(a, i)
  BY DEF Fits, Says
<1>2. \A i, k, l : Opens(c, i, k) /\ Opens(c, i, l) => k = l
  BY <1>1 DEF WrittenOf
<1>3. \A i, k : Opens(c, i, k) => Shuts(c, i)
  BY <1>1 DEF Fits
<1>4. PICK x : x = v.out
  OBVIOUS
<1>5. /\ Framed(x) /\ BlocksInOrder(x) /\ Len(x) \in Nat /\ DOMAIN x = 1 .. Len(x) /\ x # <<>> /\ x[Len(x)] = f
      /\ \A n \in DOMAIN x : x[n].t \in Ending => n = Len(x)
  BY <1>4 DEF Longer
<1> QED
  BY <1>1, <1>2, <1>3, <1>4, <1>5 DEF WrittenOf

(* A frame that neither announces, grows, closes nor ends anything fits.   *)
Plain(f) == f.t \notin Announcing \cup Growing \cup Closing \cup Ending
LEMMA PlainFits == ASSUME NEW w, ~Ended(w), NEW f, Plain(f) PROVE FrameFits(w, f)
BY DEF Plain, FrameFits

LEMMA EndingFits == ASSUME NEW w, ~Ended(w), NEW f, f.t \in Ending PROVE FrameFits(w, f)
BY DEF FrameFits, Ending, Successful, Announcing, Growing, Closing

(* The blocks of a stream of events and of what is written of them.        *)
Mirrors(w, a) == (\A i, k : AnnouncesAs(w, i, k) <=> Opens(a, i, k)) /\ \A i : Closes(w, i) <=> Shuts(a, i)
SameAct(f, ev) ==
  /\ f.t \in Announcing <=> ev.t = "open"
  /\ f.t \in Closing <=> ev.t = "close"
  /\ f.t \in Growing <=> ev.t = "delta"
  /\ ev.t \in {"open", "delta", "close"} => f.i = ev.i
  /\ ev.t \in {"open", "delta"} => f.k = ev.k

LEMMA MirrorsNext ==
  ASSUME NEW w, NEW a, Mirrors(w, a), NEW f, NEW x, Longer(w, f, x), NEW ev, NEW c, Says(a, ev, c), SameAct(f, ev)
  PROVE  Mirrors(x, c)
<1>1. \A i, k : AnnouncesAs(x, i, k) <=> Opens(c, i, k)
  BY DEF Mirrors, Longer, Says, SameAct
<1>2. \A i : Closes(x, i) <=> Shuts(c, i)
  BY DEF Mirrors, Longer, Says, SameAct
<1> QED
  BY <1>1, <1>2 DEF Mirrors

LEMMA MirrorFits ==
  ASSUME NEW e, NEW a, WrittenOf(e, a), Mirrors(e.out, a), NEW ev, Fits(a, ev),
         NEW f, SameAct(f, ev), f.t \notin Ending
  PROVE  FrameFits(e.out, f)
<1>1. ~Ended(e.out)
  BY NotEnded DEF Fits
<1>2. f.t \in Announcing => \A k : ~AnnouncesAs(e.out, f.i, k)
  BY DEF SameAct, Mirrors, Fits
<1>3. f.t \in Growing \cup Closing => Opens(a, f.i, ev.k) /\ ~Shuts(a, f.i)
  BY DEF SameAct, Fits
<1>4. f.t \in Growing \cup Closing => (\E k : AnnouncesAs(e.out, f.i, k)) /\ ~Closes(e.out, f.i)
  BY <1>3 DEF Mirrors
<1>5. f.t \in Growing => \A k : AnnouncesAs(e.out, f.i, k) => k = f.k
  <2>1. SUFFICES ASSUME f.t \in Growing, NEW k, AnnouncesAs(e.out, f.i, k) PROVE k = f.k
    OBVIOUS
  <2>2. Opens(a, f.i, k) /\ Opens(a, f.i, ev.k) /\ f.k = ev.k
    BY <1>3, <2>1 DEF Mirrors, SameAct
  <2> QED
    BY <2>2 DEF WrittenOf
<1> QED
  BY <1>1, <1>2, <1>4, <1>5 DEF FrameFits

(* A frame that does what its event does is written.                       *)
LEMMA ActWritten ==
  ASSUME NEW e, NEW a, WrittenOf(e, a), Mirrors(e.out, a), NEW ev \in Events, Fits(a, ev), NEW c, Says(a, ev, c),
         ev.t \notin {"done", "error"}, NEW u, IsEncoder(u), u.out = e.out, NEW f, SameAct(f, ev), f.t \notin Ending,
         NEW v, v = Write(u, <<f>>)
  PROVE  WrittenOf(v, c) /\ Mirrors(v.out, c) /\ v.seen = u.seen /\ v.open = u.open
<1>1. PICK w : w = u.out
  OBVIOUS
<1>2. Framed(w) /\ BlocksInOrder(w) /\ w = e.out
  BY <1>1 DEF WrittenOf
<1>3. FrameFits(w, f)
  BY <1>2, MirrorFits
<1>4. IsEncoder(v) /\ Longer(w, f, v.out) /\ v.seen = u.seen /\ v.open = u.open
  <2>1. Framed(w) /\ BlocksInOrder(w)
    BY <1>2
  <2>2. Wrote(u, w, f, v)
    BY ONLY <1>1, <1>3, <2>1, IsEncoder(u), v = Write(u, <<f>>), Write1
  <2> QED
    BY <2>2 DEF Wrote
<1>5. WrittenOf(v, a)
  <2>1. ~Over(a)
    BY DEF Fits
  <2> QED
    BY <1>2, <1>4, <2>1, WrittenMore
<1>6. WrittenOf(v, c)
  BY <1>5, WrittenNext
<1>7. Mirrors(v.out, c)
  BY <1>2, <1>4, MirrorsNext
<1> QED
  BY <1>4, <1>6, <1>7

(* The end is written.                                                     *)
LEMMA EndWritten ==
  ASSUME NEW e, NEW a, WrittenOf(e, a), NEW ev, Fits(a, ev), NEW c, Says(a, ev, c), ev.t = "done",
         NEW f, f.t \in Successful, NEW v, v = Write(e, <<f>>)
  PROVE  WrittenOf(v, c) /\ Longer(e.out, f, v.out) /\ v.seen = e.seen /\ v.open = e.open
<1>1. PICK w : w = e.out
  OBVIOUS
<1>2. Framed(w) /\ BlocksInOrder(w) /\ IsEncoder(e) /\ ~Ended(w)
  BY <1>1, NotEnded DEF WrittenOf, Fits
<1>3. FrameFits(w, f)
  BY <1>2, EndingFits DEF Ending
<1>4. IsEncoder(v) /\ Longer(w, f, v.out) /\ v.seen = e.seen /\ v.open = e.open
  <2>1. Wrote(e, w, f, v)
    BY ONLY <1>1, <1>2, <1>3, v = Write(e, <<f>>), Write1
  <2> QED
    BY <2>1 DEF Wrote
<1> QED
  BY <1>1, <1>4, WrittenDone

(* So is a plain frame, of no block.                                       *)
LEMMA PlainWritten ==
  ASSUME NEW e, NEW a, WrittenOf(e, a), ~Over(a), NEW f, Plain(f), NEW v, v = Write(e, <<f>>)
  PROVE  WrittenOf(v, a) /\ Longer(e.out, f, v.out) /\ v.seen = e.seen /\ v.open = e.open
<1>1. PICK w : w = e.out
  OBVIOUS
<1>2. Framed(w) /\ BlocksInOrder(w) /\ IsEncoder(e) /\ ~Ended(w)
  BY <1>1, NotEnded DEF WrittenOf
<1>3. FrameFits(w, f)
  BY <1>2, PlainFits
<1>4. IsEncoder(v) /\ Longer(w, f, v.out) /\ v.seen = e.seen /\ v.open = e.open
  <2>1. Wrote(e, w, f, v)
    BY ONLY <1>1, <1>2, <1>3, v = Write(e, <<f>>), Write1
  <2> QED
    BY <2>1 DEF Wrote
<1>5. f.t \notin Ending
  BY DEF Plain
<1> QED
  BY <1>1, <1>4, <1>5, WrittenMore

(* Two frames are written one after the other.                             *)
LEMMA TwoFrames ==
  ASSUME NEW e, IsEncoder(e), Framed(e.out), NEW f, NEW g
  PROVE  Write(e, <<f, g>>) = Write(Write(e, <<f>>), <<g>>)
<1>1. PICK w : w = e.out
  OBVIOUS
<1>2. PICK S : w \in Seq(S)
  BY <1>1 DEF Framed
<1>3. PICK T : T = S \cup {f, g}
  OBVIOUS
<1>4. w \in Seq(T) /\ <<f>> \in Seq(T) /\ <<g>> \in Seq(T)
  <2>1. S \subseteq T /\ f \in T /\ g \in T
    BY <1>3
  <2>2. w \in Seq(T)
    BY <1>2, <2>1, SeqWider
  <2> QED
    BY <2>1, <2>2
<1>5. w \o (<<f>> \o <<g>>) = (w \o <<f>>) \o <<g>>
  BY <1>4, ConcatAssociative
<1>6. <<f>> \o <<g>> = <<f, g>>
  BY OneAfterAnother
<1>7. PICK x, y : x = w \o <<f>> /\ y = x \o <<g>>
  OBVIOUS
<1>8. w \o <<f, g>> = y
  BY <1>5, <1>6, <1>7
<1>9. Write(e, <<f, g>>) = [e EXCEPT !.out = y]
  BY <1>1, <1>8 DEF Write
<1>10. PICK v : v = [e EXCEPT !.out = x]
  OBVIOUS
<1>11. Write(e, <<f>>) = v /\ v.out = x
  BY <1>1, <1>7, <1>10 DEF Write, IsEncoder
<1>12. Write(v, <<g>>) = [v EXCEPT !.out = y]
  BY <1>7, <1>11 DEF Write
<1>13. [v EXCEPT !.out = y] = [e EXCEPT !.out = y]
  BY <1>10 DEF IsEncoder
<1> QED
  BY <1>9, <1>11, <1>12, <1>13

-------------------------------------------------------------------------------
(* Responses                                                               *)

ResponsesKnows(e, a) == WrittenOf(e, a) /\ Mirrors(e.out, a)

LEMMA ItemWritesNothing ==
  ASSUME NEW e, IsEncoder(e), NEW i, NEW k PROVE IsEncoder(Item(e, i, k)) /\ Item(e, i, k).out = e.out
BY DEF Item, IsEncoder

LEMMA GrownWritesNothing ==
  ASSUME NEW e, IsEncoder(e), NEW i, NEW d PROVE IsEncoder(Grown(e, i, d)) /\ Grown(e, i, d).out = e.out
<1>1. PICK x : x = [e.seen EXCEPT ![Ordinal(e, i)].d = @ \o d]
  OBVIOUS
<1>2. Grown(e, i, d) = [e EXCEPT !.seen = x]
  BY <1>1 DEF Grown
<1> QED
  BY <1>2 DEF IsEncoder

LEMMA ResponsesStep ==
  ASSUME NEW e, NEW a, ResponsesKnows(e, a), NEW ev \in Events, Fits(a, ev), NEW c, Says(a, ev, c), ev.t # "error"
  PROVE  ResponsesKnows(ResponsesEncode(e, ev), c)
<1>1. WrittenOf(e, a) /\ Mirrors(e.out, a) /\ IsEncoder(e)
  BY DEF ResponsesKnows, WrittenOf
<1>2. ev.t \in {"start", "open", "delta", "close", "done"}
  BY DEF Events
<1>3. PICK m : m = Item(e, ev.i, ev.k)
  OBVIOUS
<1>4. IsEncoder(m) /\ m.out = e.out
  BY <1>1, <1>3, ItemWritesNothing
<1>5. ASSUME NEW u, IsEncoder(u), u.out = e.out, NEW f, SameAct(f, ev), f.t \notin Ending, ev.t # "done",
             ResponsesEncode(e, ev) = Write(u, <<f>>)
      PROVE  ResponsesKnows(ResponsesEncode(e, ev), c)
  <2>1. PICK v : v = Write(u, <<f>>)
    OBVIOUS
  <2>2. ev.t \notin {"done", "error"}
    BY <1>5
  <2>3. WrittenOf(v, c) /\ Mirrors(v.out, c)
    BY <1>1, <1>5, <2>1, <2>2, ActWritten
  <2> QED
    BY <1>5, <2>1, <2>3 DEF ResponsesKnows
<1>6. CASE ev.t = "start"
  <2>1. PICK f : f = Frame("response.created", "none", -1, <<>>)
    OBVIOUS
  <2>2. f.t = "response.created"
    BY <2>1 DEF Frame, Event
  <2>3. SameAct(f, ev) /\ f.t \notin Ending
    BY <1>6, <2>2 DEF SameAct, Announcing, Growing, Closing, Ending, Successful
  <2>4. ResponsesEncode(e, ev) = Write(e, <<f>>)
    BY <1>6, <2>1 DEF ResponsesEncode
  <2> QED
    BY <1>1, <1>5, <1>6, <2>3, <2>4
<1>7. CASE ev.t = "open"
  <2>1. PICK f : f = Frame("output_item.added", ev.k, ev.i, <<>>)
    OBVIOUS
  <2>2. f.t = "output_item.added" /\ f.k = ev.k /\ f.i = ev.i
    BY <2>1 DEF Frame, Event
  <2>3. SameAct(f, ev) /\ f.t \notin Ending
    BY <1>7, <2>2 DEF SameAct, Announcing, Growing, Closing, Ending, Successful
  <2>4. ResponsesEncode(e, ev) = Write(m, <<f>>)
    BY <1>3, <1>7, <2>1 DEF ResponsesEncode
  <2> QED
    BY <1>4, <1>5, <1>7, <2>3, <2>4
<1>8. CASE ev.t = "delta"
  <2>1. PICK f : f = Frame("output.delta", ev.k, ev.i, ev.d)
    OBVIOUS
  <2>2. f.t = "output.delta" /\ f.k = ev.k /\ f.i = ev.i
    BY <2>1 DEF Frame, Event
  <2>3. SameAct(f, ev) /\ f.t \notin Ending
    BY <1>8, <2>2 DEF SameAct, Announcing, Growing, Closing, Ending, Successful
  <2>4. PICK u : u = Grown(m, ev.i, ev.d)
    OBVIOUS
  <2>5. IsEncoder(u) /\ u.out = e.out
    BY <1>4, <2>4, GrownWritesNothing
  <2>6. ResponsesEncode(e, ev) = Write(u, <<f>>)
    BY <1>3, <1>8, <2>1, <2>4 DEF ResponsesEncode
  <2> QED
    BY <1>5, <1>8, <2>3, <2>5, <2>6
<1>9. CASE ev.t = "close"
  <2>1. PICK f : f = Frame("output_item.done", ev.k, ev.i, Kept(m, ev))
    OBVIOUS
  <2>2. f.t = "output_item.done" /\ f.k = ev.k /\ f.i = ev.i
    BY <2>1 DEF Frame, Event
  <2>3. SameAct(f, ev) /\ f.t \notin Ending
    BY <1>9, <2>2 DEF SameAct, Announcing, Growing, Closing, Ending, Successful
  <2>4. PICK u : u = [m EXCEPT !.completed = {x \in m.completed : x.i # ev.i} \cup {f}]
    OBVIOUS
  <2>5. IsEncoder(u) /\ u.out = e.out
    BY <1>4, <2>4 DEF IsEncoder
  <2>6. ResponsesEncode(e, ev) = Write(u, <<f>>)
    BY <1>3, <1>9, <2>1, <2>4 DEF ResponsesEncode
  <2> QED
    BY <1>5, <1>9, <2>3, <2>5, <2>6
<1>10. CASE ev.t = "done"
  <2>1. PICK f : f = Frame(ResponseStatus(ev.k), "none", -1, ResponseShell(e))
    OBVIOUS
  <2>2. f.t = ResponseStatus(ev.k)
    BY <2>1 DEF Frame, Event
  <2>3. f.t \in Successful /\ f.t \notin Announcing /\ f.t \notin Closing
    BY <2>2 DEF ResponseStatus, Announcing, Closing, Successful
  <2>4. PICK v : v = Write(e, <<f>>)
    OBVIOUS
  <2>5. ResponsesEncode(e, ev) = v
    BY <1>10, <2>1, <2>4 DEF ResponsesEncode
  <2>6. WrittenOf(v, c) /\ Longer(e.out, f, v.out)
    BY <1>1, <1>10, <2>3, <2>4, EndWritten
  <2>7. Mirrors(v.out, c)
    BY <1>1, <1>10, <2>3, <2>6 DEF Mirrors, Longer, Says
  <2> QED
    BY <2>5, <2>6, <2>7 DEF ResponsesKnows
<1> QED
  BY <1>2, <1>6, <1>7, <1>8, <1>9, <1>10

-------------------------------------------------------------------------------
(* Messages                                                                *)

(* The blocks it remembers are those that have been opened, and the open   *)
(* ones those of them that have not been closed.                           *)
BlocksOf(e, a) ==
  /\ Framed(e.seen)
  /\ \A i : Seen(e, i) <=> \E k : Opens(a, i, k)
  /\ \A i : i \in e.open <=> (\E k : Opens(a, i, k)) /\ ~Shuts(a, i)
  /\ \A i : Shuts(a, i) => \E k : Opens(a, i, k)
MessagesKnows(e, a) == WrittenOf(e, a) /\ Mirrors(e.out, a) /\ BlocksOf(e, a)

MoreSeen(e, i, v) == Framed(v.seen) /\ \A j : Seen(v, j) <=> Seen(e, j) \/ j = i
LEMMA SeenMore ==
  ASSUME NEW e, Framed(e.seen), NEW i, NEW k, NEW v, v.seen = Append(e.seen, [i |-> i, k |-> k, d |-> <<>>])
  PROVE  MoreSeen(e, i, v)
<1>1. PICK x, s, y : x = [i |-> i, k |-> k, d |-> <<>>] /\ s = e.seen /\ y = v.seen
  OBVIOUS
<1>2. x.i = i
  BY <1>1
<1>3. OneLonger(s, x, y)
  BY <1>1, OneLongerAppend
<1>4. \A n : n \in DOMAIN y <=> n \in DOMAIN s \/ n = Len(s) + 1
  BY <1>3 DEF OneLonger
<1>5. y[Len(s) + 1] = x /\ \A n \in DOMAIN s : y[n] = s[n]
  BY <1>3 DEF OneLonger
<1>6. \A j : (\E n \in DOMAIN y : y[n].i = j) <=> (\E n \in DOMAIN s : s[n].i = j) \/ j = i
  BY <1>2, <1>4, <1>5
<1> QED
  BY <1>1, <1>3, <1>6 DEF MoreSeen, Seen, OneLonger

(* Nothing is stopped by Done when no block is open.                       *)
LEMMA NothingToStop == ASSUME NEW e, e.open = {} PROVE StopBlocks(e) = e
<1> DEFINE G(g, x) == IF x = {} THEN e ELSE StopBlock(g[x \ {Max(x)}], Max(x))
           IsFold(g) == g = [x \in SUBSET e.open |-> G(g, x)]
<1>1. \E g : IsFold(g)
  <2>1. PICK g : g = [x \in SUBSET e.open |-> e]
    OBVIOUS
  <2>2. \A x \in SUBSET e.open : G(g, x) = e
    OBVIOUS
  <2> HIDE DEF G
  <2>3. g = [x \in SUBSET e.open |-> G(g, x)]
    BY <2>1, <2>2
  <2> QED
    BY ONLY <2>3, Zenon DEF IsFold
<1>2. PICK g : g = (CHOOSE h : IsFold(h))
  OBVIOUS
<1>3. IsFold(g)
  BY <1>1, <1>2
<1>4. g[e.open] = e
  <2>1. e.open \in SUBSET e.open
    OBVIOUS
  <2>2. g[e.open] = G(g, e.open)
    BY <1>3, <2>1
  <2> QED
    BY <2>2
<1>5. StopBlocks(e) = (CHOOSE h : IsFold(h))[e.open]
  BY DEF StopBlocks, MapThenFoldSet
<1> QED
  BY <1>2, <1>4, <1>5

LEMMA BlocksSame ==
  ASSUME NEW e, NEW a, BlocksOf(e, a), NEW v, v.seen = e.seen, v.open = e.open,
         NEW ev, NEW c, Says(a, ev, c), ev.t \notin {"open", "close"}
  PROVE  BlocksOf(v, c)
<1>1. (\A i, k : Opens(c, i, k) <=> Opens(a, i, k)) /\ \A i : Shuts(c, i) <=> Shuts(a, i)
  BY DEF Says
<1>2. \A i : Seen(v, i) <=> Seen(e, i)
  BY DEF Seen
<1> QED
  BY <1>1, <1>2 DEF BlocksOf

LEMMA MessagesStep ==
  ASSUME NEW e, NEW a, MessagesKnows(e, a), NEW ev \in Events, Fits(a, ev), NEW c, Says(a, ev, c), ev.t # "error"
  PROVE  MessagesKnows(MessagesEncode(e, ev), c)
<1>1. WrittenOf(e, a) /\ Mirrors(e.out, a) /\ IsEncoder(e) /\ BlocksOf(e, a)
  BY DEF MessagesKnows, WrittenOf
<1>2. ev.t \in {"start", "open", "delta", "close", "done"}
  BY DEF Events
<1>3. ASSUME NEW u, IsEncoder(u), u.out = e.out, NEW f, SameAct(f, ev), f.t \notin Ending, ev.t # "done",
             NEW v, v = Write(u, <<f>>)
      PROVE  WrittenOf(v, c) /\ Mirrors(v.out, c) /\ v.seen = u.seen /\ v.open = u.open
  <2>1. ev.t \notin {"done", "error"}
    BY <1>3
  <2> QED
    BY <1>1, <1>3, <2>1, ActWritten
<1>4. CASE ev.t = "start"
  <2>1. PICK f : f = Frame("message_start", "none", -1, <<>>)
    OBVIOUS
  <2>2. f.t = "message_start"
    BY <2>1 DEF Frame, Event
  <2>3. SameAct(f, ev) /\ f.t \notin Ending
    BY <1>4, <2>2 DEF SameAct, Announcing, Growing, Closing, Ending, Successful
  <2>4. PICK v : v = Write(e, <<f>>)
    OBVIOUS
  <2>5. MessagesEncode(e, ev) = v
    BY <1>4, <2>1, <2>4 DEF MessagesEncode
  <2>6. WrittenOf(v, c) /\ Mirrors(v.out, c) /\ v.seen = e.seen /\ v.open = e.open
    BY <1>1, <1>3, <1>4, <2>3, <2>4
  <2>7. BlocksOf(v, c)
    BY <1>1, <1>4, <2>6, BlocksSame
  <2> QED
    BY <2>5, <2>6, <2>7 DEF MessagesKnows
<1>5. CASE ev.t = "open"
  <2>1. PICK f : f = Frame("content_block_start", ev.k, ev.i, <<>>)
    OBVIOUS
  <2>2. f.t = "content_block_start" /\ f.k = ev.k /\ f.i = ev.i
    BY <2>1 DEF Frame, Event
  <2>3. SameAct(f, ev) /\ f.t \notin Ending
    BY <1>5, <2>2 DEF SameAct, Announcing, Growing, Closing, Ending, Successful
  <2>4. PICK s, o : s = Append(e.seen, [i |-> ev.i, k |-> ev.k, d |-> <<>>]) /\ o = e.open \cup {ev.i}
    OBVIOUS
  <2>5. PICK u : u = [e EXCEPT !.seen = s, !.open = o]
    OBVIOUS
  <2>6. IsEncoder(u) /\ u.out = e.out /\ u.seen = s /\ u.open = o
    BY <1>1, <2>5 DEF IsEncoder
  <2>7. PICK v : v = Write(u, <<f>>)
    OBVIOUS
  <2>8. \A k : ~Opens(a, ev.i, k)
    BY <1>5 DEF Fits
  <2>9. ~Seen(e, ev.i)
    BY <1>1, <2>8 DEF BlocksOf
  <2>10. EnsureStarted(e, ev.i, ev.k) = v
    BY <2>1, <2>4, <2>5, <2>7, <2>9 DEF EnsureStarted
  <2>11. MessagesEncode(e, ev) = v
    BY <1>5, <2>10 DEF MessagesEncode
  <2>12. WrittenOf(v, c) /\ Mirrors(v.out, c) /\ v.seen = s /\ v.open = o
    BY <1>3, <1>5, <2>3, <2>6, <2>7
  <2>13. (\A i, k : Opens(c, i, k) <=> Opens(a, i, k) \/ (ev.i = i /\ ev.k = k)) /\ \A i : Shuts(c, i) <=> Shuts(a, i)
    BY <1>5 DEF Says
  <2>14. Framed(v.seen) /\ \A j : Seen(v, j) <=> Seen(e, j) \/ j = ev.i
    <3>1. Framed(e.seen)
      BY <1>1 DEF BlocksOf
    <3>2. v.seen = Append(e.seen, [i |-> ev.i, k |-> ev.k, d |-> <<>>])
      BY <2>4, <2>12
    <3>3. MoreSeen(e, ev.i, v)
      BY ONLY <3>1, <3>2, SeenMore
    <3> QED
      BY <3>3 DEF MoreSeen
  <2>15. \A i : (\E k : Opens(c, i, k)) <=> (\E k : Opens(a, i, k)) \/ i = ev.i
    BY <2>13
  <2>16. \A i : Seen(v, i) <=> \E k : Opens(c, i, k)
    BY <1>1, <2>14, <2>15 DEF BlocksOf
  <2>17. \A i : Shuts(c, i) => \E k : Opens(c, i, k)
    BY <1>1, <2>13, <2>15 DEF BlocksOf
  <2>18. ~Shuts(a, ev.i)
    BY <1>1, <2>8 DEF BlocksOf
  <2>19. \A i : i \in v.open <=> (\E k : Opens(c, i, k)) /\ ~Shuts(c, i)
    <3>1. \A i : i \in v.open <=> i \in e.open \/ i = ev.i
      BY <2>4, <2>12
    <3>2. \A i : i \in e.open <=> (\E k : Opens(a, i, k)) /\ ~Shuts(a, i)
      BY <1>1 DEF BlocksOf
    <3> QED
      BY <2>13, <2>15, <2>18, <3>1, <3>2
  <2>20. BlocksOf(v, c)
    BY <2>14, <2>16, <2>17, <2>19 DEF BlocksOf
  <2> QED
    BY <2>11, <2>12, <2>20 DEF MessagesKnows
<1>6. CASE ev.t = "delta"
  <2>1. PICK f : f = Frame("content_block_delta", ev.k, ev.i, ev.d)
    OBVIOUS
  <2>2. f.t = "content_block_delta" /\ f.k = ev.k /\ f.i = ev.i
    BY <2>1 DEF Frame, Event
  <2>3. SameAct(f, ev) /\ f.t \notin Ending
    BY <1>6, <2>2 DEF SameAct, Announcing, Growing, Closing, Ending, Successful
  <2>4. PICK v : v = Write(e, <<f>>)
    OBVIOUS
  <2>5. Seen(e, ev.i)
    BY <1>1, <1>6 DEF Fits, BlocksOf
  <2>6. MessagesEncode(e, ev) = v
    BY <1>6, <2>1, <2>4, <2>5 DEF MessagesEncode, EnsureStarted
  <2>7. WrittenOf(v, c) /\ Mirrors(v.out, c) /\ v.seen = e.seen /\ v.open = e.open
    BY <1>1, <1>3, <1>6, <2>3, <2>4
  <2>8. BlocksOf(v, c)
    BY <1>1, <1>6, <2>7, BlocksSame
  <2> QED
    BY <2>6, <2>7, <2>8 DEF MessagesKnows
<1>7. CASE ev.t = "close"
  <2>1. PICK f : f = Frame("content_block_stop", "none", ev.i, <<>>)
    OBVIOUS
  <2>2. f.t = "content_block_stop" /\ f.i = ev.i
    BY <2>1 DEF Frame, Event
  <2>3. SameAct(f, ev) /\ f.t \notin Ending
    BY <1>7, <2>2 DEF SameAct, Announcing, Growing, Closing, Ending, Successful
  <2>4. PICK o : o = e.open \ {ev.i}
    OBVIOUS
  <2>5. PICK u : u = [e EXCEPT !.open = o]
    OBVIOUS
  <2>6. IsEncoder(u) /\ u.out = e.out /\ u.seen = e.seen /\ u.open = o
    BY <1>1, <2>5 DEF IsEncoder
  <2>7. PICK v : v = Write(u, <<f>>)
    OBVIOUS
  <2>8. Opens(a, ev.i, ev.k) /\ ~Shuts(a, ev.i)
    BY <1>7 DEF Fits
  <2>9. ev.i \in e.open
    BY <1>1, <2>8 DEF BlocksOf
  <2>10. StopBlock(e, ev.i) = v
    BY <2>1, <2>4, <2>5, <2>7, <2>9 DEF StopBlock
  <2>11. MessagesEncode(e, ev) = v
    BY <1>7, <2>10 DEF MessagesEncode
  <2>12. WrittenOf(v, c) /\ Mirrors(v.out, c) /\ v.seen = e.seen /\ v.open = o
    BY <1>3, <1>7, <2>3, <2>6, <2>7
  <2>13. (\A i, k : Opens(c, i, k) <=> Opens(a, i, k)) /\ \A i : Shuts(c, i) <=> Shuts(a, i) \/ ev.i = i
    BY <1>7 DEF Says
  <2>14. \A i : Seen(v, i) <=> Seen(e, i)
    BY <2>12 DEF Seen
  <2>15. BlocksOf(v, c)
    BY <1>1, <2>4, <2>8, <2>12, <2>13, <2>14 DEF BlocksOf
  <2> QED
    BY <2>11, <2>12, <2>15 DEF MessagesKnows
<1>8. CASE ev.t = "done"
  <2>1. PICK f, g : f = Frame("message_delta", ev.k, -1, <<>>) /\ g = Frame("message_stop", "none", -1, <<>>)
    OBVIOUS
  <2>2. f.t = "message_delta" /\ g.t = "message_stop"
    BY <2>1 DEF Frame, Event
  <2>3. /\ Plain(f) /\ f.t \notin Ending /\ f.t \notin Announcing /\ f.t \notin Closing
        /\ g.t \in Successful /\ g.t \notin Announcing /\ g.t \notin Closing
    BY <2>2 DEF Plain, Announcing, Growing, Closing, Ending, Successful
  <2>4. e.open = {}
    BY <1>1, <1>8 DEF BlocksOf, Fits
  <2>5. MessagesEncode(e, ev) = Write(e, <<f, g>>)
    <3>1. StopBlocks(e) = e
      BY <2>4, NothingToStop
    <3> QED
      BY <1>8, <2>1, <3>1 DEF MessagesEncode, MessagesDone
  <2>6. PICK v : v = Write(e, <<f>>)
    OBVIOUS
  <2>7. PICK y : y = Write(v, <<g>>)
    OBVIOUS
  <2>8. MessagesEncode(e, ev) = y
    BY <1>1, <2>5, <2>6, <2>7, TwoFrames DEF WrittenOf
  <2>9. ~Over(a)
    BY DEF Fits
  <2>10. WrittenOf(v, a) /\ Longer(e.out, f, v.out) /\ v.seen = e.seen /\ v.open = e.open
    BY <1>1, <2>3, <2>6, <2>9, PlainWritten
  <2>11. WrittenOf(y, c) /\ Longer(v.out, g, y.out) /\ y.seen = v.seen /\ y.open = v.open
    BY <1>8, <2>3, <2>7, <2>10, EndWritten
  <2>12. (\A i, k : Opens(c, i, k) <=> Opens(a, i, k)) /\ \A i : Shuts(c, i) <=> Shuts(a, i)
    BY <1>8 DEF Says
  <2>13. Mirrors(y.out, c)
    BY <1>1, <2>3, <2>10, <2>11, <2>12 DEF Mirrors, Longer
  <2>14. BlocksOf(y, c)
    BY <1>1, <1>8, <2>10, <2>11, BlocksSame
  <2> QED
    BY <2>8, <2>11, <2>13, <2>14 DEF MessagesKnows
<1> QED
  BY <1>2, <1>4, <1>5, <1>6, <1>7, <1>8

-------------------------------------------------------------------------------
(* Chat Completions                                                        *)

(* The tool calls it remembers are those that have been opened; each is    *)
(* announced under its ordinal.                                            *)
CallsOf(e, a) ==
  /\ Framed(e.seen)
  /\ \A i : Seen(e, i) <=> Opens(a, i, "tool")
  /\ \A n : ~Closes(e.out, n)
  /\ \A n, k : AnnouncesAs(e.out, n, k) <=> n \in DOMAIN e.seen /\ k = "tool"
ChatKnows(e, a) == WrittenOf(e, a) /\ CallsOf(e, a)

LEMMA RoleWritten ==
  ASSUME NEW e, NEW a, ChatKnows(e, a), NEW u, u = [e EXCEPT !.role = TRUE] PROVE ChatKnows(u, a)
<1>1. IsEncoder(e)
  BY DEF ChatKnows, WrittenOf
<1>2. IsEncoder(u) /\ u.out = e.out /\ u.seen = e.seen
  BY <1>1 DEF IsEncoder
<1>3. WrittenOf(u, a)
  BY <1>2 DEF ChatKnows, WrittenOf
<1>4. \A i : Seen(u, i) <=> Seen(e, i)
  BY <1>2 DEF Seen
<1>5. CallsOf(e, a)
  BY DEF ChatKnows
<1>6. CallsOf(u, a)
  <2>1. (\A n : ~Closes(u.out, n)) /\ \A n, k : AnnouncesAs(u.out, n, k) <=> n \in DOMAIN u.seen /\ k = "tool"
    <3>1. PICK o, s : o = e.out /\ s = e.seen
      OBVIOUS
    <3>2. (\A n : ~Closes(o, n)) /\ \A n, k : AnnouncesAs(o, n, k) <=> n \in DOMAIN s /\ k = "tool"
      BY <1>5, <3>1 DEF CallsOf
    <3>3. u.out = o /\ u.seen = s
      BY <1>2, <3>1
    <3> QED
      BY ONLY <3>2, <3>3
  <2> QED
    BY <1>2, <1>4, <1>5, <2>1 DEF CallsOf
<1> QED
  BY <1>3, <1>6 DEF ChatKnows

LEMMA PlainChat ==
  ASSUME NEW e, NEW a, ChatKnows(e, a), ~Over(a), NEW f, Plain(f), NEW v, v = Write(e, <<f>>) PROVE ChatKnows(v, a)
<1>1. WrittenOf(v, a) /\ Longer(e.out, f, v.out) /\ v.seen = e.seen
  BY PlainWritten DEF ChatKnows
<1>2. \A i : Seen(v, i) <=> Seen(e, i)
  BY <1>1 DEF Seen
<1>3. (\A n : ~Closes(v.out, n)) /\ \A n, k : AnnouncesAs(v.out, n, k) <=> AnnouncesAs(e.out, n, k)
  BY <1>1 DEF ChatKnows, CallsOf, Longer, Plain
<1> QED
  BY <1>1, <1>2, <1>3 DEF ChatKnows, CallsOf

LEMMA ChatOn ==
  ASSUME NEW e, NEW a, ChatKnows(e, a), NEW ev, Fits(a, ev), NEW c, Says(a, ev, c), ev.t \notin {"done", "error"},
         ev.t = "open" => ev.k # "tool"
  PROVE  ChatKnows(e, c)
<1>1. WrittenOf(e, c)
  BY WrittenNext DEF ChatKnows
<1>2. \A i : Opens(c, i, "tool") <=> Opens(a, i, "tool")
  BY DEF Says
<1> QED
  BY <1>1, <1>2 DEF ChatKnows, CallsOf

LEMMA NewOrdinal ==
  ASSUME NEW e, Framed(e.seen), NEW i, ~Seen(e, i),
         NEW m, m.seen = Append(e.seen, [i |-> i, k |-> "tool", d |-> <<>>])
  PROVE  /\ Ordinal(m, i) \notin DOMAIN e.seen
         /\ \A n : n \in DOMAIN m.seen <=> n \in DOMAIN e.seen \/ n = Ordinal(m, i)
<1>1. PICK x, s, y : x = [i |-> i, k |-> "tool", d |-> <<>>] /\ s = e.seen /\ y = m.seen
  OBVIOUS
<1>2. OneLonger(s, x, y)
  BY <1>1, OneLongerAppend
<1>3. PICK l : l = Len(s) + 1
  OBVIOUS
<1>4. /\ \A n : n \in DOMAIN y <=> n \in DOMAIN s \/ n = l
      /\ l \notin DOMAIN s /\ y[l] = x /\ \A n \in DOMAIN s : y[n] = s[n]
  BY <1>2, <1>3 DEF OneLonger
<1>5. \A n \in DOMAIN y : y[n].i = i <=> n = l
  BY <1>1, <1>4 DEF Seen
<1>6. PICK o : o = Ordinal(m, i)
  OBVIOUS
<1>7. o \in DOMAIN y /\ y[o].i = i
  <2>1. \E n \in DOMAIN y : y[n].i = i
    BY <1>4, <1>5
  <2> QED
    BY <1>1, <1>6, <2>1 DEF Ordinal
<1> QED
  BY <1>1, <1>4, <1>5, <1>6, <1>7

LEMMA ChatOpensCall ==
  ASSUME NEW e, NEW a, ChatKnows(e, a), NEW ev, Fits(a, ev), NEW c, Says(a, ev, c), ev.t = "open", ev.k = "tool",
         NEW m, m = ChatTool(e, ev), NEW f, f = Frame("tool", "tool", Ordinal(m, ev.i), <<>>),
         NEW v, v = Write(m, <<f>>)
  PROVE  ChatKnows(v, c)
<1>1. WrittenOf(e, a) /\ CallsOf(e, a) /\ IsEncoder(e) /\ ~Over(a)
  BY DEF ChatKnows, WrittenOf, Fits
<1>2. ~Seen(e, ev.i)
  BY <1>1 DEF CallsOf, Fits
<1>3. PICK s : s = Append(e.seen, [i |-> ev.i, k |-> "tool", d |-> <<>>])
  OBVIOUS
<1>4. m = [e EXCEPT !.seen = s]
  BY <1>2, <1>3 DEF ChatTool
<1>5. IsEncoder(m) /\ m.out = e.out /\ m.seen = s
  BY <1>1, <1>4 DEF IsEncoder
<1>6. PICK o : o = Ordinal(m, ev.i)
  OBVIOUS
<1>7. f.t = "tool" /\ f.k = "tool" /\ f.i = o
  BY <1>6 DEF Frame, Event
<1>8. f.t \in Announcing /\ f.t \notin Growing \cup Closing \cup Ending
  BY <1>7 DEF Announcing, Growing, Closing, Ending, Successful
<1>9. Framed(e.seen) /\ m.seen = Append(e.seen, [i |-> ev.i, k |-> "tool", d |-> <<>>])
  BY <1>1, <1>3, <1>5 DEF CallsOf
<1>10. o \notin DOMAIN e.seen /\ \A n : n \in DOMAIN m.seen <=> n \in DOMAIN e.seen \/ n = o
  BY <1>2, <1>6, <1>9, NewOrdinal
<1>11. MoreSeen(e, ev.i, m)
  BY ONLY <1>9, SeenMore
<1>12. PICK w : w = m.out
  OBVIOUS
<1>13. FrameFits(w, f)
  <2>1. ~Ended(w)
    BY <1>1, <1>5, <1>12, NotEnded
  <2>2. \A k : ~AnnouncesAs(w, f.i, k)
    BY <1>1, <1>5, <1>7, <1>10, <1>12 DEF CallsOf
  <2> QED
    BY <1>8, <2>1, <2>2 DEF FrameFits
<1>14. IsEncoder(v) /\ Longer(w, f, v.out) /\ v.seen = m.seen
  <2>1. Framed(w) /\ BlocksInOrder(w)
    BY <1>1, <1>5, <1>12 DEF WrittenOf
  <2>2. Wrote(m, w, f, v)
    BY ONLY <1>5, <1>12, <1>13, <2>1, v = Write(m, <<f>>), Write1
  <2> QED
    BY <2>2 DEF Wrote
<1>15. WrittenOf(v, c)
  <2>1. WrittenOf(v, a)
    BY <1>1, <1>5, <1>8, <1>12, <1>14, WrittenMore
  <2> QED
    BY <2>1, WrittenNext
<1>16. \A i : Seen(v, i) <=> Opens(c, i, "tool")
  <2>1. \A i : Seen(v, i) <=> Seen(m, i)
    BY <1>14 DEF Seen
  <2>2. \A i : Opens(c, i, "tool") <=> Opens(a, i, "tool") \/ i = ev.i
    BY DEF Says
  <2>3. \A i : Seen(m, i) <=> Seen(e, i) \/ i = ev.i
    BY <1>11 DEF MoreSeen
  <2> QED
    BY <1>1, <2>1, <2>2, <2>3 DEF CallsOf
<1>17. \A n : ~Closes(v.out, n)
  BY <1>1, <1>5, <1>8, <1>12, <1>14 DEF CallsOf, Longer
<1>18. \A n, k : AnnouncesAs(v.out, n, k) <=> n \in DOMAIN v.seen /\ k = "tool"
  <2>1. \A n, k : AnnouncesAs(v.out, n, k) <=> AnnouncesAs(w, n, k) \/ (n = o /\ k = "tool")
    BY <1>7, <1>8, <1>14 DEF Longer
  <2>2. \A n, k : AnnouncesAs(w, n, k) <=> n \in DOMAIN e.seen /\ k = "tool"
    BY <1>1, <1>5, <1>12 DEF CallsOf
  <2> QED
    BY <1>10, <1>14, <2>1, <2>2
<1>19. Framed(v.seen)
  BY <1>11, <1>14 DEF MoreSeen
<1> QED
  BY <1>15, <1>16, <1>17, <1>18, <1>19 DEF ChatKnows, CallsOf

LEMMA ChatGrowsCall ==
  ASSUME NEW e, NEW a, ChatKnows(e, a), NEW ev, Fits(a, ev), ev.t = "delta", ev.k = "tool",
         NEW f, f = Frame("args", "tool", Ordinal(e, ev.i), ev.d), NEW v, v = Write(e, <<f>>)
  PROVE  Seen(e, ev.i) /\ ChatKnows(v, a)
<1>1. WrittenOf(e, a) /\ CallsOf(e, a) /\ IsEncoder(e) /\ ~Over(a)
  BY DEF ChatKnows, WrittenOf, Fits
<1>2. Seen(e, ev.i)
  BY <1>1 DEF CallsOf, Fits
<1>3. PICK o : o = Ordinal(e, ev.i)
  OBVIOUS
<1>4. o \in DOMAIN e.seen
  BY <1>2, <1>3 DEF Seen, Ordinal
<1>5. f.t = "args" /\ f.k = "tool" /\ f.i = o
  BY <1>3 DEF Frame, Event
<1>6. f.t \in Growing /\ f.t \notin Announcing \cup Closing \cup Ending
  BY <1>5 DEF Announcing, Growing, Closing, Ending, Successful
<1>7. PICK w : w = e.out
  OBVIOUS
<1>8. \A k : AnnouncesAs(w, f.i, k) <=> k = "tool"
  BY <1>1, <1>4, <1>5, <1>7 DEF CallsOf
<1>9. FrameFits(w, f)
  <2>1. ~Ended(w) /\ ~Closes(w, f.i)
    BY <1>1, <1>7, NotEnded DEF CallsOf
  <2> QED
    BY <1>5, <1>6, <1>8, <2>1 DEF FrameFits
<1>10. IsEncoder(v) /\ Longer(w, f, v.out) /\ v.seen = e.seen
  <2>1. Framed(w) /\ BlocksInOrder(w)
    BY <1>1, <1>7 DEF WrittenOf
  <2>2. Wrote(e, w, f, v)
    BY ONLY <1>1, <1>7, <1>9, <2>1, v = Write(e, <<f>>), Write1
  <2> QED
    BY <2>2 DEF Wrote
<1>11. WrittenOf(v, a)
  BY <1>1, <1>6, <1>7, <1>10, WrittenMore
<1>12. \A i : Seen(v, i) <=> Seen(e, i)
  BY <1>10 DEF Seen
<1>13. (\A n : ~Closes(v.out, n)) /\ \A n, k : AnnouncesAs(v.out, n, k) <=> AnnouncesAs(e.out, n, k)
  BY <1>1, <1>6, <1>7, <1>10 DEF CallsOf, Longer
<1> QED
  BY <1>1, <1>2, <1>10, <1>11, <1>12, <1>13 DEF ChatKnows, CallsOf

LEMMA ChatTalks ==
  ASSUME NEW e, NEW a, ChatKnows(e, a), NEW ev, Fits(a, ev), ev.t = "delta", ev.k # "tool"
  PROVE  ChatKnows(ChatEncode(e, ev), a)
<1>1. PICK u : u = [e EXCEPT !.role = TRUE]
  OBVIOUS
<1>2. ChatKnows(u, a) /\ ~Over(a)
  BY <1>1, RoleWritten DEF Fits
<1>3. PICK r, f : r = Frame("role", "none", -1, <<>>) /\ f = Frame("content", ev.k, -1, ev.d)
  OBVIOUS
<1>4. r.t = "role" /\ f.t = "content"
  BY <1>3 DEF Frame, Event
<1>5. Plain(r) /\ Plain(f)
  BY <1>4 DEF Plain, Announcing, Growing, Closing, Ending, Successful
<1>6. ChatEncode(e, ev) = Write(u, (IF e.role THEN <<>> ELSE <<r>>) \o <<f>>)
  BY <1>1, <1>3 DEF ChatEncode
<1>7. CASE e.role
  <2>1. <<>> \o <<f>> = <<f>>
    OBVIOUS
  <2>2. ChatEncode(e, ev) = Write(u, <<f>>)
    BY <1>6, <1>7, <2>1
  <2> QED
    BY <1>2, <1>5, <2>2, PlainChat
<1>8. CASE ~e.role
  <2>1. ChatEncode(e, ev) = Write(u, <<r>> \o <<f>>)
    BY <1>6, <1>8
  <2>2. PICK v : v = Write(u, <<r>>)
    OBVIOUS
  <2>3. IsEncoder(u) /\ Framed(u.out)
    BY <1>2 DEF ChatKnows, WrittenOf
  <2>4. ChatEncode(e, ev) = Write(v, <<f>>)
    <3>1. <<r>> \o <<f>> = <<r, f>>
      BY OneAfterAnother
    <3>2. Write(u, <<r, f>>) = Write(Write(u, <<r>>), <<f>>)
      BY <2>3, TwoFrames
    <3> QED
      BY <2>1, <2>2, <3>1, <3>2
  <2>5. ChatKnows(v, a)
    BY <1>2, <1>5, <2>2, PlainChat
  <2> QED
    BY <1>2, <1>5, <2>4, <2>5, PlainChat
<1> QED
  BY <1>7, <1>8

LEMMA ChatStep ==
  ASSUME NEW e, NEW a, ChatKnows(e, a), NEW ev \in Events, Fits(a, ev), NEW c, Says(a, ev, c), ev.t # "error"
  PROVE  ChatKnows(ChatEncode(e, ev), c)
<1>1. ev.t \in {"start", "open", "delta", "close", "done"} /\ ~Over(a)
  BY DEF Events, Fits
<1>2. CASE ev.t \in {"start", "close"}
  <2>1. ChatEncode(e, ev) = e
    BY <1>2 DEF ChatEncode
  <2> QED
    BY <1>2, <2>1, ChatOn
<1>3. CASE ev.t = "open" /\ ev.k = "tool"
  <2>1. PICK m : m = ChatTool(e, ev)
    OBVIOUS
  <2>2. PICK f : f = Frame("tool", "tool", Ordinal(m, ev.i), <<>>)
    OBVIOUS
  <2>3. PICK v : v = Write(m, <<f>>)
    OBVIOUS
  <2>4. ChatEncode(e, ev) = v
    BY <1>3, <2>1, <2>2, <2>3 DEF ChatEncode
  <2>5. ChatKnows(v, c)
    BY <1>3, <2>1, <2>2, <2>3, ChatOpensCall
  <2> QED
    BY <2>4, <2>5
<1>4. CASE ev.t = "open" /\ ev.k # "tool"
  <2>1. CASE e.role
    <3>1. ChatEncode(e, ev) = e
      BY <1>4, <2>1 DEF ChatEncode
    <3> QED
      BY <1>4, <3>1, ChatOn
  <2>2. CASE ~e.role
    <3>1. PICK u, r : u = [e EXCEPT !.role = TRUE] /\ r = Frame("role", "none", -1, <<>>)
      OBVIOUS
    <3>2. r.t = "role"
      BY <3>1 DEF Frame, Event
    <3>3. Plain(r)
      BY <3>2 DEF Plain, Announcing, Growing, Closing, Ending, Successful
    <3>4. PICK v : v = Write(u, <<r>>)
      OBVIOUS
    <3>5. ChatEncode(e, ev) = v
      BY <1>4, <2>2, <3>1, <3>4 DEF ChatEncode
    <3>6. ChatKnows(u, a)
      BY <3>1, RoleWritten
    <3>7. ChatKnows(v, a)
      BY <1>1, <3>3, <3>4, <3>6, PlainChat
    <3> QED
      BY <1>4, <3>5, <3>7, ChatOn
  <2> QED
    BY <2>1, <2>2
<1>5. CASE ev.t = "delta" /\ ev.k = "tool"
  <2>1. PICK f : f = Frame("args", "tool", Ordinal(e, ev.i), ev.d)
    OBVIOUS
  <2>2. PICK v : v = Write(e, <<f>>)
    OBVIOUS
  <2>3. Seen(e, ev.i) /\ ChatKnows(v, a)
    BY <1>5, <2>1, <2>2, ChatGrowsCall
  <2>4. ChatEncode(e, ev) = v
    BY <1>5, <2>1, <2>2, <2>3 DEF ChatEncode, ChatTool
  <2> QED
    BY <1>5, <2>3, <2>4, ChatOn
<1>6. CASE ev.t = "delta" /\ ev.k # "tool"
  <2>1. PICK v : v = ChatEncode(e, ev)
    OBVIOUS
  <2>2. ChatKnows(v, a)
    BY <1>6, <2>1, ChatTalks
  <2>3. ChatKnows(v, c)
    BY <1>6, <2>2, ChatOn
  <2> QED
    BY <2>1, <2>3
<1>7. CASE ev.t = "done"
  <2>1. PICK f, g : f = Frame("finish", ev.k, -1, <<>>) /\ g = Frame("[DONE]", "none", -1, <<>>)
    OBVIOUS
  <2>2. f.t = "finish" /\ g.t = "[DONE]"
    BY <2>1 DEF Frame, Event
  <2>3. Plain(f) /\ g.t \in Successful /\ g.t \notin Announcing /\ g.t \notin Closing
    BY <2>2 DEF Plain, Announcing, Growing, Closing, Ending, Successful
  <2>4. PICK v : v = Write(e, <<f>>)
    OBVIOUS
  <2>5. PICK y : y = Write(v, <<g>>)
    OBVIOUS
  <2>6. ChatEncode(e, ev) = Write(e, <<f, g>>)
    BY <1>7, <2>1 DEF ChatEncode
  <2>7. ChatEncode(e, ev) = y
    <3>1. IsEncoder(e) /\ Framed(e.out)
      BY DEF ChatKnows, WrittenOf
    <3> QED
      BY <2>4, <2>5, <2>6, <3>1, TwoFrames
  <2>8. ChatKnows(v, a)
    BY <1>1, <2>3, <2>4, PlainChat
  <2>9. WrittenOf(v, a) /\ CallsOf(v, a)
    BY <2>8 DEF ChatKnows
  <2>10. WrittenOf(y, c) /\ Longer(v.out, g, y.out) /\ y.seen = v.seen
    BY <1>7, <2>3, <2>5, <2>9, EndWritten
  <2>11. \A i : Opens(c, i, "tool") <=> Opens(a, i, "tool")
    BY <1>7 DEF Says
  <2>12. \A i : Seen(y, i) <=> Seen(v, i)
    BY <2>10 DEF Seen
  <2>13. (\A n : ~Closes(y.out, n)) /\ \A n, k : AnnouncesAs(y.out, n, k) <=> AnnouncesAs(v.out, n, k)
    BY <2>3, <2>9, <2>10 DEF CallsOf, Longer
  <2>14. CallsOf(y, c)
    BY <2>9, <2>10, <2>11, <2>12, <2>13 DEF CallsOf
  <2> QED
    BY <2>7, <2>10, <2>14 DEF ChatKnows
<1> QED
  BY <1>1, <1>2, <1>3, <1>4, <1>5, <1>6, <1>7

-------------------------------------------------------------------------------
(* The encoders                                                            *)

EncoderKnows(p, e, a) ==
  /\ p = "chat" => ChatKnows(e, a)
  /\ p = "messages" => MessagesKnows(e, a)
  /\ p = "responses" => ResponsesKnows(e, a)

LEMMA EncoderStarts == ASSUME NEW p \in Protocols PROVE EncoderKnows(p, NewStreamEncoder, <<>>)
<1>1. PICK e, a : e = NewStreamEncoder /\ a = <<>>
  OBVIOUS
<1>2. IsEncoder(e) /\ e.out = <<>> /\ e.seen = <<>> /\ e.open = {}
  BY <1>1 DEF NewStreamEncoder, IsEncoder
<1>3. ~Over(a) /\ \A i, k : ~Opens(a, i, k) /\ ~Shuts(a, i)
  BY <1>1, NothingSaid
<1>4. Framed(<<>>) /\ Len(<<>>) = 0 /\ DOMAIN <<>> = {} /\ 1 .. 0 = {}
  <2>1. <<>> \in Seq(Nat)
    OBVIOUS
  <2>2. Framed(<<>>)
    BY <2>1 DEF Framed
  <2> QED
    BY <2>2
<1>5. WrittenOf(e, a)
  BY <1>2, <1>3, <1>4 DEF WrittenOf, BlocksInOrder
<1>6. (\A i, k : ~AnnouncesAs(e.out, i, k)) /\ (\A i : ~Closes(e.out, i)) /\ \A i : ~Seen(e, i)
  BY <1>2, <1>4 DEF AnnouncesAs, Closes, Seen
<1>7. ChatKnows(e, a)
  BY <1>2, <1>3, <1>4, <1>5, <1>6 DEF ChatKnows, CallsOf
<1>8. Mirrors(e.out, a) /\ BlocksOf(e, a)
  BY <1>2, <1>3, <1>4, <1>6 DEF Mirrors, BlocksOf
<1> QED
  BY <1>1, <1>5, <1>7, <1>8 DEF EncoderKnows, MessagesKnows, ResponsesKnows

LEMMA EncoderStep ==
  ASSUME NEW p \in Protocols, NEW e, NEW a, EncoderKnows(p, e, a), NEW ev \in Events, Fits(a, ev),
         NEW c, Says(a, ev, c), ev.t # "error"
  PROVE  EncoderKnows(p, Encode(p, e, ev), c)
<1>1. CASE p = "chat"
  <2>1. ChatKnows(ChatEncode(e, ev), c)
    BY <1>1, ChatStep DEF EncoderKnows
  <2>2. Encode(p, e, ev) = ChatEncode(e, ev)
    BY <1>1 DEF Encode
  <2> QED
    BY <1>1, <2>1, <2>2 DEF EncoderKnows
<1>2. CASE p = "messages"
  <2>1. MessagesKnows(MessagesEncode(e, ev), c)
    BY <1>2, MessagesStep DEF EncoderKnows
  <2>2. Encode(p, e, ev) = MessagesEncode(e, ev)
    BY <1>2 DEF Encode
  <2> QED
    BY <1>2, <2>1, <2>2 DEF EncoderKnows
<1>3. CASE p = "responses"
  <2>1. ResponsesKnows(ResponsesEncode(e, ev), c)
    BY <1>3, ResponsesStep DEF EncoderKnows
  <2>2. Encode(p, e, ev) = ResponsesEncode(e, ev)
    BY <1>3 DEF Encode
  <2> QED
    BY <1>3, <2>1, <2>2 DEF EncoderKnows
<1> QED
  BY <1>1, <1>2, <1>3 DEF Protocols

LEMMA EncoderHasWritten ==
  ASSUME NEW p \in Protocols, NEW e, NEW a, EncoderKnows(p, e, a)
  PROVE  WrittenOf(e, a) /\ (p # "chat" => Mirrors(e.out, a))
BY DEF Protocols, EncoderKnows, ChatKnows, MessagesKnows, ResponsesKnows

LEMMA ErrorIsWritten ==
  ASSUME NEW p \in Protocols, NEW e PROVE Encode(p, e, ErrorEvent) = Write(e, <<Frame("error", "none", -1, <<>>)>>)
<1>1. PICK ev : ev = ErrorEvent
  OBVIOUS
<1>2. ev.t = "error"
  BY <1>1 DEF ErrorEvent, Event
<1>3. ChatEncode(e, ev) = Write(e, <<Frame("error", "none", -1, <<>>)>>)
  BY <1>2 DEF ChatEncode
<1>4. MessagesEncode(e, ev) = Write(e, <<Frame("error", "none", -1, <<>>)>>)
  BY <1>2 DEF MessagesEncode
<1>5. ResponsesEncode(e, ev) = Write(e, <<Frame("error", "none", -1, <<>>)>>)
  BY <1>2 DEF ResponsesEncode
<1>6. Encode(p, e, ev) = Write(e, <<Frame("error", "none", -1, <<>>)>>)
  BY <1>3, <1>4, <1>5 DEF Encode, Protocols
<1> QED
  BY <1>1, <1>6

(* When the events are over, every block that was announced is closed      *)
(* after it was.                                                           *)
LEMMA ClosedAfter ==
  ASSUME NEW e, NEW a, WrittenOf(e, a), Mirrors(e.out, a), Over(a), NEW w, w = e.out,
         NEW n \in DOMAIN w, w[n].t \in Announcing
  PROVE  \E m \in n .. Len(w) : w[m].t \in Closing /\ w[m].i = w[n].i
<1>1. BlocksInOrder(w) /\ Len(w) \in Nat /\ DOMAIN w = 1 .. Len(w) /\ \A i, k : Opens(a, i, k) => Shuts(a, i)
  BY DEF WrittenOf
<1>2. AnnouncesAs(w, w[n].i, w[n].k)
  BY DEF AnnouncesAs
<1>3. Closes(w, w[n].i)
  BY <1>1, <1>2 DEF Mirrors
<1>4. PICK m \in DOMAIN w : w[m].t \in Closing /\ w[m].i = w[n].i
  BY <1>3 DEF Closes
<1> DEFINE Before(x) == {l \in 1 .. x - 1 : w[l].t \in Announcing /\ w[l].i = w[x].i}
<1>5. \A x \in DOMAIN w : /\ w[x].t \in Announcing => Before(x) = {}
                          /\ w[x].t \in Closing => Before(x) # {}
  BY <1>1 DEF BlocksInOrder
<1>6. PICK l \in 1 .. m - 1 : w[l].t \in Announcing /\ w[l].i = w[m].i
  BY <1>4, <1>5
<1>7. l \in DOMAIN w /\ w[l].i = w[n].i /\ l < m
  BY <1>1, <1>4, <1>6
<1>8. ~(l < n) /\ ~(n < l)
  <2>1. ASSUME l < n PROVE FALSE
    <3>1. l \in Before(n)
      BY <1>1, <1>6, <1>7, <2>1
    <3> QED
      BY <1>5, <3>1
  <2>2. ASSUME n < l PROVE FALSE
    <3>1. n \in Before(l)
      BY <1>1, <1>6, <1>7, <2>2
    <3> QED
      BY <1>5, <1>6, <1>7, <3>1
  <2> QED
    BY <2>1, <2>2
<1>9. m \in n .. Len(w)
  BY <1>1, <1>4, <1>7, <1>8
<1> QED
  BY <1>4, <1>9

-------------------------------------------------------------------------------
(* Streams that are cut off                                                *)

(* While a decoder of another platform has stopped without a failure, the  *)
(* frame that stopped it was one that says so.                             *)
EndIsMarked ==
  platform # "workbuddy" /\ ((reply = "open" /\ ~pumping /\ fault = "none") \/ reply = "complete") => marker

LEMMA FailureIsNone ==
  ASSUME NEW s, NEW code, code # "none" PROVE Fails(s, code).fault # "none"
BY DEF Fails

LEMMA OnlyMarksEnd ==
  ASSUME NEW p \in Platforms, p # "workbuddy", NEW must, NEW s, NEW f \in Frames(p), NEW n,
         NEW r, r = Consume(p, must, s, f, n), r.over, r.fault = "none"
  PROVE  Marks(f)
<1>1. p \in {"openrouter", "trae", "cursor"}
  BY PlatformsAssumption
<1>2. ASSUME NEW v PROVE r # Goes(v)
  BY DEF Goes
<1>3. ASSUME NEW code, code # "none" PROVE r # Fails(s, code)
  BY <1>3, FailureIsNone
<1>4. CASE p = "openrouter"
  <2>1. r = OpenRouterConsume(s, f, n)
    BY <1>4 DEF Consume
  <2>2. f.k \in Content \cup {"finish", "usage", "fault", "end"}
    <3>1. f \in OpenRouterFrames
      BY <1>4 DEF Frames
    <3>2. f \in Parts \/ f.k \in {"finish", "end"}
      BY <3>1 DEF OpenRouterFrames, FinishFrames
    <3> QED
      BY <3>2, PartKinds
  <2>3. f.k = "fault" => r = Fails(s, "upstream_error")
    BY <2>1 DEF OpenRouterConsume, Content
  <2>4. f.k # "fault" /\ f.k # "end" => \E v : r = Goes(v)
    BY <2>1, <2>2 DEF OpenRouterConsume, Content
  <2> QED
    BY <1>2, <1>3, <2>3, <2>4 DEF Marks
<1>5. CASE p = "trae"
  <2>1. r = TraeConsume(s, f, n)
    BY <1>5 DEF Consume
  <2>2. f.k \in Content \cup {"usage", "fault", "end"}
    <3>1. f \in TraeFrames
      BY <1>5 DEF Frames
    <3>2. f \in Parts \/ f.k = "end"
      BY <3>1, Zenon DEF TraeFrames
    <3> QED
      BY <3>2, PartKinds
  <2>3. f.k = "fault" => r = Fails(s, "trae_upstream")
    BY <2>1 DEF TraeConsume, Content
  <2>4. f.k # "fault" /\ f.k # "end" => \E v : r = Goes(v)
    BY <2>1, <2>2 DEF TraeConsume, Content
  <2> QED
    BY <1>2, <1>3, <2>3, <2>4 DEF Marks
<1>6. CASE p = "cursor"
  <2>1. r = CursorConsume(must, s, f, n)
    BY <1>6 DEF Consume
  <2>2. f.k \in {"text", "think", "thinkingCompleted", "kv", "exec", "tokenLimit", "turnEnded", "fault"}
    BY <1>6 DEF Frames, CursorFrames, TextFrame, ThinkFrame
  <2>3. f.k \in {"text", "think", "thinkingCompleted"} => \E v : r = Goes(v)
    BY <2>1 DEF CursorConsume
  <2>4. f.k = "kv" => (\E v : r = Goes(v)) \/ r = Fails(s, "cursor_missing_blob")
    BY <2>1 DEF CursorConsume
  <2>5. f.k = "fault" => r = Fails(s, "cursor_fault")
    BY <2>1 DEF CursorConsume
  <2>6. f.k = "exec" => Called(f) \/ (\E v : r = Goes(v)) \/ r = Fails(s, "client_fixable")
    <3>1. f.k = "exec" => r = Exec(s, f, n)
      BY <2>1 DEF CursorConsume
    <3> QED
      BY <3>1 DEF Exec
  <2> QED
    BY <1>2, <1>3, <2>2, <2>3, <2>4, <2>5, <2>6 DEF Marks
<1> QED
  BY <1>1, <1>4, <1>5, <1>6

LEMMA EndOfReadFails ==
  ASSUME NEW p \in Platforms, p # "workbuddy", NEW s, NEW timedOut, NEW broken
  PROVE  EndOfRead(p, s, timedOut, broken).fault # "none"
<1>1. p \in {"openrouter", "trae", "cursor"}
  BY PlatformsAssumption
<1>2. \E code : code # "none" /\ EndOfRead(p, s, timedOut, broken) = Fails(s, code)
  BY <1>1 DEF EndOfRead, OpenRouterReadEnds, TraeReadEnds, CursorReadEnds
<1> QED
  BY <1>2, FailureIsNone

LEMMA MarkStep == FlowInvariant /\ EndIsMarked /\ [Next]_vars => EndIsMarked'
<1> SUFFICES ASSUME FlowInvariant, EndIsMarked, [Next]_vars, platform # "workbuddy" PROVE EndIsMarked'
  <2>1. ASSUME NEW f, ReadFrame(f) PROVE platform' = platform
    BY <2>1 DEF ReadFrame
  <2>2. ASSUME NEW broken, ReadEnds(broken) PROVE platform' = platform
    BY <2>2 DEF ReadEnds
  <2>3. PumpSends \/ PumpAborts \/ IdleTimeout => platform' = platform
    BY DEF PumpSends, PumpAborts, IdleTimeout
  <2>4. Relay \/ RecvEnds \/ ClientLeaves \/ UNCHANGED vars => platform' = platform
    BY DEF Relay, RecvEnds, ClientLeaves, vars
  <2> QED
    BY <2>1, <2>2, <2>3, <2>4 DEF Next, EndIsMarked
<1>1. platform \in Platforms
  BY DEF FlowInvariant
<1>2. ASSUME NEW f \in Frames(platform), ReadFrame(f) PROVE EndIsMarked'
  <2>1. PICK r : r = Consume(platform, mustCall, dec, f, count + 1)
    OBVIOUS
  <2>2. pumping' = ~r.over /\ fault' = r.fault /\ marker' = Marks(f) /\ reply' = reply /\ reply = "open"
    BY <1>2, <2>1 DEF ReadFrame, Reading, Take
  <2>3. r.over /\ r.fault = "none" => Marks(f)
    BY <1>1, <2>1, OnlyMarksEnd
  <2> QED
    BY <2>2, <2>3 DEF EndIsMarked
<1>3. ASSUME NEW broken \in BOOLEAN, ReadEnds(broken) PROVE EndIsMarked'
  <2>1. fault' = EndOfRead(platform, dec, closed, broken).fault /\ reply' = reply /\ reply = "open"
    BY <1>3 DEF ReadEnds, Reading, Take
  <2>2. fault' # "none"
    BY <1>1, <2>1, EndOfReadFails
  <2> QED
    BY <2>1, <2>2 DEF EndIsMarked
<1>4. CASE PumpSends \/ IdleTimeout \/ UNCHANGED vars
  BY <1>4 DEF PumpSends, IdleTimeout, vars, EndIsMarked
<1>5. CASE PumpAborts
  BY <1>5 DEF PumpAborts, EndIsMarked
<1>6. CASE Relay
  BY <1>6 DEF Relay, EndIsMarked
<1>7. CASE RecvEnds
  BY <1>7 DEF RecvEnds, EndIsMarked
<1>8. CASE ClientLeaves
  BY <1>8 DEF ClientLeaves, EndIsMarked
<1> QED
  BY <1>2, <1>3, <1>4, <1>5, <1>6, <1>7, <1>8 DEF Next

(* A stream of TRAE, OpenRouter or Cursor that was cut off is never        *)
(* reported as a complete reply (the ends of their Recv, and writeStream,  *)
(* that takes a stream without a Done for a failure).                      *)
THEOREM CutOffIsNotComplete == Spec => []CompleteIsMarked
<1>1. Init => EndIsMarked
  BY DEF Init, EndIsMarked
<1>2. EndIsMarked => CompleteIsMarked
  BY DEF EndIsMarked, CompleteIsMarked
<1> QED
  BY <1>1, <1>2, FlowIsInvariant, MarkStep, PTL DEF Spec
-------------------------------------------------------------------------------
(* What is put together from frames or blocks                              *)

Chunks(S) == \A f \in S : f.k \in Kinds /\ f.d \in Seq(Nat)
Said == Seq(Kinds \X Nat)
Put(c, f, kinds, places) == IF f.k \in kinds /\ f.i \in places THEN c \o Pieces(f) ELSE c
PutsFrom(w, kinds, places, d, g) ==
  g = [x \in SUBSET d |-> IF x = {} THEN <<>>
                          ELSE IF w[Max(x)].k \in kinds /\ w[Max(x)].i \in places
                               THEN g[x \ {Max(x)}] \o Pieces(w[Max(x)]) ELSE g[x \ {Max(x)}]]

LEMMA PiecesSaid ==
  ASSUME NEW f, f.k \in Kinds, f.d \in Seq(Nat)
  PROVE  Pieces(f) \in Said /\ Len(Pieces(f)) = Len(f.d)
<1>1. PICK k, d : k = f.k /\ d = f.d
  OBVIOUS
<1>2. Len(d) \in Nat /\ DOMAIN d = 1 .. Len(d) /\ \A m \in 1 .. Len(d) : d[m] \in Nat
  BY <1>1, LenProperties, ElementOfSeq
<1>3. PICK q : q = [m \in 1 .. Len(d) |-> <<k, d[m]>>]
  OBVIOUS
<1>4. q \in Seq(Kinds \X Nat) /\ Len(q) = Len(d)
  BY <1>1, <1>2, <1>3
<1>5. Pieces(f) = q
  BY <1>1, <1>2, <1>3 DEF Pieces
<1> QED
  BY <1>1, <1>4, <1>5 DEF Said

LEMMA PutSaid ==
  ASSUME NEW f, f.k \in Kinds, f.d \in Seq(Nat), NEW c \in Said, NEW kinds, NEW places
  PROVE  Put(c, f, kinds, places) \in Said
BY PiecesSaid, ConcatProperties DEF Put, Said

LEMMA PutsExist ==
  ASSUME NEW S, Chunks(S), NEW w \in Seq(S), NEW kinds, NEW places, NEW n, n = Len(w)
  PROVE  \E g : PutsFrom(w, kinds, places, 1 .. n, g)
<1> DEFINE F == [p \in Said \X (1 .. n) |-> Put(p[1], w[p[2]], kinds, places)]
           H(g, x) == IF x = {} THEN <<>>
                      ELSE IF w[Max(x)].k \in kinds /\ w[Max(x)].i \in places
                           THEN g[x \ {Max(x)}] \o Pieces(w[Max(x)]) ELSE g[x \ {Max(x)}]
<1>1. n \in Nat /\ DOMAIN w = 1 .. n /\ \A m \in 1 .. n : w[m].k \in Kinds /\ w[m].d \in Seq(Nat)
  BY LenProperties, ElementOfSeq DEF Chunks
<1>2. ASSUME NEW x \in Said, NEW i \in 1 .. n
      PROVE  F[<<x, i>>] = Put(x, w[i], kinds, places) /\ F[<<x, i>>] \in Said
  <2>1. F[<<x, i>>] = Put(x, w[i], kinds, places)
    OBVIOUS
  <2> HIDE DEF F
  <2> QED
    BY <1>1, <2>1, PutSaid
<1>3. <<>> \in Said
  BY DEF Said
<1> HIDE DEF F
<1>4. PICK g : FoldFun(g, Said, <<>>, F, n)
  BY <1>1, <1>2, <1>3, FoldExists
<1>5. ASSUME NEW x \in SUBSET (1 .. n) PROVE g[x] = H(g, x)
  <2>1. CASE x = {}
    BY <1>4, <2>1 DEF FoldFun
  <2>2. CASE x # {}
    <3>1. PICK k, y : k = Max(x) /\ y = x \ {Max(x)}
      OBVIOUS
    <3>2. k \in 1 .. n /\ y \in SUBSET (1 .. n)
      <4>1. Max(x) \in x
        BY <1>1, <2>2, MaxWithin
      <4> QED
        BY <3>1, <4>1
    <3>3. g[x] = F[<<g[y], k>>] /\ g[y] \in Said
      BY <1>4, <2>2, <3>1, <3>2 DEF FoldFun
    <3>4. g[x] = Put(g[y], w[k], kinds, places)
      BY <1>2, <3>2, <3>3
    <3> QED
      BY <2>2, <3>1, <3>4 DEF Put
  <2> QED
    BY <2>1, <2>2
<1>6. g \in [SUBSET (1 .. n) -> Said]
  BY <1>4 DEF FoldFun
<1> HIDE DEF H
<1>7. g = [x \in SUBSET (1 .. n) |-> H(g, x)]
  BY <1>5, <1>6
<1> USE DEF H
<1>8. PutsFrom(w, kinds, places, 1 .. n, g)
  BY ONLY <1>7, Zenon DEF PutsFrom, H
<1> QED
  BY <1>8

(* The values g of the fold over the first frames, up to all n of them.    *)
Puts(w, kinds, places, n, g) ==
  /\ Gathered(w, kinds, places) = g[1 .. n] /\ g[1 .. 0] = <<>>
  /\ \A k \in Nat : k + 1 <= n => g[1 .. k + 1] = Put(g[1 .. k], w[k + 1], kinds, places)
LEMMA GatheredFold ==
  ASSUME NEW S, Chunks(S), NEW w \in Seq(S), NEW kinds, NEW places, NEW n, n = Len(w)
  PROVE  \E g : Puts(w, kinds, places, n, g)
<1>2. n \in Nat /\ DOMAIN w = 1 .. n
  BY LenProperties
<1>3. \E g : PutsFrom(w, kinds, places, 1 .. n, g)
  BY PutsExist
<1>4. PICK g : g = (CHOOSE h : PutsFrom(w, kinds, places, 1 .. n, h))
  OBVIOUS
<1>5. PutsFrom(w, kinds, places, 1 .. n, g)
  BY <1>3, <1>4
<1>6. Gathered(w, kinds, places) = (CHOOSE h : PutsFrom(w, kinds, places, DOMAIN w, h))[DOMAIN w]
  BY DEF Gathered, FoldLeft, MapThenFoldSet, PutsFrom
<1>7. Gathered(w, kinds, places) = g[1 .. n]
  BY ONLY <1>2, <1>4, <1>6, Zenon
<1>8. \A x \in SUBSET (1 .. n) : g[x] = IF x = {} THEN <<>> ELSE Put(g[x \ {Max(x)}], w[Max(x)], kinds, places)
  <2>1. PICK d : d = SUBSET (1 .. n)
    OBVIOUS
  <2>2. \A x \in d : g[x] = IF x = {} THEN <<>>
                            ELSE IF w[Max(x)].k \in kinds /\ w[Max(x)].i \in places
                                 THEN g[x \ {Max(x)}] \o Pieces(w[Max(x)]) ELSE g[x \ {Max(x)}]
    BY <1>5, <2>1 DEF PutsFrom
  <2> QED
    BY <2>1, <2>2 DEF Put
<1>9. g[1 .. 0] = <<>>
  <2>1. 1 .. 0 = {} /\ {} \in SUBSET (1 .. n)
    OBVIOUS
  <2> QED
    BY <1>8, <2>1
<1>10. ASSUME NEW k \in Nat, k + 1 <= n PROVE g[1 .. k + 1] = Put(g[1 .. k], w[k + 1], kinds, places)
  <2>1. PICK x, y, l : x = 1 .. k + 1 /\ y = 1 .. k /\ l = k + 1
    OBVIOUS
  <2>2. x \in SUBSET (1 .. n) /\ x # {}
    <3>1. \A z \in 1 .. k + 1 : z \in 1 .. n
      BY <1>2, <1>10
    <3>2. l \in x
      BY <2>1
    <3> QED
      BY <2>1, <3>1, <3>2
  <2>3. Max(x) = l /\ x \ {l} = y
    BY <2>1, MaxOfPrefix
  <2> QED
    BY <1>8, <2>1, <2>2, <2>3
<1> QED
  BY <1>7, <1>9, <1>10 DEF Puts

(* One frame more adds its pieces; nothing comes of no frames.             *)
LEMMA GatheredNone == ASSUME NEW kinds, NEW places PROVE Gathered(<<>>, kinds, places) = <<>>
<1>1. Chunks({}) /\ <<>> \in Seq({}) /\ Len(<<>>) = 0
  BY DEF Chunks
<1>2. PICK w, S, n : w = <<>> /\ S = {} /\ n = Len(w)
  OBVIOUS
<1>3. Chunks(S) /\ w \in Seq(S) /\ n = 0
  BY <1>1, <1>2
<1>4. PICK g : Puts(w, kinds, places, n, g)
  BY ONLY <1>2, <1>3, GatheredFold
<1> QED
  BY <1>2, <1>3, <1>4 DEF Puts

LEMMA GatheredAppend ==
  ASSUME NEW S, Chunks(S), NEW w \in Seq(S), NEW f \in S, NEW kinds, NEW places
  PROVE  Gathered(Append(w, f), kinds, places) = Put(Gathered(w, kinds, places), f, kinds, places)
<1>1. PICK n, v : n = Len(w) /\ v = Append(w, f)
  OBVIOUS
<1>2. /\ n \in Nat /\ v \in Seq(S) /\ Len(v) = n + 1 /\ v[n + 1] = f /\ \A m \in 1 .. n : v[m] = w[m]
  BY <1>1, AppendProperties, LenProperties
<1>3. PICK g : Puts(w, kinds, places, n, g)
  BY <1>1, GatheredFold
<1>4. PICK h : Puts(v, kinds, places, n + 1, h)
  <2>1. PICK m : m = Len(v)
    OBVIOUS
  <2>2. \E h : Puts(v, kinds, places, m, h)
    BY ONLY Chunks(S), <1>2, <2>1, GatheredFold
  <2> QED
    BY <1>2, <2>1, <2>2
<1> DEFINE A == {k \in Nat : k <= n => g[1 .. k] = h[1 .. k]}
<1>5. 0 \in A
  BY <1>3, <1>4 DEF Puts
<1>6. ASSUME NEW k \in Nat, k \in A PROVE k + 1 \in A
  <2>1. SUFFICES ASSUME k + 1 <= n PROVE g[1 .. k + 1] = h[1 .. k + 1]
    OBVIOUS
  <2>2. k <= n /\ k + 1 <= n + 1 /\ k + 1 \in 1 .. n
    BY <1>2, <2>1
  <2>3. g[1 .. k] = h[1 .. k] /\ v[k + 1] = w[k + 1]
    BY <1>2, <1>6, <2>2
  <2> QED
    BY <1>3, <1>4, <2>1, <2>2, <2>3 DEF Puts
<1> HIDE DEF A
<1>7. n \in A
  BY <1>2, <1>5, <1>6, NumberInduction
<1>8. g[1 .. n] = h[1 .. n]
  BY <1>2, <1>7 DEF A
<1>9. h[1 .. n + 1] = Put(h[1 .. n], f, kinds, places)
  BY <1>2, <1>4 DEF Puts
<1> QED
  BY <1>1, <1>3, <1>4, <1>8, <1>9 DEF Puts

LEMMA GatheredSaid ==
  ASSUME NEW S, Chunks(S), NEW w \in Seq(S), NEW kinds, NEW places PROVE Gathered(w, kinds, places) \in Said
<1>1. PICK n : n = Len(w)
  OBVIOUS
<1>2. n \in Nat /\ \A m \in 1 .. n : w[m].k \in Kinds /\ w[m].d \in Seq(Nat)
  BY <1>1, LenProperties, ElementOfSeq DEF Chunks
<1>3. PICK g : Puts(w, kinds, places, n, g)
  BY <1>1, GatheredFold
<1> DEFINE A == {k \in Nat : k <= n => g[1 .. k] \in Said}
<1>4. 0 \in A
  <2>1. <<>> \in Said
    BY DEF Said
  <2> QED
    BY <1>3, <2>1 DEF Puts
<1>5. ASSUME NEW k \in Nat, k \in A PROVE k + 1 \in A
  <2>1. SUFFICES ASSUME k + 1 <= n PROVE g[1 .. k + 1] \in Said
    OBVIOUS
  <2>2. k <= n /\ k + 1 \in 1 .. n
    BY <1>2, <2>1
  <2>3. g[1 .. k] \in Said /\ g[1 .. k + 1] = Put(g[1 .. k], w[k + 1], kinds, places)
    BY <1>3, <1>5, <2>1, <2>2 DEF Puts
  <2> QED
    BY <1>2, <2>2, <2>3, PutSaid
<1> HIDE DEF A
<1>6. n \in A
  BY <1>2, <1>4, <1>5, NumberInduction
<1> QED
  BY <1>2, <1>3, <1>6 DEF A, Puts
-------------------------------------------------------------------------------
(* What a stream of events tells, and what was heard                       *)

Talks == {"text", "think"}
Deltas(a) == [n \in DOMAIN a |-> IF a[n].t = "delta" /\ a[n].k \in Content THEN a[n] ELSE StartEvent]
Told(a, kinds, places) == Gathered(Deltas(a), kinds, places)
ArgsTold(a, i) == Told(a, {"tool"}, {i})
CalledIn(h) == {h[n].i : n \in {m \in DOMAIN h : h[m].k = "tool"}}
HasDone(a) == \E n \in DOMAIN a : a[n].t = "done"

(* What a stream a tells of a tool call t, of which h has been heard: all   *)
(* of it once it is announced, and nothing before.                         *)
ToolAgreed(t, a, h) ==
  /\ t.started => ArgsTold(a, t.index) = Args(h, t.up) /\ Opens(a, t.index, "tool")
  /\ ~t.started => ArgsTold(a, t.index) = <<>>
  /\ Pieces([k |-> "tool", d |-> t.args]) = Args(h, t.up)
ToolsAgreed(s, a, h) == \A j \in DOMAIN s.tools : ToolAgreed(s.tools[j], a, h)
(* Each tool call is one of those heard of and has an index of its own; U   *)
(* is about to be heard of.                                                *)
CallsAgreed(s, h, U) ==
  /\ \A j, l \in DOMAIN s.tools : s.tools[j].up = s.tools[l].up \/ s.tools[j].index = s.tools[l].index => j = l
  /\ \A j \in DOMAIN s.tools : s.tools[j].index < s.next
  /\ {s.tools[j].up : j \in DOMAIN s.tools} = CalledIn(h) \cup U
  /\ \A u : u \notin CalledIn(h) => Args(h, u) = <<>>
NothingBeyond(s, a) == \A i \in Int : i >= s.next => ArgsTold(a, i) = <<>>
(* Talk never goes back to an earlier block.                               *)
Rising(s, a) ==
  /\ s.at < s.next
  /\ \A n \in DOMAIN a : a[n].t = "delta" /\ a[n].k \in Talks => a[n].i <= s.at
  /\ \A m, n \in DOMAIN a :
       m < n /\ {a[m].t, a[n].t} = {"delta"} /\ {a[m].k, a[n].k} \subseteq Talks => a[m].i <= a[n].i
(* What closes a tool call repeats its arguments.                          *)
ClosesTell(a) == \A n \in DOMAIN a : a[n].t = "close" /\ a[n].k = "tool" => Pieces(a[n]) = ArgsTold(a, a[n].i)
Unclosed(a) == \A n \in DOMAIN a : a[n].t = "close" => a[n].k # "tool"
AgreedWith(s, a, h, U) ==
  /\ \A kinds \in SUBSET Talks : Told(a, kinds, Int) = Gathered(h, kinds, Int)
  /\ ToolsAgreed(s, a, h) /\ CallsAgreed(s, h, U) /\ NothingBeyond(s, a) /\ Rising(s, a) /\ ClosesTell(a)

DeltaChunks == {e \in Events : e.k \in Kinds}
LEMMA DeltasTyped ==
  ASSUME NEW a \in Seq(Events)
  PROVE  Chunks(DeltaChunks) /\ Deltas(a) \in Seq(DeltaChunks) /\ Len(Deltas(a)) = Len(a)
<1>1. Chunks(DeltaChunks)
  BY DEF Chunks, DeltaChunks, Events
<1>2. StartEvent \in DeltaChunks
  <2>1. StartEvent \in Events /\ StartEvent.k = "none"
    BY EventIsEvent DEF StartEvent, Event
  <2> QED
    BY <2>1 DEF DeltaChunks, Kinds
<1>3. PICK n : n = Len(a)
  OBVIOUS
<1>4. n \in Nat /\ DOMAIN a = 1 .. n /\ \A m \in 1 .. n : a[m] \in Events
  BY <1>3, LenProperties, ElementOfSeq
<1>5. ASSUME NEW m \in 1 .. n PROVE Deltas(a)[m] \in DeltaChunks
  <2>1. a[m].k \in Content => a[m].k \in Kinds
    BY DEF Content, Kinds
  <2> QED
    BY <1>2, <1>4, <2>1 DEF Deltas, DeltaChunks
<1>6. PICK d : d = Deltas(a)
  OBVIOUS
<1>7. d = [m \in 1 .. n |-> d[m]]
  BY <1>4, <1>6 DEF Deltas
<1>8. d \in Seq(DeltaChunks) /\ Len(d) = n
  BY <1>4, <1>5, <1>6, <1>7
<1> QED
  BY <1>1, <1>3, <1>6, <1>8

LEMMA ToldNone == ASSUME NEW kinds, NEW places PROVE Told(<<>>, kinds, places) = <<>>
<1>1. Deltas(<<>>) = <<>>
  BY DEF Deltas
<1> QED
  BY <1>1, GatheredNone DEF Told

LEMMA ToldSaid == ASSUME NEW a \in Seq(Events), NEW kinds, NEW places PROVE Told(a, kinds, places) \in Said
<1>1. Chunks(DeltaChunks) /\ Deltas(a) \in Seq(DeltaChunks)
  BY DeltasTyped
<1> QED
  BY <1>1, GatheredSaid DEF Told

Tells(e, kinds, places) == e.t = "delta" /\ e.k \in kinds /\ e.i \in places
LEMMA ToldAppend ==
  ASSUME NEW a \in Seq(Events), NEW e \in Events, NEW kinds, kinds \subseteq Content, NEW places
  PROVE  Told(Append(a, e), kinds, places) = IF Tells(e, kinds, places) THEN Told(a, kinds, places) \o Pieces(e)
                                             ELSE Told(a, kinds, places)
<1>c. PICK c : c = Append(a, e)
  OBVIOUS
<1>1. Chunks(DeltaChunks) /\ Deltas(a) \in Seq(DeltaChunks)
  BY DeltasTyped
<1>2. PICK f : f = IF e.t = "delta" /\ e.k \in Content THEN e ELSE StartEvent
  OBVIOUS
<1>3. f \in DeltaChunks
  <2>1. StartEvent \in Events /\ StartEvent.k = "none"
    BY EventIsEvent DEF StartEvent, Event
  <2> QED
    BY <1>2, <2>1 DEF DeltaChunks, Kinds, Content
<1>4. Deltas(c) = Append(Deltas(a), f)
  <2>1. PICK n : n = Len(a)
    OBVIOUS
  <2>2. /\ n \in Nat /\ DOMAIN a = 1 .. n /\ DOMAIN c = 1 .. n + 1 /\ c[n + 1] = e /\ \A m \in 1 .. n : c[m] = a[m]
    BY <1>c, <2>1, AppendProperties, LenProperties
  <2>3. PICK d, x : d = Deltas(a) /\ x = Append(d, f)
    OBVIOUS
  <2>4. d \in Seq(DeltaChunks) /\ Len(d) = n
    BY <2>1, <2>3, DeltasTyped
  <2>5. /\ x \in Seq(DeltaChunks) /\ Len(x) = n + 1 /\ DOMAIN x = 1 .. n + 1 /\ x[n + 1] = f
        /\ \A m \in 1 .. n : x[m] = d[m]
    BY <1>3, <2>3, <2>4, AppendProperties, LenProperties
  <2>6. PICK y : y = Deltas(c)
    OBVIOUS
  <2>7. DOMAIN y = 1 .. n + 1 /\ y = [m \in 1 .. n + 1 |-> y[m]]
    BY <2>2, <2>6 DEF Deltas
  <2>8. ASSUME NEW m \in 1 .. n + 1 PROVE y[m] = x[m]
    <3>1. CASE m = n + 1
      BY <1>2, <2>2, <2>5, <2>6, <3>1 DEF Deltas
    <3>2. CASE m # n + 1
      <4>1. m \in 1 .. n
        BY <2>2, <3>2
      <4>2. y[m] = d[m]
        BY <2>2, <2>3, <2>6, <4>1 DEF Deltas
      <4> QED
        BY <2>5, <4>1, <4>2
    <3> QED
      BY <3>1, <3>2
  <2>9. x = [m \in 1 .. n + 1 |-> x[m]]
    BY <2>5
  <2>10. y = x
    BY <2>7, <2>8, <2>9
  <2> QED
    BY <2>3, <2>6, <2>10
<1>5. Told(c, kinds, places) = Put(Told(a, kinds, places), f, kinds, places)
  <2>1. PICK d, x : d = Deltas(a) /\ x = Deltas(c)
    OBVIOUS
  <2>2. d \in Seq(DeltaChunks) /\ x = Append(d, f)
    BY <1>1, <1>4, <2>1
  <2>3. Gathered(x, kinds, places) = Put(Gathered(d, kinds, places), f, kinds, places)
    BY <1>1, <1>3, <2>2, GatheredAppend
  <2> QED
    BY <2>1, <2>3 DEF Told
<1>6. CASE e.t = "delta" /\ e.k \in Content
  BY <1>c, <1>2, <1>5, <1>6 DEF Put, Tells
<1>7. CASE ~(e.t = "delta" /\ e.k \in Content)
  <2>1. f.k \notin kinds
    BY <1>2, <1>7 DEF StartEvent, Event, Content
  <2>2. ~Tells(e, kinds, places)
    BY <1>7 DEF Tells
  <2> QED
    BY <1>c, <1>5, <2>1, <2>2 DEF Put
<1> QED
  BY <1>6, <1>7

(* An event that is not a delta tells nothing.                             *)
LEMMA ToldSame ==
  ASSUME NEW a \in Seq(Events), NEW e \in Events, e.t # "delta"
  PROVE  \A kinds, places : kinds \subseteq Content => Told(Append(a, e), kinds, places) = Told(a, kinds, places)
<1>1. ASSUME NEW kinds, NEW places, kinds \subseteq Content
      PROVE  Told(Append(a, e), kinds, places) = Told(a, kinds, places)
  <2>1. ~Tells(e, kinds, places)
    BY DEF Tells
  <2> QED
    BY <1>1, <2>1, ToldAppend
<1> QED
  BY <1>1

(* What has been heard, one thing more.                                    *)
Hearings == [k : Content, i : ToolSlots \cup {0}, d : Seq(Nat)]
Hears(h, f, g) ==
  /\ g \in Seq(Hearings) /\ Chunks(Hearings)
  /\ \A kinds, places : Gathered(g, kinds, places) = Put(Gathered(h, kinds, places), f, kinds, places)
  /\ CalledIn(g) = IF f.k = "tool" THEN CalledIn(h) \cup {f.i} ELSE CalledIn(h)
LEMMA HeardAppend == ASSUME NEW h \in Seq(Hearings), NEW f \in Hearings PROVE Hears(h, f, Append(h, f))
<1>g. PICK g : g = Append(h, f)
  OBVIOUS
<1>1. Chunks(Hearings)
  BY DEF Chunks, Hearings, Content, Kinds
<1>2. PICK n : n = Len(h)
  OBVIOUS
<1>3. /\ n \in Nat /\ DOMAIN h = 1 .. n /\ g \in Seq(Hearings) /\ DOMAIN g = 1 .. n + 1 /\ g[n + 1] = f
      /\ \A m \in 1 .. n : g[m] = h[m]
  BY <1>g, <1>2, AppendProperties, LenProperties
<1>4. ASSUME NEW kinds, NEW places
      PROVE  Gathered(g, kinds, places) = Put(Gathered(h, kinds, places), f, kinds, places)
  BY <1>g, <1>1, GatheredAppend
<1>5. CalledIn(g) = IF f.k = "tool" THEN CalledIn(h) \cup {f.i} ELSE CalledIn(h)
  <2>1. \A m : m \in 1 .. n + 1 <=> m \in 1 .. n \/ m = n + 1
    BY <1>3
  <2>2. \A u : u \in CalledIn(g) <=> \E m \in DOMAIN g : g[m].k = "tool" /\ g[m].i = u
    BY DEF CalledIn
  <2>3. \A u : u \in CalledIn(h) <=> \E m \in DOMAIN h : h[m].k = "tool" /\ h[m].i = u
    BY DEF CalledIn
  <2>4. \A u : u \in CalledIn(g) <=> u \in CalledIn(h) \/ (f.k = "tool" /\ f.i = u)
    BY ONLY <1>3, <2>1, <2>2, <2>3
  <2> QED
    BY ONLY <2>4
<1> QED
  BY <1>g, <1>1, <1>3, <1>4, <1>5 DEF Hears

LEMMA ToolTyped ==
  ASSUME NEW s \in Decoders, NEW j \in DOMAIN s.tools
  PROVE  /\ s.tools[j] \in ToolCalls /\ s.tools[j].index \in Nat /\ s.tools[j].args \in Seq(Nat)
         /\ s.tools[j].up \in ToolSlots /\ s.tools[j].started \in BOOLEAN
<1>1. s.tools[j] \in ToolCalls
  BY ElementOfSeq, LenProperties DEF Decoders
<1> QED
  BY <1>1 DEF ToolCalls

(* What is agreed on rests on the tool calls of the decoder, and on        *)
(* indices that only grow.                                                 *)
Later(s, v) == v.tools = s.tools /\ s.at <= v.at /\ v.at < v.next /\ s.next <= v.next
LEMMA LaterAgreed ==
  ASSUME NEW s \in Decoders, NEW v \in Decoders, NEW a \in Seq(Events), NEW h, NEW U, AgreedWith(s, a, h, U),
         Later(s, v)
  PROVE  AgreedWith(v, a, h, U)
<1>1. v.tools = s.tools /\ s.at <= v.at /\ v.at < v.next /\ s.next <= v.next
  BY DEF Later
<1>2. s.at \in Int /\ v.at \in Int /\ s.next \in Nat /\ v.next \in Nat
  BY DEF Decoders
<1>3. \A j \in DOMAIN s.tools : s.tools[j].index \in Nat
  BY ToolTyped
<1>4. ToolsAgreed(v, a, h)
  BY <1>1 DEF AgreedWith, ToolsAgreed
<1>5. CallsAgreed(v, h, U)
  <2>1. CallsAgreed(s, h, U)
    BY DEF AgreedWith
  <2>2. \A j \in DOMAIN s.tools : s.tools[j].index < v.next
    BY <1>1, <1>2, <1>3, <2>1 DEF CallsAgreed
  <2> QED
    BY <1>1, <2>1, <2>2 DEF CallsAgreed
<1>6. NothingBeyond(v, a)
  BY <1>1, <1>2 DEF AgreedWith, NothingBeyond
<1>7. Rising(v, a)
  <2>1. Rising(s, a)
    BY DEF AgreedWith
  <2>2. \A n \in DOMAIN a : a[n].i \in Int
    <3>1. \A n \in DOMAIN a : a[n] \in Events
      BY ElementOfSeq, LenProperties
    <3> QED
      BY <3>1 DEF Events
  <2>3. ASSUME NEW n \in DOMAIN a, a[n].t = "delta" /\ a[n].k \in Talks PROVE a[n].i <= v.at
    BY <1>1, <1>2, <2>1, <2>2, <2>3 DEF Rising
  <2> QED
    BY <1>1, <2>1, <2>3 DEF Rising
<1> QED
  BY <1>4, <1>5, <1>6, <1>7 DEF AgreedWith

(* An event that carries no content, but for the close of a tool call that *)
(* repeats what was told.                                                  *)
LEMMA QuietAgreed ==
  ASSUME NEW s \in Decoders, NEW a \in Seq(Events), NEW e \in Events, NEW h, NEW U, AgreedWith(s, a, h, U),
         e.t # "delta", e.t = "close" /\ e.k = "tool" => Pieces(e) = ArgsTold(a, e.i)
  PROVE  AgreedWith(s, Append(a, e), h, U)
<1>1. PICK c : c = Append(a, e)
  OBVIOUS
<1>2. PICK n : n = Len(a)
  OBVIOUS
<1>3. /\ c \in Seq(Events) /\ n \in Nat /\ c[n + 1] = e
      /\ \A m : m \in DOMAIN c <=> m \in DOMAIN a \/ m = n + 1
      /\ \A m \in DOMAIN a : c[m] = a[m] /\ m < n + 1 /\ m \in Nat
  BY <1>1, <1>2, AppendIndexes
<1>4. \A kinds, places : kinds \subseteq Content => Told(c, kinds, places) = Told(a, kinds, places)
  BY <1>1, ToldSame
<1>5. \A i : ArgsTold(c, i) = ArgsTold(a, i)
  BY <1>4 DEF ArgsTold, Content
<1>6. \A kinds \in SUBSET Talks : Told(c, kinds, Int) = Gathered(h, kinds, Int)
  <2>1. ASSUME NEW kinds \in SUBSET Talks PROVE Told(c, kinds, Int) = Gathered(h, kinds, Int)
    <3>1. kinds \subseteq Content
      BY DEF Talks, Content
    <3> QED
      BY <1>4, <3>1 DEF AgreedWith
  <2> QED
    BY <2>1
<1>7. ToolsAgreed(s, c, h)
  <2>1. \A i, k : Opens(a, i, k) => Opens(c, i, k)
    BY <1>1, AppendSays
  <2> QED
    BY <1>5, <2>1 DEF AgreedWith, ToolsAgreed, ToolAgreed
<1>8. NothingBeyond(s, c)
  BY <1>5 DEF AgreedWith, NothingBeyond
<1>9. Rising(s, c)
  <2>1. Rising(s, a)
    BY DEF AgreedWith
  <2>2. \A m \in DOMAIN c : c[m].t = "delta" => m \in DOMAIN a /\ c[m] = a[m]
    BY <1>3
  <2>3. \A m \in DOMAIN c : c[m].t = "delta" /\ c[m].k \in Talks => c[m].i <= s.at
    BY <2>1, <2>2 DEF Rising
  <2>4. ASSUME NEW l \in DOMAIN c, NEW m \in DOMAIN c,
               l < m /\ {c[l].t, c[m].t} = {"delta"} /\ {c[l].k, c[m].k} \subseteq Talks
        PROVE  c[l].i <= c[m].i
    BY <2>1, <2>2, <2>4 DEF Rising
  <2> QED
    BY <2>1, <2>3, <2>4 DEF Rising
<1>10. ClosesTell(c)
  <2>1. ASSUME NEW m \in DOMAIN c, c[m].t = "close" /\ c[m].k = "tool" PROVE Pieces(c[m]) = ArgsTold(c, c[m].i)
    <3>1. CASE m \in DOMAIN a
      BY <1>3, <1>5, <2>1, <3>1 DEF AgreedWith, ClosesTell
    <3>2. CASE m = n + 1
      BY <1>3, <1>5, <2>1, <3>2
    <3> QED
      BY <1>3, <3>1, <3>2
  <2> QED
    BY <2>1 DEF ClosesTell
<1> QED
  BY <1>1, <1>6, <1>7, <1>8, <1>9, <1>10 DEF AgreedWith

LEMMA StaysUnclosed ==
  ASSUME NEW a \in Seq(Events), NEW e \in Events, Unclosed(a), ~(e.t = "close" /\ e.k = "tool")
  PROVE  Unclosed(Append(a, e))
BY AppendIndexes DEF Unclosed

LEMMA StillNoDone ==
  ASSUME NEW a \in Seq(Events), NEW e \in Events, ~HasDone(a), e.t # "done" PROVE ~HasDone(Append(a, e))
BY AppendIndexes DEF HasDone

LEMMA SamePieces ==
  ASSUME NEW f, NEW g, f.k = g.k, f.d = g.d PROVE Pieces(f) = Pieces(g)
BY DEF Pieces

(* A piece of talk.                                                        *)
LEMMA TalkAgreed ==
  ASSUME NEW s \in Decoders, NEW a \in Seq(Events), NEW h \in Seq(Hearings), NEW U, AgreedWith(s, a, h, U),
         NEW k \in Talks,
         NEW n \in Nat, NEW e, e = DeltaEvent(k, s.at, <<n>>), NEW f, f = [k |-> k, i |-> 0, d |-> <<n>>]
  PROVE  AgreedWith(s, Append(a, e), Append(h, f), U)
<1>1. PICK c, g : c = Append(a, e) /\ g = Append(h, f)
  OBVIOUS
<1>2. k \in Content /\ k # "tool" /\ k \in Kinds /\ s.at \in Int /\ <<n>> \in Seq(Nat)
  BY DEF Talks, Content, Kinds, Decoders
<1>3. e \in Events /\ e.t = "delta" /\ e.k = k /\ e.i = s.at /\ e.d = <<n>>
  <2>1. e \in Events
    BY <1>2, EventIsEvent
  <2> QED
    BY <2>1 DEF DeltaEvent, Event
<1>4. f \in Hearings /\ f.k = k /\ f.i = 0 /\ f.d = <<n>>
  BY <1>2 DEF Hearings
<1>5. Pieces(e) = Pieces(f)
  BY <1>3, <1>4, SamePieces
<1>6. PICK l : l = Len(a)
  OBVIOUS
<1>7. /\ c \in Seq(Events) /\ l \in Nat /\ c[l + 1] = e
      /\ \A m : m \in DOMAIN c <=> m \in DOMAIN a \/ m = l + 1
      /\ \A m \in DOMAIN a : c[m] = a[m] /\ m < l + 1 /\ m \in Nat /\ a[m].i \in Int
  <2>1. /\ c \in Seq(Events) /\ l \in Nat /\ c[l + 1] = e /\ DOMAIN a = 1 .. l
        /\ \A m : m \in DOMAIN c <=> m \in DOMAIN a \/ m = l + 1
        /\ \A m \in DOMAIN a : c[m] = a[m] /\ m < l + 1 /\ a[m] \in Events
    BY <1>1, <1>3, <1>6, AppendIndexes
  <2>2. \A x \in Events : x.i \in Int
    BY DEF Events
  <2> QED
    BY ONLY <2>1, <2>2
<1>8. /\ \A kinds, places : Gathered(g, kinds, places) = Put(Gathered(h, kinds, places), f, kinds, places)
      /\ CalledIn(g) = CalledIn(h)
  <2>1. Hears(h, f, g)
    BY ONLY h \in Seq(Hearings), <1>1, <1>4, HeardAppend
  <2> QED
    BY <1>2, <1>4, <2>1 DEF Hears
<1>9. \A i : ArgsTold(c, i) = ArgsTold(a, i)
  <2>1. SUFFICES ASSUME NEW i PROVE Told(c, {"tool"}, {i}) = Told(a, {"tool"}, {i})
    BY DEF ArgsTold
  <2>2. {"tool"} \subseteq Content /\ ~Tells(e, {"tool"}, {i})
    BY <1>2, <1>3 DEF Content, Tells
  <2> QED
    BY <1>1, <1>3, <2>2, ToldAppend
<1>10. \A u : Args(g, u) = Args(h, u)
  BY <1>2, <1>4, <1>8 DEF Args, Put
<1>11. ASSUME NEW kinds \in SUBSET Talks PROVE Told(c, kinds, Int) = Gathered(g, kinds, Int)
  <2>1. kinds \subseteq Content /\ (Tells(e, kinds, Int) <=> k \in kinds) /\ f.i \in Int
    BY <1>2, <1>3, <1>4 DEF Talks, Content, Tells
  <2>2. Told(Append(a, e), kinds, Int) = IF Tells(e, kinds, Int) THEN Told(a, kinds, Int) \o Pieces(e)
                                         ELSE Told(a, kinds, Int)
    BY ONLY a \in Seq(Events), <1>3, <2>1, ToldAppend
  <2>3. Gathered(g, kinds, Int) = Put(Gathered(h, kinds, Int), f, kinds, Int)
    BY <1>8
  <2>4. Told(a, kinds, Int) = Gathered(h, kinds, Int)
    BY DEF AgreedWith
  <2>5. CASE k \in kinds
    BY ONLY <1>1, <1>4, <1>5, <2>1, <2>2, <2>3, <2>4, <2>5, Zenon DEF Put
  <2>6. CASE k \notin kinds
    BY ONLY <1>1, <1>4, <2>1, <2>2, <2>3, <2>4, <2>6, Zenon DEF Put
  <2> QED
    BY <2>5, <2>6
<1>12. ToolsAgreed(s, c, g)
  <2>1. \A i, x : Opens(a, i, x) => Opens(c, i, x)
    BY <1>1, <1>3, AppendSays
  <2> QED
    BY <1>9, <1>10, <2>1 DEF AgreedWith, ToolsAgreed, ToolAgreed
<1>13. CallsAgreed(s, g, U)
  BY <1>8, <1>10 DEF AgreedWith, CallsAgreed
<1>14. NothingBeyond(s, c)
  BY <1>9 DEF AgreedWith, NothingBeyond
<1>15. Rising(s, c)
  <2>1. Rising(s, a)
    BY DEF AgreedWith
  <2>2. \A m \in DOMAIN c : c[m].t = "delta" /\ c[m].k \in Talks => c[m].i <= s.at
    BY <1>2, <1>3, <1>7, <2>1 DEF Rising
  <2>3. ASSUME NEW y \in DOMAIN c, NEW m \in DOMAIN c,
               y < m /\ {c[y].t, c[m].t} = {"delta"} /\ {c[y].k, c[m].k} \subseteq Talks
        PROVE  c[y].i <= c[m].i
    <3>1. c[y].t = "delta" /\ c[y].k \in Talks
      BY <2>3
    <3>2. y \in DOMAIN a
      BY <1>7, <2>3
    <3>3. CASE m \in DOMAIN a
      BY <1>7, <2>1, <2>3, <3>2, <3>3 DEF Rising
    <3>4. CASE m = l + 1
      BY <1>3, <1>7, <2>2, <3>1, <3>4
    <3> QED
      BY <1>7, <3>3, <3>4
  <2> QED
    BY <2>1, <2>2, <2>3 DEF Rising
<1>16. ClosesTell(c)
  BY <1>3, <1>7, <1>9 DEF AgreedWith, ClosesTell
<1> QED
  BY <1>1, <1>11, <1>12, <1>13, <1>14, <1>15, <1>16 DEF AgreedWith

-------------------------------------------------------------------------------
(* What the decoders tell                                                  *)

(* An event is emitted, and what the stream is then.                       *)
Emitted(s, b, e, v) ==
  /\ v \in Decoders /\ v.started = s.started /\ v.block = s.block /\ v.at = s.at /\ v.next = s.next
  /\ v.tools = s.tools /\ v.stop = s.stop
  /\ b \o s.out \in Seq(Events) /\ b \o v.out = Append(b \o s.out, e) /\ b \o v.out \in Seq(Events)
LEMMA EmitAppends ==
  ASSUME NEW s \in Decoders, NEW b \in Seq(Events), NEW e \in Events PROVE Emitted(s, b, e, Emit(s, e))
<1>1. PICK v, o, p : v = Emit(s, e) /\ o = s.out /\ p = Append(o, e)
  OBVIOUS
<1>2. o \in Seq(Events) /\ p \in Seq(Events)
  BY <1>1, AppendProperties DEF Decoders
<1>3. v = [s EXCEPT !.out = p]
  BY <1>1 DEF Emit
<1>4. /\ v \in Decoders /\ v.out = p /\ v.started = s.started /\ v.block = s.block /\ v.at = s.at
      /\ v.next = s.next /\ v.tools = s.tools /\ v.stop = s.stop
  BY <1>2, <1>3 DEF Decoders
<1>5. b \o o \in Seq(Events) /\ b \o p \in Seq(Events) /\ b \o p = Append(b \o o, e)
  BY <1>1, <1>2, ConcatAppend, ConcatProperties
<1> QED
  BY ONLY <1>1, <1>4, <1>5, Zenon DEF Emitted

(* While the decoder reads on, what the stream tells is what was heard,    *)
(* and no tool call is closed.                                             *)
Agreed(s, b, h, U) == s \in Decoders /\ b \in Seq(Events) /\ AgreedWith(s, b \o s.out, h, U)
Speaks(s, b, h) == Agreed(s, b, h, {}) /\ Unclosed(b \o s.out)

(* An event that carries no content, but for the close of a tool call that *)
(* repeats what was told.                                                  *)
LEMMA EmitAgreed ==
  ASSUME NEW s, NEW b, NEW h, Agreed(s, b, h, {}), NEW e \in Events, e.t # "delta",
         e.t = "close" /\ e.k = "tool" => Pieces(e) = ArgsTold(b \o s.out, e.i)
  PROVE  Agreed(Emit(s, e), b, h, {})
<1>1. PICK v : v = Emit(s, e)
  OBVIOUS
<1>2. PICK a, c : a = b \o s.out /\ c = b \o v.out
  OBVIOUS
<1>3. s \in Decoders /\ b \in Seq(Events) /\ AgreedWith(s, a, h, {})
  BY <1>2 DEF Agreed
<1>4. Emitted(s, b, e, v)
  BY <1>1, <1>3, EmitAppends
<1>5. a \in Seq(Events) /\ c \in Seq(Events) /\ c = Append(a, e) /\ v \in Decoders
  BY <1>2, <1>4 DEF Emitted
<1>6. AgreedWith(s, Append(a, e), h, {})
  BY <1>2, <1>3, <1>5, QuietAgreed
<1>7. Later(s, v)
  <2>1. Rising(s, a)
    BY <1>3 DEF AgreedWith
  <2>2. s.at < s.next /\ s.at \in Int /\ s.next \in Nat
    BY <1>3, <2>1 DEF Rising, Decoders
  <2> QED
    BY <1>4, <2>2 DEF Later, Emitted
<1>8. AgreedWith(v, c, h, {})
  <2>1. AgreedWith(s, c, h, {})
    BY <1>5, <1>6
  <2> QED
    BY ONLY <1>3, <1>5, <1>7, <2>1, LaterAgreed
<1> QED
  BY <1>1, <1>2, <1>3, <1>5, <1>8 DEF Agreed

LEMMA QuietSpeaks ==
  ASSUME NEW s, NEW b, NEW h, Speaks(s, b, h), NEW e \in Events, e.t # "delta", ~(e.t = "close" /\ e.k = "tool")
  PROVE  Speaks(Emit(s, e), b, h)
<1>1. PICK v : v = Emit(s, e)
  OBVIOUS
<1>2. PICK a, c : a = b \o s.out /\ c = b \o v.out
  OBVIOUS
<1>3. s \in Decoders /\ b \in Seq(Events) /\ Unclosed(a) /\ Agreed(s, b, h, {})
  BY <1>2 DEF Speaks, Agreed
<1>4. Agreed(v, b, h, {})
  BY <1>1, <1>3, EmitAgreed
<1>5. a \in Seq(Events) /\ c = Append(a, e)
  BY <1>1, <1>2, <1>3, EmitAppends DEF Emitted
<1>6. Unclosed(Append(a, e))
  BY <1>3, <1>5, StaysUnclosed
<1> QED
  BY <1>1, <1>2, <1>4, <1>5, <1>6 DEF Speaks

(* Its tool calls are what they were, and its indices have not gone back.  *)
LEMMA LaterSpeaks ==
  ASSUME NEW s, NEW b, NEW h, Speaks(s, b, h), NEW v \in Decoders, v.out = s.out, Later(s, v)
  PROVE  Speaks(v, b, h)
<1>1. PICK a : a = b \o s.out
  OBVIOUS
<1>2. s \in Decoders /\ b \in Seq(Events) /\ AgreedWith(s, a, h, {}) /\ Unclosed(a) /\ a \in Seq(Events)
  BY <1>1, ConcatProperties DEF Speaks, Agreed, Decoders
<1>3. AgreedWith(v, a, h, {})
  BY <1>2, LaterAgreed
<1> QED
  BY <1>1, <1>2, <1>3 DEF Speaks, Agreed

LEMMA InTurn ==
  ASSUME NEW s, NEW b, NEW h, Speaks(s, b, h)
  PROVE  s \in Decoders /\ b \in Seq(Events) /\ s.at \in Int /\ s.next \in Nat /\ s.at < s.next
<1>1. s \in Decoders /\ b \in Seq(Events) /\ Rising(s, b \o s.out)
  BY DEF Speaks, Agreed, AgreedWith
<1> QED
  BY <1>1 DEF Rising, Decoders

LEMMA BeginSpeaks == ASSUME NEW s, NEW b, NEW h, Speaks(s, b, h) PROVE Speaks(Begin(s), b, h)
<1>1. CASE s.started
  BY <1>1 DEF Begin
<1>2. CASE ~s.started
  <2>1. PICK u : u = [s EXCEPT !.started = TRUE]
    OBVIOUS
  <2>2. s \in Decoders /\ s.at \in Int /\ s.next \in Nat /\ s.at < s.next
    BY InTurn
  <2>3. u \in Decoders /\ u.out = s.out /\ u.tools = s.tools /\ u.at = s.at /\ u.next = s.next
    BY <2>1, <2>2 DEF Decoders
  <2>4. Speaks(u, b, h)
    BY <2>2, <2>3, LaterSpeaks DEF Later
  <2>5. StartEvent \in Events /\ StartEvent.t = "start"
    BY EventIsEvent DEF StartEvent, Event
  <2>6. Speaks(Emit(u, StartEvent), b, h)
    BY <2>4, <2>5, QuietSpeaks
  <2> QED
    BY <1>2, <2>1, <2>6 DEF Begin
<1> QED
  BY <1>1, <1>2

LEMMA CloseSpeaks == ASSUME NEW s, NEW b, NEW h, Speaks(s, b, h) PROVE Speaks(CloseBlock(s), b, h)
<1>1. CASE s.block = "none"
  BY <1>1 DEF CloseBlock
<1>2. CASE s.block # "none"
  <2>1. PICK u : u = [s EXCEPT !.block = "none"]
    OBVIOUS
  <2>2. s \in Decoders /\ s.at \in Int /\ s.next \in Nat /\ s.at < s.next
    BY InTurn
  <2>3. u \in Decoders /\ u.out = s.out /\ u.tools = s.tools /\ u.at = s.at /\ u.next = s.next
    BY <2>1, <2>2 DEF Decoders
  <2>4. Speaks(u, b, h)
    BY <2>2, <2>3, LaterSpeaks DEF Later
  <2>5. PICK e : e = CloseEvent(s.block, s.at, <<>>)
    OBVIOUS
  <2>6. e \in Events /\ e.t = "close" /\ e.k # "tool"
    <3>1. s.block \in Kinds /\ <<>> \in Seq(Nat) /\ s.block # "tool"
      BY <2>2 DEF Decoders, Kinds
    <3>2. e \in Events
      BY <2>2, <2>5, <3>1, EventIsEvent
    <3> QED
      BY <2>5, <3>1, <3>2 DEF CloseEvent, Event
  <2>7. Speaks(Emit(u, e), b, h)
    BY <2>4, <2>6, QuietSpeaks
  <2> QED
    BY <1>2, <2>1, <2>5, <2>7 DEF CloseBlock
<1> QED
  BY <1>1, <1>2

LEMMA OpenSpeaks ==
  ASSUME NEW s, NEW b, NEW h, Speaks(s, b, h), NEW k \in Talks PROVE Speaks(OpenBlock(s, k), b, h)
<1>1. CASE s.block = k
  BY <1>1 DEF OpenBlock
<1>2. CASE s.block # k
  <2>1. PICK w : w = CloseBlock(s)
    OBVIOUS
  <2>2. Speaks(w, b, h) /\ w \in Decoders /\ w.at \in Int /\ w.next \in Nat /\ w.at < w.next
    BY <2>1, CloseSpeaks, InTurn
  <2>3. PICK n, m : n = w.next /\ m = n + 1
    OBVIOUS
  <2>4. n \in Nat /\ n \in Int /\ m \in Nat /\ n < m /\ w.at <= n /\ n <= m
    BY <2>2, <2>3
  <2>5. PICK u : u = [w EXCEPT !.block = k, !.at = n, !.next = m]
    OBVIOUS
  <2>6. u \in Decoders /\ u.out = w.out /\ u.tools = w.tools /\ u.at = n /\ u.next = m
    <3>1. PICK y : y = [w EXCEPT !.block = k]
      OBVIOUS
    <3>2. y \in Decoders /\ y.out = w.out /\ y.tools = w.tools
      BY <2>2, <3>1 DEF Decoders, Talks
    <3>3. PICK z : z = [y EXCEPT !.at = n]
      OBVIOUS
    <3>4. z \in Decoders /\ z.out = w.out /\ z.tools = w.tools /\ z.at = n
      BY <2>4, <3>2, <3>3 DEF Decoders
    <3>5. u = [z EXCEPT !.next = m]
      BY <2>2, <2>5, <3>1, <3>3 DEF Decoders
    <3> QED
      BY <2>4, <3>4, <3>5 DEF Decoders
  <2>7. Speaks(u, b, h)
    <3>1. Later(w, u)
      BY ONLY <2>3, <2>4, <2>6 DEF Later
    <3> QED
      BY <2>2, <2>6, <3>1, LaterSpeaks
  <2>8. PICK e : e = OpenEvent(k, n)
    OBVIOUS
  <2>9. e \in Events /\ e.t = "open"
    <3>1. k \in Kinds
      BY DEF Kinds, Talks
    <3>2. e \in Events
      BY <2>4, <2>8, <3>1, EventIsEvent
    <3> QED
      BY <2>8, <3>2 DEF OpenEvent, Event
  <2>10. Speaks(Emit(u, e), b, h)
    BY <2>7, <2>9, QuietSpeaks
  <2> QED
    BY <1>2, <2>1, <2>3, <2>5, <2>8, <2>10 DEF OpenBlock
<1> QED
  BY <1>1, <1>2

(* A piece of talk is told as it is heard.                                 *)
LEMMA DeltaSpeaks ==
  ASSUME NEW s, NEW b, NEW h \in Seq(Hearings), Speaks(s, b, h), NEW k \in Talks, NEW n \in Nat
  PROVE  Speaks(Delta(s, k, n), b, Append(h, [k |-> k, i |-> 0, d |-> <<n>>]))
<1>1. PICK w : w = OpenBlock(s, k)
  OBVIOUS
<1>2. Speaks(w, b, h) /\ w \in Decoders /\ b \in Seq(Events) /\ w.at \in Int /\ w.next \in Nat /\ w.at < w.next
  BY <1>1, OpenSpeaks, InTurn
<1>3. PICK e, f, g : e = DeltaEvent(k, w.at, <<n>>) /\ f = [k |-> k, i |-> 0, d |-> <<n>>] /\ g = Append(h, f)
  OBVIOUS
<1>4. e \in Events /\ e.t = "delta"
  <2>1. k \in Kinds /\ <<n>> \in Seq(Nat)
    BY DEF Kinds, Talks
  <2>2. e \in Events
    BY <1>2, <1>3, <2>1, EventIsEvent
  <2> QED
    BY <1>3, <2>2 DEF DeltaEvent, Event
<1>5. PICK v : v = Emit(w, e)
  OBVIOUS
<1>6. PICK a, c : a = b \o w.out /\ c = b \o v.out
  OBVIOUS
<1>7. Emitted(w, b, e, v)
  BY <1>2, <1>4, <1>5, EmitAppends
<1>8. a \in Seq(Events) /\ c \in Seq(Events) /\ c = Append(a, e) /\ v \in Decoders
  BY <1>6, <1>7 DEF Emitted
<1>9. AgreedWith(w, a, h, {}) /\ Unclosed(a)
  BY <1>2, <1>6 DEF Speaks, Agreed
<1>10. AgreedWith(w, Append(a, e), Append(h, f), {})
  BY ONLY <1>2, <1>3, <1>8, <1>9, h \in Seq(Hearings), k \in Talks, n \in Nat, TalkAgreed
<1>11. Later(w, v)
  <2>1. v.tools = w.tools /\ v.at = w.at /\ v.next = w.next
    BY ONLY <1>7 DEF Emitted
  <2>2. w.at \in Int /\ w.next \in Nat /\ w.at < w.next
    BY ONLY <1>2
  <2> QED
    BY ONLY <2>1, <2>2 DEF Later
<1>12. AgreedWith(v, c, g, {})
  <2>1. AgreedWith(w, c, g, {})
    BY ONLY <1>3, <1>8, <1>10
  <2> QED
    BY ONLY <1>2, <1>8, <1>11, <2>1, LaterAgreed
<1>13. Unclosed(Append(a, e))
  BY <1>4, <1>8, <1>9, StaysUnclosed
<1>14. Speaks(v, b, g)
  BY <1>2, <1>6, <1>8, <1>12, <1>13 DEF Speaks, Agreed
<1>15. Delta(s, k, n) = v
  BY <1>1, <1>3, <1>5 DEF Delta
<1> QED
  BY ONLY <1>3, <1>14, <1>15

(* A stream c that tells x more of the tool call with index i than a does. *)
TellsMore(a, c, i, x) ==
  /\ a \in Seq(Events) /\ c \in Seq(Events)
  /\ \A kinds \in SUBSET Talks : Told(c, kinds, Int) = Told(a, kinds, Int)
  /\ \A l : ArgsTold(c, l) = IF l = i THEN ArgsTold(a, l) \o x ELSE ArgsTold(a, l)
  /\ \A l, k : Opens(a, l, k) => Opens(c, l, k)
  /\ \A s : Rising(s, a) => Rising(s, c)
  /\ Unclosed(c)

(* Where no piece of talk is added, talk still does not go back.           *)
LEMMA StillRising ==
  ASSUME NEW a \in Seq(Events), NEW e \in Events, ~(e.t = "delta" /\ e.k \in Talks), NEW s, Rising(s, a)
  PROVE  Rising(s, Append(a, e))
<1>1. PICK c, n : c = Append(a, e) /\ n = Len(a)
  OBVIOUS
<1>2. /\ c[n + 1] = e
      /\ \A m : m \in DOMAIN c <=> m \in DOMAIN a \/ m = n + 1
      /\ \A m \in DOMAIN a : c[m] = a[m]
  BY <1>1, AppendIndexes
<1>3. \A m \in DOMAIN c : c[m].t = "delta" /\ c[m].k \in Talks => m \in DOMAIN a /\ c[m] = a[m]
  BY <1>2
<1>4. \A m \in DOMAIN c : c[m].t = "delta" /\ c[m].k \in Talks => c[m].i <= s.at
  BY <1>3 DEF Rising
<1>5. ASSUME NEW l \in DOMAIN c, NEW m \in DOMAIN c,
             l < m /\ {c[l].t, c[m].t} = {"delta"} /\ {c[l].k, c[m].k} \subseteq Talks
      PROVE  c[l].i <= c[m].i
  <2>1. l \in DOMAIN a /\ m \in DOMAIN a /\ c[l] = a[l] /\ c[m] = a[m]
    BY <1>3, <1>5
  <2> QED
    BY <1>5, <2>1 DEF Rising
<1> QED
  BY <1>1, <1>4, <1>5 DEF Rising

LEMMA ToldNothing ==
  ASSUME NEW a \in Seq(Events), NEW e \in Events, NEW kinds, kinds \subseteq Content, NEW places, ~Tells(e,
         kinds, places)
  PROVE  Told(Append(a, e), kinds, places) = Told(a, kinds, places)
BY ToldAppend

LEMMA ToldMore ==
  ASSUME NEW a \in Seq(Events), NEW e \in Events, NEW kinds, kinds \subseteq Content, NEW places, Tells(e,
         kinds, places)
  PROVE  Told(Append(a, e), kinds, places) = Told(a, kinds, places) \o Pieces(e)
BY ToldAppend

LEMMA ArgsSaid ==
  ASSUME NEW a \in Seq(Events), NEW i
  PROVE  ArgsTold(a, i) \in Said /\ ArgsTold(a, i) \o <<>> = ArgsTold(a, i)
<1>1. ArgsTold(a, i) \in Said
  BY ToldSaid DEF ArgsTold
<1> QED
  BY <1>1, ConcatEmptySeq DEF Said

(* Nothing more is told by a call's announcement; a piece of its           *)
(* arguments tells that piece.                                             *)
LEMMA NothingMore ==
  ASSUME NEW a \in Seq(Events), Unclosed(a), NEW e \in Events, e.t # "delta", ~(e.t = "close" /\ e.k = "tool"), NEW i
  PROVE  TellsMore(a, Append(a, e), i, <<>>)
<1>1. PICK c : c = Append(a, e)
  OBVIOUS
<1>2. c \in Seq(Events) /\ \A l, k : Opens(a, l, k) => Opens(c, l, k)
  BY <1>1, AppendSays
<1>3. Unclosed(c) /\ \A s : Rising(s, a) => Rising(s, c)
  BY <1>1, StaysUnclosed, StillRising
<1>4. \A kinds, places : kinds \subseteq Content => Told(c, kinds, places) = Told(a, kinds, places)
  BY <1>1, ToldSame
<1>5. \A kinds \in SUBSET Talks : Told(c, kinds, Int) = Told(a, kinds, Int)
  <2>1. \A kinds \in SUBSET Talks : kinds \subseteq Content
    BY DEF Talks, Content
  <2> QED
    BY <1>4, <2>1
<1>6. ASSUME NEW l PROVE ArgsTold(c, l) = IF l = i THEN ArgsTold(a, l) \o <<>> ELSE ArgsTold(a, l)
  <2>1. {"tool"} \subseteq Content
    BY DEF Content
  <2>2. ArgsTold(c, l) = ArgsTold(a, l)
    BY <1>4, <2>1 DEF ArgsTold
  <2> QED
    BY <2>2, ArgsSaid
<1>7. TellsMore(a, c, i, <<>>)
  BY <1>2, <1>3, <1>5, <1>6 DEF TellsMore
<1> QED
  BY <1>1, <1>7

LEMMA PieceMore ==
  ASSUME NEW a \in Seq(Events), Unclosed(a), NEW e \in Events, e.t = "delta", e.k = "tool"
  PROVE  TellsMore(a, Append(a, e), e.i, Pieces(e))
<1>1. PICK c, x : c = Append(a, e) /\ x = Pieces(e)
  OBVIOUS
<1>2. c \in Seq(Events) /\ \A l, k : Opens(a, l, k) => Opens(c, l, k)
  BY <1>1, AppendSays
<1>3. Unclosed(c) /\ \A s : Rising(s, a) => Rising(s, c)
  BY <1>1, StaysUnclosed, StillRising DEF Talks
<1>4. ASSUME NEW kinds \in SUBSET Talks PROVE Told(c, kinds, Int) = Told(a, kinds, Int)
  <2>1. kinds \subseteq Content /\ ~Tells(e, kinds, Int)
    BY DEF Talks, Content, Tells
  <2>2. Told(Append(a, e), kinds, Int) = Told(a, kinds, Int)
    BY <2>1, ToldNothing
  <2> QED
    BY <1>1, <2>2
<1>5. ASSUME NEW l PROVE ArgsTold(c, l) = IF l = e.i THEN ArgsTold(a, l) \o x ELSE ArgsTold(a, l)
  <2>1. {"tool"} \subseteq Content /\ (Tells(e, {"tool"}, {l}) <=> l = e.i)
    BY DEF Content, Tells
  <2>2. CASE l = e.i
    <3>1. Told(Append(a, e), {"tool"}, {l}) = Told(a, {"tool"}, {l}) \o Pieces(e)
      BY <2>1, <2>2, ToldMore
    <3> QED
      BY ONLY <1>1, <2>2, <3>1, Zenon DEF ArgsTold
  <2>3. CASE l # e.i
    <3>1. Told(Append(a, e), {"tool"}, {l}) = Told(a, {"tool"}, {l})
      BY <2>1, <2>3, ToldNothing
    <3> QED
      BY ONLY <1>1, <2>3, <3>1, Zenon DEF ArgsTold
  <2> QED
    BY <2>2, <2>3
<1>6. TellsMore(a, c, e.i, x)
  BY <1>2, <1>3, <1>4, <1>5 DEF TellsMore
<1> QED
  BY <1>1, <1>6

LEMMA SameMore == ASSUME NEW a \in Seq(Events), Unclosed(a), NEW i PROVE TellsMore(a, a, i, <<>>)
<1>1. \A l : ArgsTold(a, l) = IF l = i THEN ArgsTold(a, l) \o <<>> ELSE ArgsTold(a, l)
  BY ArgsSaid
<1> QED
  BY <1>1 DEF TellsMore

LEMMA ThenMore ==
  ASSUME NEW a, NEW c, NEW g, NEW i, NEW x, TellsMore(a, c, i, <<>>), TellsMore(c, g, i, x)
  PROVE  TellsMore(a, g, i, x)
<1>1. a \in Seq(Events) /\ g \in Seq(Events) /\ Unclosed(g)
  BY DEF TellsMore
<1>2. \A kinds \in SUBSET Talks : Told(g, kinds, Int) = Told(a, kinds, Int)
  BY DEF TellsMore
<1>3. \A l, k : Opens(a, l, k) => Opens(g, l, k)
  BY DEF TellsMore
<1>4. \A s : Rising(s, a) => Rising(s, g)
  BY DEF TellsMore
<1>5. ASSUME NEW l PROVE ArgsTold(g, l) = IF l = i THEN ArgsTold(a, l) \o x ELSE ArgsTold(a, l)
  <2>1. ArgsTold(c, l) = ArgsTold(a, l)
    BY <1>1, ArgsSaid DEF TellsMore
  <2>2. ArgsTold(g, l) = IF l = i THEN ArgsTold(c, l) \o x ELSE ArgsTold(c, l)
    BY DEF TellsMore
  <2> QED
    BY <2>1, <2>2
<1> QED
  BY <1>1, <1>2, <1>3, <1>4, <1>5 DEF TellsMore

(* The first fragment of a tool call: the call is about to be heard of.    *)
Knowing(w, b, h, up, j) ==
  /\ Agreed(w, b, h, {up}) /\ Unclosed(b \o w.out) /\ w.tools \in Seq(ToolCalls)
  /\ j \in DOMAIN w.tools /\ w.tools[j].up = up
LEMMA KnownSpeaks ==
  ASSUME NEW s, NEW b, NEW h, Speaks(s, b, h), NEW up \in ToolSlots
  PROVE  Knowing(KnownTool(s, up), b, h, up, ToolSlot(KnownTool(s, up), up))
<1>1. /\ s \in Decoders /\ b \in Seq(Events) /\ s.at \in Int /\ s.next \in Nat /\ s.at < s.next
      /\ s.tools \in Seq(ToolCalls)
  BY InTurn DEF Decoders
<1>2. PICK a : a = b \o s.out
  OBVIOUS
<1>3. AgreedWith(s, a, h, {}) /\ Unclosed(a)
  BY <1>2 DEF Speaks, Agreed
<1>4. CallsAgreed(s, h, {})
  BY <1>3 DEF AgreedWith
<1>5. CASE \E j \in DOMAIN s.tools : s.tools[j].up = up
  <2>1. PICK j : j = ToolSlot(s, up)
    OBVIOUS
  <2>2. KnownTool(s, up) = s /\ j \in DOMAIN s.tools /\ s.tools[j].up = up
    BY <1>5, <2>1 DEF KnownTool, ToolSlot
  <2>3. up \in CalledIn(h)
    BY <1>4, <2>2 DEF CallsAgreed
  <2>4. CallsAgreed(s, h, {up})
    BY <1>4, <2>3 DEF CallsAgreed
  <2>5. AgreedWith(s, a, h, {up})
    BY <1>3, <2>4 DEF AgreedWith
  <2> QED
    BY <1>1, <1>2, <1>3, <2>1, <2>2, <2>5 DEF Knowing, Agreed
<1>6. CASE ~ \E j \in DOMAIN s.tools : s.tools[j].up = up
  <2>1. PICK n, q, m, l : n = s.next /\ q = s.tools /\ m = n + 1 /\ l = Len(q) + 1
    OBVIOUS
  <2>2. PICK t : t = [up |-> up, index |-> n, id |-> FALSE, name |-> FALSE, args |-> <<>>, started |-> FALSE]
    OBVIOUS
  <2>3. n \in Nat /\ m \in Nat /\ q \in Seq(ToolCalls) /\ <<>> \in Seq(Nat)
    BY <1>1, <2>1
  <2>4. t \in ToolCalls /\ t.index = n /\ ~t.started /\ t.up = up /\ t.args = <<>>
    BY <2>2, <2>3 DEF ToolCalls
  <2>5. PICK p : p = Append(q, t)
    OBVIOUS
  <2>6. p \in Seq(ToolCalls) /\ p[l] = t /\ l \notin DOMAIN q
        /\ (\A i : i \in DOMAIN p <=> i \in DOMAIN q \/ i = l) /\ \A i \in DOMAIN q : p[i] = q[i]
    BY <2>1, <2>3, <2>4, <2>5, AppendProperties, LenProperties
  <2>7. PICK w : w = [s EXCEPT !.tools = p, !.next = m]
    OBVIOUS
  <2>8. w \in Decoders /\ w.tools = p /\ w.next = m /\ w.at = s.at /\ w.out = s.out
    <3>1. PICK y : y = [s EXCEPT !.tools = p]
      OBVIOUS
    <3>2. y \in Decoders /\ y.tools = p /\ y.at = s.at /\ y.out = s.out
      BY <1>1, <2>6, <3>1 DEF Decoders
    <3>3. w = [y EXCEPT !.next = m]
      BY <1>1, <2>7, <3>1 DEF Decoders
    <3> QED
      BY <2>3, <3>2, <3>3 DEF Decoders
  <2>9. KnownTool(s, up) = w
    BY <1>6, <2>1, <2>2, <2>5, <2>7 DEF KnownTool
  <2>10. \A i \in DOMAIN q : q[i].up # up /\ q[i].index \in Nat /\ q[i].index < n
    <3>1. \A i \in DOMAIN q : q[i].index \in Nat
      BY <1>1, <2>1, ToolTyped
    <3> QED
      BY <1>4, <1>6, <2>1, <3>1 DEF CallsAgreed
  <2>11. up \notin CalledIn(h)
    BY <1>4, <1>6 DEF CallsAgreed
  <2>12. Args(h, up) = <<>>
    BY <1>4, <2>11 DEF CallsAgreed
  <2>13. ToolsAgreed(w, a, h)
    <3>1. ASSUME NEW i \in DOMAIN q PROVE ToolAgreed(p[i], a, h)
      BY <1>3, <2>1, <2>6 DEF AgreedWith, ToolsAgreed
    <3>2. ArgsTold(a, n) = <<>>
      BY <1>1, <1>3, <2>1 DEF AgreedWith, NothingBeyond
    <3>3. Pieces([k |-> "tool", d |-> <<>>]) = <<>>
      BY DEF Pieces
    <3>4. ToolAgreed(t, a, h)
      BY <2>4, <2>12, <3>2, <3>3 DEF ToolAgreed
    <3> QED
      BY <2>6, <2>8, <3>1, <3>4 DEF ToolsAgreed
  <2>14. CallsAgreed(w, h, {up})
    <3>1. ASSUME NEW i \in DOMAIN p, NEW j \in DOMAIN p, p[i].up = p[j].up \/ p[i].index = p[j].index PROVE i = j
      <4>1. CASE i \in DOMAIN q /\ j \in DOMAIN q
        BY <1>4, <2>1, <2>6, <3>1, <4>1 DEF CallsAgreed
      <4>2. CASE ~(i \in DOMAIN q /\ j \in DOMAIN q)
        BY <2>3, <2>4, <2>6, <2>10, <3>1, <4>2
      <4> QED
        BY <4>1, <4>2
    <3>2. \A i \in DOMAIN p : p[i].index < m
      BY <2>1, <2>3, <2>4, <2>6, <2>10
    <3>3. {p[i].up : i \in DOMAIN p} = CalledIn(h) \cup {up}
      <4>1. {q[i].up : i \in DOMAIN q} = CalledIn(h)
        BY <1>4, <2>1 DEF CallsAgreed
      <4>2. \A x : x \in {p[i].up : i \in DOMAIN p} <=> x \in {q[i].up : i \in DOMAIN q} \/ x = up
        BY <2>4, <2>6
      <4> QED
        BY <4>1, <4>2
    <3>4. \A u : u \notin CalledIn(h) => Args(h, u) = <<>>
      BY <1>4 DEF CallsAgreed
    <3> QED
      BY <2>8, <3>1, <3>2, <3>3, <3>4 DEF CallsAgreed
  <2>15. NothingBeyond(w, a) /\ Rising(w, a)
    <3>1. NothingBeyond(s, a) /\ Rising(s, a)
      BY <1>3 DEF AgreedWith
    <3>2. \A i \in Int : i >= m => i >= n
      BY <2>1, <2>3
    <3>3. s.at < m
      BY <1>1, <2>1
    <3> QED
      BY <2>1, <2>8, <3>1, <3>2, <3>3 DEF NothingBeyond, Rising
  <2>16. AgreedWith(w, a, h, {up})
    BY <1>3, <2>13, <2>14, <2>15 DEF AgreedWith
  <2>17. \E i \in DOMAIN w.tools : w.tools[i].up = up
    BY <2>4, <2>6, <2>8
  <2>18. ToolSlot(w, up) \in DOMAIN w.tools /\ w.tools[ToolSlot(w, up)].up = up
    BY <2>17 DEF ToolSlot
  <2> QED
    BY <1>1, <1>2, <1>3, <2>6, <2>8, <2>9, <2>16, <2>18 DEF Knowing, Agreed
<1> QED
  BY <1>5, <1>6

(* What a longer piece tells is what its parts do.                         *)
LEMMA PiecesMore ==
  ASSUME NEW x, NEW y, NEW z, x.d \in Seq(Nat), z.d \in Seq(Nat), y.k = x.k, z.k = x.k, y.d = x.d \o z.d
  PROVE  Pieces(y) = Pieces(x) \o Pieces(z)
<1>1. Pieces(x) = Tagged(x.k, x.d) /\ Pieces(y) = Tagged(y.k, y.d) /\ Pieces(z) = Tagged(z.k, z.d)
  BY DEF Pieces, Tagged
<1>2. PICK k, p, q : k = x.k /\ p = x.d /\ q = z.d
  OBVIOUS
<1>3. p \in Seq(Nat) /\ q \in Seq(Nat)
  BY <1>2
<1>4. Tagged(k, p \o q) = Tagged(k, p) \o Tagged(k, q)
  BY ONLY <1>3, TaggedConcat
<1> QED
  BY ONLY <1>1, <1>2, <1>4, y.k = x.k, z.k = x.k, y.d = x.d \o z.d, Zenon

LEMMA PiecesConcat ==
  ASSUME NEW x \in Seq(Nat), NEW y \in Seq(Nat)
  PROVE  Pieces([k |-> "tool", d |-> x \o y]) = Pieces([k |-> "tool", d |-> x]) \o Pieces([k |-> "tool", d |-> y])
<1>1. PICK f, g, h : f = [k |-> "tool", d |-> x] /\ g = [k |-> "tool", d |-> y] /\ h = [k |-> "tool", d |-> x \o y]
  OBVIOUS
<1>2. f.k = "tool" /\ g.k = f.k /\ h.k = f.k /\ f.d \in Seq(Nat) /\ g.d \in Seq(Nat) /\ h.d = f.d \o g.d
  BY <1>1
<1>3. Pieces(h) = Pieces(f) \o Pieces(g)
  BY ONLY <1>2, PiecesMore, Zenon
<1> QED
  BY ONLY <1>1, <1>3, Zenon

(* A fragment of tool call j with the piece d of its arguments is heard,   *)
(* and told if the call is announced.                                      *)
Fragment(w, j, d, u) ==
  /\ u \in Decoders /\ DOMAIN u.tools = DOMAIN w.tools /\ u.at = w.at /\ u.next = w.next
  /\ \A l \in DOMAIN w.tools : l # j => u.tools[l] = w.tools[l]
  /\ u.tools[j].up = w.tools[j].up /\ u.tools[j].index = w.tools[j].index
  /\ u.tools[j].started = w.tools[j].started /\ u.tools[j].args = w.tools[j].args \o d
CallPiece(d) == Pieces([k |-> "tool", d |-> d])
LEMMA FragmentAgreed ==
  ASSUME NEW w \in Decoders, NEW h \in Seq(Hearings), NEW a, NEW j \in DOMAIN w.tools, NEW up, up = w.tools[j].up,
         AgreedWith(w, a, h, {up}), NEW d \in Seq(Nat), NEW u, Fragment(w, j, d, u),
         NEW c, TellsMore(a, c, w.tools[j].index, IF w.tools[j].started THEN CallPiece(d) ELSE <<>>)
  PROVE  AgreedWith(u, c, Append(h, [k |-> "tool", i |-> up, d |-> d]), {})
<1>1. PICK t, n, f, g, x : /\ t = w.tools[j] /\ n = t.index /\ f = [k |-> "tool", i |-> up, d |-> d]
                           /\ g = Append(h, f)
                           /\ x = IF t.started THEN CallPiece(d) ELSE <<>>
  OBVIOUS
<1>2. n \in Nat /\ t.args \in Seq(Nat) /\ up \in ToolSlots
  BY <1>1, ToolTyped
<1>3. f \in Hearings /\ f.k = "tool" /\ f.i = up
  BY <1>1, <1>2 DEF Hearings, Content
<1>4. Hears(h, f, g)
  BY ONLY h \in Seq(Hearings), <1>1, <1>3, HeardAppend
<1>5. Pieces(f) = CallPiece(d)
  BY <1>1, SamePieces DEF CallPiece
<1>6. TellsMore(a, c, n, x)
  BY <1>1
<1>7. \A l : Args(g, l) = IF l = up THEN Args(h, l) \o CallPiece(d) ELSE Args(h, l)
  BY <1>3, <1>4, <1>5 DEF Hears, Args, Put
<1>8. CalledIn(g) = CalledIn(h) \cup {up}
  BY <1>3, <1>4 DEF Hears
<1>9. CallsAgreed(w, h, {up}) /\ ToolsAgreed(w, a, h)
  BY DEF AgreedWith
<1>10. ASSUME NEW kinds \in SUBSET Talks PROVE Told(c, kinds, Int) = Gathered(g, kinds, Int)
  <2>1. Told(c, kinds, Int) = Gathered(h, kinds, Int)
    BY <1>6 DEF TellsMore, AgreedWith
  <2>2. "tool" \notin kinds
    BY DEF Talks
  <2> QED
    BY <1>3, <1>4, <2>1, <2>2 DEF Hears, Put
<1>11. ASSUME NEW l \in DOMAIN w.tools PROVE ToolAgreed(u.tools[l], c, g)
  <2>1. ToolAgreed(w.tools[l], a, h)
    BY <1>9 DEF ToolsAgreed
  <2>2. CASE l = j
    <3>1. PICK r : r = u.tools[j]
      OBVIOUS
    <3>2. r.up = up /\ r.index = n /\ r.started = t.started /\ r.args = t.args \o d
      BY ONLY Fragment(w, j, d, u), up = w.tools[j].up, <1>1, <3>1, Zenon DEF Fragment
    <3>3. ToolAgreed(t, a, h) /\ t.up = up /\ t.index = n
      BY <1>1, <2>1, <2>2
    <3>4. CallPiece(r.args) = CallPiece(t.args) \o CallPiece(d)
      BY <1>2, <3>2, PiecesConcat DEF CallPiece
    <3>5. CallPiece(t.args) = Args(h, up) /\ Args(g, up) = Args(h, up) \o CallPiece(d)
      BY <1>7, <3>3 DEF ToolAgreed, CallPiece
    <3>6. ArgsTold(c, n) = ArgsTold(a, n) \o x
      BY <1>6 DEF TellsMore
    <3>7. CASE t.started
      <4>1. ArgsTold(a, n) = Args(h, up) /\ Opens(a, n, "tool")
        BY <3>3, <3>7 DEF ToolAgreed
      <4>2. ArgsTold(c, n) = Args(g, up) /\ Opens(c, n, "tool")
        <5>1. ArgsTold(c, n) = Args(g, up)
          BY ONLY <1>1, <3>5, <3>6, <3>7, <4>1, Zenon
        <5>2. Opens(c, n, "tool")
          BY ONLY <1>6, <4>1, Zenon DEF TellsMore
        <5> QED
          BY ONLY <5>1, <5>2
      <4> QED
        BY ONLY <2>2, <3>1, <3>2, <3>4, <3>5, <3>7, <4>2, Zenon DEF ToolAgreed, CallPiece
    <3>8. CASE ~t.started
      <4>1. ArgsTold(a, n) = <<>> /\ x = <<>>
        BY <1>1, <3>3, <3>8 DEF ToolAgreed
      <4>2. ArgsTold(c, n) = <<>>
        BY <3>6, <4>1
      <4> QED
        BY ONLY <2>2, <3>1, <3>2, <3>4, <3>5, <3>8, <4>2, Zenon DEF ToolAgreed, CallPiece
    <3> QED
      BY <3>7, <3>8
  <2>3. CASE l # j
    <3>1. u.tools[l] = w.tools[l]
      BY <2>3 DEF Fragment
    <3>2. w.tools[l].up # up /\ w.tools[l].index # n
      BY <1>1, <1>9, <2>3 DEF CallsAgreed
    <3>3. /\ ArgsTold(c, w.tools[l].index) = ArgsTold(a, w.tools[l].index)
          /\ Args(g, w.tools[l].up) = Args(h, w.tools[l].up)
      BY <1>6, <1>7, <3>2 DEF TellsMore
    <3>4. \A i, k : Opens(a, i, k) => Opens(c, i, k)
      BY <1>6 DEF TellsMore
    <3> QED
      BY <2>1, <3>1, <3>3, <3>4 DEF ToolAgreed
  <2> QED
    BY <2>2, <2>3
<1>12. ToolsAgreed(u, c, g)
  BY <1>11 DEF ToolsAgreed, Fragment
<1>13. CallsAgreed(u, g, {})
  <2>1. \A l \in DOMAIN w.tools : u.tools[l].up = w.tools[l].up /\ u.tools[l].index = w.tools[l].index
    BY DEF Fragment
  <2>2. DOMAIN u.tools = DOMAIN w.tools /\ u.next = w.next
    BY DEF Fragment
  <2>3. {u.tools[l].up : l \in DOMAIN u.tools} = {w.tools[l].up : l \in DOMAIN w.tools}
    BY <2>1, <2>2
  <2>4. \A y : y \notin CalledIn(g) => Args(g, y) = <<>>
    BY <1>7, <1>8, <1>9 DEF CallsAgreed
  <2> QED
    BY <1>8, <1>9, <2>1, <2>2, <2>3, <2>4 DEF CallsAgreed
<1>14. NothingBeyond(u, c)
  <2>1. n < w.next /\ w.next \in Nat /\ u.next = w.next
    BY <1>1, <1>9 DEF CallsAgreed, Decoders, Fragment
  <2>2. \A i \in Int : i >= w.next => i # n
    BY <1>2, <2>1
  <2> QED
    BY <1>6, <2>1, <2>2 DEF AgreedWith, NothingBeyond, TellsMore
<1>15. Rising(u, c)
  <2>1. Rising(w, c)
    BY <1>6 DEF AgreedWith, TellsMore
  <2> QED
    BY <2>1 DEF Rising, Fragment
<1>16. ClosesTell(c)
  BY <1>6 DEF TellsMore, Unclosed, ClosesTell
<1> QED
  BY ONLY <1>1, <1>10, <1>12, <1>13, <1>14, <1>15, <1>16 DEF AgreedWith

(* Tool call j is announced, with what was heard of its arguments.         *)
NowStarted(w, j, u) ==
  /\ u \in Decoders /\ DOMAIN u.tools = DOMAIN w.tools /\ u.at = w.at /\ u.next = w.next
  /\ \A l \in DOMAIN w.tools : l # j => u.tools[l] = w.tools[l]
  /\ u.tools[j].up = w.tools[j].up /\ u.tools[j].index = w.tools[j].index
  /\ u.tools[j].started /\ u.tools[j].args = w.tools[j].args
LEMMA StartedAgreed ==
  ASSUME NEW w \in Decoders, NEW h, NEW a, NEW j \in DOMAIN w.tools, ~w.tools[j].started,
         AgreedWith(w, a, h, {}), NEW u, NowStarted(w, j, u),
         NEW c, TellsMore(a, c, w.tools[j].index, CallPiece(w.tools[j].args)), Opens(c, w.tools[j].index, "tool")
  PROVE  AgreedWith(u, c, h, {})
<1>1. PICK t, n, x : t = w.tools[j] /\ n = t.index /\ x = CallPiece(t.args)
  OBVIOUS
<1>2. n \in Nat /\ t.args \in Seq(Nat)
  BY <1>1, ToolTyped
<1>3. TellsMore(a, c, n, x) /\ Opens(c, n, "tool") /\ ~t.started
  BY <1>1
<1>4. CallsAgreed(w, h, {}) /\ ToolsAgreed(w, a, h)
  BY DEF AgreedWith
<1>5. ASSUME NEW kinds \in SUBSET Talks PROVE Told(c, kinds, Int) = Gathered(h, kinds, Int)
  BY <1>3 DEF TellsMore, AgreedWith
<1>6. ASSUME NEW l \in DOMAIN w.tools PROVE ToolAgreed(u.tools[l], c, h)
  <2>1. ToolAgreed(w.tools[l], a, h)
    BY <1>4 DEF ToolsAgreed
  <2>2. CASE l = j
    <3>1. PICK r : r = u.tools[j]
      OBVIOUS
    <3>2. r.up = t.up /\ r.index = n /\ r.started /\ r.args = t.args
      BY ONLY NowStarted(w, j, u), <1>1, <3>1, Zenon DEF NowStarted
    <3>3. ToolAgreed(t, a, h)
      BY <1>1, <2>1, <2>2
    <3>4. ArgsTold(a, n) = <<>> /\ x = Args(h, t.up)
      BY ONLY <1>1, <1>3, <3>3, Zenon DEF ToolAgreed, CallPiece
    <3>5. ArgsTold(c, n) = <<>> \o x
      BY <1>3, <3>4 DEF TellsMore
    <3>6. <<>> \o x = x
      <4>1. CallPiece(t.args) \in Said
        BY <1>2, PiecesSaid DEF CallPiece, Kinds
      <4> QED
        BY <1>1, <4>1, ConcatEmptySeq DEF Said
    <3> QED
      BY ONLY <1>1, <1>3, <2>2, <3>1, <3>2, <3>4, <3>5, <3>6, Zenon DEF ToolAgreed, CallPiece
  <2>3. CASE l # j
    <3>1. u.tools[l] = w.tools[l]
      BY <2>3 DEF NowStarted
    <3>2. w.tools[l].index # n
      BY <1>1, <1>4, <2>3 DEF CallsAgreed
    <3>3. ArgsTold(c, w.tools[l].index) = ArgsTold(a, w.tools[l].index) /\ \A i, k : Opens(a, i, k) => Opens(c, i, k)
      BY <1>3, <3>2 DEF TellsMore
    <3> QED
      BY <2>1, <3>1, <3>3 DEF ToolAgreed
  <2> QED
    BY <2>2, <2>3
<1>7. ToolsAgreed(u, c, h)
  BY <1>6 DEF ToolsAgreed, NowStarted
<1>8. CallsAgreed(u, h, {})
  <2>1. \A l \in DOMAIN w.tools : u.tools[l].up = w.tools[l].up /\ u.tools[l].index = w.tools[l].index
    BY DEF NowStarted
  <2>2. DOMAIN u.tools = DOMAIN w.tools /\ u.next = w.next
    BY DEF NowStarted
  <2>3. {u.tools[l].up : l \in DOMAIN u.tools} = {w.tools[l].up : l \in DOMAIN w.tools}
    BY <2>1, <2>2
  <2> QED
    BY <1>4, <2>1, <2>2, <2>3 DEF CallsAgreed
<1>9. NothingBeyond(u, c)
  <2>1. n < w.next /\ w.next \in Nat /\ u.next = w.next
    BY <1>1, <1>4 DEF CallsAgreed, Decoders, NowStarted
  <2>2. \A i \in Int : i >= w.next => i # n
    BY <1>2, <2>1
  <2> QED
    BY <1>3, <2>1, <2>2 DEF AgreedWith, NothingBeyond, TellsMore
<1>10. Rising(u, c)
  <2>1. Rising(w, c)
    BY <1>3 DEF AgreedWith, TellsMore
  <2> QED
    BY <2>1 DEF Rising, NowStarted
<1>11. ClosesTell(c)
  BY <1>3 DEF TellsMore, Unclosed, ClosesTell
<1> QED
  BY ONLY <1>5, <1>7, <1>8, <1>9, <1>10, <1>11 DEF AgreedWith

LEMMA CloseTools == ASSUME NEW s \in Decoders PROVE CloseBlock(s).tools = s.tools
<1>1. CASE s.block = "none"
  BY <1>1 DEF CloseBlock
<1>2. CASE s.block # "none"
  <2>1. PICK u, o : u = [s EXCEPT !.block = "none"] /\ o = Append(s.out, CloseEvent(s.block, s.at, <<>>))
    OBVIOUS
  <2>2. u \in Decoders /\ u.out = s.out /\ u.tools = s.tools
    BY <2>1 DEF Decoders
  <2>3. CloseBlock(s) = [u EXCEPT !.out = o]
    BY <1>2, <2>1, <2>2 DEF CloseBlock, Emit
  <2> QED
    BY <2>2, <2>3 DEF Decoders
<1> QED
  BY <1>1, <1>2

LEMMA StartSpeaks ==
  ASSUME NEW s, NEW b, NEW h, Speaks(s, b, h), NEW j \in DOMAIN s.tools, ~s.tools[j].started
  PROVE  Speaks(StartToolCall(s, j), b, h)
<1>1. PICK w : w = CloseBlock(s)
  OBVIOUS
<1>2. Speaks(w, b, h) /\ w \in Decoders /\ b \in Seq(Events) /\ s \in Decoders
      /\ w.at \in Int /\ w.next \in Nat /\ w.at < w.next
  BY <1>1, CloseSpeaks, InTurn
<1>3. w.tools = s.tools
  BY <1>1, <1>2, CloseTools
<1>4. PICK t, n : t = w.tools[j] /\ n = t.index
  OBVIOUS
<1>5. t \in ToolCalls /\ n \in Nat /\ n \in Int /\ t.args \in Seq(Nat)
  BY <1>2, <1>3, <1>4, ToolTyped
<1>6. PICK r : r = [t EXCEPT !.started = TRUE]
  OBVIOUS
<1>7. r \in ToolCalls /\ r.index = n /\ r.started /\ r.up = t.up /\ r.args = t.args
  BY <1>4, <1>5, <1>6 DEF ToolCalls
<1>8. PICK u : u = [w EXCEPT !.tools[j] = r]
  OBVIOUS
<1>9. /\ u \in Decoders /\ u.at = w.at /\ u.next = w.next /\ u.out = w.out /\ DOMAIN u.tools = DOMAIN w.tools
      /\ u.tools[j] = r /\ \A l \in DOMAIN w.tools : l # j => u.tools[l] = w.tools[l]
  BY <1>2, <1>3, <1>7, <1>8, ToolReplaced
<1>10. NowStarted(w, j, u)
  BY <1>4, <1>7, <1>9 DEF NowStarted
<1>11. PICK e, o : e = OpenEvent("tool", n) /\ o = Emit(u, e)
  OBVIOUS
<1>12. e \in Events /\ e.t = "open" /\ e.i = n /\ e.k = "tool"
  <2>1. "tool" \in Kinds
    BY DEF Kinds
  <2>2. e \in Events
    BY <1>5, <1>11, <2>1, EventIsEvent
  <2> QED
    BY <1>11, <2>2 DEF OpenEvent, Event
<1>13. Emitted(u, b, e, o)
  BY <1>2, <1>9, <1>11, <1>12, EmitAppends
<1>14. PICK a, a1 : a = b \o w.out /\ a1 = b \o o.out
  OBVIOUS
<1>15. a \in Seq(Events) /\ a1 \in Seq(Events) /\ a1 = Append(a, e) /\ o \in Decoders
  BY <1>9, <1>13, <1>14 DEF Emitted
<1>16. AgreedWith(w, a, h, {}) /\ Unclosed(a)
  BY <1>2, <1>14 DEF Speaks, Agreed
<1>17. TellsMore(a, a1, n, <<>>) /\ Opens(a1, n, "tool")
  BY <1>12, <1>15, <1>16, NothingMore, AppendSays
<1>18. PICK v : v = StartToolCall(s, j)
  OBVIOUS
<1>19. v = IF t.args = <<>> THEN o ELSE Emit(o, DeltaEvent("tool", n, t.args))
  <2>1. u = [w EXCEPT !.tools[j].started = TRUE]
    BY <1>4, <1>6, <1>8
  <2> QED
    BY <1>1, <1>3, <1>4, <1>11, <1>18, <2>1 DEF StartToolCall
<1>20. ~w.tools[j].started
  BY <1>3
<1>21. SUFFICES v \in Decoders /\ v.tools = u.tools /\ v.at = u.at /\ v.next = u.next
                /\ TellsMore(a, b \o v.out, n, CallPiece(t.args)) /\ Opens(b \o v.out, n, "tool")
  <2>1. PICK c : c = b \o v.out
    OBVIOUS
  <2>2. TellsMore(a, c, n, CallPiece(t.args)) /\ Opens(c, n, "tool") /\ v \in Decoders
    BY <1>21, <2>1
  <2>3. j \in DOMAIN w.tools
    BY <1>3
  <2>4. AgreedWith(u, c, h, {})
    BY ONLY <1>2, <1>4, <1>10, <1>16, <1>20, <2>2, <2>3, StartedAgreed
  <2>5. Later(u, v)
    BY <1>2, <1>9, <1>21 DEF Later
  <2>6. c \in Seq(Events) /\ Unclosed(c)
    BY <2>2 DEF TellsMore
  <2>7. AgreedWith(v, c, h, {})
    BY ONLY <1>9, <2>2, <2>4, <2>5, <2>6, LaterAgreed
  <2> QED
    BY <1>2, <1>18, <2>1, <2>2, <2>6, <2>7 DEF Speaks, Agreed
<1>22. o.tools = u.tools /\ o.at = u.at /\ o.next = u.next
  BY <1>13 DEF Emitted
<1>23. CASE t.args = <<>>
  <2>1. CallPiece(t.args) = <<>>
    BY <1>23 DEF CallPiece, Pieces
  <2> QED
    BY <1>14, <1>15, <1>17, <1>19, <1>22, <1>23, <2>1
<1>24. CASE t.args # <<>>
  <2>1. PICK e2 : e2 = DeltaEvent("tool", n, t.args)
    OBVIOUS
  <2>2. e2 \in Events /\ e2.t = "delta" /\ e2.k = "tool" /\ e2.i = n /\ e2.d = t.args
    <3>1. "tool" \in Kinds
      BY DEF Kinds
    <3>2. e2 \in Events
      BY <1>5, <2>1, <3>1, EventIsEvent
    <3> QED
      BY <2>1, <3>2 DEF DeltaEvent, Event
  <2>3. v = Emit(o, e2)
    BY <1>19, <1>24, <2>1
  <2>4. Emitted(o, b, e2, v)
    BY <1>2, <1>15, <2>2, <2>3, EmitAppends
  <2>5. PICK c : c = b \o v.out
    OBVIOUS
  <2>6. c = Append(a1, e2) /\ v \in Decoders /\ v.tools = o.tools /\ v.at = o.at /\ v.next = o.next
    BY <1>14, <2>4, <2>5 DEF Emitted
  <2>7. Unclosed(a1)
    BY <1>17 DEF TellsMore
  <2>8. Pieces(e2) = CallPiece(t.args)
    BY <2>2, SamePieces DEF CallPiece
  <2>9. TellsMore(a1, Append(a1, e2), e2.i, Pieces(e2))
    BY <1>15, <2>2, <2>7, PieceMore
  <2>10. TellsMore(a1, c, n, CallPiece(t.args))
    BY <2>2, <2>6, <2>8, <2>9
  <2>11. TellsMore(a, c, n, CallPiece(t.args))
    BY <1>17, <2>10, ThenMore
  <2>12. Opens(c, n, "tool")
    BY <1>17, <2>10 DEF TellsMore
  <2> QED
    BY <1>22, <2>5, <2>6, <2>11, <2>12
<1> QED
  BY <1>23, <1>24

(* A fragment of a tool call is heard.                                     *)
CallHeard(h, up, d) == Append(h, [k |-> "tool", i |-> up, d |-> d])
LEMMA FragmentSpeaks ==
  ASSUME NEW s, NEW b, NEW h \in Seq(Hearings), Speaks(s, b, h), NEW p, NEW f \in ToolFrames, NEW n \in Nat
  PROVE  Speaks(ConsumeToolCall(p, s, f, n), b, CallHeard(h, f.up, IF f.args THEN <<n>> ELSE <<>>))
<1>1. PICK w, j, up, piece, g : /\ w = KnownTool(s, f.up) /\ j = ToolSlot(w, f.up) /\ up = f.up
                                /\ piece = (IF f.args THEN <<n>> ELSE <<>>) /\ g = CallHeard(h, up, piece)
  OBVIOUS
<1>2. up \in ToolSlots /\ f.id \in BOOLEAN /\ f.name \in BOOLEAN /\ f.args \in BOOLEAN
  BY <1>1 DEF ToolFrames
<1>3. Knowing(w, b, h, up, j)
  BY <1>1, <1>2, KnownSpeaks
<1>4. PICK a : a = b \o w.out
  OBVIOUS
<1>5. /\ w \in Decoders /\ b \in Seq(Events) /\ AgreedWith(w, a, h, {up}) /\ Unclosed(a)
      /\ j \in DOMAIN w.tools /\ w.tools[j].up = up
  BY <1>3, <1>4 DEF Knowing, Agreed
<1>6. PICK t : t = w.tools[j]
  OBVIOUS
<1>7. t \in ToolCalls /\ piece \in Seq(Nat) /\ t.args \in Seq(Nat)
  BY <1>1, <1>5, <1>6, ToolTyped
<1>8. PICK x, y, z : x = (t.id \/ f.id) /\ y = (t.name \/ f.name) /\ z = t.args \o piece
  OBVIOUS
<1>9. PICK r : r = [t EXCEPT !.id = @ \/ f.id, !.name = @ \/ f.name, !.args = @ \o piece]
  OBVIOUS
<1>10. r \in ToolCalls /\ r.index = t.index /\ r.started = t.started /\ r.up = t.up /\ r.args = z
  <2>1. x \in BOOLEAN /\ y \in BOOLEAN /\ z \in Seq(Nat)
    BY <1>7, <1>8, ConcatProperties
  <2>2. r = [t EXCEPT !.id = x, !.name = y, !.args = z]
    BY <1>8, <1>9, Zenon
  <2> QED
    BY <1>7, <2>1, <2>2 DEF ToolCalls
<1>11. PICK u : u = [w EXCEPT !.tools[j] = r]
  OBVIOUS
<1>12. /\ u \in Decoders /\ u.at = w.at /\ u.next = w.next /\ u.out = w.out /\ DOMAIN u.tools = DOMAIN w.tools
       /\ u.tools[j] = r /\ \A l \in DOMAIN w.tools : l # j => u.tools[l] = w.tools[l]
  BY <1>5, <1>10, <1>11, ToolReplaced
<1>13. Fragment(w, j, piece, u)
  BY ONLY <1>6, <1>8, <1>10, <1>12, Zenon DEF Fragment
<1>14. PICK v : v = ConsumeToolCall(p, s, f, n)
  OBVIOUS
<1>15. v = IF u.tools[j].started
           THEN IF f.args THEN Emit(u, DeltaEvent("tool", u.tools[j].index, piece)) ELSE u
           ELSE IF Announceable(p, u.tools[j]) THEN StartToolCall(u, j) ELSE u
  <2>1. u = [w EXCEPT !.tools[j] = [t EXCEPT !.id = @ \/ f.id, !.name = @ \/ f.name, !.args = @ \o piece]]
    BY <1>9, <1>11, Zenon
  <2> QED
    BY <1>1, <1>6, <1>14, <2>1 DEF ConsumeToolCall
<1>16. a \in Seq(Events) /\ a = b \o u.out
  BY <1>4, <1>5, <1>12, ConcatProperties DEF Decoders
<1>17. w.at < w.next /\ w.at \in Int /\ w.next \in Nat
  <2>1. Rising(w, a)
    BY <1>5 DEF AgreedWith
  <2> QED
    BY <1>5, <2>1 DEF Rising, Decoders
<1>18. ASSUME NEW c, TellsMore(a, c, t.index, IF t.started THEN CallPiece(piece) ELSE <<>>)
       PROVE  AgreedWith(u, c, g, {})
  BY ONLY <1>1, <1>5, <1>6, <1>7, <1>13, <1>18, h \in Seq(Hearings), FragmentAgreed DEF CallHeard
<1>19. CASE ~t.started \/ ~f.args
  <2>1. CallPiece(piece) = <<>> \/ ~t.started
    BY <1>1, <1>19 DEF CallPiece, Pieces
  <2>2. TellsMore(a, a, t.index, <<>>)
    BY <1>5, <1>16, SameMore
  <2>3. AgreedWith(u, a, g, {})
    BY <1>18, <2>1, <2>2
  <2>4. Speaks(u, b, g)
    BY <1>5, <1>12, <1>16, <2>3 DEF Speaks, Agreed
  <2>5. CASE v = u
    BY <1>1, <1>14, <2>4, <2>5
  <2>6. CASE v # u
    <3>1. v = StartToolCall(u, j) /\ ~u.tools[j].started /\ j \in DOMAIN u.tools
      BY <1>5, <1>10, <1>12, <1>15, <1>19, <2>6
    <3>2. Speaks(v, b, g)
      BY <2>4, <3>1, StartSpeaks
    <3> QED
      BY <1>1, <1>14, <3>2
  <2> QED
    BY <2>5, <2>6
<1>20. CASE t.started /\ f.args
  <2>1. PICK e : e = DeltaEvent("tool", t.index, piece)
    OBVIOUS
  <2>2. e \in Events /\ e.t = "delta" /\ e.k = "tool" /\ e.i = t.index /\ e.d = piece
    <3>1. "tool" \in Kinds /\ t.index \in Int
      BY <1>7 DEF Kinds, ToolCalls
    <3>2. e \in Events
      BY <1>7, <2>1, <3>1, EventIsEvent
    <3> QED
      BY <2>1, <3>2 DEF DeltaEvent, Event
  <2>3. v = Emit(u, e)
    BY <1>10, <1>12, <1>15, <1>20, <2>1
  <2>4. Emitted(u, b, e, v)
    BY <1>5, <1>12, <2>2, <2>3, EmitAppends
  <2>5. PICK c : c = b \o v.out
    OBVIOUS
  <2>6. c = Append(a, e) /\ v \in Decoders /\ v.tools = u.tools /\ v.at = u.at /\ v.next = u.next
    BY <1>16, <2>4, <2>5 DEF Emitted
  <2>7. Pieces(e) = CallPiece(piece)
    BY <2>2, SamePieces DEF CallPiece
  <2>8. TellsMore(a, Append(a, e), e.i, Pieces(e))
    BY <1>5, <1>16, <2>2, PieceMore
  <2>9. TellsMore(a, c, t.index, CallPiece(piece))
    BY <2>2, <2>6, <2>7, <2>8
  <2>10. AgreedWith(u, c, g, {})
    BY <1>18, <1>20, <2>9
  <2>11. c \in Seq(Events) /\ Unclosed(c)
    BY <2>9 DEF TellsMore
  <2>12. Later(u, v)
    BY <1>12, <1>17, <2>6 DEF Later
  <2>13. AgreedWith(v, c, g, {})
    BY ONLY <1>12, <2>6, <2>10, <2>11, <2>12, LaterAgreed
  <2>14. Speaks(v, b, g)
    BY <1>5, <2>5, <2>6, <2>11, <2>13 DEF Speaks, Agreed
  <2> QED
    BY <1>1, <1>14, <2>14
<1> QED
  BY <1>19, <1>20

(* A tool call is closed with the arguments that were told.                *)
LEMMA EndAgreed ==
  ASSUME NEW s, NEW b, NEW h, Agreed(s, b, h, {}), NEW j \in DOMAIN s.tools, s.tools[j].started
  PROVE  Agreed(EndToolCall(s, j), b, h, {}) /\ EndToolCall(s, j).tools = s.tools
<1>1. PICK t, a : t = s.tools[j] /\ a = b \o s.out
  OBVIOUS
<1>2. s \in Decoders /\ b \in Seq(Events) /\ AgreedWith(s, a, h, {})
  BY <1>1 DEF Agreed
<1>3. t.index \in Int /\ t.args \in Seq(Nat)
  <2>1. t.index \in Nat /\ t.args \in Seq(Nat)
    BY <1>1, <1>2, ToolTyped
  <2> QED
    BY <2>1
<1>4. PICK e : e = CloseEvent("tool", t.index, t.args)
  OBVIOUS
<1>5. e \in Events /\ e.t = "close" /\ e.k = "tool" /\ e.i = t.index /\ e.d = t.args
  <2>1. "tool" \in Kinds
    BY DEF Kinds
  <2>2. e \in Events
    BY <1>3, <1>4, <2>1, EventIsEvent
  <2> QED
    BY <1>4, <2>2 DEF CloseEvent, Event
<1>6. Pieces(e) = ArgsTold(a, e.i)
  <2>1. ToolAgreed(t, a, h) /\ t.started
    BY <1>1, <1>2 DEF AgreedWith, ToolsAgreed
  <2>2. Pieces(e) = Pieces([k |-> "tool", d |-> t.args])
    BY <1>5, SamePieces
  <2> QED
    BY <1>5, <2>1, <2>2 DEF ToolAgreed
<1>7. EndToolCall(s, j) = Emit(s, e)
  BY <1>1, <1>4 DEF EndToolCall
<1>8. Agreed(Emit(s, e), b, h, {})
  BY <1>1, <1>5, <1>6, EmitAgreed
<1>9. Emit(s, e).tools = s.tools
  BY <1>2, <1>5, EmitAppends DEF Emitted
<1> QED
  BY <1>7, <1>8, <1>9

LEMMA EndCallsAgreed ==
  ASSUME NEW s, NEW b, NEW h, Agreed(s, b, h, {}), NEW n \in Nat, 1 .. n \subseteq DOMAIN s.tools,
         \A j \in 1 .. n : s.tools[j].started
  PROVE  Agreed(EndCalls(s, n), b, h, {}) /\ EndCalls(s, n).tools = s.tools
<1>1. PICK g : /\ EndCalls(s, n) = g[1 .. n] /\ g[1 .. 0] = s
               /\ \A k \in Nat : k + 1 <= n => g[1 .. k + 1] = EndToolCall(g[1 .. k], k + 1)
  BY EndsFold DEF Agreed
<1> DEFINE Good(x) == Agreed(x, b, h, {}) /\ x.tools = s.tools
           S == {k \in Nat : k <= n => Good(g[1 .. k])}
<1>2. 0 \in S
  BY <1>1
<1>3. ASSUME NEW k \in Nat, k \in S PROVE k + 1 \in S
  <2>1. SUFFICES ASSUME k + 1 <= n PROVE Good(g[1 .. k + 1])
    OBVIOUS
  <2>2. PICK x, y, l : x = g[1 .. k] /\ y = g[1 .. k + 1] /\ l = k + 1
    OBVIOUS
  <2>3. Good(x) /\ y = EndToolCall(x, l) /\ l \in 1 .. n
    <3>1. k <= n
      BY <2>1
    <3> QED
      BY <1>1, <1>3, <2>1, <2>2, <3>1
  <2>4. l \in DOMAIN x.tools /\ x.tools[l].started
    BY <2>3
  <2>5. Agreed(y, b, h, {}) /\ y.tools = x.tools
    BY <2>3, <2>4, EndAgreed
  <2> QED
    BY <2>2, <2>3, <2>5
<1> HIDE DEF S, Good
<1>4. n \in S
  BY <1>2, <1>3, NumberInduction
<1> USE DEF S, Good
<1> QED
  BY <1>1, <1>4

LEMMA AnnounceAllSpeaks ==
  ASSUME NEW s, NEW b, NEW h, Decodes(s, b, 0), Speaks(s, b, h) PROVE Speaks(AnnounceAll(s), b, h)
<1>1. PICK n : n = Len(s.tools)
  OBVIOUS
<1>2. n \in Nat /\ DOMAIN s.tools = 1 .. n
  BY <1>1, LenProperties DEF Decodes, Decoders
<1>3. PICK g : /\ AnnounceAll(s) = g[1 .. n] /\ g[1 .. 0] = s
               /\ \A k \in Nat : k + 1 <= n => g[1 .. k + 1] = Announced(g[1 .. k], k + 1)
  BY <1>2, AnnouncesFold
<1> DEFINE Good(x) == Decodes(x, b, 0) /\ Speaks(x, b, h) /\ DOMAIN x.tools = 1 .. n
           S == {k \in Nat : k <= n => Good(g[1 .. k])}
<1>4. 0 \in S
  BY <1>2, <1>3
<1>5. ASSUME NEW k \in Nat, k \in S PROVE k + 1 \in S
  <2>1. SUFFICES ASSUME k + 1 <= n PROVE Good(g[1 .. k + 1])
    OBVIOUS
  <2>2. PICK x, y, l : x = g[1 .. k] /\ y = g[1 .. k + 1] /\ l = k + 1
    OBVIOUS
  <2>3. Good(x) /\ y = Announced(x, l) /\ l \in 1 .. n
    <3>1. k <= n
      BY <1>2, <2>1
    <3> QED
      BY <1>3, <1>5, <2>1, <2>2, <3>1
  <2>4. Decodes(y, b, 0) /\ DOMAIN y.tools = DOMAIN x.tools
    BY <2>3, AnnouncedStep
  <2>5. Speaks(y, b, h)
    BY <2>3, StartSpeaks DEF Announced
  <2> QED
    BY <2>2, <2>3, <2>4, <2>5
<1> HIDE DEF S, Good
<1>6. n \in S
  BY <1>2, <1>4, <1>5, NumberInduction
<1> USE DEF S, Good
<1> QED
  BY <1>2, <1>3, <1>6

(* What a frame, or the end of the frames, makes of a decoder: the stream  *)
(* tells what was heard, no tool call is closed while it reads on, and all *)
(* are announced when the reply is done.                                   *)
AllStarted(s) == \A j \in DOMAIN s.tools : s.tools[j].started
Voices(r, b, g) ==
  /\ AgreedWith(r.s, b \o r.s.out, g, {})
  /\ ~r.over => Unclosed(b \o r.s.out)
  /\ r.over /\ HasDone(b \o r.s.out) => AllStarted(r.s)

LEMMA GoesVoices == ASSUME NEW s, NEW b, NEW g, Speaks(s, b, g) PROVE Voices(Goes(s), b, g)
<1>1. PICK r : r = Goes(s)
  OBVIOUS
<1>2. r.s = s /\ r.over = FALSE
  BY <1>1 DEF Goes
<1> QED
  BY <1>1, <1>2 DEF Voices, Speaks, Agreed

LEMMA NotOverNotDone == ASSUME NEW a, ~Over(a) PROVE ~HasDone(a)
BY DEF Over, HasDone

LEMMA FailsVoices ==
  ASSUME NEW s, NEW b, NEW h, Decodes(s, b, 0), Speaks(s, b, h), s.out = <<>>, NEW code
  PROVE  Voices(Fails(s, code), b, h)
<1>1. PICK r, v : r = Fails(s, code) /\ v = [s EXCEPT !.out = <<>>]
  OBVIOUS
<1>2. v = s /\ ~HasDone(b \o s.out)
  BY <1>1, NotOverNotDone DEF Decodes, Decoders, Knows
<1>3. r = [s |-> s, over |-> TRUE, fault |-> code]
  BY <1>1, <1>2 DEF Fails
<1>4. r.s = s /\ r.over = TRUE
  BY <1>3
<1> QED
  BY <1>1, <1>2, <1>4 DEF Voices, Speaks, Agreed

(* The open block and all the calls are closed, and the reply is done.     *)
LEMMA EndsVoices ==
  ASSUME NEW s, NEW b, NEW h, Agreed(s, b, h, {}), HasDone(b \o s.out) => AllStarted(s) PROVE Voices(Ends(s), b, h)
<1>1. PICK r : r = Ends(s)
  OBVIOUS
<1>2. r.s = s /\ r.over = TRUE
  BY <1>1 DEF Ends
<1> QED
  BY <1>1, <1>2 DEF Voices, Agreed

LEMMA DoneVoices ==
  ASSUME NEW s, NEW b, NEW h, Speaks(s, b, h), AllStarted(s), NEW r \in Reasons
  PROVE  Voices(Ends(Emit(EndToolCalls(CloseBlock(s)), DoneEvent(r))), b, h)
<1>1. PICK w : w = CloseBlock(s)
  OBVIOUS
<1>2. Speaks(w, b, h) /\ w.tools = s.tools
  BY <1>1, CloseSpeaks, CloseTools, InTurn
<1>3. PICK n : n = Len(w.tools)
  OBVIOUS
<1>4. n \in Nat /\ DOMAIN w.tools = 1 .. n /\ \A j \in DOMAIN w.tools : w.tools[j].started
  BY <1>2, <1>3, LenProperties DEF Speaks, Agreed, Decoders, AllStarted
<1>5. PICK v : v = EndToolCalls(w)
  OBVIOUS
<1>6. v = EndCalls(w, n)
  BY <1>4, <1>5 DEF EndToolCalls, EndCalls
<1>7. Agreed(v, b, h, {}) /\ v.tools = w.tools
  BY <1>2, <1>4, <1>6, EndCallsAgreed DEF Speaks
<1>8. PICK e, x : e = DoneEvent(r) /\ x = Emit(v, e)
  OBVIOUS
<1>9. e \in Events /\ e.t = "done"
  BY <1>8, EventIsEvent DEF DoneEvent, Event
<1>10. Agreed(x, b, h, {})
  BY <1>7, <1>8, <1>9, EmitAgreed
<1>11. x.tools = v.tools
  BY <1>7, <1>8, <1>9, EmitAppends DEF Emitted, Agreed
<1>12. AllStarted(x)
  BY <1>2, <1>7, <1>11 DEF AllStarted
<1>13. Voices(Ends(x), b, h)
  BY <1>10, <1>12, EndsVoices
<1> QED
  BY <1>1, <1>5, <1>8, <1>13
-------------------------------------------------------------------------------
(* What the decoders of the platforms tell                                 *)

LEMMA WorkBuddyEnds ==
  ASSUME NEW s, NEW b, NEW h, Decodes(s, b, 0), Speaks(s, b, h) PROVE Voices(WorkBuddyFinish(s), b, h)
<1>1. PICK v : v = AnnounceAll(s)
  OBVIOUS
<1>2. AllStarted(v) /\ Speaks(v, b, h)
  BY <1>1, AnnounceAllStep, AnnounceAllSpeaks DEF AllStarted
<1>3. s.stop \in Reasons
  BY DEF Decodes, Decoders
<1>4. WorkBuddyFinish(s) = Ends(Emit(EndToolCalls(CloseBlock(v)), DoneEvent(s.stop)))
  <2>1. WorkBuddyFinish(s) = Ends(Emit(EndToolCalls(CloseBlock(AnnounceAll(s))), DoneEvent(s.stop)))
    BY DEF WorkBuddyFinish, AnnounceAll
  <2> QED
    BY <1>1, <2>1
<1> QED
  BY <1>2, <1>3, <1>4, DoneVoices

LEMMA OpenRouterEnds ==
  ASSUME NEW s, NEW b, NEW h, Decodes(s, b, 0), Speaks(s, b, h), s.out = <<>> PROVE Voices(OpenRouterFinish(s), b, h)
<1>1. PICK bare : bare = {j \in DOMAIN s.tools : ~s.tools[j].started}
  OBVIOUS
<1>2. PICK first : first = CHOOSE j \in bare : \A i \in bare : j <= i
  OBVIOUS
<1>3. PICK w : w = CloseBlock(s)
  OBVIOUS
<1>4. Decodes(w, b, 0) /\ Speaks(w, b, h) /\ w.tools = s.tools
  BY <1>3, CloseStep, CloseSpeaks
<1>5. s.stop \in Reasons /\ DOMAIN s.tools = 1 .. Len(s.tools) /\ Len(s.tools) \in Nat
  BY LenProperties DEF Decodes, Decoders
<1>6. OpenRouterFinish(s) =
        IF ~s.started THEN Fails(s, "empty_stream")
        ELSE IF bare = {} THEN Ends(Emit(EndToolCalls(w), DoneEvent(s.stop)))
        ELSE Ends(Emit(EndCalls(w, first - 1), ErrorEvent))
  BY <1>1, <1>2, <1>3 DEF OpenRouterFinish, EndCalls
<1>7. CASE ~s.started
  BY <1>6, <1>7, FailsVoices
<1>8. CASE s.started /\ bare = {}
  <2>1. AllStarted(s)
    BY <1>1, <1>8 DEF AllStarted
  <2>2. Voices(Ends(Emit(EndToolCalls(CloseBlock(s)), DoneEvent(s.stop))), b, h)
    BY <1>5, <2>1, DoneVoices
  <2> QED
    BY <1>3, <1>6, <1>8, <2>2
<1>9. CASE s.started /\ bare # {}
  <2>1. bare \subseteq Nat
    BY <1>1, <1>5
  <2>2. \E j \in bare : \A i \in bare : j <= i
    BY <1>9, <2>1, NatMin
  <2>3. first \in bare /\ \A i \in bare : first <= i
    BY <1>2, <2>2
  <2>4. PICK n : n = first - 1
    OBVIOUS
  <2>5. n \in Nat /\ 1 .. n \subseteq DOMAIN w.tools /\ \A j \in 1 .. n : j \notin bare
    BY <1>1, <1>4, <1>5, <2>1, <2>3, <2>4
  <2>6. \A j \in 1 .. n : w.tools[j].started
    BY <1>1, <1>4, <2>5
  <2>7. PICK v, e, x : v = EndCalls(w, n) /\ e = ErrorEvent /\ x = Emit(v, e)
    OBVIOUS
  <2>8. Decodes(v, b, n) /\ Agreed(v, b, h, {})
    <3>1. Agreed(w, b, h, {})
      BY <1>4 DEF Speaks
    <3> QED
      BY <1>4, <2>5, <2>6, <2>7, <3>1, EndCallsStep, EndCallsAgreed
  <2>9. e \in Events /\ e.t = "error"
    BY <2>7, EventIsEvent DEF ErrorEvent, Event
  <2>10. Agreed(x, b, h, {})
    BY <2>7, <2>8, <2>9, EmitAgreed
  <2>11. ~HasDone(b \o x.out)
    <3>1. ~HasDone(b \o v.out)
      BY <2>8, NotOverNotDone DEF Decodes, Knows
    <3>2. b \o v.out \in Seq(Events) /\ b \o x.out = Append(b \o v.out, e)
      BY <2>7, <2>8, <2>9, EmitAppends DEF Emitted, Decodes
    <3> QED
      BY <2>9, <3>1, <3>2, StillNoDone
  <2>12. Voices(Ends(x), b, h)
    BY <2>10, <2>11, EndsVoices
  <2> QED
    BY <1>6, <1>9, <2>4, <2>7, <2>12
<1> QED
  BY <1>7, <1>8, <1>9

LEMMA TraeEnds ==
  ASSUME NEW s, NEW b, NEW h, Decodes(s, b, 0), Speaks(s, b, h), s.out = <<>>, NEW f \in TraeFrames, f.k = "end"
  PROVE  Voices(TraeFinish(s, f), b, h)
<1> DEFINE Failed == ~s.started \/ f.reason \in {"error", ""}
           Broken == \E j \in DOMAIN s.tools : ~s.tools[j].started \/ s.tools[j].args = <<>> \/ ~f.valid
<1>1. PICK reason : reason = IF s.tools = <<>> THEN f.reason ELSE "tool_calls"
  OBVIOUS
<1>2. TraeFinish(s, f) =
        IF Failed THEN Fails(s, "trae_failed")
        ELSE IF Broken THEN Fails(s, "trae_invalid_tool")
        ELSE Ends(Emit(EndToolCalls(CloseBlock(s)), DoneEvent(reason)))
  BY <1>1, Zenon DEF TraeFinish
<1>3. reason \in Reasons
  BY <1>1, TraeReason
<1>4. CASE ~Failed /\ ~Broken
  <2>1. AllStarted(s)
    BY <1>4, Zenon DEF AllStarted
  <2>2. TraeFinish(s, f) = Ends(Emit(EndToolCalls(CloseBlock(s)), DoneEvent(reason)))
    BY <1>2, <1>4, Zenon
  <2> QED
    BY <1>3, <2>1, <2>2, DoneVoices
<1>5. CASE Failed \/ Broken
  <2>1. \E code : TraeFinish(s, f) = Fails(s, code)
    BY <1>2, <1>5, Zenon
  <2> QED
    BY <2>1, FailsVoices
<1> QED
  BY <1>4, <1>5, Zenon

(* What was heard with the n-th frame, when h had been heard.              *)
HeardWith(h, f, n) ==
  CASE f.k \in {"text", "think"} -> Append(h, [k |-> f.k, i |-> 0, d |-> <<n>>])
    [] f.k = "tool" -> CallHeard(h, f.up, IF f.args THEN <<n>> ELSE <<>>)
    [] Called(f) -> CallHeard(h, 1, <<n>>)
    [] OTHER -> h

LEMMA NothingHeard == ASSUME NEW h, NEW f, f.k \notin Content, f.k # "exec", NEW n PROVE HeardWith(h, f, n) = h
BY DEF HeardWith, Content, Called

LEMMA PartSpeaks ==
  ASSUME NEW s, NEW b, NEW h \in Seq(Hearings), Speaks(s, b, h), NEW p, NEW n \in Nat,
         NEW f, f.k \in Content, f.k = "tool" => f \in ToolFrames
  PROVE  Speaks(Part(p, s, f, n), b, HeardWith(h, f, n))
<1>1. CASE f.k = "tool"
  <2>1. Speaks(ConsumeToolCall(p, s, f, n), b, CallHeard(h, f.up, IF f.args THEN <<n>> ELSE <<>>))
    BY <1>1, FragmentSpeaks
  <2>2. f.k \notin {"text", "think"}
    BY <1>1
  <2>3. HeardWith(h, f, n) = CallHeard(h, f.up, IF f.args THEN <<n>> ELSE <<>>)
    BY ONLY <1>1, <2>2 DEF HeardWith, Called
  <2> QED
    BY <1>1, <2>1, <2>3 DEF Part
<1>2. CASE f.k # "tool"
  <2>1. f.k \in Talks
    BY <1>2 DEF Content, Talks
  <2>2. Speaks(Delta(s, f.k, n), b, Append(h, [k |-> f.k, i |-> 0, d |-> <<n>>]))
    BY <2>1, DeltaSpeaks
  <2>3. HeardWith(h, f, n) = Append(h, [k |-> f.k, i |-> 0, d |-> <<n>>])
    BY ONLY <2>1 DEF HeardWith, Talks, Called
  <2> QED
    BY <1>2, <2>2, <2>3 DEF Part
<1> QED
  BY <1>1, <1>2

LEMMA StopSpeaks ==
  ASSUME NEW s, NEW b, NEW h, Speaks(s, b, h), NEW r \in Reasons PROVE Speaks([s EXCEPT !.stop = r], b, h)
<1>1. PICK v : v = [s EXCEPT !.stop = r]
  OBVIOUS
<1>2. s \in Decoders /\ s.at \in Int /\ s.next \in Nat /\ s.at < s.next
  BY InTurn
<1>3. v \in Decoders /\ v.out = s.out /\ v.tools = s.tools /\ v.at = s.at /\ v.next = s.next
  BY <1>1, <1>2 DEF Decoders
<1>4. Later(s, v)
  BY <1>2, <1>3 DEF Later
<1> QED
  BY <1>1, <1>3, <1>4, LaterSpeaks

LEMMA WorkBuddyVoices ==
  ASSUME NEW s, NEW b, NEW h \in Seq(Hearings), Decodes(s, b, 0), Speaks(s, b, h),
         NEW f \in WorkBuddyFrames, NEW n \in Nat
  PROVE  Voices(WorkBuddyConsume(s, f, n), b, HeardWith(h, f, n))
<1>1. PICK w : w = Begin(s)
  OBVIOUS
<1>2. Speaks(w, b, h)
  BY <1>1, BeginSpeaks
<1>3. /\ f.k \in Content \cup {"finish", "usage", "fault", "junk", "end"}
      /\ f.k = "tool" => f \in ToolFrames
      /\ f.k = "finish" => f.reason \in {"tool_calls", "length"}
  BY PartKinds DEF WorkBuddyFrames, FinishFrames, Content
<1>4. WorkBuddyConsume(s, f, n) =
        CASE f.k \in Content -> Goes(Part("workbuddy", w, f, n))
          [] f.k = "finish" -> Goes([w EXCEPT !.stop = f.reason])
          [] f.k \in {"usage", "fault"} -> Goes(w)
          [] f.k = "junk" -> Goes(s)
          [] f.k = "end" -> WorkBuddyFinish(s)
  BY <1>1 DEF WorkBuddyConsume
<1>5. CASE f.k \in Content
  <2>1. Speaks(Part("workbuddy", w, f, n), b, HeardWith(h, f, n))
    BY <1>2, <1>3, <1>5, PartSpeaks
  <2>2. WorkBuddyConsume(s, f, n) = Goes(Part("workbuddy", w, f, n))
    BY <1>4, <1>5 DEF Content
  <2> QED
    BY <2>1, <2>2, GoesVoices
<1>6. CASE f.k \notin Content
  <2>1. HeardWith(h, f, n) = h
    BY <1>3, <1>6, NothingHeard
  <2>2. CASE f.k = "finish"
    <3>1. f.reason \in Reasons
      BY <1>3, <2>2, Zenon DEF Reasons
    <3>2. Speaks([w EXCEPT !.stop = f.reason], b, h)
      BY <1>2, <3>1, StopSpeaks
    <3>3. WorkBuddyConsume(s, f, n) = Goes([w EXCEPT !.stop = f.reason])
      BY <1>4, <2>2 DEF Content
    <3> QED
      BY <2>1, <3>2, <3>3, GoesVoices
  <2>3. CASE f.k \in {"usage", "fault"}
    <3>1. WorkBuddyConsume(s, f, n) = Goes(w)
      BY <1>4, <2>3 DEF Content
    <3> QED
      BY <1>2, <2>1, <3>1, GoesVoices
  <2>4. CASE f.k = "junk"
    <3>1. WorkBuddyConsume(s, f, n) = Goes(s)
      BY <1>4, <2>4 DEF Content
    <3> QED
      BY <2>1, <3>1, GoesVoices
  <2>5. CASE f.k = "end"
    <3>1. WorkBuddyConsume(s, f, n) = WorkBuddyFinish(s)
      BY <1>4, <2>5 DEF Content
    <3> QED
      BY <2>1, <3>1, WorkBuddyEnds
  <2> QED
    BY <1>3, <1>6, <2>2, <2>3, <2>4, <2>5
<1> QED
  BY <1>5, <1>6

LEMMA OpenRouterVoices ==
  ASSUME NEW s, NEW b, NEW h \in Seq(Hearings), Decodes(s, b, 0), Speaks(s, b, h), s.out = <<>>,
         NEW f \in OpenRouterFrames, NEW n \in Nat
  PROVE  Voices(OpenRouterConsume(s, f, n), b, HeardWith(h, f, n))
<1>1. PICK w : w = Begin(s)
  OBVIOUS
<1>2. Speaks(w, b, h)
  BY <1>1, BeginSpeaks
<1>3. /\ f.k \in Content \cup {"finish", "usage", "fault", "end"}
      /\ f.k = "tool" => f \in ToolFrames
      /\ f.k = "finish" => f.reason \in {"tool_calls", "length"}
  BY PartKinds DEF OpenRouterFrames, FinishFrames, Content
<1>4. OpenRouterConsume(s, f, n) =
        CASE f.k \in Content -> Goes(Part("openrouter", w, f, n))
          [] f.k = "finish" -> Goes([w EXCEPT !.stop = f.reason])
          [] f.k = "usage" -> Goes(s)
          [] f.k = "fault" -> Fails(s, "upstream_error")
          [] f.k = "end" -> OpenRouterFinish(s)
  BY <1>1 DEF OpenRouterConsume
<1>5. CASE f.k \in Content
  <2>1. Speaks(Part("openrouter", w, f, n), b, HeardWith(h, f, n))
    BY <1>2, <1>3, <1>5, PartSpeaks
  <2>2. OpenRouterConsume(s, f, n) = Goes(Part("openrouter", w, f, n))
    BY <1>4, <1>5 DEF Content
  <2> QED
    BY <2>1, <2>2, GoesVoices
<1>6. CASE f.k \notin Content
  <2>1. HeardWith(h, f, n) = h
    BY <1>3, <1>6, NothingHeard
  <2>2. CASE f.k = "finish"
    <3>1. f.reason \in Reasons
      BY <1>3, <2>2, Zenon DEF Reasons
    <3>2. Speaks([w EXCEPT !.stop = f.reason], b, h)
      BY <1>2, <3>1, StopSpeaks
    <3>3. OpenRouterConsume(s, f, n) = Goes([w EXCEPT !.stop = f.reason])
      BY <1>4, <2>2 DEF Content
    <3> QED
      BY <2>1, <3>2, <3>3, GoesVoices
  <2>3. CASE f.k = "usage"
    <3>1. OpenRouterConsume(s, f, n) = Goes(s)
      BY <1>4, <2>3 DEF Content
    <3> QED
      BY <2>1, <3>1, GoesVoices
  <2>4. CASE f.k = "fault"
    <3>1. OpenRouterConsume(s, f, n) = Fails(s, "upstream_error")
      BY <1>4, <2>4 DEF Content
    <3> QED
      BY <2>1, <3>1, FailsVoices
  <2>5. CASE f.k = "end"
    <3>1. OpenRouterConsume(s, f, n) = OpenRouterFinish(s)
      BY <1>4, <2>5 DEF Content
    <3> QED
      BY <2>1, <3>1, OpenRouterEnds
  <2> QED
    BY <1>3, <1>6, <2>2, <2>3, <2>4, <2>5
<1> QED
  BY <1>5, <1>6

LEMMA TraeVoices ==
  ASSUME NEW s, NEW b, NEW h \in Seq(Hearings), Decodes(s, b, 0), Speaks(s, b, h), s.out = <<>>,
         NEW f \in TraeFrames, NEW n \in Nat
  PROVE  Voices(TraeConsume(s, f, n), b, HeardWith(h, f, n))
<1>1. PICK w : w = Begin(s)
  OBVIOUS
<1>2. Speaks(w, b, h)
  BY <1>1, BeginSpeaks
<1>3. f.k \in Content \cup {"usage", "fault", "end"} /\ (f.k = "tool" => f \in ToolFrames)
  <2>1. PICK given : f \in Parts \/ f \in [k : {"end"}, reason : given, valid : BOOLEAN]
    BY Zenon DEF TraeFrames
  <2> QED
    BY <2>1, PartKinds DEF Content
<1>4. TraeConsume(s, f, n) =
        CASE f.k \in Content -> Goes(Part("trae", w, f, n))
          [] f.k = "usage" -> Goes(s)
          [] f.k = "fault" -> Fails(s, "trae_upstream")
          [] f.k = "end" -> TraeFinish(s, f)
  BY <1>1 DEF TraeConsume
<1>5. CASE f.k \in Content
  <2>1. Speaks(Part("trae", w, f, n), b, HeardWith(h, f, n))
    BY <1>2, <1>3, <1>5, PartSpeaks
  <2>2. TraeConsume(s, f, n) = Goes(Part("trae", w, f, n))
    BY <1>4, <1>5 DEF Content
  <2> QED
    BY <2>1, <2>2, GoesVoices
<1>6. CASE f.k \notin Content
  <2>1. HeardWith(h, f, n) = h
    BY <1>3, <1>6, NothingHeard
  <2>2. CASE f.k = "usage"
    <3>1. TraeConsume(s, f, n) = Goes(s)
      BY <1>4, <2>2 DEF Content
    <3> QED
      BY <2>1, <3>1, GoesVoices
  <2>3. CASE f.k = "fault"
    <3>1. TraeConsume(s, f, n) = Fails(s, "trae_upstream")
      BY <1>4, <2>3 DEF Content
    <3> QED
      BY <2>1, <3>1, FailsVoices
  <2>4. CASE f.k = "end"
    <3>1. TraeConsume(s, f, n) = TraeFinish(s, f)
      BY <1>4, <2>4 DEF Content
    <3> QED
      BY <2>1, <2>4, <3>1, TraeEnds
  <2> QED
    BY <1>3, <1>6, <2>2, <2>3, <2>4
<1> QED
  BY <1>5, <1>6

(* Cursor ends a reply without a tool call, or with one.                   *)
LEMMA CursorEnds ==
  ASSUME NEW s, NEW b, NEW h, Speaks(s, b, h), s.tools = <<>>, NEW r \in Reasons
  PROVE  Voices(CursorFinish(s, r), b, h)
<1>1. PICK v : v = CloseBlock(Begin(s))
  OBVIOUS
<1>2. Speaks(v, b, h) /\ v.tools = <<>>
  <2>1. Speaks(Begin(s), b, h) /\ Begin(s).tools = <<>>
    BY BeginSpeaks, BeginTools, InTurn
  <2> QED
    BY <1>1, <2>1, CloseSpeaks, CloseTools, InTurn
<1>3. PICK e, x : e = DoneEvent(r) /\ x = Emit(v, e)
  OBVIOUS
<1>4. e \in Events /\ e.t = "done"
  BY <1>3, EventIsEvent DEF DoneEvent, Event
<1>5. Agreed(x, b, h, {})
  BY <1>2, <1>3, <1>4, EmitAgreed DEF Speaks
<1>6. x.tools = <<>>
  BY <1>2, <1>3, <1>4, EmitAppends DEF Emitted, Speaks, Agreed
<1>7. AllStarted(x)
  BY <1>6 DEF AllStarted
<1>8. Voices(Ends(x), b, h)
  BY <1>5, <1>7, EndsVoices
<1> QED
  BY <1>1, <1>3, <1>8 DEF CursorFinish

LEMMA RelayToolVoices ==
  ASSUME NEW s, NEW b, NEW h \in Seq(Hearings), Decodes(s, b, 0), Speaks(s, b, h), s.tools = <<>>, NEW n \in Nat
  PROVE  Voices(RelayTool(s, n), b, CallHeard(h, 1, <<n>>))
<1>1. PICK c, d : c = CloseBlock(Begin(s)) /\ d = <<n>>
  OBVIOUS
<1>2. Speaks(c, b, h) /\ c.tools = <<>> /\ c.block = "none" /\ c.started
  <2>1. PICK w : w = Begin(s)
    OBVIOUS
  <2>2. Decodes(w, b, 0) /\ w.started /\ Speaks(w, b, h) /\ w.tools = <<>>
    BY <2>1, BeginStep, BeginSpeaks, BeginTools DEF Decodes
  <2> QED
    BY <1>1, <2>1, <2>2, CloseStep, CloseSpeaks
<1>3. /\ c \in Decoders /\ b \in Seq(Events) /\ c.at \in Int /\ c.next \in Nat /\ c.at < c.next /\ d \in Seq(Nat)
      /\ 1 \in ToolSlots
  BY <1>1, <1>2, InTurn, PlatformsAssumption
<1>4. PICK x, a0 : x = c.next /\ a0 = b \o c.out
  OBVIOUS
<1>5. PICK v : RelayTool(s, n) = Ends(v) /\ Calls(c, b, n, v)
  BY <1>1, <1>2, <1>3, RelayToolCalls
<1>6. PICK t, t0, t1 : /\ t = WholeCall(x, n)
                       /\ t0 = [up |-> 1, index |-> x, id |-> FALSE, name |-> FALSE, args |-> <<>>, started |-> FALSE]
                       /\ t1 = [up |-> 1, index |-> x, id |-> TRUE, name |-> TRUE, args |-> d, started |-> FALSE]
  OBVIOUS
<1>7. t \in ToolCalls /\ t0 \in ToolCalls /\ t1 \in ToolCalls /\ <<>> \in Seq(Nat)
  <2>1. x \in Nat /\ <<>> \in Seq(Nat) /\ <<n>> \in Seq(Nat)
    BY <1>3, <1>4
  <2> QED
    BY <1>3, <1>6, <2>1 DEF ToolCalls, WholeCall
<1>8. PICK m, q0, q1, q : m = x + 1 /\ q0 = <<t0>> /\ q1 = <<t1>> /\ q = <<t>>
  OBVIOUS
<1>9. /\ m \in Nat /\ q0 \in Seq(ToolCalls) /\ q1 \in Seq(ToolCalls) /\ q \in Seq(ToolCalls)
      /\ DOMAIN q0 = {1} /\ DOMAIN q1 = {1} /\ DOMAIN q = {1} /\ q0[1] = t0 /\ q1[1] = t1 /\ q[1] = t
  BY <1>3, <1>4, <1>7, <1>8
<1>10. PICK w0, w1, u : /\ w0 = [c EXCEPT !.tools = q0, !.next = m] /\ w1 = [w0 EXCEPT !.tools = q1]
                        /\ u = [w0 EXCEPT !.tools = q]
  OBVIOUS
<1>11. w0 \in Decoders /\ w0.tools = q0 /\ w0.next = m /\ w0.at = c.at /\ w0.out = c.out
  <2>1. PICK y : y = [c EXCEPT !.tools = q0]
    OBVIOUS
  <2>2. y \in Decoders /\ y.tools = q0 /\ y.at = c.at /\ y.out = c.out
    BY <1>3, <1>9, <2>1 DEF Decoders
  <2>3. w0 = [y EXCEPT !.next = m]
    BY <1>3, <1>10, <2>1 DEF Decoders
  <2> QED
    BY <1>9, <2>2, <2>3 DEF Decoders
<1>12. w1 \in Decoders /\ w1.tools = q1 /\ w1.next = m /\ w1.at = c.at
  BY <1>9, <1>10, <1>11 DEF Decoders
<1>13. u \in Decoders /\ u.tools = q /\ u.next = m /\ u.at = c.at
  BY <1>9, <1>10, <1>11 DEF Decoders
<1>14. AgreedWith(w0, a0, h, {1}) /\ Unclosed(a0) /\ a0 \in Seq(Events)
  <2>1. KnownTool(c, 1) = w0
    <3>1. ~ \E j \in DOMAIN c.tools : c.tools[j].up = 1
      BY <1>2
    <3>2. Append(c.tools, t0) = q0
      BY <1>2, <1>8
    <3> QED
      BY <1>4, <1>6, <1>8, <1>10, <3>1, <3>2 DEF KnownTool
  <2>2. Knowing(w0, b, h, 1, ToolSlot(w0, 1))
    BY <1>2, <1>3, <2>1, KnownSpeaks
  <2> QED
    BY <1>3, <1>4, <1>11, <2>2, ConcatProperties DEF Knowing, Agreed, Decoders
<1>15. PICK g : g = CallHeard(h, 1, d)
  OBVIOUS
<1>16. AgreedWith(w1, a0, g, {})
  <2>1. Fragment(w0, 1, d, w1)
    <3>1. t0.args \o d = d
      BY <1>3, <1>6, ConcatEmptySeq
    <3>2. w1.tools[1] = t1 /\ w0.tools[1] = t0
      BY <1>6, <1>9, <1>11, <1>12
    <3>3. DOMAIN w0.tools = {1} /\ DOMAIN w1.tools = {1} /\ w1.at = w0.at /\ w1.next = w0.next
      BY <1>9, <1>11, <1>12
    <3>4. \A l \in DOMAIN w0.tools : l # 1 => w1.tools[l] = w0.tools[l]
      BY <3>3
    <3>5. t1.index = t0.index /\ t1.started = t0.started /\ t1.up = t0.up /\ t1.args = t0.args \o d
      BY <1>6, <3>1
    <3> QED
      BY ONLY <1>12, <3>2, <3>3, <3>4, <3>5, Zenon DEF Fragment
  <2>2. TellsMore(a0, a0, x, <<>>)
    BY <1>14, SameMore
  <2>3. w0.tools[1] = t0 /\ t0.index = x /\ ~t0.started /\ t0.up = 1 /\ 1 \in DOMAIN w0.tools
    BY <1>6, <1>9, <1>11
  <2>4. PICK up, j : up = 1 /\ j = 1
    OBVIOUS
  <2>5. /\ j \in DOMAIN w0.tools /\ up = w0.tools[j].up /\ AgreedWith(w0, a0, h, {up}) /\ Fragment(w0, j, d, w1)
        /\ TellsMore(a0, a0, w0.tools[j].index, IF w0.tools[j].started THEN CallPiece(d) ELSE <<>>)
    BY ONLY <1>14, <2>1, <2>2, <2>3, <2>4, Zenon
  <2>6. AgreedWith(w1, a0, Append(h, [k |-> "tool", i |-> up, d |-> d]), {})
    BY ONLY <1>3, <1>11, <2>5, h \in Seq(Hearings), FragmentAgreed
  <2> QED
    BY ONLY <1>15, <2>4, <2>6 DEF CallHeard
<1>17. PICK e1, e2, e3, e4 : /\ e1 = OpenEvent("tool", x) /\ e2 = DeltaEvent("tool", x, d)
                             /\ e3 = CloseEvent("tool", x, d) /\ e4 = DoneEvent("tool_calls")
  OBVIOUS
<1>18. /\ e1 \in Events /\ e1.t = "open" /\ e1.i = x /\ e1.k = "tool"
       /\ e2 \in Events /\ e2.t = "delta" /\ e2.i = x /\ e2.k = "tool" /\ e2.d = d
       /\ e3 \in Events /\ e3.t = "close" /\ e3.i = x /\ e3.k = "tool" /\ e3.d = d
       /\ e4 \in Events /\ e4.t = "done"
  <2>1. "tool" \in Kinds /\ x \in Int
    BY <1>3, <1>4 DEF Kinds
  <2>2. "tool_calls" \in Reasons
    BY Zenon DEF Reasons
  <2>3. e1 \in Events /\ e2 \in Events /\ e3 \in Events /\ e4 \in Events
    BY <1>3, <1>17, <2>1, <2>2, EventIsEvent
  <2> QED
    BY <1>17, <2>3 DEF OpenEvent, DeltaEvent, CloseEvent, DoneEvent, Event
<1>19. PICK a1, a2, a3, a4 : /\ a1 = Append(a0, e1) /\ a2 = Append(a1, e2)
                             /\ a3 = Append(a2, e3) /\ a4 = Append(a3, e4)
  OBVIOUS
<1>20. v \in Decoders /\ v.tools = q /\ v.at = c.at /\ v.next = m /\ b \o v.out = a4
  <2>1. PICK r : r = CallEvents(x, n)
    OBVIOUS
  <2>2. r[1] = e1 /\ r[2] = e2 /\ r[3] = e3 /\ r[4] = e4
    BY ONLY <1>1, <1>17, <2>1 DEF CallEvents
  <2>3. /\ b \o v.out = Thereupon(a0, r) /\ v \in Decoders /\ v.tools = <<WholeCall(x, n)>> /\ v.at = c.at
        /\ v.next = x + 1
    BY ONLY <1>4, <1>5, <2>1, Zenon DEF Calls
  <2>4. b \o v.out = a4
    BY ONLY <1>19, <2>2, <2>3, Zenon DEF Thereupon
  <2> QED
    BY ONLY <1>6, <1>8, <2>3, <2>4, Zenon
<1>21. TellsMore(a0, a1, x, <<>>) /\ Opens(a1, x, "tool") /\ a1 \in Seq(Events)
  BY <1>14, <1>18, <1>19, NothingMore, AppendSays
<1>22. Pieces(e2) = CallPiece(d) /\ Pieces(e3) = CallPiece(d)
  BY <1>18, SamePieces DEF CallPiece
<1>23. TellsMore(a0, a2, x, CallPiece(d)) /\ Opens(a2, x, "tool") /\ a2 \in Seq(Events)
  <2>1. Unclosed(a1)
    BY <1>21 DEF TellsMore
  <2>2. TellsMore(a1, Append(a1, e2), e2.i, Pieces(e2))
    BY <1>18, <1>21, <2>1, PieceMore
  <2>3. TellsMore(a1, a2, x, CallPiece(d))
    BY <1>18, <1>19, <1>22, <2>2
  <2>4. TellsMore(a0, a2, x, CallPiece(d))
    BY ONLY <1>21, <2>3, ThenMore
  <2>5. a2 \in Seq(Events) /\ \A l, k : Opens(a1, l, k) => Opens(a2, l, k)
    BY ONLY <2>3 DEF TellsMore
  <2> QED
    BY ONLY <1>21, <2>4, <2>5
<1>24. AgreedWith(u, a2, g, {})
  <2>1. PICK j : j = 1
    OBVIOUS
  <2>2. NowStarted(w1, j, u)
    BY ONLY <1>1, <1>6, <1>9, <1>12, <1>13, <2>1 DEF NowStarted, WholeCall
  <2>3. w1.tools[j] = t1 /\ t1.index = x /\ ~t1.started /\ t1.args = d /\ j \in DOMAIN w1.tools
    BY <1>6, <1>9, <1>12, <2>1
  <2>4. /\ ~w1.tools[j].started /\ TellsMore(a0, a2, w1.tools[j].index, CallPiece(w1.tools[j].args))
        /\ Opens(a2, w1.tools[j].index, "tool")
    BY ONLY <1>23, <2>3, Zenon
  <2> QED
    BY ONLY <1>12, <1>16, <2>2, <2>3, <2>4, StartedAgreed
<1>25. ArgsTold(a2, x) = CallPiece(d)
  <2>1. 1 \in DOMAIN u.tools /\ u.tools[1] = t /\ t.index = x /\ t.started /\ t.args = d
    BY <1>1, <1>6, <1>9, <1>13 DEF WholeCall
  <2>2. ToolAgreed(t, a2, g)
    BY <1>24, <2>1 DEF AgreedWith, ToolsAgreed
  <2> QED
    BY ONLY <2>1, <2>2, Zenon DEF ToolAgreed, CallPiece
<1>26. AgreedWith(u, Append(a2, e3), g, {})
  BY <1>13, <1>18, <1>22, <1>23, <1>24, <1>25, QuietAgreed
<1>27. a3 \in Seq(Events) /\ AgreedWith(u, a3, g, {})
  BY <1>18, <1>19, <1>23, <1>26, AppendProperties
<1>28. AgreedWith(u, Append(a3, e4), g, {})
  BY <1>13, <1>18, <1>27, QuietAgreed
<1>29. a4 \in Seq(Events) /\ AgreedWith(u, a4, g, {})
  BY <1>18, <1>19, <1>27, <1>28, AppendProperties
<1>30. AgreedWith(v, a4, g, {})
  <2>1. Later(u, v)
    BY <1>3, <1>4, <1>8, <1>13, <1>20 DEF Later
  <2> QED
    BY ONLY <1>13, <1>20, <1>29, <2>1, LaterAgreed
<1>31. AllStarted(v)
  <2>1. DOMAIN v.tools = {1} /\ v.tools[1].started
    BY <1>6, <1>9, <1>20 DEF WholeCall
  <2> QED
    BY <2>1 DEF AllStarted
<1>32. Agreed(v, b, g, {})
  BY <1>3, <1>20, <1>30 DEF Agreed
<1>33. Voices(Ends(v), b, g)
  BY <1>31, <1>32, EndsVoices
<1> QED
  BY ONLY <1>1, <1>5, <1>15, <1>33

LEMMA CursorVoices ==
  ASSUME NEW s, NEW b, NEW h \in Seq(Hearings), Decodes(s, b, 0), Speaks(s, b, h), s.out = <<>>, s.tools = <<>>,
         NEW f \in CursorFrames, NEW n \in Nat, NEW must
  PROVE  Voices(CursorConsume(must, s, f, n), b, HeardWith(h, f, n))
<1>1. PICK r, g : r = CursorConsume(must, s, f, n) /\ g = HeardWith(h, f, n)
  OBVIOUS
<1>2. r = CASE f.k \in {"text", "think"} -> Goes(Delta(Begin(s), f.k, n))
            [] f.k = "thinkingCompleted" -> Goes(IF s.block = "think" THEN CloseBlock(s) ELSE s)
            [] f.k = "kv" -> IF f.known THEN Goes(s) ELSE Fails(s, "cursor_missing_blob")
            [] f.k = "exec" -> Exec(s, f, n)
            [] f.k = "tokenLimit" -> CursorFinish(s, "length")
            [] f.k = "turnEnded" -> IF must THEN Fails(s, "client_fixable") ELSE CursorFinish(s, "stop")
            [] f.k = "fault" -> Fails(s, "cursor_fault")
  BY <1>1 DEF CursorConsume
<1>3. f.k \in {"text", "think", "thinkingCompleted", "kv", "exec", "tokenLimit", "turnEnded", "fault"}
  BY DEF CursorFrames, TextFrame, ThinkFrame
<1>4. SUFFICES Voices(r, b, g)
  BY <1>1
<1>5. Voices(Goes(s), b, h) /\ \A code : Voices(Fails(s, code), b, h)
  BY GoesVoices, FailsVoices
<1>6. Voices(CursorFinish(s, "length"), b, h) /\ Voices(CursorFinish(s, "stop"), b, h)
  <2>1. "length" \in Reasons /\ "stop" \in Reasons
    BY Zenon DEF Reasons
  <2> QED
    BY <2>1, CursorEnds
<1>7. CASE f.k \in {"text", "think"}
  <2>1. PICK w : w = Begin(s)
    OBVIOUS
  <2>2. Speaks(w, b, h) /\ f.k \in Talks
    BY <1>7, <2>1, BeginSpeaks DEF Talks
  <2>3. Speaks(Delta(w, f.k, n), b, Append(h, [k |-> f.k, i |-> 0, d |-> <<n>>]))
    BY <2>2, DeltaSpeaks
  <2>4. g = Append(h, [k |-> f.k, i |-> 0, d |-> <<n>>])
    BY ONLY <1>1, <1>7 DEF HeardWith, Called
  <2>5. r = Goes(Delta(w, f.k, n))
    BY <1>2, <1>7, <2>1
  <2> QED
    BY <2>3, <2>4, <2>5, GoesVoices
<1>8. CASE f.k = "exec"
  <2>1. r = Exec(s, f, n)
    BY <1>2, <1>8
  <2>2. CASE Called(f)
    <3>1. f.what # "mcpState"
      BY <2>2 DEF Called
    <3>2. r = RelayTool(s, n)
      BY <2>1, <2>2, <3>1 DEF Exec
    <3>3. g = CallHeard(h, 1, <<n>>)
      BY ONLY <1>1, <1>8, <2>2 DEF HeardWith
    <3> QED
      BY <3>2, <3>3, RelayToolVoices
  <2>3. CASE ~Called(f)
    <3>1. g = h
      BY ONLY <1>1, <1>8, <2>3 DEF HeardWith
    <3>2. r = Goes(s) \/ r = Fails(s, "client_fixable")
      BY <2>1, <2>3 DEF Exec
    <3> QED
      BY <1>5, <3>1, <3>2
  <2> QED
    BY <2>2, <2>3
<1>9. CASE f.k \notin {"text", "think", "exec"}
  <2>1. g = h
    <3>1. f.k \notin Content /\ f.k # "exec"
      BY <1>3, <1>9 DEF Content
    <3> QED
      BY <1>1, <3>1, NothingHeard
  <2>2. CASE f.k = "thinkingCompleted"
    <3>1. r = Goes(IF s.block = "think" THEN CloseBlock(s) ELSE s)
      BY <1>2, <2>2
    <3>2. Speaks(IF s.block = "think" THEN CloseBlock(s) ELSE s, b, h)
      BY CloseSpeaks
    <3> QED
      BY <2>1, <3>1, <3>2, GoesVoices
  <2>3. CASE f.k = "kv"
    <3>1. r = Goes(s) \/ r = Fails(s, "cursor_missing_blob")
      BY <1>2, <2>3
    <3> QED
      BY <1>5, <2>1, <3>1
  <2>4. CASE f.k = "tokenLimit"
    <3>1. r = CursorFinish(s, "length")
      BY <1>2, <2>4
    <3> QED
      BY <1>6, <2>1, <3>1
  <2>5. CASE f.k = "turnEnded"
    <3>1. r = Fails(s, "client_fixable") \/ r = CursorFinish(s, "stop")
      BY <1>2, <2>5
    <3> QED
      BY <1>5, <1>6, <2>1, <3>1
  <2>6. CASE f.k = "fault"
    <3>1. r = Fails(s, "cursor_fault")
      BY <1>2, <2>6
    <3> QED
      BY <1>5, <2>1, <3>1
  <2> QED
    BY <1>3, <1>9, <2>2, <2>3, <2>4, <2>5, <2>6
<1> QED
  BY <1>7, <1>8, <1>9

LEMMA ConsumeVoices ==
  ASSUME NEW p \in Platforms, NEW must, NEW s, NEW b, NEW h \in Seq(Hearings), Decodes(s, b, 0), Speaks(s, b, h),
         s.out = <<>>, p = "cursor" => s.tools = <<>>, NEW f \in Frames(p), NEW n \in Nat
  PROVE  Voices(Consume(p, must, s, f, n), b, HeardWith(h, f, n))
<1>1. p \in {"workbuddy", "openrouter", "trae", "cursor"}
  BY PlatformsAssumption
<1>2. CASE p = "workbuddy"
  <2>1. f \in WorkBuddyFrames /\ Consume(p, must, s, f, n) = WorkBuddyConsume(s, f, n)
    BY <1>2 DEF Frames, Consume
  <2> QED
    BY <2>1, WorkBuddyVoices
<1>3. CASE p = "openrouter"
  <2>1. f \in OpenRouterFrames /\ Consume(p, must, s, f, n) = OpenRouterConsume(s, f, n)
    BY <1>3 DEF Frames, Consume
  <2> QED
    BY <2>1, OpenRouterVoices
<1>4. CASE p = "trae"
  <2>1. f \in TraeFrames /\ Consume(p, must, s, f, n) = TraeConsume(s, f, n)
    BY <1>4 DEF Frames, Consume
  <2> QED
    BY <2>1, TraeVoices
<1>5. CASE p = "cursor"
  <2>1. f \in CursorFrames /\ Consume(p, must, s, f, n) = CursorConsume(must, s, f, n)
    BY <1>5 DEF Frames, Consume
  <2> QED
    BY <1>5, <2>1, CursorVoices
<1> QED
  BY <1>1, <1>2, <1>3, <1>4, <1>5

LEMMA EndOfReadVoices ==
  ASSUME NEW p \in Platforms, NEW s, NEW b, NEW h, Decodes(s, b, 0), Speaks(s, b, h), s.out = <<>>,
         NEW timedOut, NEW broken
  PROVE  Voices(EndOfRead(p, s, timedOut, broken), b, h)
<1>1. p \in {"workbuddy", "openrouter", "trae", "cursor"}
  BY PlatformsAssumption
<1>2. PICK r : r = EndOfRead(p, s, timedOut, broken)
  OBVIOUS
<1>3. (\E code : r = Fails(s, code)) \/ r = WorkBuddyFinish(s)
  BY <1>1, <1>2 DEF EndOfRead, WorkBuddyReadEnds, OpenRouterReadEnds, TraeReadEnds, CursorReadEnds
<1>4. Voices(r, b, h)
  BY <1>3, FailsVoices, WorkBuddyEnds
<1> QED
  BY <1>2, <1>4

-------------------------------------------------------------------------------
(* The beginning of what was said                                          *)

Leads(x, y) == \E z \in Said : y = x \o z
LEMMA LeadsItself == ASSUME NEW x \in Said PROVE Leads(x, x)
<1>1. <<>> \in Said /\ x \o <<>> = x
  BY ConcatEmptySeq DEF Said
<1> QED
  BY <1>1 DEF Leads

LEMMA LeadsOn == ASSUME NEW x \in Said, NEW y, NEW z, Leads(x, y), Leads(y, z) PROVE Leads(x, z)
<1>1. PICK u \in Said : y = x \o u
  BY DEF Leads
<1>2. PICK v \in Said : z = y \o v
  BY DEF Leads
<1>3. PICK t : t = u \o v
  OBVIOUS
<1>4. PICK S : Said = Seq(S)
  BY DEF Said
<1>5. t \in Seq(S) /\ z = (x \o u) \o v /\ (x \o u) \o v = x \o (u \o v)
  <2>1. u \in Seq(S) /\ v \in Seq(S) /\ x \in Seq(S)
    BY <1>4
  <2>2. u \o v \in Seq(S)
    BY ONLY <2>1, ConcatProperties
  <2>3. (x \o u) \o v = x \o (u \o v)
    BY ONLY <2>1, ConcatAssociative
  <2> QED
    BY ONLY <1>1, <1>2, <1>3, <2>2, <2>3, Zenon
<1>6. t \in Said /\ z = x \o t
  BY ONLY <1>3, <1>4, <1>5, Zenon
<1> QED
  BY ONLY <1>6, Zenon DEF Leads

LEMMA LeadsPrefix == ASSUME NEW x \in Said, NEW y, Leads(x, y) PROVE IsPrefix(x, y)
BY ConcatIsPrefix DEF Leads, Said

LEMMA AppendLeads ==
  ASSUME NEW a \in Seq(Events), NEW e \in Events, NEW kinds, kinds \subseteq Content, NEW places
  PROVE  Leads(Told(a, kinds, places), Told(Append(a, e), kinds, places))
<1>1. Told(a, kinds, places) \in Said
  BY ToldSaid
<1>2. CASE Tells(e, kinds, places)
  <2>1. e.k \in Kinds /\ e.d \in Seq(Nat)
    BY <1>2 DEF Tells, Content, Kinds, Events
  <2>2. Pieces(e) \in Said
    BY <2>1, PiecesSaid
  <2>3. Told(Append(a, e), kinds, places) = Told(a, kinds, places) \o Pieces(e)
    BY <1>2, ToldMore
  <2> QED
    BY ONLY <2>2, <2>3, Zenon DEF Leads
<1>3. CASE ~Tells(e, kinds, places)
  <2>1. Told(Append(a, e), kinds, places) = Told(a, kinds, places)
    BY <1>3, ToldNothing
  <2> QED
    BY ONLY <1>1, <2>1, LeadsItself
<1> QED
  BY <1>2, <1>3

(* A stream tells what its beginning does, and then more.                  *)
LEMMA ToldLeads ==
  ASSUME NEW a \in Seq(Events), NEW c \in Seq(Events), NEW kinds, kinds \subseteq Content, NEW places
  PROVE  Leads(Told(a, kinds, places), Told(a \o c, kinds, places))
<1>1. PICK w, m, n : w = a \o c /\ m = Len(a) /\ n = Len(c)
  OBVIOUS
<1>2. w \in Seq(Events) /\ m \in Nat /\ n \in Nat /\ Len(w) = m + n
  BY <1>1, ConcatProperties, LenProperties
<1> DEFINE T(k) == Told(SubSeq(w, 1, k), kinds, places)
           S == {k \in Nat : k <= n => SubSeq(w, 1, m + k) \in Seq(Events) /\ Leads(T(m), T(m + k))}
<1>3. SubSeq(w, 1, m) = a /\ SubSeq(w, 1, m + n) = w
  <2>1. SubSeq(w, 1, m + n) = w
    BY <1>2, SubSeqFull
  <2>2. CASE m = 0
    <3>1. a = <<>>
      BY <1>1, <2>2, EmptySeq
    <3>2. SubSeq(w, 1, 0) = <<>>
      BY SubSeqEmpty
    <3> QED
      BY <2>1, <2>2, <3>1, <3>2
  <2>3. CASE m # 0
    <3>1. 1 \in 1 .. m /\ m \in 1 .. m
      BY <1>2, <2>3
    <3>2. SubSeq(a \o c, 1, m) = SubSeq(a, 1, m) /\ SubSeq(a, 1, m) = a
      BY <1>1, <3>1, SubSeqOfConcat1, SubSeqFull
    <3> QED
      BY <1>1, <2>1, <3>2
  <2> QED
    BY <2>2, <2>3
<1>4. T(m) \in Said
  BY <1>3, ToldSaid
<1>5. 0 \in S
  <2>1. m + 0 = m /\ Leads(T(m), T(m))
    BY <1>2, <1>4, LeadsItself
  <2> QED
    BY <1>3, <2>1
<1>6. ASSUME NEW k \in Nat, k \in S PROVE k + 1 \in S
  <2>1. SUFFICES ASSUME k + 1 <= n
                 PROVE  SubSeq(w, 1, m + (k + 1)) \in Seq(Events) /\ Leads(T(m), T(m + (k + 1)))
    OBVIOUS
  <2>2. PICK l, b, e, d : l = m + k /\ b = SubSeq(w, 1, l) /\ e = w[l + 1] /\ d = SubSeq(w, 1, l + 1)
    OBVIOUS
  <2>3. l \in Nat /\ l + 1 <= Len(w) /\ m + (k + 1) = l + 1 /\ l + 1 \in 1 .. Len(w)
    BY <1>2, <2>1, <2>2
  <2>4. k <= n
    BY <1>2, <2>1
  <2>5. b \in Seq(Events) /\ Leads(T(m), T(l))
    BY <1>6, <2>2, <2>4
  <2>6. e \in Events /\ d = Append(b, e) /\ d \in Seq(Events)
    BY <1>2, <2>2, <2>3, <2>5, BeginningGrows, ElementOfSeq, AppendProperties
  <2>7. T(l) = Told(b, kinds, places) /\ T(l + 1) = Told(d, kinds, places)
    BY <2>2
  <2> HIDE DEF T
  <2>8. Leads(Told(b, kinds, places), Told(Append(b, e), kinds, places))
    BY <2>5, <2>6, AppendLeads
  <2>9. Leads(Told(b, kinds, places), Told(d, kinds, places))
    BY ONLY <2>6, <2>8, Zenon
  <2> QED
    BY <1>4, <2>2, <2>3, <2>5, <2>6, <2>7, <2>9, LeadsOn
<1> HIDE DEF S
<1>7. n \in S
  BY <1>2, <1>5, <1>6, NumberInduction
<1>8. Leads(T(m), T(m + n))
  <2> HIDE DEF T
  <2> QED
    BY <1>2, <1>7 DEF S
<1> QED
  BY <1>1, <1>3, <1>8

(* A stream a tells the beginning of what was heard.                       *)
Begins(s, a, h) ==
  /\ Leads(Told(a, Talks, Int), Talk(h))
  /\ \A j \in DOMAIN s.tools : Leads(ArgsTold(a, s.tools[j].index), Args(h, s.tools[j].up))
LEMMA BeginsSooner ==
  ASSUME NEW s, NEW a \in Seq(Events), NEW c \in Seq(Events), NEW h, Begins(s, a \o c, h) PROVE Begins(s, a, h)
<1>1. PICK w : w = a \o c
  OBVIOUS
<1>2. Talks \subseteq Content /\ {"tool"} \subseteq Content
  BY DEF Talks, Content
<1>3. Leads(Told(a, Talks, Int), Told(w, Talks, Int)) /\ Told(a, Talks, Int) \in Said
  BY <1>1, <1>2, ToldLeads, ToldSaid
<1>4. \A i : Leads(ArgsTold(a, i), ArgsTold(w, i)) /\ ArgsTold(a, i) \in Said
  BY <1>1, <1>2, ToldLeads, ToldSaid DEF ArgsTold
<1>5. Begins(s, w, h)
  BY <1>1
<1> QED
  BY <1>3, <1>4, <1>5, LeadsOn DEF Begins

LEMMA AgreedBegins ==
  ASSUME NEW s \in Decoders, NEW a \in Seq(Events), NEW h, AgreedWith(s, a, h, {}) PROVE Begins(s, a, h)
<1>1. Talks \in SUBSET Talks
  OBVIOUS
<1>2. Told(a, Talks, Int) = Talk(h)
  <2>1. Told(a, Talks, Int) = Gathered(h, Talks, Int)
    BY <1>1 DEF AgreedWith
  <2> QED
    BY <2>1 DEF Talk, Talks
<1>3. Leads(Told(a, Talks, Int), Talk(h))
  BY <1>2, ToldSaid, LeadsItself
<1>4. ASSUME NEW j \in DOMAIN s.tools PROVE Leads(ArgsTold(a, s.tools[j].index), Args(h, s.tools[j].up))
  <2>1. PICK t : t = s.tools[j]
    OBVIOUS
  <2>2. ToolAgreed(t, a, h)
    BY <2>1 DEF AgreedWith, ToolsAgreed
  <2>3. t.args \in Seq(Nat) /\ t.started \in BOOLEAN
    BY <2>1, ToolTyped
  <2>4. ArgsTold(a, t.index) \in Said
    BY ToldSaid DEF ArgsTold
  <2>5. CASE t.started
    BY <2>1, <2>2, <2>4, <2>5, LeadsItself DEF ToolAgreed
  <2>6. CASE ~t.started
    <3>1. PICK x, y : x = ArgsTold(a, t.index) /\ y = Args(h, t.up)
      OBVIOUS
    <3>2. x = <<>> /\ y = CallPiece(t.args)
      BY <2>2, <2>6, <3>1 DEF ToolAgreed, CallPiece
    <3>3. CallPiece(t.args) \in Said
      BY <2>3, PiecesSaid DEF CallPiece, Kinds
    <3>4. y = x \o y
      BY <3>2, <3>3, ConcatEmptySeq DEF Said
    <3>5. Leads(x, y)
      BY <3>2, <3>3, <3>4 DEF Leads
    <3> QED
      BY <2>1, <3>1, <3>5
  <2> QED
    BY <2>3, <2>5, <2>6
<1> QED
  BY <1>3, <1>4 DEF Begins

-------------------------------------------------------------------------------
(* What was said, on its way to the relay                                  *)

LEMMA ToolFrameOf == ASSUME NEW p \in Platforms, NEW f \in Frames(p), f.k = "tool" PROVE f \in ToolFrames
<1>1. p \in {"workbuddy", "openrouter", "trae", "cursor"}
  BY PlatformsAssumption
<1>2. CASE p = "workbuddy"
  BY <1>2, PartKinds DEF Frames, WorkBuddyFrames, FinishFrames
<1>3. CASE p = "openrouter"
  BY <1>3, PartKinds DEF Frames, OpenRouterFrames, FinishFrames
<1>4. CASE p = "trae"
  <2>1. f \in TraeFrames
    BY <1>4 DEF Frames
  <2>2. PICK given : f \in Parts \/ f \in [k : {"end"}, reason : given, valid : BOOLEAN]
    BY <2>1, Zenon DEF TraeFrames
  <2> QED
    BY <2>2, PartKinds
<1>5. CASE p = "cursor"
  BY <1>5 DEF Frames, CursorFrames, TextFrame, ThinkFrame
<1> QED
  BY <1>1, <1>2, <1>3, <1>4, <1>5

LEMMA HeardTyped ==
  ASSUME NEW h \in Seq(Hearings), NEW p \in Platforms, NEW f \in Frames(p), NEW n \in Nat
  PROVE  HeardWith(h, f, n) \in Seq(Hearings)
<1>1. PICK g : g = HeardWith(h, f, n)
  OBVIOUS
<1>2. <<n>> \in Seq(Nat) /\ <<>> \in Seq(Nat) /\ 1 \in ToolSlots
  BY PlatformsAssumption
<1>3. \A up \in ToolSlots, d \in Seq(Nat) : CallHeard(h, up, d) \in Seq(Hearings)
  <2>1. ASSUME NEW up \in ToolSlots, NEW d \in Seq(Nat) PROVE CallHeard(h, up, d) \in Seq(Hearings)
    <3>1. PICK r : r = [k |-> "tool", i |-> up, d |-> d]
      OBVIOUS
    <3>2. r \in Hearings
      BY <3>1 DEF Hearings, Content
    <3>3. CallHeard(h, up, d) = Append(h, r)
      BY <3>1 DEF CallHeard
    <3> QED
      BY <3>2, <3>3, AppendProperties
  <2> QED
    BY <2>1
<1>4. CASE f.k \in {"text", "think"}
  <2>1. PICK r : r = [k |-> f.k, i |-> 0, d |-> <<n>>]
    OBVIOUS
  <2>2. r \in Hearings
    BY <1>2, <1>4, <2>1 DEF Hearings, Content
  <2>3. g = Append(h, r)
    BY ONLY <1>1, <1>4, <2>1 DEF HeardWith, Called
  <2> QED
    BY <1>1, <2>2, <2>3, AppendProperties
<1>5. CASE f.k = "tool"
  <2>1. f.up \in ToolSlots /\ f.args \in BOOLEAN
    BY <1>5, ToolFrameOf DEF ToolFrames
  <2>2. PICK d : d = IF f.args THEN <<n>> ELSE <<>>
    OBVIOUS
  <2>3. d \in Seq(Nat)
    BY <1>2, <2>2
  <2>4. g = CallHeard(h, f.up, d)
    BY ONLY <1>1, <1>5, <2>2 DEF HeardWith, Called
  <2> QED
    BY <1>1, <1>3, <2>1, <2>3, <2>4
<1>6. CASE f.k \notin {"text", "think", "tool"}
  <2>1. g = CallHeard(h, 1, <<n>>) \/ g = h
    BY ONLY <1>1, <1>6 DEF HeardWith, Called
  <2> QED
    BY <1>1, <1>2, <1>3, <2>1
<1> QED
  BY <1>4, <1>5, <1>6

LEMMA HearsIt == ASSUME NEW f, NEW n PROVE Hear(f, n) = HeardWith(heard, f, n)
BY Zenon DEF Hear, HeardWith, CallHeard

(* As long as nothing is lost, the decoder, its events and what was heard  *)
(* agree; the relay is given what it is given in order.                    *)
Conveys(a) ==
  /\ AgreedWith(dec, a, heard, {})
  /\ pumping => Unclosed(a)
  /\ HasDone(a) => AllStarted(dec)
SaidInvariant ==
  /\ heard \in Seq(Hearings) /\ dec \in Decoders
  /\ reply = "open" => Begins(dec, AllEvents, heard)
  /\ reply = "open" /\ (pumping \/ fault # "canceled") => Conveys(AllEvents)
  /\ reply # "open" => Begins(dec, sent, heard)
  /\ reply = "complete" => AgreedWith(dec, sent, heard, {}) /\ AllStarted(dec)

LEMMA SaidInit == Init => SaidInvariant
<1> SUFFICES ASSUME Init PROVE SaidInvariant
  OBVIOUS
<1>1. /\ sent = <<>> /\ pending = <<>> /\ unsent = <<>> /\ reply = "open" /\ heard = <<>> /\ dec = NewStream
  BY DEF Init
<1>2. PICK a : a = AllEvents
  OBVIOUS
<1>3. a = <<>> /\ a \in Seq(Events) /\ heard \in Seq(Hearings)
  BY <1>1, <1>2 DEF AllEvents
<1>4. dec \in Decoders /\ dec.tools = <<>> /\ dec.at = -1 /\ dec.next = 0
  <2>1. "stop" \in Reasons
    BY Zenon DEF Reasons
  <2>2. <<>> \in Seq(Events) /\ <<>> \in Seq(ToolCalls)
    OBVIOUS
  <2> QED
    BY <1>1, <2>1, <2>2 DEF NewStream, Decoders
<1>5. \A kinds, places : Told(a, kinds, places) = <<>> /\ Gathered(heard, kinds, places) = <<>>
  BY <1>1, <1>3, ToldNone, GatheredNone
<1>6. DOMAIN a = {} /\ DOMAIN heard = {} /\ DOMAIN dec.tools = {}
  BY <1>1, <1>3, <1>4
<1>7. CallsAgreed(dec, heard, {})
  <2>1. CalledIn(heard) = {}
    BY <1>6 DEF CalledIn
  <2>2. \A u : Args(heard, u) = <<>>
    BY <1>5 DEF Args
  <2> QED
    BY <1>6, <2>1, <2>2 DEF CallsAgreed
<1>8. AgreedWith(dec, a, heard, {})
  <2>1. \A kinds \in SUBSET Talks : Told(a, kinds, Int) = Gathered(heard, kinds, Int)
    BY <1>5
  <2>2. ToolsAgreed(dec, a, heard) /\ NothingBeyond(dec, a) /\ Rising(dec, a) /\ ClosesTell(a)
    BY <1>4, <1>5, <1>6 DEF ToolsAgreed, NothingBeyond, Rising, ClosesTell, ArgsTold
  <2> QED
    BY <1>7, <2>1, <2>2 DEF AgreedWith
<1>9. Conveys(a)
  BY <1>6, <1>8 DEF Conveys, Unclosed, HasDone
<1>10. Begins(dec, a, heard)
  BY <1>3, <1>4, <1>8, AgreedBegins
<1> QED
  BY <1>1, <1>2, <1>3, <1>4, <1>9, <1>10 DEF SaidInvariant

(* What a read makes of the decoder is taken.                              *)
LEMMA TakeSaid ==
  ASSUME FlowInvariant, SaidInvariant, Reading, NEW r, Settles(r, AllEvents), NEW g \in Seq(Hearings),
         Voices(r, AllEvents, g), Take(r), heard' = g, UNCHANGED <<sent, reply>>
  PROVE  SaidInvariant'
<1>1. reply = "open" /\ sent \in Seq(Events) /\ pending \in Seq(Events) /\ unsent \in Seq(Events)
  BY DEF FlowInvariant, Reading
<1>2. /\ r.s \in Decoders /\ r.over \in BOOLEAN
      /\ ~r.over => Decodes(r.s, AllEvents, 0)
  BY DEF Settles
<1>3. PICK a, c, o, s, d : a = AllEvents /\ c = AllEvents' /\ o = r.s.out /\ s = r.s /\ d = [r.s EXCEPT !.out = <<>>]
  OBVIOUS
<1>4. d \in Decoders /\ d.tools = s.tools /\ d.at = s.at /\ d.next = s.next /\ s \in Decoders /\ o \in Seq(Events)
  <2>1. <<>> \in Seq(Events)
    OBVIOUS
  <2> QED
    BY <1>2, <1>3, <2>1 DEF Decoders
<1>5. c = a \o o
  BY <1>3, <1>4, TakenEvents
<1>6. AgreedWith(s, c, g, {}) /\ (~r.over => Unclosed(c)) /\ (r.over /\ HasDone(c) => AllStarted(s))
  BY <1>3, <1>5 DEF Voices
<1>7. ~r.over => ~HasDone(c)
  BY <1>2, <1>3, <1>5, NotOverNotDone DEF Decodes, Knows
<1>8. a \in Seq(Events) /\ c \in Seq(Events)
  <2>1. a \in Seq(Events)
    BY <1>1, <1>3, ConcatProperties DEF AllEvents
  <2> QED
    BY <1>4, <1>5, <2>1, ConcatProperties
<1>9. AgreedWith(d, c, g, {})
  <2>1. s.at < s.next /\ s.at \in Int
    BY <1>4, <1>6 DEF AgreedWith, Rising, Decoders
  <2>2. s.next \in Nat
    BY <1>4 DEF Decoders
  <2>3. Later(s, d)
    BY <1>4, <2>1, <2>2 DEF Later
  <2> QED
    BY <1>4, <1>6, <1>8, <2>3, LaterAgreed
<1>10. HasDone(c) => AllStarted(d)
  BY <1>2, <1>4, <1>6, <1>7 DEF AllStarted
<1>11. dec' = d /\ heard' = g /\ pumping' = ~r.over /\ reply' = "open"
  BY <1>1, <1>3 DEF Take
<1>12. Conveys(AllEvents)'
  BY <1>3, <1>6, <1>9, <1>10, <1>11 DEF Conveys
<1>13. Begins(d, c, g)
  BY <1>4, <1>8, <1>9, AgreedBegins
<1> QED
  BY <1>3, <1>4, <1>11, <1>12, <1>13 DEF SaidInvariant

LEMMA ReadSpeaks ==
  ASSUME FlowInvariant, SaidInvariant, Reading
  PROVE  /\ Decodes(dec, AllEvents, 0) /\ dec.out = <<>> /\ (platform = "cursor" => dec.tools = <<>>)
         /\ Speaks(dec, AllEvents, heard)
<1>1. reply = "open" /\ pumping
  BY DEF Reading
<1>2. PICK a : a = AllEvents
  OBVIOUS
<1>3. Decodes(dec, a, 0) /\ dec.out = <<>> /\ (platform = "cursor" => dec.tools = <<>>)
  BY <1>1, <1>2 DEF FlowInvariant, Going
<1>4. AgreedWith(dec, a, heard, {}) /\ Unclosed(a)
  BY <1>1, <1>2 DEF SaidInvariant, Conveys
<1>5. dec \in Decoders /\ a \in Seq(Events) /\ a \o dec.out = a
  BY <1>3, NothingNew DEF Decodes
<1> QED
  BY <1>2, <1>3, <1>4, <1>5 DEF Speaks, Agreed

LEMMA ReadFrameSaid ==
  ASSUME FlowInvariant, SaidInvariant, NEW f \in Frames(platform), ReadFrame(f) PROVE SaidInvariant'
<1>1. PICK n, r, a, g : /\ n = count + 1 /\ r = Consume(platform, mustCall, dec, f, n) /\ a = AllEvents
                        /\ g = HeardWith(heard, f, n)
  OBVIOUS
<1>2. Reading /\ Take(r) /\ UNCHANGED <<sent, reply>> /\ heard' = g
  BY <1>1, HearsIt DEF ReadFrame
<1>3. platform \in Platforms /\ n \in Nat /\ heard \in Seq(Hearings)
  BY <1>1 DEF FlowInvariant, SaidInvariant
<1>4. Decodes(dec, a, 0) /\ dec.out = <<>> /\ (platform = "cursor" => dec.tools = <<>>) /\ Speaks(dec, a, heard)
  BY <1>1, <1>2, ReadSpeaks
<1>5. Settles(r, a)
  BY <1>1, <1>3, <1>4, ConsumeSettles
<1>6. Voices(r, a, g)
  BY <1>1, <1>3, <1>4, ConsumeVoices
<1>7. g \in Seq(Hearings)
  BY <1>1, <1>3, HeardTyped
<1> QED
  BY ONLY FlowInvariant, SaidInvariant, <1>1, <1>2, <1>5, <1>6, <1>7, TakeSaid

LEMMA ReadEndsSaid ==
  ASSUME FlowInvariant, SaidInvariant, NEW broken \in BOOLEAN, ReadEnds(broken) PROVE SaidInvariant'
<1>1. PICK r, a, g : r = EndOfRead(platform, dec, closed, broken) /\ a = AllEvents /\ g = heard
  OBVIOUS
<1>2. Reading /\ Take(r) /\ UNCHANGED <<sent, reply>> /\ heard' = g
  BY <1>1 DEF ReadEnds
<1>3. platform \in Platforms /\ g \in Seq(Hearings)
  BY <1>1 DEF FlowInvariant, SaidInvariant
<1>4. Decodes(dec, a, 0) /\ dec.out = <<>> /\ Speaks(dec, a, g)
  BY <1>1, <1>2, ReadSpeaks
<1>5. Settles(r, a)
  BY <1>1, <1>3, <1>4, EndOfReadSettles
<1>6. Voices(r, a, g)
  BY <1>1, <1>3, <1>4, EndOfReadVoices
<1> QED
  BY ONLY FlowInvariant, SaidInvariant, <1>1, <1>2, <1>3, <1>5, <1>6, TakeSaid

LEMMA SameSaid ==
  ASSUME SaidInvariant, AllEvents' = AllEvents, UNCHANGED <<dec, pumping, fault, reply, heard>>,
         reply # "open" => sent' = sent
  PROVE  SaidInvariant'
<1>1. PICK a : a = AllEvents
  OBVIOUS
<1>2. a = AllEvents'
  BY <1>1
<1>3. Conveys(a) => Conveys(AllEvents)'
  BY <1>2 DEF Conveys
<1> QED
  BY <1>1, <1>2, <1>3 DEF SaidInvariant

LEMMA PumpSendsSaid == ASSUME FlowInvariant, SaidInvariant, PumpSends PROVE SaidInvariant'
<1>1. /\ unsent # <<>> /\ pending' = Append(pending, Head(unsent)) /\ unsent' = Tail(unsent)
      /\ UNCHANGED <<dec, pumping, fault, sent, reply, heard>>
  BY DEF PumpSends
<1>2. pending \in Seq(Events) /\ unsent \in Seq(Events)
  BY DEF FlowInvariant
<1>3. Append(pending, Head(unsent)) \o Tail(unsent) = pending \o unsent
  BY <1>1, <1>2, HeadMoves
<1>4. AllEvents' = AllEvents
  BY <1>1, <1>3 DEF AllEvents
<1> QED
  BY ONLY SaidInvariant, <1>1, <1>4, SameSaid

LEMMA PumpAbortsSaid == ASSUME FlowInvariant, SaidInvariant, PumpAborts PROVE SaidInvariant'
<1>1. /\ unsent # <<>> /\ unsent' = <<>> /\ pumping' = FALSE /\ fault' = "canceled"
      /\ UNCHANGED <<dec, pending, sent, reply, heard>>
  BY DEF PumpAborts
<1>2. pending \in Seq(Events) /\ unsent \in Seq(Events) /\ sent \in Seq(Events)
  BY DEF FlowInvariant
<1>3. PICK a : a = sent \o pending
  OBVIOUS
<1>4. a \in Seq(Events) /\ AllEvents = a \o unsent
  BY <1>2, <1>3, ConcatProperties, ConcatAssociative DEF AllEvents
<1>5. AllEvents' = a
  <2>1. pending \o <<>> = pending
    BY <1>2, NothingNew
  <2> QED
    BY <1>1, <1>3, <2>1 DEF AllEvents
<1>6. reply = "open" => Begins(dec, a, heard)
  BY <1>2, <1>4, BeginsSooner DEF SaidInvariant
<1> QED
  BY <1>1, <1>5, <1>6 DEF SaidInvariant

(* The relay has received the beginning of all the events.                 *)
LEMMA SentBegins == ASSUME FlowInvariant, SaidInvariant PROVE Begins(dec, sent, heard)
<1>1. sent \in Seq(Events) /\ pending \in Seq(Events) /\ unsent \in Seq(Events)
  BY DEF FlowInvariant
<1>2. PICK c : c = pending \o unsent
  OBVIOUS
<1>3. c \in Seq(Events) /\ AllEvents = sent \o c
  BY <1>1, <1>2, ConcatProperties DEF AllEvents
<1> QED
  BY <1>1, <1>3, BeginsSooner DEF SaidInvariant

LEMMA RelaySaid == ASSUME FlowInvariant, SaidInvariant, Relay PROVE SaidInvariant'
<1>1. /\ reply = "open" /\ pending # <<>> /\ pending' = Tail(pending)
      /\ UNCHANGED <<dec, unsent, pumping, fault, heard>>
  BY DEF Relay
<1>2. sent \in Seq(Events) /\ pending \in Seq(Events) /\ unsent \in Seq(Events)
  BY DEF FlowInvariant
<1>3. PICK h : h = Head(pending)
  OBVIOUS
<1>4. CASE h.t = "error"
  <2>1. reply' = "failed" /\ sent' = sent
    BY <1>3, <1>4 DEF Relay
  <2> QED
    BY <1>1, <2>1, SentBegins DEF SaidInvariant
<1>5. CASE h.t # "error"
  <2>1. reply' = reply /\ sent' = Append(sent, h)
    BY <1>1, <1>3, <1>5 DEF Relay
  <2>2. AllEvents' = AllEvents
    BY ONLY <1>1, <1>2, <1>3, <2>1, RelayedEvents
  <2> QED
    BY ONLY SaidInvariant, <1>1, <2>1, <2>2, SameSaid
<1> QED
  BY <1>4, <1>5

LEMMA RecvEndsSaid == ASSUME FlowInvariant, SaidInvariant, RecvEnds PROVE SaidInvariant'
<1>1. /\ reply = "open" /\ pending = <<>> /\ unsent = <<>>
      /\ reply' = (IF fault = "none" /\ Done THEN "complete" ELSE "failed")
      /\ UNCHANGED <<dec, sent, heard>>
  BY DEF RecvEnds
<1>2. sent \in Seq(Events)
  BY DEF FlowInvariant
<1>3. AllEvents = sent
  <2>1. <<>> \o <<>> = <<>> /\ sent \o <<>> = sent
    BY <1>2, NothingNew
  <2> QED
    BY <1>1, <2>1 DEF AllEvents
<1>4. Begins(dec, sent, heard)
  BY SentBegins
<1>5. reply' = "complete" => AgreedWith(dec, sent, heard, {}) /\ AllStarted(dec)
  <2>1. SUFFICES ASSUME fault = "none", Done PROVE AgreedWith(dec, sent, heard, {}) /\ AllStarted(dec)
    BY <1>1
  <2>2. Conveys(sent)
    BY <1>1, <1>3, <2>1 DEF SaidInvariant
  <2> QED
    BY <2>1, <2>2 DEF Conveys, HasDone, Done
<1>6. reply' # "open"
  BY <1>1
<1> QED
  BY <1>1, <1>4, <1>5, <1>6 DEF SaidInvariant

LEMMA SaidStep == FlowInvariant /\ SaidInvariant /\ [Next]_vars => SaidInvariant'
<1> SUFFICES ASSUME FlowInvariant, SaidInvariant, [Next]_vars PROVE SaidInvariant'
  OBVIOUS
<1>1. ASSUME NEW f \in Frames(platform), ReadFrame(f) PROVE SaidInvariant'
  BY <1>1, ReadFrameSaid
<1>2. ASSUME NEW broken \in BOOLEAN, ReadEnds(broken) PROVE SaidInvariant'
  BY <1>2, ReadEndsSaid
<1>3. CASE IdleTimeout
  <2>1. reply = "open" /\ UNCHANGED <<dec, unsent, pending, pumping, fault, sent, reply, heard>>
    BY <1>3 DEF IdleTimeout
  <2>2. AllEvents' = AllEvents
    BY <2>1 DEF AllEvents
  <2> QED
    BY ONLY SaidInvariant, <2>1, <2>2, SameSaid
<1>4. CASE ClientLeaves
  <2>1. reply' = "gone" /\ UNCHANGED <<dec, sent, heard>>
    BY <1>4 DEF ClientLeaves
  <2>2. Begins(dec, sent, heard)
    BY SentBegins
  <2> QED
    BY <2>1, <2>2 DEF SaidInvariant
<1>5. CASE UNCHANGED vars
  BY <1>5 DEF vars, SaidInvariant, Conveys, AllEvents
<1>6. CASE PumpSends
  BY <1>6, PumpSendsSaid
<1> QED
  BY <1>1, <1>2, <1>3, <1>4, <1>5, <1>6, PumpAbortsSaid, RelaySaid, RecvEndsSaid DEF Next

-------------------------------------------------------------------------------
(* What frames convey                                                      *)

Carries(f) == f.t \in Growing \cup {"content"}
GrownChunks == [t : Growing \cup {"content", "start"}, k : Kinds, i : Int, d : Seq(Nat)]
Carrying(w) == Framed(w) /\ \A n \in DOMAIN w : Carries(w[n]) => w[n] \in GrownChunks
Conveyed(w, kinds, places) == Gathered(GrownFrames(w), kinds, places)

LEMMA GrownTyped ==
  ASSUME NEW w, Carrying(w)
  PROVE  /\ Chunks(GrownChunks) /\ GrownFrames(w) \in Seq(GrownChunks) /\ Len(w) \in Nat
         /\ DOMAIN w = 1 .. Len(w) /\ Len(GrownFrames(w)) = Len(w)
<1>1. Chunks(GrownChunks)
  BY DEF Chunks, GrownChunks
<1>2. StartEvent \in GrownChunks
  BY DEF StartEvent, Event, GrownChunks, Kinds
<1>3. PICK S : w \in Seq(S)
  BY DEF Carrying, Framed
<1>4. PICK n : n = Len(w)
  OBVIOUS
<1>5. n \in Nat /\ DOMAIN w = 1 .. n
  BY <1>3, <1>4, LenProperties
<1>6. PICK q : q = [m \in 1 .. n |-> IF w[m].t \in Growing \cup {"content"} THEN w[m] ELSE StartEvent]
  OBVIOUS
<1>7. GrownFrames(w) = q
  BY <1>5, <1>6 DEF GrownFrames
<1>8. \A m \in 1 .. n : q[m] \in GrownChunks
  BY <1>2, <1>5, <1>6 DEF Carrying, Carries
<1>9. q \in Seq(GrownChunks) /\ Len(q) = n
  BY <1>5, <1>6, <1>8
<1> QED
  BY <1>1, <1>4, <1>5, <1>7, <1>9

(* One frame more conveys its content, when it carries any.                *)
Conveying(w, f, v) ==
  /\ Carrying(v)
  /\ \A kinds, places : kinds \subseteq Content =>
       Conveyed(v, kinds, places) = IF Carries(f) THEN Put(Conveyed(w, kinds, places), f, kinds, places)
                                    ELSE Conveyed(w, kinds, places)
LEMMA FrameConveys ==
  ASSUME NEW w, Carrying(w), NEW f, Carries(f) => f \in GrownChunks PROVE Conveying(w, f, w \o <<f>>)
<1>1. PICK v, n : v = w \o <<f>> /\ n = Len(w)
  OBVIOUS
<1>2. OneLonger(w, f, v)
  BY <1>1, OneLongerConcat DEF Carrying
<1>3. /\ Framed(v) /\ n \in Nat /\ DOMAIN w = 1 .. n /\ DOMAIN v = 1 .. n + 1 /\ v[n + 1] = f
      /\ \A m \in 1 .. n : v[m] = w[m]
  BY <1>1, <1>2 DEF OneLonger
<1>4. Carrying(v)
  <2>1. \A m \in 1 .. n + 1 : m \in 1 .. n \/ m = n + 1
    BY <1>3
  <2> QED
    BY <1>3, <2>1 DEF Carrying
<1>5. PICK x, g, h : x = (IF Carries(f) THEN f ELSE StartEvent) /\ g = GrownFrames(w) /\ h = GrownFrames(v)
  OBVIOUS
<1>6. x \in GrownChunks
  BY <1>5 DEF StartEvent, Event, GrownChunks, Kinds
<1>7. Chunks(GrownChunks) /\ g \in Seq(GrownChunks) /\ h \in Seq(GrownChunks) /\ Len(g) = n /\ Len(h) = n + 1
  <2>1. Len(v) = n + 1
    BY <1>1, <1>2 DEF OneLonger
  <2> QED
    BY <1>1, <1>4, <1>5, <2>1, GrownTyped
<1>8. h = Append(g, x)
  <2>1. PICK y : y = Append(g, x)
    OBVIOUS
  <2>2. /\ y \in Seq(GrownChunks) /\ Len(y) = n + 1 /\ y[n + 1] = x /\ \A m \in 1 .. n : y[m] = g[m]
    BY <1>6, <1>7, <2>1, AppendProperties, LenProperties
  <2>3. ASSUME NEW m \in 1 .. n + 1 PROVE y[m] = h[m]
    <3>1. h[m] = IF Carries(v[m]) THEN v[m] ELSE StartEvent
      BY <1>3, <1>5 DEF GrownFrames, Carries
    <3>2. CASE m \in 1 .. n
      <4>1. g[m] = IF Carries(w[m]) THEN w[m] ELSE StartEvent
        BY <1>3, <1>5, <3>2 DEF GrownFrames, Carries
      <4> QED
        BY <1>3, <2>2, <3>1, <3>2, <4>1
    <3>3. CASE m = n + 1
      BY <1>3, <1>5, <2>2, <3>1, <3>3
    <3> QED
      BY <1>3, <3>2, <3>3
  <2> QED
    BY <1>7, <2>1, <2>2, <2>3, SeqEqual
<1>9. ASSUME NEW kinds, NEW places, kinds \subseteq Content
      PROVE  Conveyed(v, kinds, places) = IF Carries(f) THEN Put(Conveyed(w, kinds, places), f, kinds, places)
                                          ELSE Conveyed(w, kinds, places)
  <2>1. Gathered(h, kinds, places) = Put(Gathered(g, kinds, places), x, kinds, places)
    BY ONLY <1>6, <1>7, <1>8, GatheredAppend
  <2>2. Conveyed(v, kinds, places) = Put(Conveyed(w, kinds, places), x, kinds, places)
    BY <1>5, <2>1 DEF Conveyed
  <2>3. CASE Carries(f)
    BY <1>5, <2>2, <2>3
  <2>4. CASE ~Carries(f)
    <3>1. x.k \notin kinds
      BY <1>5, <1>9, <2>4 DEF StartEvent, Event, Content
    <3> QED
      BY <2>2, <2>4, <3>1 DEF Put
  <2> QED
    BY <2>3, <2>4
<1> QED
  BY <1>1, <1>4, <1>9 DEF Conveying

LEMMA NothingConveyed == Carrying(<<>>) /\ \A kinds, places : Conveyed(<<>>, kinds, places) = <<>>
<1>1. Framed(<<>>) /\ DOMAIN <<>> = {}
  <2>1. <<>> \in Seq(Nat)
    OBVIOUS
  <2> QED
    BY <2>1 DEF Framed
<1>2. Carrying(<<>>)
  BY <1>1 DEF Carrying
<1>3. GrownFrames(<<>>) = <<>>
  BY DEF GrownFrames
<1> QED
  BY <1>2, <1>3, GatheredNone DEF Conveyed

(* A frame is written: one that carries nothing, or the content of a delta.*)
Unchanging(w, v) ==
  Carrying(v) /\ \A kinds, places : kinds \subseteq Content => Conveyed(v, kinds, places) = Conveyed(w, kinds, places)
LEMMA QuietWritten ==
  ASSUME NEW e, IsEncoder(e), Carrying(e.out), NEW f, ~Carries(f) PROVE Unchanging(e.out, Write(e, <<f>>).out)
<1>1. PICK w : w = e.out
  OBVIOUS
<1>2. Write(e, <<f>>).out = w \o <<f>>
  BY <1>1 DEF Write, IsEncoder
<1>3. Conveying(w, f, w \o <<f>>)
  BY <1>1, FrameConveys
<1> QED
  BY ONLY ~Carries(f), <1>1, <1>2, <1>3 DEF Conveying, Unchanging

LEMMA ContentWritten ==
  ASSUME NEW e, IsEncoder(e), Carrying(e.out), NEW f, Carries(f), f \in GrownChunks
  PROVE  Conveying(e.out, f, Write(e, <<f>>).out)
<1>1. PICK w : w = e.out
  OBVIOUS
<1>2. Write(e, <<f>>).out = w \o <<f>>
  BY <1>1 DEF Write, IsEncoder
<1>3. Conveying(w, f, w \o <<f>>)
  BY <1>1, FrameConveys
<1> QED
  BY ONLY <1>1, <1>2, <1>3

(* A delta and what is told.                                               *)
LEMMA DeltaTold ==
  ASSUME NEW a \in Seq(Events), NEW e \in Events, e.t = "delta", NEW kinds, kinds \subseteq Content, NEW places
  PROVE  Told(Append(a, e), kinds, places) = Put(Told(a, kinds, places), e, kinds, places)
<1>1. CASE Tells(e, kinds, places)
  <2>1. Told(Append(a, e), kinds, places) = Told(a, kinds, places) \o Pieces(e)
    BY <1>1, ToldMore
  <2> QED
    BY ONLY <1>1, <2>1, Zenon DEF Put, Tells
<1>2. CASE ~Tells(e, kinds, places)
  <2>1. Told(Append(a, e), kinds, places) = Told(a, kinds, places)
    BY <1>2, ToldNothing
  <2>2. ~(e.k \in kinds /\ e.i \in places)
    BY <1>2 DEF Tells
  <2> QED
    BY ONLY <2>1, <2>2, Zenon DEF Put
<1> QED
  BY <1>1, <1>2

-------------------------------------------------------------------------------
(* What an encoder conveys is what its events tell                         *)

ContentOnly(a) == \A i, k : Opens(a, i, k) => k \in Content
TalkTold(w, a) == Carrying(w) /\ Conveyed(w, Talks, Int) = Told(a, Talks, Int)
BlocksTold(w, a) == TalkTold(w, a) /\ \A i : Conveyed(w, {"tool"}, {i}) = ArgsTold(a, i)

LEMMA ContentOn ==
  ASSUME NEW a, ContentOnly(a), NEW ev, Fits(a, ev), NEW c, Says(a, ev, c)
  PROVE  ContentOnly(c) /\ (ev.t = "delta" => ev.k \in Content)
<1>1. \A i, k : Opens(c, i, k) => Opens(a, i, k) \/ (ev.t = "open" /\ ev.k = k)
  BY DEF Says
<1>2. ev.t = "open" => ev.k \in Content
  BY DEF Fits
<1>3. ContentOnly(c)
  BY <1>1, <1>2 DEF ContentOnly
<1>4. ev.t = "delta" => ev.k \in Content
  BY DEF Fits, ContentOnly
<1> QED
  BY <1>3, <1>4

LEMMA TalksAreContent == Talks \subseteq Content /\ {"tool"} \subseteq Content /\ "tool" \notin Talks
BY DEF Talks, Content

(* Two frames that carry nothing.                                          *)
LEMMA TwoQuiet ==
  ASSUME NEW e, IsEncoder(e), Carrying(e.out), NEW f, ~Carries(f), NEW g, ~Carries(g)
  PROVE  Unchanging(e.out, Write(e, <<f, g>>).out)
<1>1. PICK v, y : v = Write(e, <<f>>) /\ y = Write(v, <<g>>)
  OBVIOUS
<1>2. Write(e, <<f, g>>) = y
  BY <1>1, TwoFrames DEF Carrying
<1>3. IsEncoder(v)
  BY <1>1 DEF Write, IsEncoder
<1>4. Unchanging(e.out, v.out)
  BY <1>1, QuietWritten
<1>5. Unchanging(v.out, y.out)
  <2>1. Carrying(v.out)
    BY <1>4 DEF Unchanging
  <2> QED
    BY <1>1, <1>3, <2>1, QuietWritten
<1> QED
  BY ONLY <1>2, <1>4, <1>5 DEF Unchanging

(* Nothing is conveyed of an event that is not a delta.                    *)
LEMMA NothingTold ==
  ASSUME NEW w, NEW a \in Seq(Events), BlocksTold(w, a), NEW ev \in Events, ev.t # "delta", NEW v, Unchanging(w, v)
  PROVE  BlocksTold(v, Append(a, ev))
<1>1. \A kinds, places : kinds \subseteq Content => Told(Append(a, ev), kinds, places) = Told(a, kinds, places)
  BY ToldSame
<1>2. Conveyed(v, Talks, Int) = Told(Append(a, ev), Talks, Int)
  BY <1>1, TalksAreContent DEF Unchanging, BlocksTold, TalkTold
<1>3. \A i : Conveyed(v, {"tool"}, {i}) = ArgsTold(Append(a, ev), i)
  BY <1>1, TalksAreContent DEF Unchanging, BlocksTold, ArgsTold
<1> QED
  BY <1>2, <1>3 DEF BlocksTold, TalkTold, Unchanging

SameContent(f, e) == f.k = e.k /\ f.i = e.i /\ f.d = e.d
LEMMA PutSame ==
  ASSUME NEW f, NEW e, f.k = e.k, f.d = e.d, NEW c, NEW kinds, NEW places, NEW others,
         e.k \in kinds => (f.i \in places <=> e.i \in others)
  PROVE  Put(c, f, kinds, places) = Put(c, e, kinds, others)
<1>1. Pieces(f) = Pieces(e)
  BY DEF Pieces
<1> QED
  BY <1>1 DEF Put

(* A frame with the content of a delta conveys what the delta tells.       *)
LEMMA TalkConveyed ==
  ASSUME NEW w, NEW a \in Seq(Events), TalkTold(w, a), NEW ev \in Events, ev.t = "delta",
         NEW f, f.k = ev.k, f.d = ev.d, f.i \in Int, Carries(f), NEW v, Conveying(w, f, v)
  PROVE  TalkTold(v, Append(a, ev))
<1>1. ev.i \in Int
  BY DEF Events
<1>2. Told(Append(a, ev), Talks, Int) = Put(Told(a, Talks, Int), ev, Talks, Int)
  BY TalksAreContent, DeltaTold
<1>3. Conveyed(v, Talks, Int) = Put(Conveyed(w, Talks, Int), f, Talks, Int)
  BY TalksAreContent DEF Conveying
<1>4. Put(Told(a, Talks, Int), f, Talks, Int) = Put(Told(a, Talks, Int), ev, Talks, Int)
  BY <1>1, PutSame
<1> QED
  BY <1>2, <1>3, <1>4 DEF TalkTold, Conveying

LEMMA BlockConveyed ==
  ASSUME NEW w, NEW a \in Seq(Events), BlocksTold(w, a), NEW ev \in Events, ev.t = "delta",
         NEW f, SameContent(f, ev), Carries(f), NEW v, Conveying(w, f, v)
  PROVE  BlocksTold(v, Append(a, ev))
<1>1. f.k = ev.k /\ f.d = ev.d /\ f.i = ev.i /\ ev.i \in Int
  BY DEF SameContent, Events
<1>2. TalkTold(v, Append(a, ev))
  BY <1>1, TalkConveyed DEF BlocksTold
<1>3. ASSUME NEW i PROVE Conveyed(v, {"tool"}, {i}) = ArgsTold(Append(a, ev), i)
  <2>1. Told(Append(a, ev), {"tool"}, {i}) = Put(Told(a, {"tool"}, {i}), ev, {"tool"}, {i})
    BY TalksAreContent, DeltaTold
  <2>2. Conveyed(v, {"tool"}, {i}) = Put(Conveyed(w, {"tool"}, {i}), f, {"tool"}, {i})
    BY TalksAreContent DEF Conveying
  <2>3. Put(ArgsTold(a, i), f, {"tool"}, {i}) = Put(ArgsTold(a, i), ev, {"tool"}, {i})
    BY <1>1, PutSame
  <2> QED
    BY <2>1, <2>2, <2>3 DEF BlocksTold, ArgsTold
<1> QED
  BY <1>2, <1>3 DEF BlocksTold

(* The frame of a delta.                                                   *)
LEMMA DeltaFrame ==
  ASSUME NEW ev \in Events, ev.k \in Content, NEW t \in Growing \cup {"content"}, NEW i \in Int, NEW f,
         f = Frame(t, ev.k, i, ev.d)
  PROVE  f.t = t /\ f.k = ev.k /\ f.i = i /\ f.d = ev.d /\ Carries(f) /\ f \in GrownChunks
<1>1. f.t = t /\ f.k = ev.k /\ f.i = i /\ f.d = ev.d
  BY DEF Frame, Event
<1>2. ev.d \in Seq(Nat) /\ ev.k \in Kinds
  BY DEF Events, Content, Kinds
<1>3. f \in GrownChunks
  BY <1>2 DEF GrownChunks, Frame, Event
<1> QED
  BY <1>1, <1>3 DEF Carries

LEMMA OtherFrame ==
  ASSUME NEW t, t \notin Growing \cup {"content"}, NEW k, NEW i, NEW d, NEW f, f = Frame(t, k, i, d) PROVE ~Carries(f)
BY DEF Frame, Event, Carries

-------------------------------------------------------------------------------
(* Messages                                                                *)

LEMMA MessagesTell ==
  ASSUME NEW e, NEW a \in Seq(Events), MessagesKnows(e, a), ContentOnly(a), BlocksTold(e.out, a),
         NEW ev \in Events, Fits(a, ev), NEW c, Says(a, ev, c), c = Append(a, ev), ev.t # "error"
  PROVE  BlocksTold(MessagesEncode(e, ev).out, c)
<1>1. IsEncoder(e) /\ BlocksOf(e, a) /\ Carrying(e.out) /\ Framed(e.out)
  BY DEF MessagesKnows, WrittenOf, BlocksTold, TalkTold
<1>2. ev.t \in {"start", "open", "delta", "close", "done"}
  BY DEF Events
<1>3. ASSUME NEW v, Unchanging(e.out, v.out), MessagesEncode(e, ev) = v, ev.t # "delta"
      PROVE  BlocksTold(MessagesEncode(e, ev).out, c)
  BY <1>3, NothingTold
<1>4. CASE ev.t = "start"
  <2>1. PICK f : f = Frame("message_start", "none", -1, <<>>)
    OBVIOUS
  <2>2. ~Carries(f)
    BY <2>1, OtherFrame DEF Growing
  <2>3. MessagesEncode(e, ev) = Write(e, <<f>>)
    BY <1>4, <2>1 DEF MessagesEncode
  <2> QED
    BY <1>1, <1>3, <1>4, <2>2, <2>3, QuietWritten
<1>5. CASE ev.t = "open"
  <2>1. PICK f : f = Frame("content_block_start", ev.k, ev.i, <<>>)
    OBVIOUS
  <2>2. ~Carries(f)
    BY <2>1, OtherFrame DEF Growing
  <2>3. PICK s, o : s = Append(e.seen, [i |-> ev.i, k |-> ev.k, d |-> <<>>]) /\ o = e.open \cup {ev.i}
    OBVIOUS
  <2>4. PICK u : u = [e EXCEPT !.seen = s, !.open = o]
    OBVIOUS
  <2>5. IsEncoder(u) /\ u.out = e.out
    BY <1>1, <2>4 DEF IsEncoder
  <2>6. ~Seen(e, ev.i)
    BY <1>1, <1>5 DEF Fits, BlocksOf
  <2>7. EnsureStarted(e, ev.i, ev.k) = Write(u, <<f>>)
    BY <2>1, <2>3, <2>4, <2>6 DEF EnsureStarted
  <2>8. MessagesEncode(e, ev) = Write(u, <<f>>)
    BY <1>5, <2>7 DEF MessagesEncode
  <2>9. Unchanging(u.out, Write(u, <<f>>).out)
    BY <1>1, <2>2, <2>5, QuietWritten
  <2> QED
    BY <1>3, <1>5, <2>5, <2>8, <2>9
<1>6. CASE ev.t = "delta"
  <2>1. PICK f : f = Frame("content_block_delta", ev.k, ev.i, ev.d)
    OBVIOUS
  <2>2. ev.k \in Content /\ ev.i \in Int
    BY <1>6, ContentOn DEF Events
  <2>3. SameContent(f, ev) /\ Carries(f) /\ f \in GrownChunks
    <3>1. "content_block_delta" \in Growing \cup {"content"}
      BY DEF Growing
    <3> QED
      BY <2>1, <2>2, <3>1, DeltaFrame DEF SameContent
  <2>4. Seen(e, ev.i)
    BY <1>1, <1>6 DEF Fits, BlocksOf
  <2>5. MessagesEncode(e, ev) = Write(e, <<f>>)
    BY <1>6, <2>1, <2>4 DEF MessagesEncode, EnsureStarted
  <2>6. Conveying(e.out, f, Write(e, <<f>>).out)
    BY <1>1, <2>3, ContentWritten
  <2> QED
    BY <1>6, <2>3, <2>5, <2>6, BlockConveyed
<1>7. CASE ev.t = "close"
  <2>1. PICK f : f = Frame("content_block_stop", "none", ev.i, <<>>)
    OBVIOUS
  <2>2. ~Carries(f)
    BY <2>1, OtherFrame DEF Growing
  <2>3. PICK o : o = e.open \ {ev.i}
    OBVIOUS
  <2>4. PICK u : u = [e EXCEPT !.open = o]
    OBVIOUS
  <2>5. IsEncoder(u) /\ u.out = e.out
    BY <1>1, <2>4 DEF IsEncoder
  <2>6. ev.i \in e.open
    BY <1>1, <1>7 DEF Fits, BlocksOf
  <2>7. StopBlock(e, ev.i) = Write(u, <<f>>)
    BY <2>1, <2>3, <2>4, <2>6 DEF StopBlock
  <2>8. MessagesEncode(e, ev) = Write(u, <<f>>)
    BY <1>7, <2>7 DEF MessagesEncode
  <2>9. Unchanging(u.out, Write(u, <<f>>).out)
    BY <1>1, <2>2, <2>5, QuietWritten
  <2> QED
    BY <1>3, <1>7, <2>5, <2>8, <2>9
<1>8. CASE ev.t = "done"
  <2>1. PICK f, g : f = Frame("message_delta", ev.k, -1, <<>>) /\ g = Frame("message_stop", "none", -1, <<>>)
    OBVIOUS
  <2>2. ~Carries(f) /\ ~Carries(g)
    BY <2>1, OtherFrame DEF Growing
  <2>3. e.open = {}
    BY <1>1, <1>8 DEF BlocksOf, Fits
  <2>4. MessagesEncode(e, ev) = Write(e, <<f, g>>)
    <3>1. StopBlocks(e) = e
      BY <2>3, NothingToStop
    <3> QED
      BY <1>8, <2>1, <3>1 DEF MessagesEncode, MessagesDone
  <2>5. Unchanging(e.out, Write(e, <<f, g>>).out)
    BY <1>1, <2>2, TwoQuiet
  <2> QED
    BY <1>3, <1>8, <2>4, <2>5
<1> QED
  BY <1>2, <1>4, <1>5, <1>6, <1>7, <1>8

-------------------------------------------------------------------------------
(* Responses                                                               *)

(* It remembers the blocks that have been opened.                          *)
Items == [i : Int, k : Content, d : Seq(Nat)]
ItemsOf(e, a) == e.seen \in Seq(Items) /\ \A i, k : Opens(a, i, k) => Seen(e, i)

LEMMA SeenOpens ==
  ASSUME NEW e, NEW a, ItemsOf(e, a), NEW ev, Fits(a, ev), ev.t \in {"delta", "close"} PROVE Seen(e, ev.i)
BY DEF Fits, ItemsOf

LEMMA ItemAdded ==
  ASSUME NEW e, IsEncoder(e), NEW a, ItemsOf(e, a), NEW i \in Int, NEW k \in Content
  PROVE  ItemsOf(Item(e, i, k), a) /\ Seen(Item(e, i, k), i)
<1>1. CASE Seen(e, i)
  BY <1>1 DEF Item
<1>2. CASE ~Seen(e, i)
  <2>1. PICK x, v : x = [i |-> i, k |-> k, d |-> <<>>] /\ v = Item(e, i, k)
    OBVIOUS
  <2>2. x \in Items
    BY <2>1 DEF Items
  <2>3. v.seen = Append(e.seen, x)
    BY <1>2, <2>1 DEF Item, IsEncoder
  <2>4. v.seen \in Seq(Items)
    BY <2>2, <2>3, AppendProperties DEF ItemsOf
  <2>5. MoreSeen(e, i, v)
    <3>1. Framed(e.seen)
      BY DEF ItemsOf, Framed
    <3>2. v.seen = Append(e.seen, [i |-> i, k |-> k, d |-> <<>>])
      BY <2>1, <2>3
    <3> QED
      BY ONLY <3>1, <3>2, SeenMore
  <2> QED
    BY <2>1, <2>4, <2>5 DEF ItemsOf, MoreSeen
<1> QED
  BY <1>1, <1>2

LEMMA OrdinalSeen ==
  ASSUME NEW e, NEW i, Seen(e, i) PROVE Ordinal(e, i) \in DOMAIN e.seen /\ e.seen[Ordinal(e, i)].i = i
BY DEF Seen, Ordinal

LEMMA ItemGrown ==
  ASSUME NEW e, IsEncoder(e), NEW a, ItemsOf(e, a), NEW i, Seen(e, i), NEW d \in Seq(Nat)
  PROVE  ItemsOf(Grown(e, i, d), a)
<1>1. PICK o, s : o = Ordinal(e, i) /\ s = e.seen
  OBVIOUS
<1>2. s \in Seq(Items) /\ o \in DOMAIN s
  BY <1>1, OrdinalSeen DEF ItemsOf
<1>3. PICK n : n = Len(s)
  OBVIOUS
<1>4. n \in Nat /\ DOMAIN s = 1 .. n /\ \A m \in 1 .. n : s[m] \in Items
  BY <1>2, <1>3, LenProperties, ElementOfSeq
<1>5. PICK x, y : x = s[o] /\ y = s[o].d \o d
  OBVIOUS
<1>6. x \in Items /\ y \in Seq(Nat)
  <2>1. x \in Items
    BY <1>2, <1>4, <1>5
  <2>2. x.d \in Seq(Nat)
    BY <2>1 DEF Items
  <2> QED
    BY <1>5, <2>1, <2>2, ConcatProperties
<1>7. PICK z : z = [x EXCEPT !.d = y]
  OBVIOUS
<1>8. z \in Items /\ z.i = x.i
  BY <1>6, <1>7 DEF Items
<1>9. PICK t : t = [s EXCEPT ![o] = z]
  OBVIOUS
<1>10. t = [s EXCEPT ![o].d = @ \o d]
  BY <1>2, <1>5, <1>7, <1>9
<1>11. Grown(e, i, d).seen = t
  BY <1>1, <1>10 DEF Grown, IsEncoder
<1>12. DOMAIN t = 1 .. n /\ \A m \in 1 .. n : t[m] \in Items /\ t[m].i = s[m].i
  BY <1>2, <1>4, <1>5, <1>8, <1>9
<1>13. t \in Seq(Items)
  <2>1. t = [m \in 1 .. n |-> t[m]]
    BY <1>4, <1>9, <1>12
  <2> QED
    BY <1>4, <1>12, <2>1
<1>14. \A j : Seen(Grown(e, i, d), j) <=> Seen(e, j)
  BY <1>1, <1>4, <1>11, <1>12 DEF Seen
<1> QED
  BY <1>11, <1>13, <1>14 DEF ItemsOf

LEMMA ItemsSame ==
  ASSUME NEW e, NEW a, ItemsOf(e, a), NEW v, v.seen = e.seen, NEW ev, NEW c, Says(a, ev, c),
         ev.t = "open" => Seen(e, ev.i)
  PROVE  ItemsOf(v, c)
<1>1. \A i, k : Opens(c, i, k) => Opens(a, i, k) \/ (ev.t = "open" /\ ev.i = i)
  BY DEF Says
<1>2. \A i : Seen(v, i) <=> Seen(e, i)
  BY DEF Seen
<1> QED
  BY <1>1, <1>2 DEF ItemsOf

LEMMA WriteKeeps == ASSUME NEW e, IsEncoder(e), NEW q PROVE Write(e, q).seen = e.seen /\ IsEncoder(Write(e, q))
<1>1. PICK o : o = e.out \o q
  OBVIOUS
<1>2. Write(e, q) = [e EXCEPT !.out = o]
  BY <1>1 DEF Write
<1> QED
  BY <1>2 DEF IsEncoder

ResponsesTold(e, a) == ItemsOf(e, a) /\ BlocksTold(e.out, a)
LEMMA ResponsesTell ==
  ASSUME NEW e, NEW a \in Seq(Events), WrittenOf(e, a), ContentOnly(a), ResponsesTold(e, a),
         NEW ev \in Events, Fits(a, ev), NEW c, Says(a, ev, c), c = Append(a, ev), ev.t # "error"
  PROVE  ResponsesTold(ResponsesEncode(e, ev), c)
<1>1. IsEncoder(e) /\ Carrying(e.out) /\ ItemsOf(e, a)
  BY DEF WrittenOf, ResponsesTold, BlocksTold, TalkTold
<1>2. ev.t \in {"start", "open", "delta", "close", "done"} /\ ev.i \in Int /\ ev.d \in Seq(Nat)
  BY DEF Events
<1>3. PICK m : m = Item(e, ev.i, ev.k)
  OBVIOUS
<1>4. IsEncoder(m) /\ m.out = e.out
  BY <1>1, <1>3, ItemWritesNothing
<1>5. ASSUME NEW u, IsEncoder(u), u.out = e.out, ItemsOf(u, a), ev.t = "open" => Seen(u, ev.i), NEW f, ~Carries(f),
             ResponsesEncode(e, ev) = Write(u, <<f>>), ev.t # "delta"
      PROVE  ResponsesTold(ResponsesEncode(e, ev), c)
  <2>1. PICK v : v = Write(u, <<f>>)
    OBVIOUS
  <2>2. Unchanging(e.out, v.out)
    BY <1>1, <1>5, <2>1, QuietWritten
  <2>3. BlocksTold(v.out, c)
    BY <1>5, <2>2, NothingTold DEF ResponsesTold
  <2>4. v.seen = u.seen
    BY <1>5, <2>1, WriteKeeps
  <2>5. ItemsOf(v, c)
    BY <1>5, <2>4, ItemsSame
  <2> QED
    BY <1>5, <2>1, <2>3, <2>5 DEF ResponsesTold
<1>6. CASE ev.t = "start"
  <2>1. PICK f : f = Frame("response.created", "none", -1, <<>>)
    OBVIOUS
  <2>2. ~Carries(f)
    BY <2>1, OtherFrame DEF Growing
  <2>3. ResponsesEncode(e, ev) = Write(e, <<f>>)
    BY <1>6, <2>1 DEF ResponsesEncode
  <2> QED
    BY <1>1, <1>5, <1>6, <2>2, <2>3
<1>7. CASE ev.t = "open"
  <2>1. PICK f : f = Frame("output_item.added", ev.k, ev.i, <<>>)
    OBVIOUS
  <2>2. ~Carries(f)
    BY <2>1, OtherFrame DEF Growing
  <2>3. ResponsesEncode(e, ev) = Write(m, <<f>>)
    BY <1>3, <1>7, <2>1 DEF ResponsesEncode
  <2>4. ev.k \in Content
    BY <1>7 DEF Fits
  <2>5. ItemsOf(m, a) /\ Seen(m, ev.i)
    BY <1>1, <1>2, <1>3, <2>4, ItemAdded
  <2> QED
    BY <1>4, <1>5, <1>7, <2>2, <2>3, <2>5
<1>8. CASE ev.t = "delta"
  <2>1. PICK f : f = Frame("output.delta", ev.k, ev.i, ev.d)
    OBVIOUS
  <2>2. ev.k \in Content
    BY <1>8, ContentOn
  <2>3. SameContent(f, ev) /\ Carries(f) /\ f \in GrownChunks
    <3>1. "output.delta" \in Growing \cup {"content"}
      BY DEF Growing
    <3> QED
      BY <1>2, <2>1, <2>2, <3>1, DeltaFrame DEF SameContent
  <2>4. Seen(e, ev.i)
    BY <1>1, <1>8, SeenOpens
  <2>5. m = e
    BY <1>3, <2>4 DEF Item
  <2>6. PICK u : u = Grown(e, ev.i, ev.d)
    OBVIOUS
  <2>7. IsEncoder(u) /\ u.out = e.out
    BY <1>1, <2>6, GrownWritesNothing
  <2>8. ItemsOf(u, a)
    BY <1>1, <1>2, <2>4, <2>6, ItemGrown
  <2>9. PICK v : v = Write(u, <<f>>)
    OBVIOUS
  <2>10. ResponsesEncode(e, ev) = v
    BY <1>3, <1>8, <2>1, <2>5, <2>6, <2>9 DEF ResponsesEncode
  <2>11. Conveying(e.out, f, v.out)
    BY <1>1, <2>3, <2>7, <2>9, ContentWritten
  <2>12. BlocksTold(v.out, c)
    BY <1>8, <2>3, <2>11, BlockConveyed DEF ResponsesTold
  <2>13. v.seen = u.seen
    BY <2>7, <2>9, WriteKeeps
  <2>14. ItemsOf(v, c)
    BY <1>8, <2>8, <2>13, ItemsSame
  <2> QED
    BY <2>10, <2>12, <2>14 DEF ResponsesTold
<1>9. CASE ev.t = "close"
  <2>1. PICK f : f = Frame("output_item.done", ev.k, ev.i, Kept(m, ev))
    OBVIOUS
  <2>2. ~Carries(f)
    BY <2>1, OtherFrame DEF Growing
  <2>3. m = e
    BY <1>1, <1>3, <1>9, SeenOpens DEF Item
  <2>4. PICK u : u = [m EXCEPT !.completed = {x \in m.completed : x.i # ev.i} \cup {f}]
    OBVIOUS
  <2>5. IsEncoder(u) /\ u.out = e.out /\ u.seen = e.seen
    BY <1>1, <2>3, <2>4 DEF IsEncoder
  <2>6. ItemsOf(u, a)
    BY <1>1, <2>5 DEF ItemsOf, Seen
  <2>7. ResponsesEncode(e, ev) = Write(u, <<f>>)
    BY <1>3, <1>9, <2>1, <2>4 DEF ResponsesEncode
  <2> QED
    BY <1>5, <1>9, <2>2, <2>5, <2>6, <2>7
<1>10. CASE ev.t = "done"
  <2>1. PICK f : f = Frame(ResponseStatus(ev.k), "none", -1, ResponseShell(e))
    OBVIOUS
  <2>2. ~Carries(f)
    <3>1. ResponseStatus(ev.k) \notin Growing \cup {"content"}
      BY DEF ResponseStatus, Growing
    <3>2. PICK q, r : q = ResponseStatus(ev.k) /\ r = ResponseShell(e)
      OBVIOUS
    <3> QED
      BY ONLY <2>1, <3>1, <3>2, OtherFrame
  <2>3. ResponsesEncode(e, ev) = Write(e, <<f>>)
    BY <1>10, <2>1 DEF ResponsesEncode
  <2> QED
    BY <1>1, <1>5, <1>10, <2>2, <2>3
<1> QED
  BY <1>2, <1>6, <1>7, <1>8, <1>9, <1>10

-------------------------------------------------------------------------------
(* Chat Completions                                                        *)

(* Each tool call it remembers has an ordinal of its own; nothing is       *)
(* conveyed, or told, of any other.                                        *)
CallsTold(e, a) ==
  /\ Framed(e.seen)
  /\ \A m, n \in DOMAIN e.seen : e.seen[m].i = e.seen[n].i => m = n
  /\ \A n \in DOMAIN e.seen : Conveyed(e.out, {"tool"}, {n}) = ArgsTold(a, e.seen[n].i)
  /\ \A n : n \notin DOMAIN e.seen => Conveyed(e.out, {"tool"}, {n}) = <<>>
  /\ \A i : ~Seen(e, i) => ArgsTold(a, i) = <<>>
ChatTold(e, a) == TalkTold(e.out, a) /\ CallsTold(e, a)

LEMMA ChatUnchanged ==
  ASSUME NEW e, NEW a, ChatTold(e, a), NEW v, Unchanging(e.out, v.out), v.seen = e.seen PROVE ChatTold(v, a)
<1>1. PICK s, w, x : s = e.seen /\ w = e.out /\ x = v.out
  OBVIOUS
<1>2. \A kinds, places : kinds \subseteq Content => Conveyed(x, kinds, places) = Conveyed(w, kinds, places)
  BY <1>1 DEF Unchanging
<1>3. TalkTold(x, a)
  BY <1>1, <1>2, TalksAreContent DEF ChatTold, TalkTold, Unchanging
<1>4. \A n : Conveyed(x, {"tool"}, {n}) = Conveyed(w, {"tool"}, {n})
  BY <1>2, TalksAreContent
<1>5. \A i : Seen(v, i) <=> Seen(e, i)
  BY DEF Seen
<1>6. CallsTold(e, a)
  BY DEF ChatTold
<1>7. CallsTold(v, a)
  BY ONLY <1>1, <1>4, <1>5, <1>6, v.seen = e.seen DEF CallsTold
<1> QED
  BY <1>1, <1>3, <1>7 DEF ChatTold

(* An event that is not a delta tells nothing.                             *)
LEMMA ChatToldSame ==
  ASSUME NEW e, NEW a \in Seq(Events), ChatTold(e, a), NEW ev \in Events, ev.t # "delta"
  PROVE  ChatTold(e, Append(a, ev))
<1>1. PICK c : c = Append(a, ev)
  OBVIOUS
<1>2. \A kinds, places : kinds \subseteq Content => Told(c, kinds, places) = Told(a, kinds, places)
  BY <1>1, ToldSame
<1>3. Told(c, Talks, Int) = Told(a, Talks, Int) /\ \A i : ArgsTold(c, i) = ArgsTold(a, i)
  BY <1>2, TalksAreContent DEF ArgsTold
<1>4. TalkTold(e.out, c) /\ CallsTold(e, a)
  BY <1>3 DEF ChatTold, TalkTold
<1>5. CallsTold(e, c)
  BY ONLY <1>3, <1>4 DEF CallsTold
<1> QED
  BY <1>1, <1>4, <1>5 DEF ChatTold

LEMMA CallRemembered ==
  ASSUME NEW e, NEW a, ChatTold(e, a), NEW i, ~Seen(e, i),
         NEW m, m.out = e.out, m.seen = Append(e.seen, [i |-> i, k |-> "tool", d |-> <<>>])
  PROVE  ChatTold(m, a)
<1>1. PICK x, s, y, l : x = [i |-> i, k |-> "tool", d |-> <<>>] /\ s = e.seen /\ y = m.seen /\ l = Len(s) + 1
  OBVIOUS
<1>2. CallsTold(e, a)
  BY DEF ChatTold
<1>3. Framed(s)
  BY <1>1, <1>2 DEF CallsTold
<1>4. OneLonger(s, x, y)
  BY <1>1, <1>3, OneLongerAppend
<1>5. /\ Framed(y) /\ (\A n : n \in DOMAIN y <=> n \in DOMAIN s \/ n = l)
      /\ l \notin DOMAIN s /\ y[l] = x /\ \A n \in DOMAIN s : y[n] = s[n]
  BY <1>1, <1>4 DEF OneLonger
<1>6. x.i = i
  BY <1>1
<1>7. \A n \in DOMAIN s : s[n].i # i
  BY <1>1 DEF Seen
<1>8. \A j, n \in DOMAIN y : y[j].i = y[n].i => j = n
  <2>1. \A j, n \in DOMAIN s : s[j].i = s[n].i => j = n
    BY <1>1, <1>2 DEF CallsTold
  <2> QED
    BY <1>5, <1>6, <1>7, <2>1
<1>9. \A n \in DOMAIN y : Conveyed(e.out, {"tool"}, {n}) = ArgsTold(a, y[n].i)
  <2>1. SUFFICES ASSUME NEW n \in DOMAIN y PROVE Conveyed(e.out, {"tool"}, {n}) = ArgsTold(a, y[n].i)
    OBVIOUS
  <2>2. CASE n \in DOMAIN s
    BY <1>1, <1>2, <1>5, <2>2 DEF CallsTold
  <2>3. CASE n = l
    <3>1. Conveyed(e.out, {"tool"}, {l}) = <<>> /\ ArgsTold(a, i) = <<>>
      BY <1>1, <1>2, <1>5 DEF CallsTold
    <3> QED
      BY <1>5, <1>6, <2>3, <3>1
  <2> QED
    BY <1>5, <2>1, <2>2, <2>3
<1>10. \A n : n \notin DOMAIN y => Conveyed(e.out, {"tool"}, {n}) = <<>>
  BY <1>1, <1>2, <1>5 DEF CallsTold
<1>11. \A j : ~Seen(m, j) => ~Seen(e, j)
  BY <1>1, <1>5 DEF Seen
<1>12. \A j : ~Seen(m, j) => ArgsTold(a, j) = <<>>
  BY <1>2, <1>11 DEF CallsTold
<1>13. CallsTold(m, a)
  BY ONLY <1>1, <1>5, <1>8, <1>9, <1>10, <1>12, m.out = e.out DEF CallsTold
<1> QED
  BY <1>13 DEF ChatTold

(* A piece of the arguments of a tool call goes out under its ordinal.     *)
LEMMA ArgumentsConveyed ==
  ASSUME NEW e, NEW a \in Seq(Events), ChatTold(e, a), NEW ev \in Events, ev.t = "delta", ev.k = "tool",
         Seen(e, ev.i),
         NEW f, f.k = "tool", f.d = ev.d, f.i = Ordinal(e, ev.i), Carries(f), NEW v, Conveying(e.out, f,
         v.out), v.seen = e.seen
  PROVE  ChatTold(v, Append(a, ev))
<1>1. PICK s, o, c : s = e.seen /\ o = Ordinal(e, ev.i) /\ c = Append(a, ev)
  OBVIOUS
<1>2. o \in DOMAIN s /\ s[o].i = ev.i
  BY <1>1, OrdinalSeen
<1>3. CallsTold(e, a)
  BY DEF ChatTold
<1>4. \A n \in DOMAIN s : s[n].i = ev.i <=> n = o
  BY <1>1, <1>2, <1>3 DEF CallsTold
<1>5. \A i : ArgsTold(c, i) = Put(ArgsTold(a, i), ev, {"tool"}, {i})
  BY <1>1, TalksAreContent, DeltaTold DEF ArgsTold
<1>6. \A n : Conveyed(v.out, {"tool"}, {n}) = Put(Conveyed(e.out, {"tool"}, {n}), f, {"tool"}, {n})
  BY TalksAreContent DEF Conveying
<1>7. ASSUME NEW n \in DOMAIN s PROVE Conveyed(v.out, {"tool"}, {n}) = ArgsTold(c, s[n].i)
  <2>1. Conveyed(e.out, {"tool"}, {n}) = ArgsTold(a, s[n].i)
    BY <1>1, <1>3, <1>7 DEF CallsTold
  <2>2. f.i \in {n} <=> ev.i \in {s[n].i}
    BY <1>1, <1>4, <1>7
  <2>3. f.k = ev.k /\ f.d = ev.d
    OBVIOUS
  <2>4. Put(ArgsTold(a, s[n].i), f, {"tool"}, {n}) = Put(ArgsTold(a, s[n].i), ev, {"tool"}, {s[n].i})
    BY ONLY <2>2, <2>3, PutSame
  <2> QED
    BY <1>5, <1>6, <2>1, <2>4
<1>8. ASSUME NEW n, n \notin DOMAIN s PROVE Conveyed(v.out, {"tool"}, {n}) = <<>>
  <2>1. Conveyed(e.out, {"tool"}, {n}) = <<>> /\ f.i \notin {n}
    BY <1>1, <1>2, <1>3, <1>8 DEF CallsTold
  <2> QED
    BY <1>6, <2>1 DEF Put
<1>9. ASSUME NEW i, ~Seen(v, i) PROVE ArgsTold(c, i) = <<>>
  <2>1. ~Seen(e, i) /\ ev.i \notin {i}
    BY <1>9 DEF Seen
  <2>2. ArgsTold(a, i) = <<>>
    BY <1>3, <2>1 DEF CallsTold
  <2> QED
    BY <1>5, <2>1, <2>2 DEF Put
<1>10. CallsTold(v, c)
  <2>1. Framed(s) /\ \A m, n \in DOMAIN s : s[m].i = s[n].i => m = n
    BY <1>1, <1>3 DEF CallsTold
  <2>2. v.seen = s
    BY <1>1
  <2> QED
    BY ONLY <1>7, <1>8, <1>9, <2>1, <2>2 DEF CallsTold
<1>11. TalkTold(v.out, c)
  <2>1. ev.k \notin Talks /\ f.k \notin Talks
    BY TalksAreContent
  <2>2. Told(c, Talks, Int) = Put(Told(a, Talks, Int), ev, Talks, Int)
    BY <1>1, TalksAreContent, DeltaTold
  <2>3. Conveyed(v.out, Talks, Int) = Put(Conveyed(e.out, Talks, Int), f, Talks, Int)
    BY TalksAreContent DEF Conveying
  <2> QED
    BY <2>1, <2>2, <2>3 DEF Put, TalkTold, ChatTold, Conveying
<1> QED
  BY <1>1, <1>10, <1>11 DEF ChatTold

LEMMA TalkWritten ==
  ASSUME NEW e, NEW a \in Seq(Events), ChatTold(e, a), NEW ev \in Events, ev.t = "delta", ev.k # "tool",
         NEW f, f.k = ev.k, f.d = ev.d, f.i = -1, Carries(f), NEW v, Conveying(e.out, f, v.out), v.seen = e.seen
  PROVE  ChatTold(v, Append(a, ev))
<1>1. PICK c : c = Append(a, ev)
  OBVIOUS
<1>2. TalkTold(v.out, c)
  <2>1. f.i \in Int /\ TalkTold(e.out, a)
    BY DEF ChatTold
  <2> QED
    BY <1>1, <2>1, TalkConveyed
<1>3. \A i : ArgsTold(c, i) = ArgsTold(a, i)
  <2>1. \A i : ArgsTold(c, i) = Put(ArgsTold(a, i), ev, {"tool"}, {i})
    BY <1>1, TalksAreContent, DeltaTold DEF ArgsTold
  <2> QED
    BY <2>1 DEF Put
<1>4. \A n : Conveyed(v.out, {"tool"}, {n}) = Conveyed(e.out, {"tool"}, {n})
  <2>1. \A n : Conveyed(v.out, {"tool"}, {n}) = Put(Conveyed(e.out, {"tool"}, {n}), f, {"tool"}, {n})
    BY TalksAreContent DEF Conveying
  <2> QED
    BY <2>1 DEF Put
<1>5. \A i : Seen(v, i) <=> Seen(e, i)
  BY DEF Seen
<1>6. CallsTold(e, a)
  BY DEF ChatTold
<1>7. CallsTold(v, c)
  BY ONLY <1>3, <1>4, <1>5, <1>6, v.seen = e.seen DEF CallsTold
<1> QED
  BY <1>1, <1>2, <1>7 DEF ChatTold

LEMMA ChatTells ==
  ASSUME NEW e, NEW a \in Seq(Events), ChatKnows(e, a), ContentOnly(a), ChatTold(e, a),
         NEW ev \in Events, Fits(a, ev), NEW c, Says(a, ev, c), c = Append(a, ev), ev.t # "error"
  PROVE  ChatTold(ChatEncode(e, ev), c)
<1>1. IsEncoder(e) /\ Carrying(e.out) /\ CallsOf(e, a)
  BY DEF ChatKnows, WrittenOf, ChatTold, TalkTold
<1>2. ev.t \in {"start", "open", "delta", "close", "done"} /\ ev.i \in Int
  BY DEF Events
<1>3. ASSUME NEW u, IsEncoder(u), Carrying(u.out), NEW f, ~Carries(f), NEW b, ChatTold(u, b)
      PROVE  ChatTold(Write(u, <<f>>), b)
  <2>1. PICK v : v = Write(u, <<f>>)
    OBVIOUS
  <2>2. Unchanging(u.out, v.out) /\ v.seen = u.seen
    BY <1>3, <2>1, QuietWritten, WriteKeeps
  <2> QED
    BY <1>3, <2>1, <2>2, ChatUnchanged
<1>4. CASE ev.t \in {"start", "close"}
  <2>1. ChatEncode(e, ev) = e
    BY <1>4 DEF ChatEncode
  <2> QED
    BY <1>4, <2>1, ChatToldSame
<1>5. CASE ev.t = "open" /\ ev.k = "tool"
  <2>1. PICK m : m = ChatTool(e, ev)
    OBVIOUS
  <2>2. PICK f : f = Frame("tool", "tool", Ordinal(m, ev.i), <<>>)
    OBVIOUS
  <2>3. ChatEncode(e, ev) = Write(m, <<f>>)
    BY <1>5, <2>1, <2>2 DEF ChatEncode
  <2>4. ~Carries(f)
    BY <2>2, OtherFrame DEF Growing
  <2>5. ~Seen(e, ev.i)
    BY <1>1, <1>5 DEF CallsOf, Fits
  <2>6. IsEncoder(m) /\ m.out = e.out /\ m.seen = Append(e.seen, [i |-> ev.i, k |-> "tool", d |-> <<>>])
    BY <1>1, <2>1, <2>5 DEF ChatTool, IsEncoder
  <2>7. ChatTold(e, c)
    BY <1>5, ChatToldSame
  <2>8. ChatTold(m, c)
    BY <2>5, <2>6, <2>7, CallRemembered
  <2>9. Carrying(m.out)
    BY <1>1, <2>6
  <2> QED
    BY <1>3, <2>3, <2>4, <2>6, <2>8, <2>9
<1>6. PICK u, r : u = [e EXCEPT !.role = TRUE] /\ r = Frame("role", "none", -1, <<>>)
  OBVIOUS
<1>7. IsEncoder(u) /\ u.out = e.out /\ u.seen = e.seen /\ ~Carries(r) /\ Carrying(u.out)
  <2>1. ~Carries(r)
    BY <1>6, OtherFrame DEF Growing
  <2>2. IsEncoder(u) /\ u.out = e.out /\ u.seen = e.seen
    BY <1>1, <1>6 DEF IsEncoder
  <2> QED
    BY <1>1, <2>1, <2>2
<1>8. \A b : ChatTold(e, b) => ChatTold(u, b)
  <2>1. Unchanging(e.out, u.out)
    BY <1>1, <1>7 DEF Unchanging
  <2> QED
    BY <1>7, <2>1, ChatUnchanged
<1>9. CASE ev.t = "open" /\ ev.k # "tool"
  <2>1. ChatTold(e, c)
    BY <1>9, ChatToldSame
  <2>2. CASE e.role
    <3>1. ChatEncode(e, ev) = e
      BY <1>9, <2>2 DEF ChatEncode
    <3> QED
      BY <2>1, <3>1
  <2>3. CASE ~e.role
    <3>1. ChatEncode(e, ev) = Write(u, <<r>>)
      BY <1>6, <1>9, <2>3 DEF ChatEncode
    <3> QED
      BY <1>3, <1>7, <1>8, <2>1, <3>1
  <2> QED
    BY <2>2, <2>3
<1>10. CASE ev.t = "delta" /\ ev.k = "tool"
  <2>1. Seen(e, ev.i)
    BY <1>1, <1>10 DEF CallsOf, Fits
  <2>2. PICK o, f : o = Ordinal(e, ev.i) /\ f = Frame("args", "tool", o, ev.d)
    OBVIOUS
  <2>3. o \in Int
    <3>1. o \in DOMAIN e.seen
      BY <2>1, <2>2, OrdinalSeen
    <3>2. DOMAIN e.seen = 1 .. Len(e.seen) /\ Len(e.seen) \in Nat
      BY <1>1, LenProperties DEF CallsOf, Framed
    <3> QED
      BY <3>1, <3>2
  <2>4. f.k = "tool" /\ f.i = o /\ f.d = ev.d /\ Carries(f) /\ f \in GrownChunks
    <3>1. "args" \in Growing \cup {"content"} /\ ev.k \in Content
      BY <1>10 DEF Growing, Content
    <3>2. f = Frame("args", ev.k, o, ev.d)
      BY <1>10, <2>2
    <3> QED
      BY <1>10, <2>3, <3>1, <3>2, DeltaFrame
  <2>5. PICK v : v = Write(e, <<f>>)
    OBVIOUS
  <2>6. ChatEncode(e, ev) = v
    BY <1>10, <2>1, <2>2, <2>5 DEF ChatEncode, ChatTool
  <2>7. Conveying(e.out, f, v.out) /\ v.seen = e.seen
    BY <1>1, <2>4, <2>5, ContentWritten, WriteKeeps
  <2> QED
    BY <1>10, <2>1, <2>2, <2>4, <2>6, <2>7, ArgumentsConveyed
<1>11. CASE ev.t = "delta" /\ ev.k # "tool"
  <2>1. PICK f : f = Frame("content", ev.k, -1, ev.d)
    OBVIOUS
  <2>2. f.k = ev.k /\ f.i = -1 /\ f.d = ev.d /\ Carries(f) /\ f \in GrownChunks
    <3>1. PICK t, i : t = "content" /\ i = -1
      OBVIOUS
    <3>2. t \in Growing \cup {"content"} /\ ev.k \in Content /\ i \in Int
      BY <1>11, <3>1, ContentOn
    <3>3. f = Frame(t, ev.k, i, ev.d)
      BY <2>1, <3>1
    <3>4. f.k = ev.k /\ f.i = i /\ f.d = ev.d /\ Carries(f) /\ f \in GrownChunks
      BY ONLY <3>2, <3>3, ev \in Events, DeltaFrame
    <3> QED
      BY <3>1, <3>4
  <2>3. ChatEncode(e, ev) = Write(u, (IF e.role THEN <<>> ELSE <<r>>) \o <<f>>)
    BY <1>6, <1>11, <2>1 DEF ChatEncode
  <2>4. ChatTold(u, a)
    BY <1>8
  <2>5. PICK x : x = IF e.role THEN u ELSE Write(u, <<r>>)
    OBVIOUS
  <2>6. ChatTold(x, a) /\ IsEncoder(x)
    <3>1. CASE e.role
      BY <1>7, <2>4, <2>5, <3>1
    <3>2. CASE ~e.role
      <4>1. IsEncoder(Write(u, <<r>>))
        BY <1>7, WriteKeeps
      <4> QED
        BY <1>3, <1>7, <2>4, <2>5, <3>2, <4>1
    <3> QED
      BY <3>1, <3>2
  <2>7. PICK v : v = Write(x, <<f>>)
    OBVIOUS
  <2>8. ChatEncode(e, ev) = v
    <3>1. CASE e.role
      <4>1. <<>> \o <<f>> = <<f>>
        OBVIOUS
      <4> QED
        BY <2>3, <2>5, <2>7, <3>1, <4>1
    <3>2. CASE ~e.role
      <4>1. <<r>> \o <<f>> = <<r, f>>
        BY OneAfterAnother
      <4>2. Write(u, <<r, f>>) = Write(Write(u, <<r>>), <<f>>)
        BY <1>7, TwoFrames DEF Carrying
      <4> QED
        BY <2>3, <2>5, <2>7, <3>2, <4>1, <4>2
    <3> QED
      BY <3>1, <3>2
  <2>9. Carrying(x.out)
    BY <2>6 DEF ChatTold, TalkTold
  <2>10. Conveying(x.out, f, v.out) /\ v.seen = x.seen
    BY <2>2, <2>6, <2>7, <2>9, ContentWritten, WriteKeeps
  <2> QED
    BY <1>11, <2>2, <2>6, <2>8, <2>10, TalkWritten
<1>12. CASE ev.t = "done"
  <2>1. PICK f, g : f = Frame("finish", ev.k, -1, <<>>) /\ g = Frame("[DONE]", "none", -1, <<>>)
    OBVIOUS
  <2>2. ~Carries(f) /\ ~Carries(g)
    BY <2>1, OtherFrame DEF Growing
  <2>3. PICK v : v = Write(e, <<f, g>>)
    OBVIOUS
  <2>4. ChatEncode(e, ev) = v
    BY <1>12, <2>1, <2>3 DEF ChatEncode
  <2>5. Unchanging(e.out, v.out) /\ v.seen = e.seen
    BY <1>1, <2>2, <2>3, TwoQuiet, WriteKeeps
  <2>6. ChatTold(e, c)
    BY <1>12, ChatToldSame
  <2> QED
    BY <2>4, <2>5, <2>6, ChatUnchanged
<1> QED
  BY <1>2, <1>4, <1>5, <1>9, <1>10, <1>11, <1>12

-------------------------------------------------------------------------------
(* What the client has been streamed                                       *)

EncoderTells(p, e, a) ==
  /\ EncoderKnows(p, e, a) /\ ContentOnly(a)
  /\ p = "chat" => ChatTold(e, a)
  /\ p = "messages" => BlocksTold(e.out, a)
  /\ p = "responses" => ResponsesTold(e, a)

LEMMA EncoderTellsNothing == ASSUME NEW p \in Protocols PROVE EncoderTells(p, NewStreamEncoder, <<>>)
<1>1. PICK e, a : e = NewStreamEncoder /\ a = <<>>
  OBVIOUS
<1>2. e.out = <<>> /\ e.seen = <<>>
  BY <1>1 DEF NewStreamEncoder
<1>3. EncoderKnows(p, e, a) /\ ContentOnly(a)
  BY <1>1, EncoderStarts, NothingSaid DEF ContentOnly
<1>4. \A kinds, places : Told(a, kinds, places) = <<>> /\ Conveyed(e.out, kinds, places) = <<>>
  BY <1>1, <1>2, ToldNone, NothingConveyed
<1>5. TalkTold(e.out, a) /\ \A i : ArgsTold(a, i) = <<>> /\ Conveyed(e.out, {"tool"}, {i}) = <<>>
  BY <1>2, <1>4, NothingConveyed DEF TalkTold, ArgsTold
<1>6. Framed(e.seen) /\ DOMAIN e.seen = {} /\ e.seen \in Seq(Items)
  <2>1. <<>> \in Seq(Items) /\ DOMAIN <<>> = {}
    OBVIOUS
  <2> QED
    BY <1>2, <2>1 DEF Framed
<1>7. BlocksTold(e.out, a)
  BY <1>5 DEF BlocksTold
<1>8. ChatTold(e, a)
  BY <1>5, <1>6 DEF ChatTold, CallsTold
<1>9. ResponsesTold(e, a)
  BY <1>1, <1>6, <1>7, NothingSaid DEF ResponsesTold, ItemsOf
<1> QED
  BY <1>1, <1>3, <1>7, <1>8, <1>9 DEF EncoderTells

LEMMA EncoderTellsNext ==
  ASSUME NEW p \in Protocols, NEW e, NEW a \in Seq(Events), EncoderTells(p, e, a), NEW ev \in Events, Fits(a, ev),
         NEW c, Says(a, ev, c), c = Append(a, ev), ev.t # "error"
  PROVE  EncoderTells(p, Encode(p, e, ev), c)
<1>1. EncoderKnows(p, e, a) /\ ContentOnly(a)
  BY DEF EncoderTells
<1>2. EncoderKnows(p, Encode(p, e, ev), c)
  BY <1>1, EncoderStep
<1>3. ContentOnly(c)
  BY <1>1, ContentOn
<1>4. CASE p = "chat"
  <2>1. ChatKnows(e, a) /\ ChatTold(e, a)
    BY <1>4 DEF EncoderTells, EncoderKnows
  <2>2. ChatTold(ChatEncode(e, ev), c)
    BY <1>1, <2>1, ChatTells
  <2>3. Encode(p, e, ev) = ChatEncode(e, ev)
    BY <1>4 DEF Encode
  <2> QED
    BY <1>2, <1>3, <1>4, <2>2, <2>3 DEF EncoderTells
<1>5. CASE p = "messages"
  <2>1. MessagesKnows(e, a) /\ BlocksTold(e.out, a)
    BY <1>5 DEF EncoderTells, EncoderKnows
  <2>2. BlocksTold(MessagesEncode(e, ev).out, c)
    BY <1>1, <2>1, MessagesTell
  <2>3. Encode(p, e, ev) = MessagesEncode(e, ev)
    BY <1>5 DEF Encode
  <2> QED
    BY <1>2, <1>3, <1>5, <2>2, <2>3 DEF EncoderTells
<1>6. CASE p = "responses"
  <2>1. WrittenOf(e, a) /\ ResponsesTold(e, a)
    BY <1>6 DEF EncoderTells, EncoderKnows, ResponsesKnows
  <2>2. ResponsesTold(ResponsesEncode(e, ev), c)
    BY <1>1, <2>1, ResponsesTell
  <2>3. Encode(p, e, ev) = ResponsesEncode(e, ev)
    BY <1>6 DEF Encode
  <2> QED
    BY <1>2, <1>3, <1>6, <2>2, <2>3 DEF EncoderTells
<1> QED
  BY <1>4, <1>5, <1>6 DEF Protocols

LEMMA EncoderTellsAll ==
  ASSUME NEW p \in Protocols, sent \in Seq(Events), EventsOK(sent), \A n \in DOMAIN sent : sent[n].t # "error"
  PROVE  EncoderTells(p, Encoder(p), sent)
<1>1. PICK g : /\ Encoder(p) = g[1 .. Len(sent)] /\ g[1 .. 0] = NewStreamEncoder
               /\ \A k \in Nat : k + 1 <= Len(sent) => g[1 .. k + 1] = Encode(p, g[1 .. k], sent[k + 1])
  BY EncoderIsFold
<1>2. Len(sent) \in Nat /\ DOMAIN sent = 1 .. Len(sent) /\ \A n \in 1 .. Len(sent) : sent[n] \in Events
  BY LenProperties, ElementOfSeq
<1> DEFINE Followed(k) == LET a == SubSeq(sent, 1, k)
                          IN a \in Seq(Events) /\ EventsOK(a) /\ EncoderTells(p, g[1 .. k], a)
           S == {k \in Nat : k <= Len(sent) => Followed(k)}
<1>3. 0 \in S
  <2>1. SubSeq(sent, 1, 0) = <<>> /\ <<>> \in Seq(Events)
    BY SubSeqEmpty
  <2>2. EventsOK(<<>>) /\ EncoderTells(p, g[1 .. 0], <<>>)
    BY <1>1, NothingSaid, EncoderTellsNothing
  <2>3. Followed(0)
    BY <2>1, <2>2
  <2> HIDE DEF Followed
  <2> QED
    BY <2>3
<1>4. ASSUME NEW k \in Nat, k \in S PROVE k + 1 \in S
  <2>1. SUFFICES ASSUME k + 1 <= Len(sent) PROVE Followed(k + 1)
    OBVIOUS
  <2>2. PICK a, ev, c, e : a = SubSeq(sent, 1, k) /\ ev = sent[k + 1] /\ c = SubSeq(sent, 1, k + 1) /\ e = g[1 .. k]
    OBVIOUS
  <2>3. Followed(k)
    BY <1>2, <1>4, <2>1
  <2>4. a \in Seq(Events) /\ EventsOK(a) /\ EncoderTells(p, e, a)
    BY <2>2, <2>3
  <2>5. ev \in Events /\ ev.t # "error" /\ Fits(a, ev) /\ c = Append(a, ev) /\ Says(a, ev, c)
    <3>1. ev \in Events /\ Fits(a, ev) /\ c = Append(a, ev) /\ Says(a, ev, c)
      BY ONLY sent \in Seq(Events), EventsOK(sent), k \in Nat, <2>1, <2>2, <2>4, NextFits, Zenon
    <3> QED
      BY <1>2, <2>1, <2>2, <3>1
  <2>6. EncoderTells(p, Encode(p, e, ev), c)
    BY <2>4, <2>5, EncoderTellsNext
  <2>7. g[1 .. k + 1] = Encode(p, e, ev)
    BY <1>1, <2>1, <2>2
  <2>8. c \in Seq(Events) /\ EventsOK(c)
    BY <2>5 DEF Says
  <2> QED
    BY <2>2, <2>6, <2>7, <2>8
<1> HIDE DEF S
<1>5. Len(sent) \in S
  BY <1>2, <1>3, <1>4, NumberInduction
<1> USE DEF S
<1>6. Followed(Len(sent))
  <2> HIDE DEF Followed
  <2> QED
    BY <1>2, <1>5
<1>7. SubSeq(sent, 1, Len(sent)) = sent
  BY SubSeqFull
<1> QED
  BY <1>1, <1>6, <1>7

LEMMA WireFollows == ASSUME FlowInvariant, NEW p \in Protocols PROVE BlocksInOrder(Wire(p)) /\ EndsOnce(p, Wire(p))
<1>1. PICK e : e = Encoder(p)
  OBVIOUS
<1>2. EncoderKnows(p, e, sent) /\ (reply = "failed" => ~Over(sent)) /\ (reply = "complete" => Over(sent))
  BY <1>1, EncoderTellsAll DEF EncoderTells, FlowInvariant
<1>3. WrittenOf(e, sent) /\ (p # "chat" => Mirrors(e.out, sent))
  BY <1>2, EncoderHasWritten
<1>4. CASE reply = "failed" /\ e.out # <<>>
  <2>1. PICK f, w : f = Frame("error", "none", -1, <<>>) /\ w = e.out
    OBVIOUS
  <2>2. PICK v : v = Write(e, <<f>>)
    OBVIOUS
  <2>3. Wire(p) = v.out
    BY <1>1, <1>4, <2>1, <2>2, ErrorIsWritten DEF Wire
  <2>4. f.t = "error"
    BY <2>1 DEF Frame, Event
  <2>5. Framed(w) /\ BlocksInOrder(w) /\ IsEncoder(e) /\ ~Ended(w)
    BY <1>2, <1>3, <1>4, <2>1, NotEnded DEF WrittenOf
  <2>6. f.t \in Ending /\ f.t \notin Successful
    BY <2>4 DEF Ending, Successful
  <2>7. FrameFits(w, f)
    BY <2>5, <2>6, EndingFits
  <2>8. Wrote(e, w, f, v)
    BY ONLY <2>1, <2>2, <2>5, <2>7, Write1
  <2>9. PICK x : x = v.out
    OBVIOUS
  <2>10. BlocksInOrder(x) /\ x # <<>> /\ x[Len(x)] = f /\ \A n \in DOMAIN x : x[n].t \in Ending => n = Len(x)
    BY <2>8, <2>9 DEF Wrote, Longer
  <2>11. EndsOnce(p, x)
    BY <1>4, <2>4, <2>6, <2>10 DEF EndsOnce, Last, Ending
  <2> QED
    BY <2>3, <2>9, <2>10, <2>11
<1>5. CASE ~(reply = "failed" /\ e.out # <<>>)
  <2>1. PICK w : w = e.out
    OBVIOUS
  <2>2. Wire(p) = w
    BY <1>1, <1>5, <2>1 DEF Wire
  <2>3. /\ BlocksInOrder(w) /\ Len(w) \in Nat /\ DOMAIN w = 1 .. Len(w)
        /\ \A n \in DOMAIN w : w[n].t \in Ending => n = Len(w) /\ Over(sent)
        /\ Over(sent) => w # <<>> /\ w[Len(w)].t \in Successful
    BY <1>3, <2>1 DEF WrittenOf
  <2>4. \A n \in DOMAIN w : w[n].t \in Successful \cup {"error"} => n = Len(w)
    BY <2>3 DEF Ending
  <2>5. reply = "complete" => w # <<>> /\ Last(w).t \in Successful
    BY <1>2, <2>3 DEF Last
  <2>6. ~(reply = "failed" /\ w # <<>>)
    BY <1>5, <2>1
  <2>7. ASSUME w # <<>>, Last(w).t \in Successful, p # "chat", NEW n \in DOMAIN w, w[n].t \in Announcing
        PROVE  \E m \in n .. Len(w) : w[m].t \in Closing /\ w[m].i = w[n].i
    <3>1. Len(w) \in DOMAIN w
      BY <2>3, <2>7
    <3>2. w[Len(w)].t \in Ending
      BY <2>7 DEF Last, Ending
    <3>3. Over(sent)
      BY <2>3, <3>1, <3>2
    <3>4. WrittenOf(e, sent) /\ Mirrors(e.out, sent)
      BY <1>3, <2>7
    <3> QED
      BY <2>1, <2>7, <3>3, <3>4, ClosedAfter
  <2> QED
    BY <2>2, <2>3, <2>4, <2>5, <2>6, <2>7 DEF EndsOnce
<1> QED
  BY <1>4, <1>5

(* In every protocol, at every moment, what the client has been written is *)
(* well formed: a block is announced once, grows as what it was announced  *)
(* to be while it is open and is closed at most once, the reply ends once, *)
(* and what ends it tells success from failure (writeStream and the three  *)
(* Encode functions).                                                      *)
THEOREM WireIsWellFormed == Spec => []WireWellFormed
<1>1. FlowInvariant => WireWellFormed
  BY WireFollows DEF WireWellFormed
<1> QED
  BY <1>1, FlowIsInvariant, PTL

(* What the client of p is conveyed is what the events it was sent tell:   *)
(* the talk, and the arguments of each tool call under its number.         *)
CallConveyed(p, e, w, i) ==
  IF Seen(e, i) THEN Args(GrownFrames(w), IF p = "chat" THEN Ordinal(e, i) ELSE i) = ArgsTold(sent, i)
  ELSE ~Opens(sent, i, "tool")
LEMMA WireConveys ==
  ASSUME FlowInvariant, NEW p \in Protocols
  PROVE  /\ Talk(GrownFrames(Wire(p))) = Told(sent, Talks, Int)
         /\ \A i : CallConveyed(p, Encoder(p), Wire(p), i)
<1>1. PICK e, w : e = Encoder(p) /\ w = Wire(p)
  OBVIOUS
<1>2. EncoderTells(p, e, sent)
  BY <1>1, EncoderTellsAll DEF FlowInvariant
<1>3. IsEncoder(e) /\ TalkTold(e.out, sent)
  <2>1. WrittenOf(e, sent)
    BY <1>2, EncoderHasWritten DEF EncoderTells
  <2>2. TalkTold(e.out, sent)
    BY <1>2 DEF EncoderTells, Protocols, ChatTold, BlocksTold, ResponsesTold
  <2> QED
    BY <2>1, <2>2 DEF WrittenOf
<1>4. Carrying(e.out)
  BY <1>3 DEF TalkTold
<1>5. Unchanging(e.out, w)
  <2>1. CASE reply = "failed" /\ e.out # <<>>
    <3>1. PICK f : f = Frame("error", "none", -1, <<>>)
      OBVIOUS
    <3>2. w = Write(e, <<f>>).out
      BY <1>1, <2>1, <3>1, ErrorIsWritten DEF Wire
    <3>3. ~Carries(f)
      BY <3>1, OtherFrame DEF Growing
    <3> QED
      BY <1>3, <1>4, <3>2, <3>3, QuietWritten
  <2>2. CASE ~(reply = "failed" /\ e.out # <<>>)
    <3>1. w = e.out
      BY <1>1, <2>2 DEF Wire
    <3> QED
      BY <1>4, <3>1 DEF Unchanging
  <2> QED
    BY <2>1, <2>2
<1>6. \A n : Args(GrownFrames(w), n) = Conveyed(e.out, {"tool"}, {n})
  BY <1>5, TalksAreContent DEF Unchanging, Conveyed, Args
<1>7. Talk(GrownFrames(w)) = Told(sent, Talks, Int)
  <2>1. Conveyed(w, Talks, Int) = Told(sent, Talks, Int)
    BY <1>3, <1>5, TalksAreContent DEF Unchanging, TalkTold
  <2> QED
    BY <2>1 DEF Conveyed, Talk, Talks
<1>8. ASSUME NEW i PROVE CallConveyed(p, e, w, i)
  <2>1. CASE p = "chat"
    <3>1. CallsTold(e, sent) /\ CallsOf(e, sent)
      BY <1>2, <2>1 DEF EncoderTells, ChatTold, EncoderKnows, ChatKnows
    <3>2. CASE Seen(e, i)
      <4>1. PICK o : o = Ordinal(e, i)
        OBVIOUS
      <4>2. o \in DOMAIN e.seen /\ e.seen[o].i = i
        BY <3>2, <4>1, OrdinalSeen
      <4>3. Conveyed(e.out, {"tool"}, {o}) = ArgsTold(sent, i)
        BY <3>1, <4>2 DEF CallsTold
      <4> QED
        BY <1>6, <2>1, <3>2, <4>1, <4>3 DEF CallConveyed
    <3>3. CASE ~Seen(e, i)
      BY <3>1, <3>3 DEF CallsOf, CallConveyed
    <3> QED
      BY <3>2, <3>3
  <2>2. CASE p # "chat"
    <3>1. BlocksTold(e.out, sent)
      BY <1>2, <2>2 DEF EncoderTells, ResponsesTold, Protocols
    <3>2. Args(GrownFrames(w), i) = ArgsTold(sent, i)
      BY <1>6, <3>1 DEF BlocksTold
    <3>3. Opens(sent, i, "tool") => Seen(e, i)
      <4>1. CASE p = "messages"
        BY <1>2, <4>1 DEF EncoderTells, EncoderKnows, MessagesKnows, BlocksOf
      <4>2. CASE p = "responses"
        BY <1>2, <4>2 DEF EncoderTells, ResponsesTold, ItemsOf
      <4> QED
        BY <2>2, <4>1, <4>2 DEF Protocols
    <3> QED
      BY <2>2, <3>2, <3>3 DEF CallConveyed
  <2> QED
    BY <2>1, <2>2
<1> QED
  BY <1>1, <1>7, <1>8

LEMMA NothingIsABeginning == ASSUME NEW y \in Said PROVE IsPrefix(<<>>, y)
<1>1. PICK x : x = <<>>
  OBVIOUS
<1>2. x \in Said /\ y = x \o y
  BY <1>1, ConcatEmptySeq DEF Said
<1>3. Leads(x, y)
  BY <1>2 DEF Leads
<1> QED
  BY <1>1, <1>2, <1>3, LeadsPrefix

LEMMA StreamFollows == FlowInvariant /\ SaidInvariant => StreamIsWhatWasSaid
<1> SUFFICES ASSUME FlowInvariant, SaidInvariant PROVE StreamIsWhatWasSaid
  OBVIOUS
<1>1. Begins(dec, sent, heard) /\ heard \in Seq(Hearings) /\ sent \in Seq(Events)
  BY SentBegins DEF SaidInvariant, FlowInvariant
<1>2. reply = "complete" => AgreedWith(dec, sent, heard, {}) /\ AllStarted(dec)
  BY DEF SaidInvariant
<1>3. Chunks(Hearings)
  BY DEF Chunks, Hearings, Content, Kinds
<1> DEFINE e(p) == Encoder(p)
           w(p) == Wire(p)
           talk(p) == Talk(GrownFrames(w(p)))
<1>4. ASSUME NEW p \in Protocols PROVE IsPrefix(talk(p), Talk(heard)) /\ (reply = "complete" => talk(p) = Talk(heard))
  <2>1. PICK x : x = Told(sent, Talks, Int)
    OBVIOUS
  <2>2. talk(p) = x /\ x \in Said
    BY <1>1, <2>1, WireConveys, ToldSaid
  <2>3. Leads(x, Talk(heard))
    BY <1>1, <2>1 DEF Begins
  <2>4. reply = "complete" => x = Talk(heard)
    <3>1. Talks \in SUBSET Talks
      OBVIOUS
    <3> QED
      BY <1>2, <2>1, <3>1 DEF AgreedWith, Talk, Talks
  <2> HIDE DEF talk
  <2> QED
    BY <2>2, <2>3, <2>4, LeadsPrefix
<1>5. ASSUME NEW p \in Protocols, NEW t \in ToolsOf
      PROVE  /\ IsPrefix(Written(p, e(p), w(p), t), Args(heard, t.up))
             /\ reply = "complete" => Seen(e(p), t.index) /\ Written(p, e(p), w(p), t) = Args(heard, t.up)
  <2>1. PICK j \in DOMAIN dec.tools : t = dec.tools[j]
    BY <1>5 DEF ToolsOf
  <2>2. PICK x, y : x = ArgsTold(sent, t.index) /\ y = Args(heard, t.up)
    OBVIOUS
  <2>3. x \in Said /\ y \in Said /\ Leads(x, y)
    <3>1. x \in Said
      BY <1>1, <2>2, ToldSaid DEF ArgsTold
    <3>2. y \in Said
      BY <1>1, <1>3, <2>2, GatheredSaid DEF Args
    <3> QED
      BY <1>1, <2>1, <2>2, <3>1, <3>2 DEF Begins
  <2>4. CallConveyed(p, e(p), w(p), t.index)
    BY WireConveys
  <2>5. PICK z : z = Written(p, e(p), w(p), t)
    OBVIOUS
  <2>6. z = IF Seen(e(p), t.index) THEN x ELSE <<>>
    BY <2>2, <2>4, <2>5 DEF CallConveyed, Written
  <2>7. IsPrefix(z, y)
    BY <2>3, <2>6, LeadsPrefix, NothingIsABeginning
  <2>8. ASSUME reply = "complete" PROVE Seen(e(p), t.index) /\ z = y
    <3>1. t.started /\ ToolAgreed(t, sent, heard)
      BY <1>2, <2>1, <2>8 DEF AllStarted, AgreedWith, ToolsAgreed
    <3>2. x = y /\ Opens(sent, t.index, "tool")
      BY <2>2, <3>1 DEF ToolAgreed
    <3> QED
      BY <2>4, <2>6, <3>2 DEF CallConveyed
  <2> QED
    BY <2>2, <2>5, <2>7, <2>8
<1> HIDE DEF e, w, talk
<1>6. \A p \in Protocols :
        /\ IsPrefix(talk(p), Talk(heard))
        /\ \A t \in ToolsOf : IsPrefix(Written(p, e(p), w(p), t), Args(heard, t.up))
        /\ reply = "complete" =>
             /\ talk(p) = Talk(heard)
             /\ \A t \in ToolsOf : Seen(e(p), t.index) /\ Written(p, e(p), w(p), t) = Args(heard, t.up)
  BY <1>4, <1>5
<1> USE DEF e, w, talk
<1> QED
  BY ONLY <1>6, Zenon DEF StreamIsWhatWasSaid

(* At every moment the client of a stream has, in each protocol, the       *)
(* beginning of what the upstream has said, text, thinking and the         *)
(* arguments of every tool call, nothing twice and nothing out of order,   *)
(* and all of it when the reply is complete (the four decoders, the pump   *)
(* of Cursor, writeStream and the three encoders).                         *)
THEOREM StreamedIsWhatWasSaid == Spec => []StreamIsWhatWasSaid
<1> QED
  BY FlowInit, FlowStep, SaidInit, SaidStep, StreamFollows, PTL DEF Spec

-------------------------------------------------------------------------------
(* The whole message                                                       *)

(* What is told of one choice of blocks is what is told of another if they *)
(* choose the same deltas.                                                 *)
Alike(a, kinds, places, others, at) ==
  \A n \in DOMAIN a : Tells(a[n], kinds, places) <=> Tells(a[n], others, at)
LEMMA AlikeSooner ==
  ASSUME NEW a \in Seq(Events), NEW e \in Events, NEW kinds, NEW places, NEW others, NEW at,
         Alike(Append(a, e), kinds, places, others, at)
  PROVE  Alike(a, kinds, places, others, at) /\ (Tells(e, kinds, places) <=> Tells(e, others, at))
<1>1. PICK c : c = Append(a, e)
  OBVIOUS
<1>2. /\ \A m \in DOMAIN a : m \in DOMAIN c /\ c[m] = a[m]
      /\ Len(a) + 1 \in DOMAIN c /\ c[Len(a) + 1] = e
  BY <1>1, AppendIndexes
<1> QED
  BY <1>1, <1>2 DEF Alike

LEMMA ToldAlike ==
  ASSUME NEW kinds, kinds \subseteq Content, NEW places, NEW others, others \subseteq Content, NEW at,
         NEW a \in Seq(Events), Alike(a, kinds, places, others, at)
  PROVE  Told(a, kinds, places) = Told(a, others, at)
<1> DEFINE A == {s \in Seq(Events) :
                   Alike(s, kinds, places, others, at) => Told(s, kinds, places) = Told(s, others, at)}
<1>1. <<>> \in A
  BY ToldNone
<1>2. ASSUME NEW s \in Seq(Events), NEW e \in Events, s \in A PROVE Append(s, e) \in A
  <2>1. Append(s, e) \in Seq(Events)
    BY AppendProperties
  <2>2. SUFFICES ASSUME Alike(Append(s, e), kinds, places, others, at)
                 PROVE  Told(Append(s, e), kinds, places) = Told(Append(s, e), others, at)
    BY <2>1
  <2>3. Alike(s, kinds, places, others, at) /\ (Tells(e, kinds, places) <=> Tells(e, others, at))
    BY <2>2, AlikeSooner
  <2>4. Told(s, kinds, places) = Told(s, others, at)
    BY <1>2, <2>3
  <2>5. CASE Tells(e, kinds, places)
    <3>1. Told(Append(s, e), kinds, places) = Told(s, kinds, places) \o Pieces(e)
      BY ONLY s \in Seq(Events), e \in Events, kinds \subseteq Content, <2>5, ToldMore, Zenon
    <3>2. Told(Append(s, e), others, at) = Told(s, others, at) \o Pieces(e)
      BY ONLY s \in Seq(Events), e \in Events, others \subseteq Content, <2>3, <2>5, ToldMore, Zenon
    <3> QED
      BY ONLY <2>4, <3>1, <3>2, Zenon
  <2>6. CASE ~Tells(e, kinds, places)
    <3>1. Told(Append(s, e), kinds, places) = Told(s, kinds, places)
      BY <2>6, ToldNothing
    <3>2. Told(Append(s, e), others, at) = Told(s, others, at)
      BY <2>3, <2>6, ToldNothing
    <3> QED
      BY ONLY <2>4, <3>1, <3>2, Zenon
  <2> QED
    BY <2>5, <2>6
<1> HIDE DEF A
<1>3. Seq(Events) \subseteq A
  BY <1>1, <1>2, SequenceInduction
<1> USE DEF A
<1> QED
  BY <1>3

(* Nothing is told if nothing is chosen.                                   *)
LEMMA ToldOfNone ==
  ASSUME NEW kinds, kinds \subseteq Content, NEW places,
         NEW a \in Seq(Events), \A n \in DOMAIN a : ~Tells(a[n], kinds, places)
  PROVE  Told(a, kinds, places) = <<>>
<1> DEFINE A == {s \in Seq(Events) : Told(s, {}, {}) = <<>>}
<1>1. <<>> \in A
  BY ToldNone
<1>2. ASSUME NEW s \in Seq(Events), NEW e \in Events, s \in A PROVE Append(s, e) \in A
  <2>1. Append(s, e) \in Seq(Events)
    BY AppendProperties
  <2>2. Told(Append(s, e), {}, {}) = Told(s, {}, {})
    BY ToldNothing DEF Tells
  <2> QED
    BY <1>2, <2>1, <2>2
<1> HIDE DEF A
<1>3. Seq(Events) \subseteq A
  BY <1>1, <1>2, SequenceInduction
<1> USE DEF A
<1>4. Told(a, {}, {}) = <<>>
  BY <1>3
<1>5. Alike(a, kinds, places, {}, {})
  BY DEF Alike, Tells
<1> QED
  BY <1>4, <1>5, ToldAlike

(* What is told of some blocks and of one more, if that one is told of     *)
(* after all of the others.                                                *)
Follows(a, kinds, Q, i) == \A m, n \in DOMAIN a : Tells(a[m], kinds, {i}) /\ Tells(a[n], kinds, Q) => n < m
LEMMA FollowsSooner ==
  ASSUME NEW a \in Seq(Events), NEW e \in Events, NEW kinds, NEW Q, NEW i, Follows(Append(a, e), kinds, Q, i)
  PROVE  /\ Follows(a, kinds, Q, i)
         /\ Tells(e, kinds, Q) => ~Tells(e, kinds, {i}) /\ \A m \in DOMAIN a : ~Tells(a[m], kinds, {i})
<1>1. PICK c, l : c = Append(a, e) /\ l = Len(a) + 1
  OBVIOUS
<1>2. /\ \A m \in DOMAIN a : m \in DOMAIN c /\ c[m] = a[m] /\ m < l
      /\ l \in DOMAIN c /\ c[l] = e /\ l \in Nat /\ DOMAIN a \subseteq Nat
  BY <1>1, AppendIndexes
<1>3. \A m, n \in DOMAIN c : Tells(c[m], kinds, {i}) /\ Tells(c[n], kinds, Q) => n < m
  BY <1>1 DEF Follows
<1>4. Follows(a, kinds, Q, i)
  BY ONLY <1>2, <1>3 DEF Follows
<1>5. ASSUME Tells(e, kinds, Q) PROVE ~Tells(e, kinds, {i}) /\ \A m \in DOMAIN a : ~Tells(a[m], kinds, {i})
  <2>1. Tells(c[l], kinds, Q) /\ (Tells(e, kinds, {i}) => Tells(c[l], kinds, {i}))
    BY ONLY <1>2, <1>5
  <2>2. ~Tells(e, kinds, {i})
    <3>1. l \in DOMAIN c /\ ~(l < l)
      BY ONLY <1>2
    <3> QED
      BY ONLY <1>3, <2>1, <3>1, Zenon
  <2>3. ASSUME NEW m \in DOMAIN a, Tells(a[m], kinds, {i}) PROVE FALSE
    <3>1. m \in DOMAIN c /\ Tells(c[m], kinds, {i}) /\ m < l /\ m \in Nat
      BY ONLY <1>2, <2>3
    <3>2. l < m
      BY ONLY <1>2, <1>3, <2>1, <3>1
    <3> QED
      BY ONLY <1>2, <3>1, <3>2
  <2> QED
    BY <2>2, <2>3
<1> QED
  BY <1>4, <1>5

ToldApart(a, kinds, Q, i) == Told(a, kinds, Q \cup {i}) = Told(a, kinds, Q) \o Told(a, kinds, {i})
LEMMA ToldMoves ==
  ASSUME NEW kinds, kinds \subseteq Content, NEW Q, NEW i, NEW s \in Seq(Events), NEW e \in Events,
         Follows(Append(s, e), kinds, Q, i),
         ToldApart(s, kinds, Q, i)
  PROVE  ToldApart(Append(s, e), kinds, Q, i)
<1>1. PICK S : Said = Seq(S)
  BY DEF Said
<1>2. PICK x, y, z, p : /\ x = Told(s, kinds, Q \cup {i}) /\ y = Told(s, kinds, Q) /\ z = Told(s, kinds, {i})
                        /\ p = Pieces(e)
  OBVIOUS
<1>3. x \in Seq(S) /\ y \in Seq(S) /\ z \in Seq(S) /\ x = y \o z
  BY <1>1, <1>2, ToldSaid DEF ToldApart
<1>4. CASE ~Tells(e, kinds, Q \cup {i})
  <2>1. ~Tells(e, kinds, Q) /\ ~Tells(e, kinds, {i})
    BY <1>4 DEF Tells
  <2>2. Told(Append(s, e), kinds, Q) = y
    BY ONLY s \in Seq(Events), e \in Events, kinds \subseteq Content, <1>2, <2>1, ToldNothing, Zenon
  <2>3. Told(Append(s, e), kinds, {i}) = z
    BY ONLY s \in Seq(Events), e \in Events, kinds \subseteq Content, <1>2, <2>1, ToldNothing
  <2>4. Told(Append(s, e), kinds, Q \cup {i}) = x
    BY ONLY s \in Seq(Events), e \in Events, kinds \subseteq Content, <1>2, <1>4, ToldNothing
  <2> QED
    BY ONLY <1>3, <2>2, <2>3, <2>4, Zenon DEF ToldApart
<1>5. CASE Tells(e, kinds, Q)
  <2>1. Tells(e, kinds, Q \cup {i}) /\ ~Tells(e, kinds, {i}) /\ \A m \in DOMAIN s : ~Tells(s[m], kinds, {i})
    BY <1>5, FollowsSooner DEF Tells
  <2>2. Told(Append(s, e), kinds, Q \cup {i}) = x \o p
    BY ONLY s \in Seq(Events), e \in Events, kinds \subseteq Content, <1>2, <2>1, ToldMore, Zenon
  <2>3. Told(Append(s, e), kinds, Q) = y \o p
    BY ONLY s \in Seq(Events), e \in Events, kinds \subseteq Content, <1>2, <1>5, ToldMore, Zenon
  <2>4. Told(Append(s, e), kinds, {i}) = z /\ z = <<>>
    <3>1. Told(Append(s, e), kinds, {i}) = Told(s, kinds, {i})
      BY ONLY s \in Seq(Events), e \in Events, kinds \subseteq Content, <2>1, ToldNothing, Zenon
    <3>2. Told(s, kinds, {i}) = <<>>
      BY ONLY s \in Seq(Events), e \in Events, kinds \subseteq Content, <2>1, ToldOfNone, Zenon
    <3> QED
      BY ONLY <1>2, <3>1, <3>2, Zenon
  <2>5. y \o z = y
    BY ONLY <1>3, <2>4, ConcatEmptySeq
  <2>6. p \in Seq(S)
    <3>1. e.k \in Kinds /\ e.d \in Seq(Nat)
      BY <1>5 DEF Tells, Content, Kinds, Events
    <3> QED
      BY <1>1, <1>2, <3>1, PiecesSaid
  <2>7. (y \o p) \o z = y \o p
    BY ONLY <1>3, <2>4, <2>6, ConcatProperties, ConcatEmptySeq
  <2> QED
    BY ONLY <1>3, <2>2, <2>3, <2>4, <2>5, <2>7, Zenon DEF ToldApart
<1>6. CASE ~Tells(e, kinds, Q) /\ Tells(e, kinds, {i})
  <2>1. Tells(e, kinds, Q \cup {i})
    BY <1>6 DEF Tells
  <2>2. Told(Append(s, e), kinds, Q \cup {i}) = x \o p
    BY ONLY s \in Seq(Events), e \in Events, kinds \subseteq Content, <1>2, <2>1, ToldMore, Zenon
  <2>3. Told(Append(s, e), kinds, {i}) = z \o p
    BY ONLY s \in Seq(Events), e \in Events, kinds \subseteq Content, <1>2, <1>6, ToldMore, Zenon
  <2>4. Told(Append(s, e), kinds, Q) = y
    BY ONLY s \in Seq(Events), e \in Events, kinds \subseteq Content, <1>2, <1>6, ToldNothing, Zenon
  <2>5. p \in Seq(S)
    <3>1. e.k \in Kinds /\ e.d \in Seq(Nat)
      BY <1>6 DEF Tells, Content, Kinds, Events
    <3> QED
      BY <1>1, <1>2, <3>1, PiecesSaid
  <2>6. (y \o z) \o p = y \o (z \o p)
    BY ONLY <1>3, <2>5, ConcatAssociative
  <2> QED
    BY ONLY <1>3, <2>2, <2>3, <2>4, <2>6, Zenon DEF ToldApart
<1>7. Tells(e, kinds, Q \cup {i}) => Tells(e, kinds, Q) \/ Tells(e, kinds, {i})
  BY DEF Tells
<1> QED
  BY <1>4, <1>5, <1>6, <1>7

LEMMA ToldInTurn ==
  ASSUME NEW kinds, kinds \subseteq Content, NEW Q, NEW i, NEW a \in Seq(Events), Follows(a, kinds, Q, i)
  PROVE  ToldApart(a, kinds, Q, i)
<1> DEFINE A == {s \in Seq(Events) : Follows(s, kinds, Q, i) => ToldApart(s, kinds, Q, i)}
<1>1. <<>> \in A
  <2>1. Told(<<>>, kinds, Q \cup {i}) = <<>> /\ Told(<<>>, kinds, Q) = <<>> /\ Told(<<>>, kinds, {i}) = <<>>
    BY ToldNone
  <2>2. <<>> \o <<>> = <<>> /\ <<>> \in Seq(Events)
    OBVIOUS
  <2>3. ToldApart(<<>>, kinds, Q, i)
    BY ONLY <2>1, <2>2, Zenon DEF ToldApart
  <2> QED
    BY <2>2, <2>3
<1>2. ASSUME NEW s \in Seq(Events), NEW e \in Events, s \in A PROVE Append(s, e) \in A
  <2>1. Append(s, e) \in Seq(Events)
    BY AppendProperties
  <2>2. ASSUME Follows(Append(s, e), kinds, Q, i) PROVE ToldApart(Append(s, e), kinds, Q, i)
    <3>1. Follows(s, kinds, Q, i)
      BY <2>2, FollowsSooner
    <3>2. ToldApart(s, kinds, Q, i)
      BY <1>2, <3>1
    <3> QED
      BY <2>2, <3>2, ToldMoves
  <2> QED
    BY <2>1, <2>2
<1> HIDE DEF A
<1>3. Seq(Events) \subseteq A
  BY <1>1, <1>2, SequenceInduction
<1> USE DEF A
<1> QED
  BY <1>3

(* A block is opened as one thing, and grows as that.                      *)
Orderly(a) ==
  /\ \A i, k, l : Opens(a, i, k) /\ Opens(a, i, l) => k = l
  /\ \A n \in DOMAIN a : a[n].t \in {"delta", "close"} => Opens(a, a[n].i, a[n].k)
LEMMA OrderlyNext ==
  ASSUME NEW a \in Seq(Events), Orderly(a), NEW e \in Events, Fits(a, e) PROVE Orderly(Append(a, e))
<1>1. PICK c : c = Append(a, e)
  OBVIOUS
<1>2. \A i, k : Opens(c, i, k) <=> Opens(a, i, k) \/ (e.t = "open" /\ e.i = i /\ e.k = k)
  BY <1>1, AppendSays
<1>3. \A n \in DOMAIN c : (n \in DOMAIN a /\ c[n] = a[n]) \/ c[n] = e
  BY <1>1, AppendIndexes
<1>4. \A i, k, l : Opens(c, i, k) /\ Opens(c, i, l) => k = l
  BY <1>2 DEF Orderly, Fits
<1>5. \A n \in DOMAIN c : c[n].t \in {"delta", "close"} => Opens(c, c[n].i, c[n].k)
  BY <1>2, <1>3 DEF Orderly, Fits
<1> QED
  BY <1>1, <1>4, <1>5 DEF Orderly

LEMMA EventsAreOrderly == ASSUME NEW a \in Seq(Events), EventsOK(a) PROVE Orderly(a)
<1> DEFINE A == {s \in Seq(Events) : EventsOK(s) => Orderly(s)}
<1>1. <<>> \in A
  BY NothingSaid DEF Orderly
<1>2. ASSUME NEW s \in Seq(Events), NEW e \in Events, s \in A PROVE Append(s, e) \in A
  <2>1. /\ Append(s, e) \in Seq(Events) /\ <<e>> \in Seq(Events) /\ Append(s, e) = s \o <<e>>
        /\ <<e>> # <<>> /\ Head(<<e>>) = e
    BY AppendProperties, AppendIsConcat
  <2>2. EventsOK(Append(s, e)) => EventsOK(s) /\ Fits(s, e)
    BY <2>1, EventsBegin
  <2> QED
    BY <1>2, <2>1, <2>2, OrderlyNext
<1> HIDE DEF A
<1>3. Seq(Events) \subseteq A
  BY <1>1, <1>2, SequenceInduction
<1> USE DEF A
<1> QED
  BY <1>3

(* A block of a message holds what the stream a tells of it; a list of     *)
(* blocks has all that were opened, by index.                              *)
Block(x, a) ==
  /\ x.i \in Int /\ x.k \in Content /\ x.d \in Seq(Nat) /\ Opens(a, x.i, x.k)
  /\ Pieces(x) = Told(a, {x.k}, {x.i})
Lists(b, a) ==
  /\ \A m, n \in DOMAIN b : m < n => b[m].i < b[n].i
  /\ \A n \in DOMAIN b : Block(b[n], a)
  /\ \A i, k : Opens(a, i, k) => \E n \in DOMAIN b : b[n].i = i
LEMMA BlockTold ==
  ASSUME NEW a \in Seq(Events), Orderly(a), NEW x, Block(x, a), NEW kinds, kinds \subseteq Content
  PROVE  Told(a, kinds, {x.i}) = IF x.k \in kinds THEN Pieces(x) ELSE <<>>
<1>1. \A n \in DOMAIN a : a[n].t = "delta" /\ a[n].i = x.i => a[n].k = x.k
  BY DEF Orderly, Block
<1>2. CASE x.k \in kinds
  <2>1. Alike(a, kinds, {x.i}, {x.k}, {x.i})
    BY <1>1, <1>2 DEF Alike, Tells
  <2>2. {x.k} \subseteq Content
    BY DEF Block
  <2>3. Told(a, kinds, {x.i}) = Told(a, {x.k}, {x.i})
    BY ONLY a \in Seq(Events), kinds \subseteq Content, <2>1, <2>2, ToldAlike
  <2> QED
    BY <1>2, <2>3 DEF Block
<1>3. CASE x.k \notin kinds
  <2>1. \A n \in DOMAIN a : ~Tells(a[n], kinds, {x.i})
    BY <1>1, <1>3 DEF Tells
  <2> QED
    BY <1>3, <2>1, ToldOfNone
<1> QED
  BY <1>2, <1>3

PutInTurn(a, x, kinds, places, Q) ==
  Put(Told(a, kinds, Q), x, kinds, places) = Told(a, kinds, IF x.i \in places THEN Q \cup {x.i} ELSE Q)
LEMMA BlockPut ==
  ASSUME NEW a \in Seq(Events), Orderly(a), NEW x, Block(x, a), NEW kinds, kinds \subseteq Content,
         NEW places, NEW Q, x.i \in places => Follows(a, kinds, Q, x.i)
  PROVE  PutInTurn(a, x, kinds, places, Q)
<1>1. PICK S, c, p, i : Said = Seq(S) /\ c = Told(a, kinds, Q) /\ p = Pieces(x) /\ i = x.i
  BY DEF Said
<1>2. c \in Seq(S)
  BY <1>1, ToldSaid
<1>3. CASE i \notin places
  BY <1>1, <1>3 DEF Put, PutInTurn
<1>4. CASE i \in places
  <2>1. Told(a, kinds, Q \cup {i}) = c \o Told(a, kinds, {i})
    <3>1. ToldApart(a, kinds, Q, i)
      BY <1>1, <1>4, ToldInTurn
    <3> QED
      BY ONLY <1>1, <3>1, Zenon DEF ToldApart
  <2>2. Told(a, kinds, {i}) = IF x.k \in kinds THEN p ELSE <<>>
    BY <1>1, BlockTold
  <2>3. Put(c, x, kinds, places) = Told(a, kinds, Q \cup {i})
    <3>1. CASE x.k \in kinds
      BY ONLY <1>1, <1>4, <2>1, <2>2, <3>1, Zenon DEF Put
    <3>2. CASE x.k \notin kinds
      <4>1. c \o <<>> = c
        BY ONLY <1>2, ConcatEmptySeq
      <4> QED
        BY ONLY <1>1, <1>4, <2>1, <2>2, <3>2, <4>1, Zenon DEF Put
    <3> QED
      BY <3>1, <3>2
  <2> QED
    BY ONLY <1>1, <1>4, <2>3, Zenon DEF PutInTurn
<1> QED
  BY <1>3, <1>4

(* What a list gives of some kinds at some places is what the stream tells *)
(* of them, if it tells one block after the other.                         *)
Listed(b, n, places) == {i \in places : \E m \in 1 .. n : b[m].i = i}
InOrder(b, a, kinds, places) ==
  \A n \in DOMAIN b : b[n].i \in places => Follows(a, kinds, Listed(b, n - 1, places), b[n].i)
LEMMA ListGathers ==
  ASSUME NEW a \in Seq(Events), Orderly(a), NEW S, Chunks(S), NEW b \in Seq(S), Lists(b, a),
         NEW kinds, kinds \subseteq Content, NEW places, InOrder(b, a, kinds, places)
  PROVE  Gathered(b, kinds, places) = Told(a, kinds, places)
<1>1. PICK l : l = Len(b)
  OBVIOUS
<1>2. l \in Nat /\ DOMAIN b = 1 .. l
  BY <1>1, LenProperties
<1>3. PICK g : Puts(b, kinds, places, l, g)
  BY <1>1, GatheredFold
<1> DEFINE A == {n \in Nat : n <= l => g[1 .. n] = Told(a, kinds, Listed(b, n, places))}
<1>4. 0 \in A
  <2>1. Listed(b, 0, places) = {}
    BY DEF Listed
  <2>2. \A n \in DOMAIN a : ~Tells(a[n], kinds, {})
    BY DEF Tells
  <2>3. Told(a, kinds, {}) = <<>>
    BY <2>2, ToldOfNone
  <2>4. g[1 .. 0] = Told(a, kinds, Listed(b, 0, places))
    BY ONLY <1>3, <2>1, <2>3, Zenon DEF Puts
  <2> QED
    BY <2>4
<1>5. ASSUME NEW n \in Nat, n \in A PROVE n + 1 \in A
  <2>1. SUFFICES ASSUME n + 1 <= l PROVE g[1 .. n + 1] = Told(a, kinds, Listed(b, n + 1, places))
    OBVIOUS
  <2>2. PICK m, x, Q, R : m = n + 1 /\ x = b[m] /\ Q = Listed(b, n, places) /\ R = Listed(b, m, places)
    OBVIOUS
  <2>3. m \in DOMAIN b /\ m - 1 = n /\ n <= l /\ m <= l
    BY <1>2, <2>1, <2>2
  <2>4. g[1 .. n] = Told(a, kinds, Q)
    BY <1>5, <2>2, <2>3
  <2>5. g[1 .. m] = Put(g[1 .. n], x, kinds, places)
    BY <1>3, <2>1, <2>2 DEF Puts
  <2>6. Block(x, a)
    BY <2>2, <2>3 DEF Lists
  <2>7. x.i \in places => Follows(a, kinds, Q, x.i)
    BY <2>2, <2>3 DEF InOrder
  <2>8. R = IF x.i \in places THEN Q \cup {x.i} ELSE Q
    <3>1. \A j : j \in 1 .. m <=> j \in 1 .. n \/ j = m
      BY <2>2
    <3> QED
      BY ONLY <2>2, <3>1 DEF Listed
  <2>9. PutInTurn(a, x, kinds, places, Q)
    BY <2>6, <2>7, BlockPut
  <2>10. g[1 .. m] = Told(a, kinds, R)
    BY ONLY <2>4, <2>5, <2>8, <2>9, Zenon DEF PutInTurn
  <2> QED
    BY ONLY <2>2, <2>10, Zenon
<1> HIDE DEF A
<1>6. l \in A
  BY <1>2, <1>4, <1>5, NumberInduction
<1> USE DEF A
<1>7. PICK R : R = Listed(b, l, places)
  OBVIOUS
<1>8. Gathered(b, kinds, places) = Told(a, kinds, R)
  <2>1. g[1 .. l] = Told(a, kinds, R)
    BY <1>2, <1>6, <1>7
  <2> QED
    BY ONLY <1>3, <2>1, Zenon DEF Puts
<1>9. Alike(a, kinds, R, kinds, places)
  <2>1. \A n \in DOMAIN a : a[n].t = "delta" => \E m \in 1 .. l : b[m].i = a[n].i
    BY <1>2 DEF Orderly, Lists
  <2> QED
    BY <1>7, <2>1 DEF Alike, Tells, Listed
<1> QED
  BY <1>8, <1>9, ToldAlike

(* Talk is told one block after the other, and so is a call by itself.     *)
LEMMA TalkInOrder ==
  ASSUME NEW a, NEW b, NEW l \in Nat, DOMAIN b = 1 .. l, Lists(b, a), NEW s, Rising(s, a), DOMAIN a \subseteq Nat,
         NEW kinds, kinds \subseteq Talks
  PROVE  InOrder(b, a, kinds, Int)
<1>1. SUFFICES ASSUME NEW n \in DOMAIN b, NEW m \in DOMAIN a, NEW j \in DOMAIN a,
                      Tells(a[m], kinds, {b[n].i}), Tells(a[j], kinds, Listed(b, n - 1, Int))
               PROVE  j < m
  BY DEF InOrder, Follows
<1>2. PICK o \in 1 .. n - 1 : b[o].i = a[j].i
  BY <1>1 DEF Tells, Listed
<1>3. o \in DOMAIN b /\ o < n
  <2>1. n \in Nat /\ n <= l
    OBVIOUS
  <2> QED
    BY <1>2, <2>1
<1>4. a[j].i < a[m].i /\ a[j].i \in Int /\ a[m].i \in Int
  BY <1>1, <1>2, <1>3 DEF Lists, Tells, Block
<1>5. m < j => a[m].i <= a[j].i
  <2>1. {a[m].t, a[j].t} = {"delta"} /\ {a[m].k, a[j].k} \subseteq Talks
    BY <1>1 DEF Tells
  <2> QED
    BY <2>1 DEF Rising
<1>6. m \in Nat /\ j \in Nat /\ (m = j => a[j].i = a[m].i)
  OBVIOUS
<1> QED
  BY ONLY <1>4, <1>5, <1>6

LEMMA CallInOrder ==
  ASSUME NEW a, NEW b, NEW l \in Nat, DOMAIN b = 1 .. l, Lists(b, a), NEW kinds, NEW i
  PROVE  InOrder(b, a, kinds, {i})
<1>1. SUFFICES ASSUME NEW n \in DOMAIN b, b[n].i = i, NEW o \in 1 .. n - 1, b[o].i = i PROVE FALSE
  BY DEF InOrder, Follows, Tells, Listed
<1>2. o \in DOMAIN b /\ o < n
  <2>1. n \in Nat /\ n <= l
    OBVIOUS
  <2> QED
    BY <2>1
<1>3. b[o].i < b[n].i /\ b[n].i \in Int
  BY <1>2 DEF Lists, Block
<1> QED
  BY <1>1, <1>3

(* A list of all blocks says what was heard.                               *)
Reports(b) == Same(b) /\ \A k \in Talks : Gathered(b, {k}, Int) = Gathered(heard, {k}, Int)
LEMMA ListReports ==
  ASSUME NEW a \in Seq(Events), EventsOK(a), NEW S, Chunks(S), NEW b \in Seq(S), Lists(b, a),
         dec \in Decoders, AgreedWith(dec, a, heard, {}), AllStarted(dec)
  PROVE  Reports(b)
<1>1. Orderly(a)
  BY EventsAreOrderly
<1>2. PICK l : l \in Nat /\ DOMAIN b = 1 .. l
  BY LenProperties
<1>3. DOMAIN a \subseteq Nat
  BY AppendIndexes, LenProperties
<1>4. ASSUME NEW kinds, kinds \subseteq Talks PROVE Gathered(b, kinds, Int) = Gathered(heard, kinds, Int)
  <2>1. Rising(dec, a)
    BY DEF AgreedWith
  <2>2. InOrder(b, a, kinds, Int)
    BY <1>2, <1>3, <1>4, <2>1, TalkInOrder
  <2>3. kinds \subseteq Content
    BY <1>4, TalksAreContent
  <2>4. Gathered(b, kinds, Int) = Told(a, kinds, Int)
    BY <1>1, <2>2, <2>3, ListGathers
  <2>5. Told(a, kinds, Int) = Gathered(heard, kinds, Int)
    BY <1>4 DEF AgreedWith
  <2> QED
    BY ONLY <2>4, <2>5, Zenon
<1>5. ASSUME NEW i PROVE Args(b, i) = ArgsTold(a, i)
  <2>1. InOrder(b, a, {"tool"}, {i})
    BY <1>2, CallInOrder
  <2>2. Gathered(b, {"tool"}, {i}) = Told(a, {"tool"}, {i})
    BY <1>1, <2>1, TalksAreContent, ListGathers
  <2> QED
    BY ONLY <2>2, Zenon DEF Args, ArgsTold
<1>6. Talk(b) = Talk(heard)
  BY ONLY <1>4, Zenon DEF Talk, Talks
<1>7. \A j \in DOMAIN dec.tools : /\ Args(b, dec.tools[j].index) = Args(heard, dec.tools[j].up)
                                  /\ \E n \in DOMAIN b : b[n].i = dec.tools[j].index
  <2>1. SUFFICES ASSUME NEW j \in DOMAIN dec.tools
                 PROVE  /\ Args(b, dec.tools[j].index) = Args(heard, dec.tools[j].up)
                        /\ \E n \in DOMAIN b : b[n].i = dec.tools[j].index
    OBVIOUS
  <2>2. PICK t : t = dec.tools[j]
    OBVIOUS
  <2>3. t.started /\ ToolAgreed(t, a, heard)
    BY <2>2 DEF AgreedWith, ToolsAgreed, AllStarted
  <2>4. ArgsTold(a, t.index) = Args(heard, t.up) /\ Opens(a, t.index, "tool")
    BY <2>3 DEF ToolAgreed
  <2>5. \E n \in DOMAIN b : b[n].i = t.index
    BY <2>4 DEF Lists
  <2>6. Args(b, t.index) = Args(heard, t.up)
    BY ONLY <1>5, <2>4, Zenon
  <2> QED
    BY ONLY <2>2, <2>5, <2>6, Zenon
<1>8. {t.up : t \in ToolsOf} = {heard[n].i : n \in {m \in DOMAIN heard : heard[m].k = "tool"}}
  <2>1. {dec.tools[j].up : j \in DOMAIN dec.tools} = CalledIn(heard)
    BY DEF AgreedWith, CallsAgreed
  <2>2. {t.up : t \in ToolsOf} = {dec.tools[j].up : j \in DOMAIN dec.tools}
    BY DEF ToolsOf
  <2> QED
    BY ONLY <2>1, <2>2, Zenon DEF CalledIn
<1>9. \A t \in ToolsOf : Args(b, t.index) = Args(heard, t.up) /\ \E n \in DOMAIN b : b[n].i = t.index
  BY ONLY <1>7, Zenon DEF ToolsOf
<1>10. Same(b)
  BY ONLY <1>6, <1>8, <1>9, Zenon DEF Same
<1>11. \A k \in Talks : Gathered(b, {k}, Int) = Gathered(heard, {k}, Int)
  BY <1>4
<1> QED
  BY ONLY <1>10, <1>11, Zenon DEF Reports

(* Ascending lists them all.                                               *)
LEMMA AscendingLists ==
  ASSUME NEW l \in Nat, NEW w, DOMAIN w = 1 .. l, \A n \in DOMAIN w : w[n].i \in Int
  PROVE  \E c \in Nat : /\ Rises(Ascending(Indexes(w)), Indexes(w), c)
                        /\ \A x \in Indexes(w) : \E n \in 1 .. c : Ascending(Indexes(w))[n] = x
<1>1. PICK S, c, q : S = Indexes(w) /\ c = Cardinality(S) /\ q = Ascending(S)
  OBVIOUS
<1>2. IsFiniteSet(S) /\ S \subseteq Int /\ \E v : Rises(v, S, c)
  BY <1>1, RisesSomehow
<1>3. c \in Nat
  BY <1>1, <1>2, FS_CardinalityType
<1>4. Rises(q, S, c)
  BY <1>1, <1>2 DEF Ascending, Rises
<1>5. \A x \in S : \E n \in 1 .. c : q[n] = x
  BY <1>1, <1>2, <1>4, RisesThrough
<1> QED
  BY <1>1, <1>3, <1>4, <1>5

(* What is remembered of a block: what has been told of it or, when it is  *)
(* a tool call that has been closed, what it was closed with.              *)
ClosesWith(a, x) == \E n \in DOMAIN a : a[n].t = "close" /\ a[n].k = "tool" /\ a[n].i = x.i /\ a[n].d = x.d
Remembers(x, a) ==
  /\ x.i \in Int /\ x.k \in Content /\ x.d \in Seq(Nat) /\ Opens(a, x.i, x.k)
  /\ Pieces(x) = Told(a, {x.k}, {x.i}) \/ (x.k = "tool" /\ Shuts(a, x.i) /\ ClosesWith(a, x))
LEMMA RememberedIsBlock == ASSUME NEW x, NEW a, Remembers(x, a), ClosesTell(a) PROVE Block(x, a)
<1>1. CASE Pieces(x) = Told(a, {x.k}, {x.i})
  BY <1>1 DEF Remembers, Block
<1>2. CASE x.k = "tool" /\ ClosesWith(a, x)
  <2>1. PICK n \in DOMAIN a : a[n].t = "close" /\ a[n].k = "tool" /\ a[n].i = x.i /\ a[n].d = x.d
    BY <1>2 DEF ClosesWith
  <2>2. Pieces(a[n]) = ArgsTold(a, a[n].i)
    BY <2>1 DEF ClosesTell
  <2>3. Pieces(a[n]) = Pieces(x)
    BY <1>2, <2>1, SamePieces
  <2>4. Pieces(x) = Told(a, {x.k}, {x.i})
    BY ONLY <1>2, <2>1, <2>2, <2>3, Zenon DEF ArgsTold
  <2> QED
    BY <2>4 DEF Remembers, Block
<1> QED
  BY <1>1, <1>2 DEF Remembers

(* One event later: a block that is not its own, one that grows, a new     *)
(* one, and a tool call that is closed.                                    *)
Further(a, ev, c) == a \in Seq(Events) /\ Orderly(a) /\ ev \in Events /\ Fits(a, ev) /\ c = Append(a, ev)
LEMMA Onward ==
  ASSUME NEW a, NEW ev, NEW c, Further(a, ev, c)
  PROVE  /\ \A i, k : Opens(c, i, k) <=> Opens(a, i, k) \/ (ev.t = "open" /\ ev.i = i /\ ev.k = k)
         /\ \A i : Shuts(c, i) <=> Shuts(a, i) \/ (ev.t = "close" /\ ev.i = i)
         /\ \A x : ClosesWith(a, x) => ClosesWith(c, x)
         /\ \E n \in DOMAIN c : c[n] = ev
<1>1. a \in Seq(Events) /\ ev \in Events /\ c = Append(a, ev)
  BY DEF Further
<1>2. /\ \A m \in DOMAIN a : m \in DOMAIN c /\ c[m] = a[m]
      /\ Len(a) + 1 \in DOMAIN c /\ c[Len(a) + 1] = ev
  BY <1>1, AppendIndexes
<1>3. \A x : ClosesWith(a, x) => ClosesWith(c, x)
  BY <1>2 DEF ClosesWith
<1> QED
  BY <1>1, <1>2, <1>3, AppendSays

LEMMA RemembersOn ==
  ASSUME NEW a, NEW ev, NEW c, Further(a, ev, c), NEW x, Remembers(x, a), ~(ev.t = "delta" /\ ev.i = x.i)
  PROVE  Remembers(x, c)
<1>1. Opens(c, x.i, x.k) /\ (Shuts(a, x.i) => Shuts(c, x.i)) /\ (ClosesWith(a, x) => ClosesWith(c, x))
  BY Onward DEF Remembers
<1>2. Told(c, {x.k}, {x.i}) = Told(a, {x.k}, {x.i})
  <2>1. a \in Seq(Events) /\ ev \in Events /\ {x.k} \subseteq Content /\ ~Tells(ev, {x.k}, {x.i})
    BY DEF Further, Remembers, Tells
  <2>2. Told(Append(a, ev), {x.k}, {x.i}) = Told(a, {x.k}, {x.i})
    <3>1. PICK K, P : K = {x.k} /\ P = {x.i}
      OBVIOUS
    <3>2. Told(Append(a, ev), K, P) = Told(a, K, P)
      BY ONLY <2>1, <3>1, ToldNothing, Zenon
    <3> QED
      BY ONLY <3>1, <3>2, Zenon
  <2> QED
    BY ONLY <2>2, Further(a, ev, c), Zenon DEF Further
<1> QED
  BY <1>1, <1>2 DEF Remembers

LEMMA RemembersMore ==
  ASSUME NEW a, NEW ev, NEW c, Further(a, ev, c), ev.t = "delta", NEW x, Remembers(x, a), ev.i = x.i,
         NEW y, y.i = x.i, y.k = x.k, y.d = x.d \o ev.d
  PROVE  Remembers(y, c)
<1>1. ev.k = x.k /\ ev.k \in Content /\ ev.d \in Seq(Nat) /\ x.d \in Seq(Nat) /\ Pieces(x) = Told(a, {x.k}, {x.i})
  <2>1. Opens(a, ev.i, ev.k) /\ ~Shuts(a, ev.i)
    BY DEF Further, Fits
  <2> QED
    BY <2>1 DEF Further, Orderly, Remembers, Events
<1>2. Opens(c, y.i, y.k)
  BY Onward DEF Remembers
<1>3. Told(c, {x.k}, {x.i}) = Told(a, {x.k}, {x.i}) \o Pieces(ev)
  <2>1. a \in Seq(Events) /\ ev \in Events /\ {x.k} \subseteq Content /\ Tells(ev, {x.k}, {x.i})
    BY <1>1 DEF Further, Tells
  <2>2. Told(Append(a, ev), {x.k}, {x.i}) = Told(a, {x.k}, {x.i}) \o Pieces(ev)
    <3>1. PICK K, P : K = {x.k} /\ P = {x.i}
      OBVIOUS
    <3>2. Told(Append(a, ev), K, P) = Told(a, K, P) \o Pieces(ev)
      BY ONLY <2>1, <3>1, ToldMore, Zenon
    <3> QED
      BY ONLY <3>1, <3>2, Zenon
  <2> QED
    BY ONLY <2>2, Further(a, ev, c), Zenon DEF Further
<1>4. Pieces(y) = Pieces(x) \o Pieces(ev)
  BY <1>1, PiecesMore
<1>5. Pieces(y) = Told(c, {y.k}, {y.i})
  BY ONLY <1>1, <1>3, <1>4, y.i = x.i, y.k = x.k, Zenon
<1>6. y.d \in Seq(Nat)
  BY <1>1, ConcatProperties
<1> QED
  BY <1>2, <1>5, <1>6 DEF Remembers

LEMMA RemembersNew ==
  ASSUME NEW a, NEW ev, NEW c, Further(a, ev, c), ev.t = "open", NEW y, y.i = ev.i, y.k = ev.k, y.d = <<>>
  PROVE  Remembers(y, c)
<1>1. ev.i \in Int /\ ev.k \in Content /\ \A k : ~Opens(a, ev.i, k)
  BY DEF Further, Fits, Events
<1>2. Told(c, {y.k}, {y.i}) = <<>>
  <2>1. a \in Seq(Events) /\ ev \in Events /\ {y.k} \subseteq Content /\ ~Tells(ev, {y.k}, {y.i})
    BY <1>1 DEF Further, Tells
  <2>2. \A n \in DOMAIN a : ~Tells(a[n], {y.k}, {y.i})
    BY <1>1 DEF Further, Orderly, Tells
  <2>3. Told(Append(a, ev), {y.k}, {y.i}) = Told(a, {y.k}, {y.i})
    <3>1. PICK K, P : K = {y.k} /\ P = {y.i}
      OBVIOUS
    <3>2. Told(Append(a, ev), K, P) = Told(a, K, P)
      BY ONLY <2>1, <3>1, ToldNothing, Zenon
    <3> QED
      BY ONLY <3>1, <3>2, Zenon
  <2>4. Told(a, {y.k}, {y.i}) = <<>>
    BY ONLY <2>1, <2>2, ToldOfNone
  <2> QED
    BY ONLY <2>3, <2>4, Further(a, ev, c), Zenon DEF Further
<1>3. Pieces(y) = <<>>
  BY DEF Pieces
<1>4. Opens(c, y.i, y.k)
  BY Onward
<1> QED
  BY <1>1, <1>2, <1>3, <1>4 DEF Remembers

LEMMA RemembersClose ==
  ASSUME NEW a, NEW ev, NEW c, Further(a, ev, c), ev.t = "close", ev.k = "tool", NEW y, y.i = ev.i,
         y.k = "tool", y.d = ev.d
  PROVE  Remembers(y, c)
<1>1. ev.i \in Int /\ ev.d \in Seq(Nat) /\ Opens(a, ev.i, "tool")
  BY DEF Further, Fits, Events
<1>2. Opens(c, y.i, "tool") /\ Shuts(c, y.i) /\ \E n \in DOMAIN c : c[n] = ev
  BY <1>1, Onward
<1>3. ClosesWith(c, y)
  BY <1>2 DEF ClosesWith
<1> QED
  BY <1>1, <1>2, <1>3 DEF Remembers, Content

(* A table of the blocks that were opened, one entry for each.             *)
Table(b, a) ==
  /\ b \in Seq(Items) /\ \A m, n \in DOMAIN b : b[m].i = b[n].i => m = n
  /\ \A n \in DOMAIN b : Remembers(b[n], a)
  /\ \A i, k : Opens(a, i, k) => \E n \in DOMAIN b : b[n].i = i
LEMMA NoTable == Table(<<>>, <<>>)
<1>1. <<>> \in Seq(Items) /\ DOMAIN <<>> = {}
  OBVIOUS
<1>2. \A i, k : ~Opens(<<>>, i, k)
  BY DEF Opens
<1> QED
  BY <1>1, <1>2 DEF Table

LEMMA TableSame ==
  ASSUME NEW a, NEW ev, NEW c, Further(a, ev, c), NEW b, Table(b, a), ev.t \notin {"open", "delta"}
  PROVE  Table(b, c)
<1>1. \A n \in DOMAIN b : Remembers(b[n], c)
  BY RemembersOn DEF Table
<1>2. \A i, k : Opens(c, i, k) => Opens(a, i, k)
  BY Onward
<1> QED
  BY <1>1, <1>2 DEF Table

LEMMA TableNew ==
  ASSUME NEW a, NEW ev, NEW c, Further(a, ev, c), ev.t = "open", NEW b, Table(b, a)
  PROVE  /\ \A n \in DOMAIN b : b[n].i # ev.i
         /\ Table(Append(b, [i |-> ev.i, k |-> ev.k, d |-> <<>>]), c)
<1>1. PICK y, v, l : y = [i |-> ev.i, k |-> ev.k, d |-> <<>>] /\ v = Append(b, y) /\ l = Len(b) + 1
  OBVIOUS
<1>2. y.i = ev.i /\ y.k = ev.k /\ y.d = <<>> /\ y \in Items
  <2>1. ev.i \in Int /\ ev.k \in Content
    BY DEF Further, Fits, Events
  <2> QED
    BY <1>1, <2>1 DEF Items
<1>3. /\ v \in Seq(Items) /\ \A n : n \in DOMAIN v <=> n \in DOMAIN b \/ n = l
      /\ v[l] = y /\ \A n \in DOMAIN b : v[n] = b[n]
  <2>1. b \in Seq(Items)
    BY DEF Table
  <2>2. Len(b) \in Nat /\ DOMAIN b = 1 .. Len(b)
    BY ONLY <2>1, LenProperties
  <2>3. v \in Seq(Items) /\ Len(v) = l /\ v[l] = y /\ \A n \in 1 .. Len(b) : v[n] = b[n]
    BY ONLY <1>1, <1>2, <2>1, <2>2, AppendProperties
  <2>4. DOMAIN v = 1 .. l
    BY ONLY <2>3, LenProperties
  <2> QED
    BY ONLY <1>1, <2>2, <2>3, <2>4
<1>4. \A n \in DOMAIN b : b[n].i # ev.i
  BY DEF Table, Remembers, Further, Fits
<1>5. Remembers(y, c)
  BY <1>2, RemembersNew
<1>6. \A n \in DOMAIN b : Remembers(b[n], c)
  BY RemembersOn DEF Table
<1>7. \A i, k : Opens(c, i, k) => Opens(a, i, k) \/ i = ev.i
  BY Onward
<1>8. \A m, n \in DOMAIN v : v[m].i = v[n].i => m = n
  BY <1>2, <1>3, <1>4 DEF Table
<1>9. \A n \in DOMAIN v : Remembers(v[n], c)
  BY <1>3, <1>5, <1>6
<1>10. \A i, k : Opens(c, i, k) => \E n \in DOMAIN v : v[n].i = i
  BY <1>2, <1>3, <1>7 DEF Table
<1>11. Table(v, c)
  BY <1>3, <1>8, <1>9, <1>10 DEF Table
<1> QED
  BY <1>1, <1>4, <1>11

LEMMA TableChanged ==
  ASSUME NEW a, NEW ev, NEW c, Further(a, ev, c), ev.t \in {"delta", "close"}, NEW b, Table(b, a),
         NEW n \in DOMAIN b, b[n].i = ev.i, NEW d \in Seq(Nat), Remembers([b[n] EXCEPT !.d = d], c)
  PROVE  Table([b EXCEPT ![n].d = d], c)
<1>1. PICK y, v : y = [b[n] EXCEPT !.d = d] /\ v = [b EXCEPT ![n].d = d]
  OBVIOUS
<1>2. b \in Seq(Items) /\ b[n] \in Items
  BY ElementOfSeq, LenProperties DEF Table
<1>3. y \in Items /\ y.i = ev.i
  BY <1>1, <1>2 DEF Items
<1>4. v = [b EXCEPT ![n] = y]
  BY <1>1
<1>5. v \in Seq(Items) /\ DOMAIN v = DOMAIN b /\ v[n] = y /\ \A m \in DOMAIN b : m # n => v[m] = b[m]
  <2>1. n \in 1 .. Len(b) /\ DOMAIN b = 1 .. Len(b)
    BY <1>2, LenProperties
  <2>2. v \in Seq(Items)
    BY ONLY <1>2, <1>3, <1>4, <2>1, ExceptSeq
  <2> QED
    BY <1>4, <2>2
<1>6. \A m \in DOMAIN b : m # n => b[m].i # ev.i
  BY DEF Table
<1>7. \A m \in DOMAIN b : m # n => Remembers(b[m], c)
  BY <1>6, RemembersOn DEF Table
<1>8. \A m \in DOMAIN v : v[m].i = b[m].i
  BY <1>3, <1>5
<1>9. \A l, m \in DOMAIN v : v[l].i = v[m].i => l = m
  BY <1>5, <1>8 DEF Table
<1>10. \A m \in DOMAIN v : Remembers(v[m], c)
  BY <1>1, <1>5, <1>7
<1>11. \A i, k : Opens(c, i, k) => \E m \in DOMAIN v : v[m].i = i
  <2>1. \A i, k : Opens(c, i, k) => Opens(a, i, k)
    BY Onward
  <2> QED
    BY <1>5, <1>8, <2>1 DEF Table
<1>12. Table(v, c)
  BY <1>5, <1>9, <1>10, <1>11 DEF Table
<1> QED
  BY <1>1, <1>12

LEMMA TableGrown ==
  ASSUME NEW a, NEW ev, NEW c, Further(a, ev, c), ev.t = "delta", NEW b, Table(b, a), NEW n \in DOMAIN b,
         b[n].i = ev.i
  PROVE  Table([b EXCEPT ![n].d = @ \o ev.d], c)
<1>1. PICK x, d, y : x = b[n] /\ d = x.d \o ev.d /\ y = [x EXCEPT !.d = d]
  OBVIOUS
<1>2. x \in Items /\ Remembers(x, a) /\ x.i = ev.i
  BY <1>1, ElementOfSeq, LenProperties DEF Table
<1>3. d \in Seq(Nat)
  BY <1>1, <1>2, ConcatProperties DEF Items, Further, Events
<1>4. y.i = x.i /\ y.k = x.k /\ y.d = x.d \o ev.d
  BY <1>1, <1>2 DEF Items
<1>5. Remembers(y, c)
  BY <1>2, <1>4, RemembersMore
<1>6. Table([b EXCEPT ![n].d = d], c)
  BY <1>1, <1>3, <1>5, TableChanged
<1>7. [b EXCEPT ![n].d = @ \o ev.d] = [b EXCEPT ![n].d = d]
  BY ONLY <1>1
<1> QED
  BY ONLY <1>6, <1>7, Zenon

LEMMA TableClosed ==
  ASSUME NEW a, NEW ev, NEW c, Further(a, ev, c), ev.t = "close", ev.k = "tool", NEW b, Table(b, a),
         NEW n \in DOMAIN b, b[n].i = ev.i
  PROVE  Table([b EXCEPT ![n].d = ev.d], c)
<1>1. PICK x, y : x = b[n] /\ y = [x EXCEPT !.d = ev.d]
  OBVIOUS
<1>2. x \in Items /\ Remembers(x, a) /\ x.i = ev.i
  BY <1>1, ElementOfSeq, LenProperties DEF Table
<1>3. ev.d \in Seq(Nat) /\ x.k = "tool"
  BY <1>2 DEF Further, Events, Orderly, Fits, Remembers
<1>4. y.i = ev.i /\ y.k = "tool" /\ y.d = ev.d
  BY <1>1, <1>2, <1>3 DEF Items
<1>5. Remembers(y, c)
  BY <1>4, RemembersClose
<1> QED
  BY <1>1, <1>3, <1>5, TableChanged

(* What every list of blocks is made of: a block for each index.           *)
LEMMA TableListed ==
  ASSUME NEW a, NEW b, Table(b, a), NEW l, NEW c \in Nat, Rises(Ascending(Indexes(b)), Indexes(b), c),
         \A x \in Indexes(b) : \E n \in 1 .. c : Ascending(Indexes(b))[n] = x,
         DOMAIN l = 1 .. c, \A n \in 1 .. c : Block(l[n], a) /\ l[n].i = Ascending(Indexes(b))[n]
  PROVE  Lists(l, a)
<1>1. PICK q, S : q = Ascending(S) /\ S = Indexes(b)
  OBVIOUS
<1>2. \A m, n \in 1 .. c : m < n => q[m] < q[n]
  BY <1>1 DEF Rises
<1>3. \A i, k : Opens(a, i, k) => i \in S
  BY <1>1 DEF Table, Indexes
<1>4. \A i, k : Opens(a, i, k) => \E n \in DOMAIN l : l[n].i = i
  BY <1>1, <1>3
<1>5. \A m, n \in DOMAIN l : m < n => l[m].i < l[n].i
  BY <1>1, <1>2
<1> QED
  BY <1>4, <1>5 DEF Lists

-------------------------------------------------------------------------------
(* The blocks that are put together                                        *)

Rows == [i : Int, k : Kinds \cup Reasons, d : Seq(Nat)]
LEMMA RowFound ==
  ASSUME NEW b, NEW i, \E m \in DOMAIN b : b[m].i = i
  PROVE  /\ (CHOOSE m \in DOMAIN b : b[m].i = i) \in DOMAIN b
         /\ b[CHOOSE m \in DOMAIN b : b[m].i = i].i = i
OBVIOUS

AggregatesTo(b, ev, v) ==
  \/ ev.t \notin {"open", "delta"} /\ ~(ev.t = "close" /\ ev.k = "tool" /\ ev.d # <<>>) /\ v = b
  \/ \E w, n :
       /\ \/ (\E m \in DOMAIN b : b[m].i = ev.i) /\ w = b
          \/ (\A m \in DOMAIN b : b[m].i # ev.i) /\ w = Append(b, [i |-> ev.i, k |-> ev.k, d |-> <<>>])
       /\ (\E m \in DOMAIN w : w[m].i = ev.i) => n \in DOMAIN w /\ w[n].i = ev.i
       /\ \/ ev.t = "open" /\ v = w
          \/ ev.t = "delta" /\ v = [w EXCEPT ![n].d = @ \o ev.d]
          \/ ev.t = "close" /\ ev.k = "tool" /\ v = [w EXCEPT ![n].d = ev.d]
LEMMA AggregateSteps == ASSUME NEW b, NEW ev PROVE AggregatesTo(b, ev, AggregateStep(b, ev))
<1>1. PICK s, w, n : /\ s = {m \in DOMAIN b : b[m].i = ev.i}
                     /\ w = IF s # {} THEN b ELSE Append(b, [i |-> ev.i, k |-> ev.k, d |-> <<>>])
                     /\ n = CHOOSE m \in DOMAIN w : w[m].i = ev.i
  OBVIOUS
<1>2. \/ (\E m \in DOMAIN b : b[m].i = ev.i) /\ w = b
      \/ (\A m \in DOMAIN b : b[m].i # ev.i) /\ w = Append(b, [i |-> ev.i, k |-> ev.k, d |-> <<>>])
  BY <1>1
<1>3. (\E m \in DOMAIN w : w[m].i = ev.i) => n \in DOMAIN w /\ w[n].i = ev.i
  BY <1>1, RowFound
<1>4. PICK x, y : x = [w EXCEPT ![n].d = @ \o ev.d] /\ y = [w EXCEPT ![n].d = ev.d]
  OBVIOUS
<1>5. PICK v : v = CASE ev.t = "open"  -> w
                     [] ev.t = "delta" -> x
                     [] ev.t = "close" /\ ev.k = "tool" /\ ev.d # <<>> -> y
                     [] OTHER -> b
  OBVIOUS
<1>6. \/ ev.t \notin {"open", "delta"} /\ ~(ev.t = "close" /\ ev.k = "tool" /\ ev.d # <<>>) /\ v = b
      \/ ev.t = "open" /\ v = w
      \/ ev.t = "delta" /\ v = x
      \/ ev.t = "close" /\ ev.k = "tool" /\ v = y
  BY ONLY <1>5
<1>7. AggregateStep(b, ev) = v
  BY ONLY <1>1, <1>4, <1>5, Zenon DEF AggregateStep
<1>8. AggregatesTo(b, ev, v)
  BY ONLY <1>2, <1>3, <1>4, <1>6, Zenon DEF AggregatesTo
<1> QED
  BY ONLY <1>7, <1>8, Zenon

LEMMA RowsKept ==
  ASSUME NEW b \in Seq(Rows), NEW n \in DOMAIN b, NEW d \in Seq(Nat) PROVE [b EXCEPT ![n].d = d] \in Seq(Rows)
<1>1. b[n] \in Rows /\ n \in 1 .. Len(b)
  BY ElementOfSeq, LenProperties
<1>2. PICK y : y = [b[n] EXCEPT !.d = d]
  OBVIOUS
<1>3. y \in Rows
  BY <1>1, <1>2 DEF Rows
<1>4. [b EXCEPT ![n] = y] \in Seq(Rows)
  BY ONLY <1>1, <1>3, b \in Seq(Rows), ExceptSeq
<1> QED
  BY <1>2, <1>4

LEMMA AggregateTyped == ASSUME NEW b \in Seq(Rows), NEW ev \in Events PROVE AggregateStep(b, ev) \in Seq(Rows)
<1>1. PICK v : v = AggregateStep(b, ev)
  OBVIOUS
<1>2. AggregatesTo(b, ev, v)
  BY ONLY <1>1, AggregateSteps
<1>3. CASE v = b
  BY <1>1, <1>3
<1>4. CASE v # b
  <2>1. PICK w, n :
       /\ (w = b /\ \E m \in DOMAIN b : b[m].i = ev.i) \/ w = Append(b, [i |-> ev.i, k |-> ev.k, d |-> <<>>])
       /\ (\E m \in DOMAIN w : w[m].i = ev.i) => n \in DOMAIN w /\ w[n].i = ev.i
       /\ \/ v = w
          \/ v = [w EXCEPT ![n].d = @ \o ev.d]
          \/ v = [w EXCEPT ![n].d = ev.d]
    BY ONLY <1>2, <1>4, Zenon DEF AggregatesTo
  <2>2. w \in Seq(Rows) /\ \E m \in DOMAIN w : w[m].i = ev.i
    <3>1. PICK y : y = [i |-> ev.i, k |-> ev.k, d |-> <<>>]
      OBVIOUS
    <3>2. y \in Rows /\ y.i = ev.i
      BY <3>1 DEF Rows, Events
    <3>3. Append(b, y) \in Seq(Rows) /\ Len(b) + 1 \in DOMAIN Append(b, y) /\ Append(b, y)[Len(b) + 1] = y
      BY <3>2, AppendProperties, LenProperties
    <3> QED
      BY <2>1, <3>1, <3>2, <3>3
  <2>3. n \in DOMAIN w /\ ev.d \in Seq(Nat)
    BY <2>1, <2>2 DEF Events
  <2>4. PICK d : d = w[n].d \o ev.d
    OBVIOUS
  <2>5. d \in Seq(Nat)
    <3>1. w[n] \in Rows
      BY ONLY <2>2, <2>3, ElementOfSeq, LenProperties
    <3>2. w[n].d \in Seq(Nat)
      BY ONLY <3>1 DEF Rows
    <3> QED
      BY ONLY <2>3, <2>4, <3>2, ConcatProperties
  <2>6. [w EXCEPT ![n].d = @ \o ev.d] = [w EXCEPT ![n].d = d]
    BY ONLY <2>4
  <2>7. [w EXCEPT ![n].d = d] \in Seq(Rows) /\ [w EXCEPT ![n].d = ev.d] \in Seq(Rows)
    BY ONLY <2>2, <2>3, <2>5, RowsKept
  <2>8. v \in Seq(Rows)
    BY ONLY <2>1, <2>2, <2>6, <2>7, Zenon
  <2> QED
    BY <1>1, <2>8
<1> QED
  BY <1>3, <1>4

LEMMA AggregateOn ==
  ASSUME NEW a, NEW ev, NEW c, Further(a, ev, c), NEW b, Table(b, a)
  PROVE  Table(AggregateStep(b, ev), c)
<1>1. PICK v : v = AggregateStep(b, ev)
  OBVIOUS
<1>2. AggregatesTo(b, ev, v)
  BY ONLY <1>1, AggregateSteps
<1>3. CASE ev.t = "open"
  <2>1. \A n \in DOMAIN b : b[n].i # ev.i
    BY <1>3, TableNew
  <2>2. v = Append(b, [i |-> ev.i, k |-> ev.k, d |-> <<>>])
    BY ONLY <1>2, <1>3, <2>1, Zenon DEF AggregatesTo
  <2> QED
    BY <1>1, <1>3, <2>2, TableNew
<1>4. CASE ev.t \in {"delta", "close"}
  <2>1. \E n \in DOMAIN b : b[n].i = ev.i
    <3>1. Opens(a, ev.i, ev.k)
      BY <1>4 DEF Further, Fits
    <3> QED
      BY <3>1 DEF Table
  <2>2. CASE v = b /\ ev.t = "close"
    BY <1>1, <2>2, TableSame
  <2>3. CASE ~(v = b /\ ev.t = "close")
    <3>1. PICK n \in DOMAIN b : b[n].i = ev.i /\ \/ ev.t = "delta" /\ v = [b EXCEPT ![n].d = @ \o ev.d]
                                                 \/ ev.t = "close" /\ ev.k = "tool" /\ v = [b EXCEPT ![n].d = ev.d]
      BY ONLY <1>2, <1>4, <2>1, <2>3, Zenon DEF AggregatesTo
    <3>2. CASE ev.t = "delta"
      <4>1. v = [b EXCEPT ![n].d = @ \o ev.d]
        BY ONLY <3>1, <3>2
      <4>2. Table([b EXCEPT ![n].d = @ \o ev.d], c)
        BY <3>1, <3>2, TableGrown
      <4> QED
        BY ONLY <1>1, <4>1, <4>2, Zenon
    <3>3. CASE ev.t = "close"
      <4>1. ev.k = "tool" /\ v = [b EXCEPT ![n].d = ev.d]
        BY ONLY <3>1, <3>3
      <4>2. Table([b EXCEPT ![n].d = ev.d], c)
        BY <3>1, <3>3, <4>1, TableClosed
      <4> QED
        BY ONLY <1>1, <4>1, <4>2, Zenon
    <3> QED
      BY <1>4, <3>2, <3>3
  <2> QED
    BY <2>2, <2>3
<1>5. CASE ev.t \notin {"open", "delta", "close"}
  <2>1. v = b
    BY ONLY <1>2, <1>5 DEF AggregatesTo
  <2> QED
    BY <1>1, <1>5, <2>1, TableSame
<1> QED
  BY <1>3, <1>4, <1>5

Aggregates(a, d, g) ==
  g = [x \in SUBSET d |-> IF x = {} THEN <<>> ELSE AggregateStep(g[x \ {Max(x)}], a[Max(x)])]
LEMMA AggregatesExist ==
  ASSUME NEW a \in Seq(Events), NEW n, n = Len(a) PROVE \E g : Aggregates(a, 1 .. n, g)
<1>1. n \in Nat /\ \A m \in 1 .. n : a[m] \in Events
  BY LenProperties, ElementOfSeq
<1> DEFINE T == Seq(Rows)
           F == [p \in T \X (1 .. n) |-> AggregateStep(p[1], a[p[2]])]
           H(g, x) == IF x = {} THEN <<>> ELSE AggregateStep(g[x \ {Max(x)}], a[Max(x)])
<1>2. \A x \in T : \A i \in 1 .. n : F[<<x, i>>] = AggregateStep(x, a[i]) /\ AggregateStep(x, a[i]) \in T
  BY <1>1, AggregateTyped
<1>3. <<>> \in T
  OBVIOUS
<1> HIDE DEF T, F
<1>4. PICK g : FoldFun(g, T, <<>>, F, n)
  <2>1. \A x \in T : \A i \in 1 .. n : F[<<x, i>>] \in T
    BY ONLY <1>2, Zenon
  <2> QED
    BY <1>1, <1>3, <2>1, FoldExists
<1>5. ASSUME NEW x \in SUBSET (1 .. n) PROVE g[x] = H(g, x)
  <2>1. CASE x = {}
    BY <1>4, <2>1 DEF FoldFun
  <2>2. CASE x # {}
    <3>1. PICK k, y : k = Max(x) /\ y = x \ {Max(x)}
      OBVIOUS
    <3>2. k \in 1 .. n /\ y \in SUBSET (1 .. n)
      <4>1. Max(x) \in x
        BY <1>1, <2>2, MaxWithin
      <4> QED
        BY <3>1, <4>1
    <3>3. g[x] = F[<<g[y], k>>] /\ g[y] \in T
      BY <1>4, <2>2, <3>1, <3>2 DEF FoldFun
    <3>4. g[x] = AggregateStep(g[y], a[k])
      BY <1>2, <3>2, <3>3
    <3> QED
      BY <2>2, <3>1, <3>4
  <2> QED
    BY <2>1, <2>2
<1>6. g \in [SUBSET (1 .. n) -> T]
  BY <1>4 DEF FoldFun
<1> HIDE DEF H
<1>7. g = [x \in SUBSET (1 .. n) |-> H(g, x)]
  BY <1>5, <1>6
<1> USE DEF H
<1>8. Aggregates(a, 1 .. n, g)
  BY ONLY <1>7, Zenon DEF Aggregates, H
<1> QED
  BY <1>8

LEMMA FurtherOn ==
  ASSUME NEW a \in Seq(Events), EventsOK(a), NEW k \in Nat, k + 1 <= Len(a),
         NEW s, s = SubSeq(a, 1, k), EventsOK(s), NEW c, c = SubSeq(a, 1, k + 1)
  PROVE  Further(s, a[k + 1], c) /\ c \in Seq(Events) /\ EventsOK(c)
<1>1. PICK e : e = a[k + 1]
  OBVIOUS
<1>2. s \in Seq(Events) /\ e \in Events /\ Fits(s, e) /\ c = Append(s, e) /\ Says(s, e, c)
  BY ONLY a \in Seq(Events), EventsOK(a), k \in Nat, k + 1 <= Len(a), s = SubSeq(a, 1, k), EventsOK(s),
          c = SubSeq(a, 1, k + 1), <1>1, NextFits, Zenon
<1> QED
  BY <1>1, <1>2, EventsAreOrderly DEF Further, Says

(* aggregate: the table of the blocks of a stream of events, once it has   *)
(* gone through them all.                                                  *)
Gathering(a) == FoldLeft(AggregateStep, <<>>, a)
LEMMA AggregateTables == ASSUME NEW a \in Seq(Events), EventsOK(a) PROVE Table(Gathering(a), a)
<1>1. PICK n : n = Len(a)
  OBVIOUS
<1>2. n \in Nat /\ DOMAIN a = 1 .. n /\ \A m \in 1 .. n : a[m] \in Events
  BY <1>1, LenProperties, ElementOfSeq
<1>3. PICK g : g = (CHOOSE h : Aggregates(a, 1 .. n, h))
  OBVIOUS
<1>4. Aggregates(a, 1 .. n, g)
  BY <1>1, <1>3, AggregatesExist
<1>5. Gathering(a) = (CHOOSE h : Aggregates(a, DOMAIN a, h))[DOMAIN a]
  BY DEF Gathering, FoldLeft, MapThenFoldSet, Aggregates
<1>6. Gathering(a) = g[1 .. n]
  BY ONLY <1>2, <1>3, <1>5, Zenon
<1>7. \A x \in SUBSET (1 .. n) : g[x] = IF x = {} THEN <<>> ELSE AggregateStep(g[x \ {Max(x)}], a[Max(x)])
  BY <1>4 DEF Aggregates
<1> DEFINE Gone(k) == LET c == SubSeq(a, 1, k) IN c \in Seq(Events) /\ EventsOK(c) /\ Table(g[1 .. k], c)
           S == {k \in Nat : k <= n => Gone(k)}
<1>8. 0 \in S
  <2>1. SubSeq(a, 1, 0) = <<>> /\ <<>> \in Seq(Events) /\ EventsOK(<<>>)
    BY SubSeqEmpty, NothingSaid
  <2>2. 1 .. 0 = {} /\ {} \in SUBSET (1 .. n)
    OBVIOUS
  <2>3. g[1 .. 0] = <<>>
    BY <1>7, <2>2
  <2>4. Gone(0)
    BY <2>1, <2>3, NoTable
  <2> HIDE DEF Gone
  <2> QED
    BY <2>4
<1>9. ASSUME NEW k \in Nat, k \in S PROVE k + 1 \in S
  <2>1. SUFFICES ASSUME k + 1 <= n PROVE Gone(k + 1)
    OBVIOUS
  <2>2. PICK s, ev, c, b : s = SubSeq(a, 1, k) /\ ev = a[k + 1] /\ c = SubSeq(a, 1, k + 1) /\ b = g[1 .. k]
    OBVIOUS
  <2>3. Gone(k)
    BY <1>2, <1>9, <2>1
  <2>4. s \in Seq(Events) /\ EventsOK(s) /\ Table(b, s)
    BY <2>2, <2>3
  <2>5. Further(s, ev, c) /\ c \in Seq(Events) /\ EventsOK(c)
    BY <1>1, <2>1, <2>2, <2>4, FurtherOn
  <2>6. g[1 .. k + 1] = AggregateStep(b, ev)
    <3>1. PICK x, y, l : x = 1 .. k + 1 /\ y = 1 .. k /\ l = k + 1
      OBVIOUS
    <3>2. x \in SUBSET (1 .. n) /\ x # {} /\ Max(x) = l /\ x \ {l} = y
      BY <1>2, <2>1, <3>1, PrefixOf
    <3> QED
      BY ONLY <1>7, <2>2, <3>1, <3>2, Zenon
  <2>7. Table(AggregateStep(b, ev), c)
    BY <2>4, <2>5, AggregateOn
  <2> QED
    BY <2>2, <2>5, <2>6, <2>7
<1> HIDE DEF S
<1>10. n \in S
  BY <1>2, <1>8, <1>9, NumberInduction
<1> USE DEF S
<1>11. Gone(n)
  <2> HIDE DEF Gone
  <2> QED
    BY <1>2, <1>10
<1>12. SubSeq(a, 1, n) = a
  BY <1>1, SubSeqFull
<1> QED
  BY <1>6, <1>11, <1>12

InTurnOf(b, q) == [n \in DOMAIN q |-> b[CHOOSE m \in DOMAIN b : b[m].i = q[n]]]
LEMMA AggregateLists ==
  ASSUME NEW a \in Seq(Events), EventsOK(a), ClosesTell(a)
  PROVE  Aggregate(a) \in Seq(Items) /\ Lists(Aggregate(a), a)
<1>1. PICK b, q, l : b = Gathering(a) /\ q = Ascending(Indexes(b)) /\ l = Aggregate(a) /\ l = InTurnOf(b, q)
  <2>1. Aggregate(a) = InTurnOf(Gathering(a), Ascending(Indexes(Gathering(a))))
    BY DEF Aggregate, InTurnOf, Gathering, Indexes
  <2> QED
    BY ONLY <2>1, Zenon
<1>2. Table(b, a)
  BY <1>1, AggregateTables
<1>3. b \in Seq(Items) /\ Len(b) \in Nat /\ DOMAIN b = 1 .. Len(b) /\ \A n \in DOMAIN b : b[n] \in Items
  <2>1. b \in Seq(Items)
    BY <1>2 DEF Table
  <2> QED
    BY <2>1, LenProperties, ElementOfSeq
<1>4. PICK c \in Nat : Rises(q, Indexes(b), c) /\ \A x \in Indexes(b) : \E n \in 1 .. c : q[n] = x
  <2>1. \A n \in DOMAIN b : b[n].i \in Int
    BY <1>3 DEF Items
  <2>2. \E j \in Nat : /\ Rises(Ascending(Indexes(b)), Indexes(b), j)
                       /\ \A x \in Indexes(b) : \E n \in 1 .. j : Ascending(Indexes(b))[n] = x
    BY ONLY <1>3, <2>1, AscendingLists
  <2> QED
    BY ONLY <1>1, <2>2, Zenon
<1>5. DOMAIN q = 1 .. c /\ \A n \in 1 .. c : \E m \in DOMAIN b : b[m].i = q[n]
  BY <1>4 DEF Rises, Indexes
<1>6. l = [n \in DOMAIN q |-> b[CHOOSE m \in DOMAIN b : b[m].i = q[n]]]
  BY ONLY <1>1 DEF InTurnOf
<1>7. ASSUME NEW n \in 1 .. c PROVE l[n] \in Items /\ Block(l[n], a) /\ l[n].i = q[n]
  <2>1. PICK m : m = CHOOSE j \in DOMAIN b : b[j].i = q[n]
    OBVIOUS
  <2>2. m \in DOMAIN b /\ b[m].i = q[n] /\ l[n] = b[m]
    BY <1>5, <1>6, <2>1, RowFound
  <2>3. Remembers(b[m], a)
    BY <1>2, <2>2 DEF Table
  <2>4. Block(b[m], a)
    BY <2>3, RememberedIsBlock
  <2> QED
    BY <1>3, <2>2, <2>4
<1>8. DOMAIN l = 1 .. c
  BY <1>5, <1>6
<1>9. l \in Seq(Items)
  <2>1. l = [n \in 1 .. c |-> l[n]]
    BY ONLY <1>5, <1>6
  <2> QED
    BY <1>4, <1>7, <2>1
<1>10. Lists(l, a)
  <2>1. PICK o : o = Ascending(Indexes(b))
    OBVIOUS
  <2>2. \A n \in 1 .. c : Block(l[n], a) /\ l[n].i = o[n]
    BY ONLY <1>1, <1>7, <2>1
  <2>3. Rises(o, Indexes(b), c) /\ \A x \in Indexes(b) : \E n \in 1 .. c : o[n] = x
    BY ONLY <1>1, <1>4, <2>1
  <2> QED
    BY ONLY <1>2, <1>4, <1>8, <2>1, <2>2, <2>3, TableListed
<1> QED
  BY <1>1, <1>9, <1>10

(* The content of an Anthropic message: what it leaves out is empty, and   *)
(* what it changes is no talk.                                             *)
ContentStep(c, x, json) == IF x.k # "tool" /\ x.d = <<>> THEN c ELSE Append(c, Input(x, json))
ContentsFrom(w, json, d, g) ==
  g = [x \in SUBSET d |-> IF x = {} THEN <<>>
                          ELSE IF w[Max(x)].k # "tool" /\ w[Max(x)].d = <<>> THEN g[x \ {Max(x)}]
                               ELSE Append(g[x \ {Max(x)}], Input(w[Max(x)], json))]
LEMMA InputTyped ==
  ASSUME NEW x \in Items, NEW json
  PROVE  Input(x, json) \in Items /\ (x.k # "tool" => Input(x, json) = x) /\ Input(x, json).k = x.k
<1>1. PICK y, e : y = [x EXCEPT !.d = e] /\ e = <<>>
  OBVIOUS
<1>2. y \in Items /\ y.k = x.k
  <2>1. e \in Seq(Nat)
    BY ONLY <1>1
  <2>2. y = [x EXCEPT !.d = e]
    BY <1>1
  <2> QED
    BY ONLY <2>1, <2>2, x \in Items DEF Items
<1>3. Input(x, json) = IF x.k = "tool" /\ ~json THEN y ELSE x
  BY <1>1 DEF Input
<1> QED
  BY <1>2, <1>3

LEMMA ContentTyped ==
  ASSUME NEW c \in Seq(Items), NEW x \in Items, NEW json PROVE ContentStep(c, x, json) \in Seq(Items)
BY InputTyped, AppendProperties DEF ContentStep

LEMMA ContentsExist ==
  ASSUME NEW w \in Seq(Items), NEW json, NEW n, n = Len(w) PROVE \E g : ContentsFrom(w, json, 1 .. n, g)
<1> DEFINE T == Seq(Items)
           F == [p \in T \X (1 .. n) |-> ContentStep(p[1], w[p[2]], json)]
           H(g, x) == IF x = {} THEN <<>>
                      ELSE IF w[Max(x)].k # "tool" /\ w[Max(x)].d = <<>> THEN g[x \ {Max(x)}]
                           ELSE Append(g[x \ {Max(x)}], Input(w[Max(x)], json))
<1>1. n \in Nat /\ \A m \in 1 .. n : w[m] \in Items
  BY LenProperties, ElementOfSeq
<1>2. \A x \in T : \A i \in 1 .. n : F[<<x, i>>] = ContentStep(x, w[i], json) /\ F[<<x, i>>] \in T
  <2>1. \A x \in T : \A i \in 1 .. n : ContentStep(x, w[i], json) \in T
    BY <1>1, ContentTyped
  <2> QED
    BY <2>1
<1>3. <<>> \in T
  OBVIOUS
<1> HIDE DEF T, F
<1>4. PICK g : FoldFun(g, T, <<>>, F, n)
  <2>1. \A x \in T : \A i \in 1 .. n : F[<<x, i>>] \in T
    BY ONLY <1>2, Zenon
  <2> QED
    BY <1>1, <1>3, <2>1, FoldExists
<1>5. ASSUME NEW x \in SUBSET (1 .. n) PROVE g[x] = H(g, x)
  <2>1. CASE x = {}
    BY <1>4, <2>1 DEF FoldFun
  <2>2. CASE x # {}
    <3>1. PICK k, y : k = Max(x) /\ y = x \ {Max(x)}
      OBVIOUS
    <3>2. k \in 1 .. n /\ y \in SUBSET (1 .. n)
      <4>1. Max(x) \in x
        BY <1>1, <2>2, MaxWithin
      <4> QED
        BY <3>1, <4>1
    <3>3. g[x] = F[<<g[y], k>>] /\ g[y] \in T
      BY <1>4, <2>2, <3>1, <3>2 DEF FoldFun
    <3>4. g[x] = ContentStep(g[y], w[k], json)
      BY <1>2, <3>2, <3>3
    <3> QED
      BY <2>2, <3>1, <3>4 DEF ContentStep
  <2> QED
    BY <2>1, <2>2
<1>6. g \in [SUBSET (1 .. n) -> T]
  BY <1>4 DEF FoldFun
<1> HIDE DEF H
<1>7. g = [x \in SUBSET (1 .. n) |-> H(g, x)]
  BY <1>5, <1>6
<1> USE DEF H
<1>8. ContentsFrom(w, json, 1 .. n, g)
  BY ONLY <1>7, Zenon DEF ContentsFrom, H
<1> QED
  BY <1>8

LEMMA ContentTalks ==
  ASSUME NEW c \in Seq(Items), NEW x \in Items, NEW json
  PROVE  Talk(ContentStep(c, x, json)) = Put(Talk(c), x, Talks, Int)
<1>1. Chunks(Items)
  BY DEF Chunks, Items, Content, Kinds
<1>2. PICK t, S : t = Talk(c) /\ Said = Seq(S)
  BY DEF Said
<1>3. t \in Seq(S)
  BY <1>1, <1>2, GatheredSaid DEF Talk
<1>4. CASE x.k # "tool" /\ x.d = <<>>
  <2>1. Pieces(x) = <<>>
    BY <1>4 DEF Pieces
  <2>2. t \o <<>> = t
    BY ONLY <1>3, ConcatEmptySeq
  <2>3. ContentStep(c, x, json) = c
    BY <1>4 DEF ContentStep
  <2> QED
    BY ONLY <1>2, <2>1, <2>2, <2>3, Zenon DEF Put
<1>5. CASE ~(x.k # "tool" /\ x.d = <<>>)
  <2>1. PICK y : y = Input(x, json)
    OBVIOUS
  <2>2. y \in Items /\ (x.k # "tool" => y = x) /\ y.k = x.k
    BY <2>1, InputTyped
  <2>3. Gathered(Append(c, y), Talks, Int) = Put(Gathered(c, Talks, Int), y, Talks, Int)
    BY ONLY <1>1, <2>2, c \in Seq(Items), GatheredAppend
  <2>4. Talk(Append(c, y)) = Put(t, y, Talks, Int)
    BY ONLY <1>2, <2>3, Zenon DEF Talk, Talks
  <2>5. Put(t, y, Talks, Int) = Put(t, x, Talks, Int)
    <3>1. CASE x.k = "tool"
      BY <2>2, <3>1 DEF Put, Talks
    <3>2. CASE x.k # "tool"
      BY <2>2, <3>2
    <3> QED
      BY <3>1, <3>2
  <2>6. ContentStep(c, x, json) = Append(c, y)
    BY ONLY <1>5, <2>1, Zenon DEF ContentStep
  <2> QED
    BY ONLY <1>2, <2>4, <2>5, <2>6, Zenon
<1> QED
  BY <1>4, <1>5

LEMMA MessagesTalk ==
  ASSUME NEW w \in Seq(Items), NEW json PROVE Talk(MessagesFinal(w, json)) = Talk(w)
<1>1. PICK n : n = Len(w)
  OBVIOUS
<1>2. n \in Nat /\ DOMAIN w = 1 .. n /\ \A m \in 1 .. n : w[m] \in Items
  BY <1>1, LenProperties, ElementOfSeq
<1>3. PICK g : g = (CHOOSE h : ContentsFrom(w, json, 1 .. n, h))
  OBVIOUS
<1>4. ContentsFrom(w, json, 1 .. n, g)
  BY <1>1, <1>3, ContentsExist
<1>5. MessagesContent(w, json) = (CHOOSE h : ContentsFrom(w, json, DOMAIN w, h))[DOMAIN w]
  BY DEF MessagesContent, FoldLeft, MapThenFoldSet, ContentsFrom
<1>6. MessagesContent(w, json) = g[1 .. n]
  BY ONLY <1>2, <1>3, <1>5, Zenon
<1>7. \A x \in SUBSET (1 .. n) : g[x] = IF x = {} THEN <<>> ELSE ContentStep(g[x \ {Max(x)}], w[Max(x)], json)
  <2>1. PICK d : d = SUBSET (1 .. n)
    OBVIOUS
  <2>2. \A x \in d : g[x] = IF x = {} THEN <<>>
                            ELSE IF w[Max(x)].k # "tool" /\ w[Max(x)].d = <<>> THEN g[x \ {Max(x)}]
                                 ELSE Append(g[x \ {Max(x)}], Input(w[Max(x)], json))
    BY <1>4, <2>1 DEF ContentsFrom
  <2> QED
    BY <2>1, <2>2 DEF ContentStep
<1>8. Chunks(Items)
  BY DEF Chunks, Items, Content, Kinds
<1>9. PICK p : Puts(w, Talks, Int, n, p)
  BY <1>1, <1>8, GatheredFold
<1> DEFINE A == {k \in Nat : k <= n => g[1 .. k] \in Seq(Items) /\ Talk(g[1 .. k]) = p[1 .. k]}
<1>10. 0 \in A
  <2>1. 1 .. 0 = {} /\ {} \in SUBSET (1 .. n)
    OBVIOUS
  <2>2. g[1 .. 0] = <<>> /\ p[1 .. 0] = <<>>
    BY <1>7, <1>9, <2>1 DEF Puts
  <2>3. Talk(<<>>) = <<>>
    BY GatheredNone DEF Talk
  <2>4. <<>> \in Seq(Items)
    OBVIOUS
  <2>5. g[1 .. 0] \in Seq(Items) /\ Talk(g[1 .. 0]) = p[1 .. 0]
    BY ONLY <2>2, <2>3, <2>4, Zenon
  <2> QED
    BY <2>5
<1>11. ASSUME NEW k \in Nat, k \in A PROVE k + 1 \in A
  <2>1. SUFFICES ASSUME k + 1 <= n PROVE g[1 .. k + 1] \in Seq(Items) /\ Talk(g[1 .. k + 1]) = p[1 .. k + 1]
    OBVIOUS
  <2>2. PICK x, y, l : x = 1 .. k + 1 /\ y = 1 .. k /\ l = k + 1
    OBVIOUS
  <2>3. x \in SUBSET (1 .. n) /\ x # {} /\ Max(x) = l /\ x \ {l} = y
    BY <1>2, <2>1, <2>2, PrefixOf
  <2>4. g[x] = ContentStep(g[y], w[l], json)
    BY ONLY <1>7, <2>3, Zenon
  <2>5. g[y] \in Seq(Items) /\ Talk(g[y]) = p[y] /\ w[l] \in Items
    BY <1>2, <1>11, <2>1, <2>2
  <2>6. p[x] = Put(p[y], w[l], Talks, Int)
    BY <1>9, <2>1, <2>2 DEF Puts
  <2>7. g[x] \in Seq(Items) /\ Talk(g[x]) = p[x]
    BY ONLY <2>4, <2>5, <2>6, ContentTyped, ContentTalks
  <2> QED
    BY <2>2, <2>7
<1> HIDE DEF A
<1>12. n \in A
  BY <1>2, <1>10, <1>11, NumberInduction
<1> USE DEF A
<1>13. Talk(MessagesContent(w, json)) = p[1 .. n]
  BY <1>2, <1>6, <1>12
<1>14. Talk(MessagesContent(w, json)) = Talk(w)
  <2>1. Gathered(w, Talks, Int) = p[1 .. n]
    BY <1>9 DEF Puts
  <2> QED
    BY ONLY <1>13, <2>1, Zenon DEF Talk, Talks
<1>15. CASE MessagesContent(w, json) = <<>>
  <2>1. PICK x : x = [i |-> 0, k |-> "text", d |-> <<>>]
    OBVIOUS
  <2>2. x \in Items /\ x.k # "tool" /\ x.d = <<>> /\ Input(x, TRUE) = x
    BY <2>1 DEF Items, Content, Input
  <2>3. Pieces(x) = <<>> /\ <<>> \in Seq(Items)
    BY <2>2 DEF Pieces
  <2>4. Gathered(Append(<<>>, x), Talks, Int) = Put(Gathered(<<>>, Talks, Int), x, Talks, Int)
    <3>1. PICK c : c = <<>>
      OBVIOUS
    <3>2. c \in Seq(Items) /\ x \in Items
      BY ONLY <2>2, <2>3, <3>1, Zenon
    <3>3. Gathered(Append(c, x), Talks, Int) = Put(Gathered(c, Talks, Int), x, Talks, Int)
      BY ONLY <1>8, <3>2, GatheredAppend
    <3> QED
      BY ONLY <3>1, <3>3, Zenon
  <2>5. Gathered(<<>>, Talks, Int) = <<>>
    BY GatheredNone
  <2>6. Put(<<>>, x, Talks, Int) = <<>>
    <3>1. <<>> \o <<>> = <<>>
      OBVIOUS
    <3> QED
      BY ONLY <2>3, <3>1, Zenon DEF Put
  <2>7. Append(<<>>, x) = <<x>>
    OBVIOUS
  <2>8. Talk(<<x>>) = <<>> /\ Talk(<<>>) = <<>>
    BY ONLY <2>4, <2>5, <2>6, <2>7, Zenon DEF Talk, Talks
  <2>9. MessagesFinal(w, json) = <<x>>
    BY <1>15, <2>1 DEF MessagesFinal
  <2> QED
    BY ONLY <1>14, <1>15, <2>8, <2>9, Zenon
<1>16. CASE MessagesContent(w, json) # <<>>
  <2>1. MessagesFinal(w, json) = MessagesContent(w, json)
    BY <1>16 DEF MessagesFinal
  <2> QED
    BY <1>14, <2>1
<1> QED
  BY <1>15, <1>16

-------------------------------------------------------------------------------
(* The items that end a Responses stream                                   *)

(* The items it has seen and those it has completed; the frame that ends   *)
(* the reply lists them.                                                   *)
Shell(s, done) ==
  LET indices == Ascending(Indexes(s))
      Completed(i) == \E f \in done : f.i = i
  IN [n \in DOMAIN indices |->
        LET x == s[CHOOSE m \in DOMAIN s : s[m].i = indices[n]] IN
        IF Completed(x.i) THEN CHOOSE f \in done : f.i = x.i ELSE Frame("incomplete", x.k, x.i, x.d)]
LEMMA ShellOf == ASSUME NEW e PROVE ResponseShell(e) = Shell(e.seen, e.completed)
BY DEF ResponseShell, Shell, Ordinal, Indexes

Finished(done, a) ==
  /\ \A f \in done : f.t = "output_item.done" /\ Remembers(f, a) /\ Shuts(a, f.i)
  /\ \A i : Shuts(a, i) => \E f \in done : f.i = i
Shelled(e, a) ==
  /\ IsEncoder(e) /\ Framed(e.out) /\ Table(e.seen, a) /\ Finished(e.completed, a)
  /\ Over(a) => e.out # <<>> /\ Last(e.out).d = Shell(e.seen, e.completed)
LEMMA FinishedSame ==
  ASSUME NEW a, NEW ev, NEW c, Further(a, ev, c), ev.t # "close", NEW done, Finished(done, a) PROVE Finished(done, c)
<1>1. ASSUME NEW f \in done PROVE f.t = "output_item.done" /\ Remembers(f, c) /\ Shuts(c, f.i)
  <2>1. f.t = "output_item.done" /\ Remembers(f, a) /\ Shuts(a, f.i)
    BY DEF Finished
  <2>2. ~(ev.t = "delta" /\ ev.i = f.i)
    BY <2>1 DEF Further, Fits
  <2>3. Remembers(f, c)
    BY <2>1, <2>2, RemembersOn
  <2>4. Shuts(c, f.i)
    BY <2>1, Onward
  <2> QED
    BY <2>1, <2>3, <2>4
<1>2. \A i : Shuts(c, i) => Shuts(a, i)
  BY Onward
<1> QED
  BY <1>1, <1>2 DEF Finished

LEMMA FinishedMore ==
  ASSUME NEW a, NEW ev, NEW c, Further(a, ev, c), ev.t = "close", NEW done, Finished(done, a),
         NEW f, f.t = "output_item.done", f.i = ev.i, Remembers(f, c),
         NEW more, more = {x \in done : x.i # ev.i} \cup {f}
  PROVE  Finished(more, c)
<1>1. Shuts(c, ev.i)
  BY Onward
<1>2. ASSUME NEW x \in more, x # f PROVE x.t = "output_item.done" /\ Remembers(x, c) /\ Shuts(c, x.i)
  <2>1. x \in done /\ x.t = "output_item.done" /\ Remembers(x, a) /\ Shuts(a, x.i)
    BY <1>2 DEF Finished
  <2>2. Remembers(x, c)
    BY <2>1, RemembersOn
  <2>3. Shuts(c, x.i)
    BY <2>1, Onward
  <2> QED
    BY <2>1, <2>2, <2>3
<1>3. \A i : Shuts(c, i) => Shuts(a, i) \/ i = ev.i
  BY Onward
<1>4. \A x \in more : x.t = "output_item.done" /\ Remembers(x, c) /\ Shuts(c, x.i)
  BY <1>1, <1>2
<1>5. \A i : Shuts(c, i) => \E x \in more : x.i = i
  BY <1>3 DEF Finished
<1> QED
  BY ONLY <1>4, <1>5 DEF Finished

(* What it keeps of a block when the block is closed.                      *)
LEMMA KeptOfClosed ==
  ASSUME NEW a, NEW ev, NEW c, Further(a, ev, c), ev.t = "close", NEW e, Table(e.seen, a),
         NEW f, f = Frame("output_item.done", ev.k, ev.i, Kept(e, ev))
  PROVE  f.t = "output_item.done" /\ f.i = ev.i /\ Remembers(f, c)
<1>1. f.t = "output_item.done" /\ f.i = ev.i /\ f.k = ev.k /\ f.d = Kept(e, ev)
  <2>1. PICK d : d = Kept(e, ev)
    OBVIOUS
  <2> QED
    BY <2>1 DEF Frame, Event
<1>2. CASE ev.k = "tool"
  <2>1. f.d = ev.d
    BY <1>1, <1>2 DEF Kept
  <2> QED
    BY <1>1, <1>2, <2>1, RemembersClose
<1>3. CASE ev.k # "tool"
  <2>1. PICK x, s, n : s = e.seen /\ n = Ordinal(e, ev.i) /\ x = s[n]
    OBVIOUS
  <2>2. Opens(a, ev.i, ev.k)
    BY DEF Further, Fits
  <2>3. n \in DOMAIN s /\ x.i = ev.i
    <3>1. Seen(e, ev.i)
      BY <2>2 DEF Table, Seen
    <3> QED
      BY ONLY <2>1, <3>1, OrdinalSeen
  <2>4. Remembers(x, a)
    BY <2>1, <2>3 DEF Table
  <2>5. Remembers(x, c)
    BY <2>4, RemembersOn
  <2>6. x.k = ev.k
    BY <2>2, <2>3, <2>4 DEF Further, Orderly, Remembers
  <2>7. f.d = x.d
    BY <1>1, <1>3, <2>1 DEF Kept
  <2>8. Pieces(f) = Pieces(x)
    BY ONLY <1>1, <2>6, <2>7, SamePieces
  <2>9. f.i = x.i /\ f.k = x.k /\ f.d = x.d /\ x.k # "tool"
    BY <1>1, <1>3, <2>3, <2>6, <2>7
  <2>10. Remembers(f, c)
    BY ONLY <2>5, <2>8, <2>9 DEF Remembers
  <2> QED
    BY <1>1, <2>10
<1> QED
  BY <1>2, <1>3

LEMMA ShelledWith ==
  ASSUME NEW a, NEW ev, NEW c, Further(a, ev, c), NEW e, Shelled(e, a),
         NEW u, IsEncoder(u), u.out = e.out, Table(u.seen, c), Finished(u.completed, c),
         NEW f, ev.t \in {"done", "error"} => f.d = Shell(u.seen, u.completed)
  PROVE  Shelled(Write(u, <<f>>), c)
<1>1. PICK w, o, v : w = u.out /\ o = w \o <<f>> /\ v = Write(u, <<f>>)
  OBVIOUS
<1>2. v = [u EXCEPT !.out = o]
  BY <1>1 DEF Write
<1>3. IsEncoder(v) /\ v.out = o /\ v.seen = u.seen /\ v.completed = u.completed
  BY <1>2 DEF IsEncoder
<1>4. OneLonger(w, f, o)
  BY <1>1, OneLongerConcat DEF Shelled
<1>5. Framed(o) /\ o # <<>> /\ Last(o) = f
  BY <1>4 DEF OneLonger, Last
<1>6. Over(c) => ev.t \in {"done", "error"}
  BY AppendSays DEF Further, Fits
<1>7. Over(c) => o # <<>> /\ Last(o).d = Shell(u.seen, u.completed)
  BY <1>5, <1>6
<1>8. Shelled(v, c)
  BY ONLY <1>3, <1>5, <1>7, Table(u.seen, c), Finished(u.completed, c), Zenon DEF Shelled
<1> QED
  BY <1>1, <1>8

LEMMA ShelledNext ==
  ASSUME NEW a, NEW ev, NEW c, Further(a, ev, c), ev.t # "error", NEW e, Shelled(e, a)
  PROVE  Shelled(ResponsesEncode(e, ev), c)
<1>1. IsEncoder(e) /\ Table(e.seen, a) /\ Finished(e.completed, a)
  BY DEF Shelled
<1>2. ev.t \in {"start", "open", "delta", "close", "done"} /\ a \in Seq(Events) /\ Fits(a, ev)
  BY DEF Further, Events
<1>3. PICK m : m = Item(e, ev.i, ev.k)
  OBVIOUS
<1>4. CASE ev.t = "start"
  <2>1. PICK f : f = Frame("response.created", "none", -1, <<>>)
    OBVIOUS
  <2>2. ResponsesEncode(e, ev) = Write(e, <<f>>)
    BY <1>4, <2>1 DEF ResponsesEncode
  <2>3. Table(e.seen, c) /\ Finished(e.completed, c)
    BY <1>1, <1>4, TableSame, FinishedSame
  <2> QED
    BY <1>1, <1>4, <2>2, <2>3, ShelledWith
<1>5. CASE ev.t = "open"
  <2>1. PICK f : f = Frame("output_item.added", ev.k, ev.i, <<>>)
    OBVIOUS
  <2>2. ResponsesEncode(e, ev) = Write(m, <<f>>)
    BY <1>3, <1>5, <2>1 DEF ResponsesEncode
  <2>3. PICK s : s = Append(e.seen, [i |-> ev.i, k |-> ev.k, d |-> <<>>])
    OBVIOUS
  <2>4. ~Seen(e, ev.i) /\ Table(s, c)
    BY <1>1, <1>5, <2>3, TableNew DEF Seen
  <2>5. m = [e EXCEPT !.seen = s]
    BY <1>3, <2>3, <2>4 DEF Item
  <2>6. IsEncoder(m) /\ m.out = e.out /\ m.seen = s /\ m.completed = e.completed
    BY <1>1, <2>5 DEF IsEncoder
  <2>7. Finished(e.completed, c)
    BY <1>1, <1>5, FinishedSame
  <2> QED
    BY <1>5, <2>2, <2>4, <2>6, <2>7, ShelledWith
<1>6. ASSUME ev.t \in {"delta", "close"} PROVE Seen(e, ev.i) /\ m = e
  <2>1. Opens(a, ev.i, ev.k)
    BY <1>2, <1>6 DEF Fits
  <2>2. Seen(e, ev.i)
    BY <1>1, <2>1 DEF Table, Seen
  <2> QED
    BY <1>3, <2>2 DEF Item
<1>7. CASE ev.t = "delta"
  <2>1. PICK f, n, s : /\ f = Frame("output.delta", ev.k, ev.i, ev.d)
                       /\ n = Ordinal(e, ev.i) /\ s = [e.seen EXCEPT ![n].d = @ \o ev.d]
    OBVIOUS
  <2>2. PICK u : u = Grown(e, ev.i, ev.d)
    OBVIOUS
  <2>3. ResponsesEncode(e, ev) = Write(u, <<f>>)
    BY <1>3, <1>6, <1>7, <2>1, <2>2 DEF ResponsesEncode
  <2>4. n \in DOMAIN e.seen /\ e.seen[n].i = ev.i
    BY <1>6, <1>7, <2>1, OrdinalSeen
  <2>5. Table(s, c)
    <3>1. Table([e.seen EXCEPT ![n].d = @ \o ev.d], c)
      BY <1>1, <1>7, <2>4, TableGrown
    <3> QED
      BY ONLY <2>1, <3>1, Zenon
  <2>6. u = [e EXCEPT !.seen = s]
    BY ONLY <2>1, <2>2 DEF Grown
  <2>7. IsEncoder(u) /\ u.out = e.out /\ u.seen = s /\ u.completed = e.completed
    BY ONLY <1>1, <2>6 DEF IsEncoder
  <2>8. Finished(e.completed, c)
    BY <1>1, <1>7, FinishedSame
  <2> QED
    BY <1>7, <2>3, <2>5, <2>7, <2>8, ShelledWith
<1>8. CASE ev.t = "close"
  <2>1. PICK f : f = Frame("output_item.done", ev.k, ev.i, Kept(e, ev))
    OBVIOUS
  <2>2. PICK u, more : u = [e EXCEPT !.completed = more] /\ more = {x \in e.completed : x.i # ev.i} \cup {f}
    OBVIOUS
  <2>3. ResponsesEncode(e, ev) = Write(u, <<f>>)
    BY <1>3, <1>6, <1>8, <2>1, <2>2 DEF ResponsesEncode
  <2>4. IsEncoder(u) /\ u.out = e.out /\ u.seen = e.seen /\ u.completed = more
    BY <1>1, <2>2 DEF IsEncoder
  <2>5. f.t = "output_item.done" /\ f.i = ev.i /\ Remembers(f, c)
    BY <1>1, <1>8, <2>1, KeptOfClosed
  <2>6. Finished(more, c)
    BY <1>1, <1>8, <2>2, <2>5, FinishedMore
  <2>7. Table(e.seen, c)
    BY <1>1, <1>8, TableSame
  <2> QED
    BY <1>8, <2>3, <2>4, <2>6, <2>7, ShelledWith
<1>9. CASE ev.t = "done"
  <2>1. PICK f, q, r : f = Frame(q, "none", -1, r) /\ q = ResponseStatus(ev.k) /\ r = ResponseShell(e)
    OBVIOUS
  <2>2. ResponsesEncode(e, ev) = Write(e, <<f>>)
    BY <1>9, <2>1 DEF ResponsesEncode
  <2>3. Table(e.seen, c) /\ Finished(e.completed, c)
    BY <1>1, <1>9, TableSame, FinishedSame
  <2>4. f.d = Shell(e.seen, e.completed)
    <3>1. f.d = r
      BY ONLY <2>1 DEF Frame, Event
    <3> QED
      BY ONLY <2>1, <3>1, ShellOf, Zenon
  <2> QED
    BY <1>1, <1>9, <2>2, <2>3, <2>4, ShelledWith
<1> QED
  BY <1>2, <1>4, <1>5, <1>7, <1>8, <1>9

LEMMA ShelledAll ==
  ASSUME sent \in Seq(Events), EventsOK(sent), \A n \in DOMAIN sent : sent[n].t # "error"
  PROVE  Shelled(Encoder("responses"), sent)
<1>1. PICK p, n : p = "responses" /\ n = Len(sent)
  OBVIOUS
<1>2. PICK g : /\ Encoder(p) = g[1 .. n] /\ g[1 .. 0] = NewStreamEncoder
               /\ \A k \in Nat : k + 1 <= n => g[1 .. k + 1] = Encode(p, g[1 .. k], sent[k + 1])
  BY <1>1, EncoderIsFold
<1>3. n \in Nat /\ DOMAIN sent = 1 .. n /\ \A m \in 1 .. n : sent[m] \in Events
  BY <1>1, LenProperties, ElementOfSeq
<1> DEFINE Gone(k) == LET c == SubSeq(sent, 1, k) IN c \in Seq(Events) /\ EventsOK(c) /\ Shelled(g[1 .. k], c)
           S == {k \in Nat : k <= n => Gone(k)}
<1>4. 0 \in S
  <2>1. SubSeq(sent, 1, 0) = <<>> /\ <<>> \in Seq(Events) /\ EventsOK(<<>>) /\ ~Over(<<>>) /\ \A i : ~Shuts(<<>>, i)
    BY SubSeqEmpty, NothingSaid
  <2>2. PICK e : e = NewStreamEncoder
    OBVIOUS
  <2>3. IsEncoder(e) /\ e.out = <<>> /\ e.seen = <<>> /\ e.completed = {}
    BY <2>2 DEF NewStreamEncoder, IsEncoder
  <2>4. Framed(e.out)
    BY <2>1, <2>3 DEF Framed
  <2>5. Finished({}, <<>>)
    BY <2>1 DEF Finished
  <2>6. Shelled(e, <<>>)
    BY ONLY <2>1, <2>3, <2>4, <2>5, NoTable, Zenon DEF Shelled
  <2>7. Gone(0)
    BY <1>2, <2>1, <2>2, <2>6
  <2> HIDE DEF Gone
  <2> QED
    BY <2>7
<1>5. ASSUME NEW k \in Nat, k \in S PROVE k + 1 \in S
  <2>1. SUFFICES ASSUME k + 1 <= n PROVE Gone(k + 1)
    OBVIOUS
  <2>2. PICK s, ev, c, e : s = SubSeq(sent, 1, k) /\ ev = sent[k + 1] /\ c = SubSeq(sent, 1, k + 1) /\ e = g[1 .. k]
    OBVIOUS
  <2>3. Gone(k)
    BY <1>3, <1>5, <2>1
  <2>4. s \in Seq(Events) /\ EventsOK(s) /\ Shelled(e, s)
    BY <2>2, <2>3
  <2>5. ev.t # "error"
    <3>1. k + 1 \in DOMAIN sent
      BY ONLY <1>3, <2>1, k \in Nat
    <3> QED
      BY <2>2, <3>1
  <2>6. Further(s, ev, c) /\ c \in Seq(Events) /\ EventsOK(c)
    BY <1>1, <2>1, <2>2, <2>4, FurtherOn
  <2>7. g[1 .. k + 1] = ResponsesEncode(e, ev)
    <3>1. g[1 .. k + 1] = Encode(p, e, ev)
      BY <1>2, <2>1, <2>2
    <3> QED
      BY <1>1, <3>1 DEF Encode
  <2>8. Shelled(ResponsesEncode(e, ev), c)
    BY <2>4, <2>5, <2>6, ShelledNext
  <2> QED
    BY <2>2, <2>6, <2>7, <2>8
<1> HIDE DEF S
<1>6. n \in S
  BY <1>3, <1>4, <1>5, NumberInduction
<1> USE DEF S
<1>7. Gone(n)
  <2> HIDE DEF Gone
  <2> QED
    BY <1>3, <1>6
<1>8. SubSeq(sent, 1, n) = sent
  BY <1>1, SubSeqFull
<1> QED
  BY <1>1, <1>2, <1>7, <1>8

(* When every block has been closed, it lists them as they were closed.    *)
LEMMA ShellLists ==
  ASSUME NEW a \in Seq(Events), ClosesTell(a), NEW s, Table(s, a), NEW done, Finished(done, a),
         \A i, k : Opens(a, i, k) => Shuts(a, i)
  PROVE  /\ Shell(s, done) \in Seq(done) /\ Lists(Shell(s, done), a) /\ Chunks(done)
         /\ \A n \in DOMAIN Shell(s, done) : Shell(s, done)[n].t # "incomplete"
<1>1. PICK q, l : q = Ascending(Indexes(s)) /\ l = Shell(s, done)
  OBVIOUS
<1>2. s \in Seq(Items) /\ Len(s) \in Nat /\ DOMAIN s = 1 .. Len(s) /\ \A n \in DOMAIN s : s[n] \in Items
  <2>1. s \in Seq(Items)
    BY DEF Table
  <2> QED
    BY <2>1, LenProperties, ElementOfSeq
<1>3. PICK c \in Nat : Rises(q, Indexes(s), c) /\ \A x \in Indexes(s) : \E n \in 1 .. c : q[n] = x
  <2>1. \A n \in DOMAIN s : s[n].i \in Int
    BY <1>2 DEF Items
  <2>2. \E j \in Nat : /\ Rises(Ascending(Indexes(s)), Indexes(s), j)
                       /\ \A x \in Indexes(s) : \E n \in 1 .. j : Ascending(Indexes(s))[n] = x
    BY ONLY <1>2, <2>1, AscendingLists
  <2> QED
    BY ONLY <1>1, <2>2, Zenon
<1>4. DOMAIN q = 1 .. c /\ \A n \in 1 .. c : \E m \in DOMAIN s : s[m].i = q[n]
  BY <1>3 DEF Rises, Indexes
<1>5. DOMAIN l = 1 .. c
  BY <1>1, <1>4 DEF Shell
<1>6. ASSUME NEW n \in 1 .. c PROVE l[n] \in done /\ l[n].i = q[n]
  <2>1. PICK m, x : m = (CHOOSE j \in DOMAIN s : s[j].i = q[n]) /\ x = s[m]
    OBVIOUS
  <2>2. m \in DOMAIN s /\ x.i = q[n]
    BY <1>4, <2>1, RowFound
  <2>3. Opens(a, x.i, x.k)
    BY <2>1, <2>2 DEF Table, Remembers
  <2>4. \E f \in done : f.i = x.i
    BY <2>3 DEF Finished
  <2>5. l[n] = CHOOSE f \in done : f.i = x.i
    BY <1>1, <1>4, <2>1, <2>4 DEF Shell
  <2> QED
    BY <2>2, <2>4, <2>5
<1>7. \A f \in done : Block(f, a) /\ f.t = "output_item.done"
  BY RememberedIsBlock DEF Finished
<1>8. Chunks(done)
  BY <1>7 DEF Block, Chunks, Content, Kinds
<1>9. l \in Seq(done)
  <2>1. l = [n \in 1 .. c |-> l[n]]
    BY <1>1, <1>4 DEF Shell
  <2> QED
    BY <1>3, <1>6, <2>1
<1>10. Lists(l, a)
  <2>1. PICK o : o = Ascending(Indexes(s))
    OBVIOUS
  <2>2. \A n \in 1 .. c : Block(l[n], a) /\ l[n].i = o[n]
    BY ONLY <1>1, <1>6, <1>7, <2>1
  <2>3. Rises(o, Indexes(s), c) /\ \A x \in Indexes(s) : \E n \in 1 .. c : o[n] = x
    BY ONLY <1>1, <1>3, <2>1
  <2> QED
    BY ONLY Table(s, a), <1>3, <1>5, <2>1, <2>2, <2>3, TableListed
<1> QED
  BY <1>1, <1>5, <1>6, <1>7, <1>8, <1>9, <1>10

-------------------------------------------------------------------------------
(* The message of a complete reply                                         *)

LEMMA MessageFollows == FlowInvariant /\ SaidInvariant => MessageIsWhatWasSaid
<1> SUFFICES ASSUME FlowInvariant, SaidInvariant, reply = "complete" PROVE MessageIsWhatWasSaid
  BY DEF MessageIsWhatWasSaid
<1>1. /\ sent \in Seq(Events) /\ EventsOK(sent) /\ Over(sent) /\ \A n \in DOMAIN sent : sent[n].t # "error"
      /\ dec \in Decoders /\ AgreedWith(dec, sent, heard, {}) /\ AllStarted(dec)
  BY DEF FlowInvariant, SaidInvariant
<1>2. ClosesTell(sent)
  BY <1>1 DEF AgreedWith
<1>3. Chunks(Items)
  BY DEF Chunks, Items, Content, Kinds
<1>4. PICK blocks : blocks = Aggregate(sent)
  OBVIOUS
<1>5. blocks \in Seq(Items) /\ Lists(blocks, sent)
  BY <1>1, <1>2, <1>4, AggregateLists
<1>6. Reports(blocks)
  BY ONLY <1>1, <1>3, <1>5, ListReports
<1>7. Same(ResponsesFinal(blocks))
  BY ONLY <1>6, Zenon DEF Reports, ResponsesFinal
<1>8. \A json \in BOOLEAN : Talk(MessagesFinal(blocks, json)) = Talk(heard)
  <2>1. Talk(blocks) = Talk(heard)
    BY ONLY <1>6, Zenon DEF Reports, Same
  <2> QED
    BY ONLY <1>5, <2>1, MessagesTalk, Zenon
<1>9. \A k \in {"text", "think"} : ChatFinal(blocks, k) = Gathered(heard, {k}, Int)
  BY ONLY <1>6, Zenon DEF Reports, ChatFinal, Talks
<1>10. PICK e, items : e = Encoder("responses") /\ items = Shell(e.seen, e.completed)
  OBVIOUS
<1>11. Shelled(e, sent)
  BY <1>1, <1>10, ShelledAll
<1>12. \A i, k : Opens(sent, i, k) => Shuts(sent, i)
  <2>1. "responses" \in Protocols
    BY DEF Protocols
  <2>2. EncoderKnows("responses", e, sent)
    BY ONLY <1>10, <2>1, FlowInvariant, EncoderTellsAll DEF EncoderTells, FlowInvariant
  <2>3. WrittenOf(e, sent)
    BY <2>1, <2>2, EncoderHasWritten
  <2> QED
    BY <1>1, <2>3 DEF WrittenOf
<1>13. PICK done : done = e.completed
  OBVIOUS
<1>14. items \in Seq(done) /\ Lists(items, sent) /\ Chunks(done) /\ \A n \in DOMAIN items : items[n].t # "incomplete"
  <2>1. Table(e.seen, sent) /\ Finished(done, sent)
    BY <1>11, <1>13 DEF Shelled
  <2>2. PICK s : s = e.seen
    OBVIOUS
  <2>3. items = Shell(s, done)
    BY ONLY <1>10, <1>13, <2>2, Zenon
  <2> QED
    BY ONLY <1>1, <1>2, <1>12, <2>1, <2>2, <2>3, ShellLists
<1>15. Same(items)
  <2>1. Reports(items)
    BY ONLY <1>1, <1>14, ListReports
  <2> QED
    BY ONLY <2>1, Zenon DEF Reports
<1>16. Last(Wire("responses")).d = items
  <2>1. PICK w : w = e.out
    OBVIOUS
  <2>2. Wire("responses") = w
    BY <1>10, <2>1 DEF Wire
  <2>3. Last(e.out).d = Shell(e.seen, e.completed)
    BY <1>1, <1>11 DEF Shelled
  <2> QED
    BY ONLY <1>10, <2>1, <2>2, <2>3, Zenon
<1> QED
  BY ONLY <1>4, <1>7, <1>8, <1>9, <1>14, <1>15, <1>16, Zenon DEF MessageIsWhatWasSaid

(* A complete reply that is put together is what the upstream has said: in *)
(* the list of items that ends a Responses stream and in the message of    *)
(* each protocol, the talk in order and the arguments of every tool call,  *)
(* no more and no less (aggregate, and the state the Responses encoder     *)
(* keeps of its items).                                                    *)
THEOREM WholeMessageIsWhatWasSaid == Spec => []MessageIsWhatWasSaid
<1> QED
  BY FlowInit, FlowStep, SaidInit, SaidStep, MessageFollows, PTL DEF Spec

(* What a client is given is what the upstream has said, streamed or put   *)
(* together, and a reply that was cut off is not given as a complete one,  *)
(* for all four decoders and in all three protocols.                       *)
THEOREM WhatIsGivenWasSaid == Spec => []ReplyIsWhatWasSaid
<1>1. CompleteIsMarked /\ StreamIsWhatWasSaid /\ MessageIsWhatWasSaid => ReplyIsWhatWasSaid
  BY DEF ReplyIsWhatWasSaid
<1> QED
  BY <1>1, CutOffIsNotComplete, StreamedIsWhatWasSaid, WholeMessageIsWhatWasSaid, PTL
===============================================================================
