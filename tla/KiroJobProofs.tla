----------------------------- MODULE KiroJobProofs ------------------------------
(***************************************************************************)
(* What ends a job, that the adapter forgets it, that every tool call is   *)
(* told to one client once and that every reply is well-formed, for any    *)
(* number of requests, tool calls, pieces of text and places in a channel. *)
(***************************************************************************)
EXTENDS KiroJob, SequenceTheorems, InductionLemmas, TLAPS

(* A stream has no end mark before its request has got its last event or   *)
(* closed it; and the index names the calls the job knows until close()    *)
(* collects them, and those it has collected until it removes them.        *)
StreamInv ==
  \A q \in Requests : ended[q] => state[q] \in {"over", "closed"}
IndexInv ==
  /\ order \in Seq(Calls) /\ closing \in {"no", "cancelled", "marked", "done"}
  /\ pending \subseteq (CASE closing = "marked" -> doomed [] closing = "done" -> {} [] OTHER -> Registered)
  /\ closing \in {"no", "cancelled"} => Registered \subseteq pending
JobInv ==
  /\ ended \in [Requests -> BOOLEAN] /\ DOMAIN state = Requests
  /\ StreamInv /\ IndexInv

-------------------------------------------------------------------------------
LEMMA JobInitInv == Init => JobInv
BY DEF Init, JobInv, StreamInv, IndexInv, Registered, ToSet

(* Steps that leave requests or the job's calls alone.                     *)
LEMMA StreamsKept ==
  ASSUME JobInv, UNCHANGED <<ended, state>>
  PROVE  ended' \in [Requests -> BOOLEAN] /\ DOMAIN state' = Requests /\ StreamInv'
BY DEF JobInv, StreamInv
LEMMA IndexKept ==
  ASSUME JobInv, UNCHANGED <<order, pending>>,
         UNCHANGED <<closing, doomed>> \/ (closing = "no" /\ closing' = "cancelled")
  PROVE  IndexInv'
BY DEF JobInv, IndexInv, Registered

(* A call that comes in after close() is refused, and enters index and job *)
(* together before.                                                        *)
LEMMA ServeCallStep ==
  ASSUME JobInv, NEW t \in Calls, ServeCall(t) PROVE JobInv'
<1>1. UNCHANGED <<ended, state, closing, doomed>>
  BY DEF ServeCall, closeVars
<1>2. CASE Closed
  <2>1. UNCHANGED <<order, pending>>
    BY <1>2 DEF ServeCall, Refuse
  <2> QED
    BY <1>1, <2>1, StreamsKept, IndexKept DEF JobInv
<1>3. CASE ~Closed
  <2>1. order' = Append(order, t) /\ pending' = pending \cup {t}
    BY <1>3 DEF ServeCall, Deliver
  <2>2. order \in Seq(Calls) /\ closing \in {"no", "cancelled"} /\ pending = Registered
    BY <1>3 DEF JobInv, IndexInv, Closed
  <2>3. order' \in Seq(Calls) /\ Registered' = Registered \cup {t}
    <3>1. /\ order' \in Seq(Calls) /\ Len(order') = Len(order) + 1 /\ order'[Len(order) + 1] = t
          /\ DOMAIN order = 1 .. Len(order) /\ DOMAIN order' = 1 .. Len(order) + 1 /\ Len(order) \in Nat
          /\ \A n \in DOMAIN order : order'[n] = order[n]
      BY <2>1, <2>2
    <3>2. \A x : x \in Registered' <=> x \in Registered \cup {t}
      BY <3>1 DEF Registered, ToSet
    <3> QED
      BY <3>1, <3>2
  <2> QED
    BY <1>1, <2>1, <2>2, <2>3, StreamsKept DEF JobInv, IndexInv
<1> QED
  BY <1>2, <1>3

LEMMA CloseStep ==
  ASSUME JobInv, CloseMarks \/ CloseForgets PROVE JobInv'
<1>1. UNCHANGED <<ended, state, order>>
  BY DEF CloseMarks, CloseForgets, jobVars, streamVars
<1>2. IndexInv'
  BY DEF CloseMarks, CloseForgets, jobVars, JobInv, IndexInv, Registered
<1> QED
  BY <1>1, <1>2, StreamsKept DEF JobInv

(* The steps of requests, of which only the end of a stream marks it.      *)
RequestStep(q) ==
  \/ \E r \in SUBSET Calls : Return(q, r)
  \/ CheckFails(q) \/ ResumeRefused(q) \/ Resume(q) \/ RecvMarksEnd(q) \/ CloseStream(q)
LEMMA RequestKeeps ==
  ASSUME JobInv, Start \/ StartFails \/ StartJob \/ \E q \in Requests : RequestStep(q)
  PROVE  JobInv'
<1>1. UNCHANGED <<order, pending>>
  BY DEF Start, StartFails, StartJob, RequestStep, Return, CheckFails, ResumeRefused, Resume, RecvMarksEnd,
         CloseStream, jobVars
<1>2. UNCHANGED <<closing, doomed>> \/ (closing = "no" /\ closing' = "cancelled")
  BY DEF Start, StartFails, StartJob, RequestStep, Return, CheckFails, ResumeRefused, Resume, RecvMarksEnd,
         CloseStream, CloseBegins, closeVars
<1>3. ASSUME NEW q \in Requests, NEW old, NEW new,
             state[q] = old, state' = [state EXCEPT ![q] = new],
             \/ ended' = ended /\ old \in {"idle", "setup", "checking"}
             \/ ended' = [ended EXCEPT ![q] = TRUE] /\ new \in {"over", "closed"}
      PROVE  ended' \in [Requests -> BOOLEAN] /\ DOMAIN state' = Requests /\ StreamInv'
  BY <1>3 DEF JobInv, StreamInv
<1>4. ended' \in [Requests -> BOOLEAN] /\ DOMAIN state' = Requests /\ StreamInv'
  <2>1. CASE Start \/ StartFails \/ StartJob
    BY <1>3, <2>1, JobAssumption DEF Start, StartFails, StartJob, Starter, Requests
  <2>2. ASSUME NEW q \in Requests, RequestStep(q)
        PROVE  ended' \in [Requests -> BOOLEAN] /\ DOMAIN state' = Requests /\ StreamInv'
    BY <1>3, <2>2 DEF RequestStep, Return, CheckFails, ResumeRefused, Resume, RecvMarksEnd, CloseStream
  <2> QED
    BY <2>1, <2>2
<1> QED
  BY <1>1, <1>2, <1>4, IndexKept DEF JobInv

(* All others touch neither requests nor the calls the job knows.          *)
LEMMA OtherStep ==
  ASSUME JobInv,
         \/ JobTimeout \/ GoOn \/ AgentSpeaks \/ AgentEnds \/ Notify \/ PromptReturns \/ PromptCloses
         \/ \E t \in Calls : AgentCalls(t) \/ CallReturns(t) \/ AgentHangsUp(t)
         \/ \E q \in Requests : RecvEvent(q) \/ WatchChecks(q) \/ WatchCloses(q)
         \/ UNCHANGED vars
  PROVE  JobInv'
<1>1. UNCHANGED <<ended, state>>
  BY DEF JobTimeout, GoOn, AgentSpeaks, AgentEnds, Notify, PromptReturns, PromptCloses, AgentCalls, CallReturns,
         AgentHangsUp, RecvEvent, WatchChecks, WatchCloses, streamVars, vars
<1>2. UNCHANGED <<order, pending>>
  BY DEF JobTimeout, GoOn, AgentSpeaks, AgentEnds, Notify, PromptReturns, PromptCloses, AgentCalls, CallReturns,
         AgentHangsUp, RecvEvent, WatchChecks, WatchCloses, jobVars, vars
<1>3. UNCHANGED <<closing, doomed>> \/ (closing = "no" /\ closing' = "cancelled")
  BY DEF JobTimeout, GoOn, AgentSpeaks, AgentEnds, Notify, PromptReturns, PromptCloses, AgentCalls, CallReturns,
         AgentHangsUp, RecvEvent, WatchChecks, WatchCloses, CloseBegins, closeVars, vars
<1> QED
  BY <1>1, <1>2, <1>3, StreamsKept, IndexKept DEF JobInv

LEMMA JobStep == ASSUME JobInv, [Next]_vars PROVE JobInv'
BY ServeCallStep, CloseStep, RequestKeeps, OtherStep DEF Next, RequestStep

-------------------------------------------------------------------------------
(* The end marks of the streams and the adapter's index of tool calls hold *)
(* through every order of requests, calls and close() (job.go).            *)
THEOREM JobInvariant == Spec => []JobInv
BY JobInitInv, JobStep, PTL DEF Spec

(* A job that is over is found by no call, however close() interleaves     *)
(* with calls that come in (close, serveMCP).                              *)
THEOREM JobForgotten == Spec => [](closing = "done" => pending = {})
<1>1. JobInv => (closing = "done" => pending = {})
  BY DEF JobInv, IndexInv
<1> QED
  BY <1>1, JobInvariant, PTL

(* A request that was handed tool calls and has ended is not what ends the *)
(* job: neither its handler's Close nor a failed check of its account does *)
(* (Close, continueJob), no watcher that looks after the end begins to     *)
(* (watch), and only one that had looked before it may still close the job.*)
THEOREM HandOffKept == Spec => HandOffSurvives
<1>1. ASSUME JobInv, [Next]_vars, NEW q \in Requests, HandedOff(q), ended[q]
      PROVE  /\ q \notin leaving => q \notin leaving'
             /\ closer' = q /\ closer # q => q \in leaving
  <2>1. ASSUME NEW who, CloseBegins(who)
        PROVE  (closer' = closer \/ closer' = who) /\ leaving' \in {leaving, {}}
    BY <2>1 DEF CloseBegins, closeVars
  <2>2. NoRequest # q
    BY DEF NoRequest, Requests
  <2>3. CASE CloseMarks \/ JobTimeout \/ PromptCloses \/ StartFails \/ \E t \in Calls : AgentHangsUp(t)
    BY <2>1, <2>2, <2>3 DEF CloseMarks, JobTimeout, PromptCloses, StartFails, AgentHangsUp
  <2>4. CASE UNCHANGED <<closer, leaving>>
    BY <2>4
  <2>5. ASSUME NEW p \in Requests, CheckFails(p)
        PROVE  /\ q \notin leaving => q \notin leaving'
               /\ closer' = q /\ closer # q => q \in leaving
    <3>1. p # q
      BY <1>1, <2>5 DEF CheckFails, JobInv, StreamInv
    <3> QED
      BY <2>1, <2>5, <3>1 DEF CheckFails
  <2>6. ASSUME NEW p \in Requests, CloseStream(p)
        PROVE  /\ q \notin leaving => q \notin leaving'
               /\ closer' = q /\ closer # q => q \in leaving
    <3>1. CASE p = q
      BY <1>1, <2>6, <3>1 DEF CloseStream, closeVars
    <3>2. CASE p # q
      BY <2>1, <2>6, <3>2 DEF CloseStream, closeVars
    <3> QED
      BY <3>1, <3>2
  <2>7. ASSUME NEW p \in Requests, WatchChecks(p)
        PROVE  /\ q \notin leaving => q \notin leaving'
               /\ closer' = q /\ closer # q => q \in leaving
    BY <1>1, <2>7 DEF WatchChecks
  <2>8. ASSUME NEW p \in Requests, WatchCloses(p)
        PROVE  /\ q \notin leaving => q \notin leaving'
               /\ closer' = q /\ closer # q => q \in leaving
    BY <2>1, <2>8 DEF WatchCloses
  <2>9. \/ CloseMarks \/ JobTimeout \/ PromptCloses \/ StartFails \/ \E t \in Calls : AgentHangsUp(t)
        \/ UNCHANGED <<closer, leaving>>
        \/ \E p \in Requests : CheckFails(p) \/ CloseStream(p) \/ WatchChecks(p) \/ WatchCloses(p)
    BY <1>1 DEF Next, CloseForgets, GoOn, AgentSpeaks, AgentEnds, Notify, PromptReturns, AgentCalls, ServeCall,
           CallReturns, Start, StartJob, Return, ResumeRefused, Resume, RecvEvent, RecvMarksEnd, closeVars, vars
  <2> QED
    BY <2>3, <2>4, <2>5, <2>6, <2>7, <2>8, <2>9
<1>2. JobInv /\ [Next]_vars =>
        [\A q \in Requests : HandedOff(q) /\ ended[q] =>
           /\ q \notin leaving => q \notin leaving'
           /\ closer' = q /\ closer # q => q \in leaving]_vars
  BY <1>1
<1> QED
  BY <1>2, JobInvariant, PTL DEF Spec, HandOffSurvives

-------------------------------------------------------------------------------
WaitingFrom(o, c, g) ==
  g = [s \in SUBSET DOMAIN o |-> IF s = {} THEN <<>>
                                 ELSE IF c[o[Max(s)]] = "waiting" THEN Append(g[s \ {Max(s)}], o[Max(s)])
                                 ELSE g[s \ {Max(s)}]]
(* The fold that collects the waiting calls, as the function it is a value *)
(* of.                                                                     *)
LEMMA WaitingIsFold ==
  ASSUME NEW o \in Seq(Calls), NEW c
  PROVE  \E g : WaitingFrom(o, c, g) /\ Waiting(o, c) = g[DOMAIN o]
<1> DEFINE F == [p \in Seq(Calls) \X (1 .. Len(o)) |->
                   IF c[o[p[2]]] = "waiting" THEN Append(p[1], o[p[2]]) ELSE p[1]]
<1>1. \A w \in Seq(Calls) : \A i \in 1 .. Len(o) :
        F[<<w, i>>] = (IF c[o[i]] = "waiting" THEN Append(w, o[i]) ELSE w) /\ F[<<w, i>>] \in Seq(Calls)
  BY AppendProperties, ElementOfSeq
<1> HIDE DEF F
<1>2. PICK g : FoldFun(g, Seq(Calls), <<>>, F, Len(o))
  BY <1>1, FoldExists, LenProperties, EmptySeq
<1>3. DOMAIN o = 1 .. Len(o)
  BY LenProperties
<1>4. ASSUME NEW s \in SUBSET DOMAIN o
      PROVE  g[s] = IF s = {} THEN <<>>
                    ELSE IF c[o[Max(s)]] = "waiting" THEN Append(g[s \ {Max(s)}], o[Max(s)]) ELSE g[s \ {Max(s)}]
  <2>1. CASE s = {}
    BY <1>2, <1>3, <2>1 DEF FoldFun
  <2>2. CASE s # {}
    <3>1. Max(s) \in 1 .. Len(o)
      <4>1. s \subseteq 0 .. Len(o) /\ Len(o) \in Nat
        BY <1>3, LenProperties
      <4> QED
        BY <1>3, <2>2, <4>1, MaxIsGreatest
    <3>2. g[s \ {Max(s)}] \in Seq(Calls) /\ g[s] = F[<<g[s \ {Max(s)}], Max(s)>>]
      <4>1. s \ {Max(s)} \in SUBSET (1 .. Len(o))
        BY <1>3
      <4> QED
        BY <1>2, <1>3, <2>2, <4>1 DEF FoldFun
    <3> QED
      BY <1>1, <2>2, <3>1, <3>2
  <2> QED
    BY <2>1, <2>2
<1>5. WaitingFrom(o, c, g)
  BY <1>2, <1>3, <1>4 DEF WaitingFrom, FoldFun
<1>6. Waiting(o, c) = (CHOOSE h : WaitingFrom(o, c, h))[DOMAIN o]
  BY DEF Waiting, WaitingFrom, FoldLeft, MapThenFoldSet
<1> QED
  BY <1>5, <1>6

(* No element of the sequence occurs twice.                                *)
Distinct(s) == \A n \in DOMAIN s, m \in DOMAIN s : s[n] = s[m] => n = m
(* w holds waiting calls from the first k of o, each once.                 *)
WaitingAmong(o, c, k, w) ==
  /\ w \in Seq(Calls) /\ Distinct(w)
  /\ \A n \in DOMAIN w : c[w[n]] = "waiting" /\ \E m \in 1 .. k : w[n] = o[m]

(* One more call of the job: it is taken when it waits.                    *)
LEMMA WaitingNext ==
  ASSUME NEW o \in Seq(Calls), Distinct(o), NEW c, NEW k \in Nat, k + 1 <= Len(o),
         NEW w, WaitingAmong(o, c, k, w)
  PROVE  /\ c[o[k + 1]] = "waiting" => WaitingAmong(o, c, k + 1, Append(w, o[k + 1]))
         /\ WaitingAmong(o, c, k + 1, w)
<1> DEFINE e == o[k + 1]
<1> DEFINE v == Append(w, e)
<1>1. /\ w \in Seq(Calls) /\ Distinct(w) /\ \A n \in DOMAIN w : c[w[n]] = "waiting"
      /\ \A n \in DOMAIN w : \E m \in 1 .. k : w[n] = o[m]
  BY DEF WaitingAmong
<1>2. Len(o) \in Nat /\ DOMAIN o = 1 .. Len(o) /\ k + 1 \in 1 .. Len(o) /\ e \in Calls
  <2>1. Len(o) \in Nat /\ DOMAIN o = 1 .. Len(o)
    BY LenProperties
  <2>2. k + 1 \in 1 .. Len(o)
    BY <2>1
  <2> QED
    BY <2>1, <2>2, ElementOfSeq
<1>3. \A n \in DOMAIN w : w[n] # e
  <2>1. SUFFICES ASSUME NEW n \in DOMAIN w PROVE w[n] # e
    OBVIOUS
  <2>2. PICK m \in 1 .. k : w[n] = o[m]
    BY <1>1
  <2>3. m \in DOMAIN o /\ k + 1 \in DOMAIN o /\ m # k + 1
    BY <1>2
  <2> QED
    BY <2>2, <2>3 DEF Distinct
<1> HIDE DEF e
<1>4. /\ v \in Seq(Calls) /\ DOMAIN v = 1 .. Len(w) + 1 /\ DOMAIN w = 1 .. Len(w) /\ Len(w) \in Nat
      /\ \A n \in 1 .. Len(w) : v[n] = w[n]
      /\ v[Len(w) + 1] = e
  BY <1>1, <1>2, AppendProperties, LenProperties
<1>5. Distinct(v)
  BY <1>1, <1>3, <1>4 DEF Distinct
<1>6. \A n \in DOMAIN w : \E m \in 1 .. k + 1 : w[n] = o[m]
  <2>1. 1 .. k \subseteq 1 .. k + 1
    OBVIOUS
  <2> QED
    BY <1>1, <2>1
<1>7. k + 1 \in 1 .. k + 1
  OBVIOUS
<1>8. \A n \in DOMAIN v : (n \in DOMAIN w /\ v[n] = w[n]) \/ v[n] = e
  BY <1>4
<1>9. e = o[k + 1]
  BY DEF e
<1>10. ASSUME c[e] = "waiting", NEW n \in DOMAIN v
       PROVE  c[v[n]] = "waiting" /\ \E m \in 1 .. k + 1 : v[n] = o[m]
  BY <1>1, <1>6, <1>7, <1>8, <1>9, <1>10
<1>11. WaitingAmong(o, c, k + 1, w)
  BY <1>1, <1>6 DEF WaitingAmong
<1>12. c[e] = "waiting" => WaitingAmong(o, c, k + 1, v)
  BY <1>4, <1>5, <1>10 DEF WaitingAmong
<1> QED
  BY <1>9, <1>11, <1>12

(* The waiting calls come in the order of the job, each once.              *)
LEMMA WaitingCalls ==
  ASSUME NEW o \in Seq(Calls), Distinct(o), NEW c
  PROVE  /\ Waiting(o, c) \in Seq(Calls) /\ Distinct(Waiting(o, c))
         /\ \A n \in DOMAIN Waiting(o, c) : c[Waiting(o, c)[n]] = "waiting" /\ Waiting(o, c)[n] \in ToSet(o)
<1>1. PICK g : WaitingFrom(o, c, g) /\ Waiting(o, c) = g[DOMAIN o]
  BY WaitingIsFold
<1>2. Len(o) \in Nat /\ DOMAIN o = 1 .. Len(o)
  BY LenProperties
<1> DEFINE S == {k \in Nat : k <= Len(o) => WaitingAmong(o, c, k, g[1 .. k])}
<1>3. WaitingAmong(o, c, 0, g[1 .. 0])
  <2>1. 1 .. 0 = {} /\ {} \in SUBSET DOMAIN o
    OBVIOUS
  <2>2. g[1 .. 0] = <<>>
    BY <1>1, <2>1 DEF WaitingFrom
  <2>3. <<>> \in Seq(Calls) /\ DOMAIN <<>> = {}
    BY EmptySeq
  <2> QED
    BY <2>2, <2>3 DEF Distinct, WaitingAmong
<1>4. ASSUME NEW k \in Nat, k + 1 <= Len(o), WaitingAmong(o, c, k, g[1 .. k])
      PROVE  WaitingAmong(o, c, k + 1, g[1 .. k + 1])
  <2>0. k + 1 <= Len(o)
    BY <1>4
  <2>1. 1 .. k + 1 \in SUBSET DOMAIN o /\ 1 .. k + 1 # {}
    <3>1. 1 \in 1 .. k + 1 /\ \A n \in 1 .. k + 1 : n \in DOMAIN o
      BY <1>2, <2>0
    <3> QED
      BY <3>1
  <2>2. g[1 .. k + 1] = IF c[o[Max(1 .. k + 1)]] = "waiting"
                        THEN Append(g[(1 .. k + 1) \ {Max(1 .. k + 1)}], o[Max(1 .. k + 1)])
                        ELSE g[(1 .. k + 1) \ {Max(1 .. k + 1)}]
    BY <1>1, <2>1 DEF WaitingFrom
  <2>3. g[1 .. k + 1] = IF c[o[k + 1]] = "waiting" THEN Append(g[1 .. k], o[k + 1]) ELSE g[1 .. k]
    BY <2>2, MaxOfPrefix
  <2> QED
    BY <1>4, <2>3, WaitingNext
<1>5. 0 \in S
  BY <1>3
<1>6. ASSUME NEW k \in Nat, k \in S PROVE k + 1 \in S
  <2>1. SUFFICES ASSUME k + 1 <= Len(o) PROVE WaitingAmong(o, c, k + 1, g[1 .. k + 1])
    OBVIOUS
  <2>2. k <= Len(o)
    BY <1>2, <2>1
  <2> QED
    BY <1>4, <1>6, <2>1, <2>2
<1> HIDE DEF S
<1>7. Nat \subseteq S
  BY <1>5, <1>6, NumberInduction
<1> USE DEF S
<1>8. WaitingAmong(o, c, Len(o), Waiting(o, c))
  BY <1>1, <1>2, <1>7
<1> QED
  BY <1>2, <1>8 DEF WaitingAmong, ToSet

(* The events of a job, and those of which there is only one.              *)
Kinds == {"textStart", "text", "textEnd", "call", "done", "error", "end_turn", "broken"}
Events == [t : Kinds, x : Nat \cup {"tool_calls", "stop"}]
Marked == {"text", "call"}
InBlock == {"textStart", "text"}

(* What deliverWaiting sends for the calls w.                              *)
CallEvents(w) == IF w = <<>> THEN <<>>
                 ELSE [n \in DOMAIN w |-> Ev("call", w[n])] \o <<Ev("done", "tool_calls")>>
Delivers(o, c, w, d) ==
  /\ Distinct(w) /\ \A n \in DOMAIN w : c[w[n]] = "waiting" /\ w[n] \in ToSet(o)
  /\ d.out = CallEvents(w) /\ d.any = (w # <<>>)
  /\ d.call = [t \in Calls |-> IF t \in ToSet(w) THEN "delivered" ELSE c[t]]
(* deliverWaiting hands over waiting calls, and none when no stream is     *)
(* attached.                                                               *)
LEMMA DeliveryIs ==
  ASSUME NEW o \in Seq(Calls), Distinct(o), NEW c, NEW attached \in BOOLEAN
  PROVE  \E w \in Seq(Calls) : Delivers(o, c, w, Delivery(o, c, attached)) /\ (~attached => w = <<>>)
<1> DEFINE w == IF attached THEN Waiting(o, c) ELSE <<>>
<1>1. w \in Seq(Calls) /\ Distinct(w) /\ \A n \in DOMAIN w : c[w[n]] = "waiting" /\ w[n] \in ToSet(o)
  <2>1. <<>> \in Seq(Calls) /\ DOMAIN <<>> = {}
    BY EmptySeq
  <2> QED
    BY <2>1, WaitingCalls DEF Distinct
<1>2. /\ Delivery(o, c, attached).out = CallEvents(w)
      /\ Delivery(o, c, attached).call = [t \in Calls |-> IF t \in ToSet(w) THEN "delivered" ELSE c[t]]
      /\ Delivery(o, c, attached).any = (w # <<>>)
  BY DEF Delivery, CallEvents
<1>3. ~attached => w = <<>>
  OBVIOUS
<1> HIDE DEF w
<1>4. Delivers(o, c, w, Delivery(o, c, attached))
  BY <1>1, <1>2 DEF Delivers
<1> QED
  BY <1>1, <1>3, <1>4

LEMMA CallIsEvent == Calls \subseteq Nat
BY JobAssumption DEF Calls

LEMMA CallEventsAre ==
  ASSUME NEW w \in Seq(Calls)
  PROVE  /\ CallEvents(w) \in Seq(Events)
         /\ w = <<>> => CallEvents(w) = <<>>
         /\ w # <<>> => /\ Len(CallEvents(w)) = Len(w) + 1 /\ Len(w) \in Nat \ {0}
                        /\ DOMAIN w = 1 .. Len(w) /\ DOMAIN CallEvents(w) = 1 .. Len(w) + 1
                        /\ \A n \in 1 .. Len(w) : CallEvents(w)[n] = Ev("call", w[n])
                        /\ CallEvents(w)[Len(w) + 1] = Ev("done", "tool_calls")
<1>1. CASE w = <<>>
  BY <1>1, EmptySeq DEF CallEvents
<1>2. CASE w # <<>>
  <2> DEFINE cs == [n \in 1 .. Len(w) |-> Ev("call", w[n])]
  <2> DEFINE d == <<Ev("done", "tool_calls")>>
  <2>1. Len(w) \in Nat \ {0} /\ DOMAIN w = 1 .. Len(w) /\ \A n \in 1 .. Len(w) : w[n] \in Calls
    BY <1>2, EmptySeq, LenProperties, ElementOfSeq
  <2>2. \A n \in 1 .. Len(w) : Ev("call", w[n]) \in Events
    BY <2>1, CallIsEvent DEF Ev, Events, Kinds
  <2>3. cs \in Seq(Events) /\ Len(cs) = Len(w)
    BY <2>1, <2>2
  <2>4. d \in Seq(Events) /\ Len(d) = 1 /\ d[1] = Ev("done", "tool_calls")
    BY DEF Ev, Events, Kinds
  <2>5. \A n \in 1 .. Len(w) : cs[n] = Ev("call", w[n])
    OBVIOUS
  <2>6. CallEvents(w) = cs \o d
    BY <1>2, <2>1 DEF CallEvents
  <2> HIDE DEF cs, d
  <2>7. /\ cs \o d \in Seq(Events) /\ Len(cs \o d) = Len(w) + 1
        /\ \A n \in 1 .. Len(w) + 1 : (cs \o d)[n] = IF n <= Len(w) THEN cs[n] ELSE d[n - Len(w)]
    <3>1. /\ cs \o d \in Seq(Events) /\ Len(cs \o d) = Len(cs) + Len(d)
          /\ \A n \in 1 .. Len(cs) + Len(d) : (cs \o d)[n] = IF n <= Len(cs) THEN cs[n] ELSE d[n - Len(cs)]
      BY ONLY <2>3, <2>4, ConcatProperties
    <3> QED
      BY <2>3, <2>4, <3>1
  <2>8. \A n \in 1 .. Len(w) : (cs \o d)[n] = Ev("call", w[n])
    BY <2>1, <2>5, <2>7
  <2>9. (cs \o d)[Len(w) + 1] = Ev("done", "tool_calls")
    BY <2>1, <2>4, <2>7
  <2>10. DOMAIN (cs \o d) = 1 .. Len(w) + 1
    BY <2>7, LenProperties
  <2> QED
    BY <1>2, <2>1, <2>6, <2>7, <2>8, <2>9, <2>10
<1> QED
  BY <1>1, <1>2

-------------------------------------------------------------------------------
(* An event that is in none of the streams, and events that are in one     *)
(* place at most.                                                          *)
Absent(S, e) == \A q \in Requests : \A n \in DOMAIN S[q] : S[q][n] # e
Once(S) ==
  \A q \in Requests, p \in Requests : \A n \in DOMAIN S[q], m \in DOMAIN S[p] :
    S[q][n].t \in Marked /\ S[q][n] = S[p][m] => q = p /\ n = m
DistinctMarks(s) == \A n \in DOMAIN s, m \in DOMAIN s : s[n].t \in Marked /\ s[n] = s[m] => n = m

(* A stream that is cut off has no event twice, and gets none.             *)
LEMMA CutMarks ==
  ASSUME NEW S \in [Requests -> Seq(Events)], NEW q \in Requests, NEW s \in Seq(Events), Len(s) <= Len(S[q]),
         \A n \in 1 .. Len(s) : s[n] = S[q][n], NEW S2, S2 = [S EXCEPT ![q] = s]
  PROVE  /\ Once(S) => Once(S2)
         /\ \A e : Absent(S, e) => Absent(S2, e)
<1>1. /\ \A p \in Requests : Len(S[p]) \in Nat /\ DOMAIN S[p] = 1 .. Len(S[p])
      /\ Len(s) \in Nat /\ DOMAIN s = 1 .. Len(s)
  BY LenProperties
<1>2. ASSUME NEW p \in Requests, NEW n \in DOMAIN S2[p] PROVE n \in DOMAIN S[p] /\ S2[p][n] = S[p][n]
  BY <1>1
<1> QED
  BY <1>2 DEF Once, Absent

(* Marked events that may be added: each once, and in no stream yet; and   *)
(* what streams still do not have when X was added.                        *)
AllNew(S, X) == DistinctMarks(X) /\ \A n \in DOMAIN X : X[n].t \in Marked => Absent(S, X[n])
StillAbsent(S, S2, X) == \A e : Absent(S, e) /\ (\A n \in DOMAIN X : X[n] # e) => Absent(S2, e)

(* A stream that gets new events has none of them twice.                   *)
LEMMA LongerMarks ==
  ASSUME NEW S \in [Requests -> Seq(Events)], NEW q \in Requests, NEW X \in Seq(Events),
         NEW S2, S2 = [S EXCEPT ![q] = @ \o X], Once(S), AllNew(S, X)
  PROVE  Once(S2) /\ StillAbsent(S, S2, X)
<1>1. /\ \A p \in Requests : Len(S[p]) \in Nat /\ DOMAIN S[p] = 1 .. Len(S[p])
      /\ Len(X) \in Nat /\ DOMAIN X = 1 .. Len(X)
  BY LenProperties
<1>2. /\ S2[q] \in Seq(Events) /\ Len(S2[q]) = Len(S[q]) + Len(X) /\ DOMAIN S2[q] = 1 .. Len(S[q]) + Len(X)
      /\ \A n \in 1 .. Len(S[q]) + Len(X) : S2[q][n] = IF n <= Len(S[q]) THEN S[q][n] ELSE X[n - Len(S[q])]
  BY ConcatProperties, LenProperties
<1>3. ASSUME NEW p \in Requests, NEW n \in DOMAIN S2[p]
      PROVE  \/ n \in DOMAIN S[p] /\ S2[p][n] = S[p][n]
             \/ p = q /\ n - Len(S[q]) \in DOMAIN X /\ S2[p][n] = X[n - Len(S[q])]
  <2>1. CASE p # q
    BY <2>1
  <2>2. CASE p = q /\ n <= Len(S[q])
    BY <1>1, <1>2, <2>2
  <2>3. CASE p = q /\ ~(n <= Len(S[q]))
    <3>1. n \in 1 .. Len(S[q]) + Len(X) /\ n - Len(S[q]) \in 1 .. Len(X)
      BY <1>1, <1>2, <2>3
    <3> QED
      BY <1>1, <1>2, <2>3, <3>1
  <2> QED
    BY <2>1, <2>2, <2>3
<1>4. Once(S2)
  <2>1. SUFFICES ASSUME NEW a \in Requests, NEW b \in Requests, NEW n \in DOMAIN S2[a], NEW m \in DOMAIN S2[b],
                        S2[a][n].t \in Marked, S2[a][n] = S2[b][m]
                 PROVE  a = b /\ n = m
    BY DEF Once
  <2>2. CASE n \in DOMAIN S[a] /\ S2[a][n] = S[a][n]
    <3>1. ~(b = q /\ m - Len(S[q]) \in DOMAIN X /\ S2[b][m] = X[m - Len(S[q])])
      BY <2>1, <2>2 DEF AllNew, Absent
    <3>2. m \in DOMAIN S[b] /\ S2[b][m] = S[b][m]
      BY <1>3, <3>1
    <3> QED
      BY <2>1, <2>2, <3>2 DEF Once
  <2>3. CASE a = q /\ n - Len(S[q]) \in DOMAIN X /\ S2[a][n] = X[n - Len(S[q])]
    <3>1. ~(m \in DOMAIN S[b] /\ S2[b][m] = S[b][m])
      BY <2>1, <2>3 DEF AllNew, Absent
    <3>2. b = q /\ m - Len(S[q]) \in DOMAIN X /\ S2[b][m] = X[m - Len(S[q])]
      BY <1>3, <3>1
    <3>3. n - Len(S[q]) = m - Len(S[q])
      BY <2>1, <2>3, <3>2 DEF AllNew, DistinctMarks
    <3>4. n \in Int /\ m \in Int /\ Len(S[q]) \in Int
      BY <1>1, <1>2, <2>3, <3>2
    <3> QED
      BY <2>3, <3>2, <3>3, <3>4
  <2> QED
    BY <1>3, <2>2, <2>3
<1>5. StillAbsent(S, S2, X)
  BY <1>3 DEF Absent, StillAbsent
<1> QED
  BY <1>4, <1>5

-------------------------------------------------------------------------------
(* What a request will have received when all that is on its way has come: *)
(* what it has, its channel, and what the holder of the mutex has to send. *)
(* Nobody reads an ended stream.                                           *)
OnTheWay(q) == IF sink = q THEN lock.out ELSE <<>>
Stream(q) == IF ended[q] THEN got[q] ELSE (got[q] \o buf[q]) \o OnTheWay(q)
Streams == [q \in Requests |-> Stream(q)]

BuffersFit == buf \in [Requests -> Seq(Events)] /\ \A q \in Requests : Len(buf[q]) <= Buffer
LockFits == lock \in [out : Seq(Events), release : BOOLEAN] /\ (lock.out = <<>> => lock = Free)
ChannelInv ==
  /\ LockFits /\ BuffersFit /\ got \in [Requests -> Seq(Events)]
  /\ sink \in Requests \cup {NoRequest} /\ (lock # Free => sink # NoRequest)

(* A sequence in two parts, of which the first is sent after b.            *)
LEMMA SentInParts ==
  ASSUME NEW T, NEW s \in Seq(T), NEW b \in Seq(T), NEW n \in 0 .. Len(s)
  PROVE  /\ b \o SubSeq(s, 1, n) \in Seq(T) /\ Len(b \o SubSeq(s, 1, n)) = Len(b) + n
         /\ SubSeq(s, n + 1, Len(s)) \in Seq(T)
         /\ n # Len(s) => SubSeq(s, n + 1, Len(s)) # <<>>
         /\ (b \o SubSeq(s, 1, n)) \o SubSeq(s, n + 1, Len(s)) = b \o s
         /\ n = Len(s) => b \o SubSeq(s, 1, n) = b \o s
         /\ n = 0 => b \o SubSeq(s, n + 1, Len(s)) = b \o s
<1>1. Len(s) \in Nat /\ Len(b) \in Nat /\ \A i \in 1 .. Len(s) : s[i] \in T
  BY LenProperties, ElementOfSeq
<1>2. SubSeq(s, 1, n) \in Seq(T) /\ Len(SubSeq(s, 1, n)) = IF 1 <= n THEN n - 1 + 1 ELSE 0
  <2>1. (\A i \in 1 .. n : s[i] \in T) /\ 1 \in Int /\ n \in Int
    BY <1>1
  <2> QED
    BY <2>1, SubSeqProperties
<1>3. /\ SubSeq(s, n + 1, Len(s)) \in Seq(T)
      /\ Len(SubSeq(s, n + 1, Len(s))) = IF n + 1 <= Len(s) THEN Len(s) - (n + 1) + 1 ELSE 0
  <2>1. (\A i \in n + 1 .. Len(s) : s[i] \in T) /\ n + 1 \in Int /\ Len(s) \in Int
    BY <1>1
  <2> QED
    BY <2>1, SubSeqProperties
<1>4. SubSeq(s, 1, n) \o SubSeq(s, n + 1, Len(s)) = SubSeq(s, 1, Len(s))
  <2>1. 1 \in 1 .. Len(s) + 1 /\ n \in 1 - 1 .. Len(s) /\ Len(s) \in n .. Len(s)
    BY <1>1
  <2> HIDE <1>1, <1>2, <1>3
  <2> QED
    BY <2>1, ConcatAdjacentSubSeq, Zenon
<1>5. SubSeq(s, 1, Len(s)) = s
  BY SubSeqFull
<1>6. Len(SubSeq(s, 1, n)) = n
  BY <1>2
<1>7. b \o SubSeq(s, 1, n) \in Seq(T) /\ Len(b \o SubSeq(s, 1, n)) = Len(b) + n
  BY <1>2, <1>6, ConcatProperties
<1>8. (b \o SubSeq(s, 1, n)) \o SubSeq(s, n + 1, Len(s)) = b \o (SubSeq(s, 1, n) \o SubSeq(s, n + 1, Len(s)))
  <2> DEFINE u == SubSeq(s, 1, n)
  <2> DEFINE v == SubSeq(s, n + 1, Len(s))
  <2>1. u \in Seq(T) /\ v \in Seq(T)
    BY <1>2, <1>3
  <2> HIDE DEF u, v
  <2>2. (b \o u) \o v = b \o (u \o v)
    BY ONLY <2>1, ConcatAssociative
  <2> QED
    BY <2>2 DEF u, v
<1>9. n # Len(s) => SubSeq(s, n + 1, Len(s)) # <<>>
  <2>1. n # Len(s) => Len(SubSeq(s, n + 1, Len(s))) # 0
    BY <1>1, <1>3
  <2> QED
    BY <2>1, EmptySeq
<1>10. n = 0 => SubSeq(s, n + 1, Len(s)) = SubSeq(s, 1, Len(s))
  OBVIOUS
<1>11. n = 0 => b \o SubSeq(s, n + 1, Len(s)) = b \o s
  BY <1>5, <1>10, Zenon
<1>12. n = Len(s) => b \o SubSeq(s, 1, n) = b \o s
  BY <1>5, Zenon
<1>13. (b \o SubSeq(s, 1, n)) \o SubSeq(s, n + 1, Len(s)) = b \o s
  BY <1>4, <1>5, <1>8, Zenon
<1> QED
  BY <1>3, <1>7, <1>9, <1>11, <1>12, <1>13, Zenon

(* A section sends of the events it keeps as many as have room.            *)
SectionKeeps(q, kept, release) ==
  LET n == IF kept = <<>> THEN 0 ELSE Min({Len(kept), Buffer - Len(buf[q])})
      over == n = Len(kept)
  IN /\ buf' = IF n = 0 THEN buf ELSE [buf EXCEPT ![q] = @ \o SubSeq(kept, 1, n)]
     /\ lock' = IF over THEN Free ELSE [out |-> SubSeq(kept, n + 1, Len(kept)), release |-> release]
     /\ sink' = IF over /\ release THEN NoRequest ELSE q

(* What is not sent stays with the holder of the mutex: nothing is lost or *)
(* moved.                                                                  *)
LEMMA SectionKeepsPart ==
  ASSUME BuffersFit, NEW q \in Requests, NEW kept \in Seq(Events), NEW release \in BOOLEAN,
         SectionKeeps(q, kept, release)
  PROVE  /\ LockFits' /\ BuffersFit' /\ \A p \in Requests \ {q} : buf'[p] = buf[p]
         /\ sink' = q \/ (sink' = NoRequest /\ release)
         /\ lock' # Free => sink' # NoRequest
         /\ buf'[q] \o (IF sink' = q THEN lock'.out ELSE <<>>) = buf[q] \o kept
<1> DEFINE Room == Buffer - Len(buf[q])
<1> DEFINE n == IF kept = <<>> THEN 0 ELSE Min({Len(kept), Room})
<1> DEFINE sent == buf[q] \o SubSeq(kept, 1, n)
<1> DEFINE rest == SubSeq(kept, n + 1, Len(kept))
<1>1. /\ Room \in Nat /\ Len(buf[q]) \in Nat /\ buf[q] \in Seq(Events) /\ Len(buf[q]) + Room = Buffer
      /\ Len(kept) \in Nat /\ (kept = <<>> <=> Len(kept) = 0) /\ q # NoRequest
  <2>1. buf[q] \in Seq(Events) /\ Len(buf[q]) <= Buffer
    BY DEF BuffersFit
  <2>2. Len(buf[q]) \in Nat /\ Len(kept) \in Nat /\ (kept = <<>> <=> Len(kept) = 0)
    BY <2>1, LenProperties, EmptySeq
  <2>3. q # NoRequest
    BY DEF Requests, NoRequest
  <2> QED
    BY <2>1, <2>2, <2>3, JobAssumption
<1>2. n \in 0 .. Len(kept) /\ n <= Room
  <2>1. CASE kept = <<>>
    BY <1>1, <2>1
  <2>2. CASE kept # <<>>
    <3>1. n = IF Len(kept) <= Room THEN Len(kept) ELSE Room
      <4>1. Len(kept) \in Int /\ Room \in Int /\ n = Min({Len(kept), Room})
        BY <1>1, <2>2
      <4> HIDE DEF n, Room
      <4> QED
        BY <4>1, MinOfTwo
    <3> QED
      BY <1>1, <3>1
  <2> QED
    BY <2>1, <2>2
<1>3. /\ buf' = IF n = 0 THEN buf ELSE [buf EXCEPT ![q] = sent]
      /\ lock' = IF n = Len(kept) THEN Free ELSE [out |-> rest, release |-> release]
      /\ sink' = IF n = Len(kept) /\ release THEN NoRequest ELSE q
  BY DEF SectionKeeps
<1> HIDE DEF n, Room
<1>4. /\ sent \in Seq(Events) /\ Len(sent) = Len(buf[q]) + n /\ rest \in Seq(Events)
      /\ n # Len(kept) => rest # <<>>
      /\ sent \o rest = buf[q] \o kept
      /\ n = Len(kept) => sent = buf[q] \o kept
      /\ n = 0 => buf[q] \o rest = buf[q] \o kept
  <2> DEFINE b == buf[q]
  <2>1. b \in Seq(Events) /\ n \in 0 .. Len(kept)
    BY <1>1, <1>2
  <2> HIDE DEF b
  <2>2. /\ b \o SubSeq(kept, 1, n) \in Seq(Events) /\ Len(b \o SubSeq(kept, 1, n)) = Len(b) + n
        /\ SubSeq(kept, n + 1, Len(kept)) \in Seq(Events)
        /\ n # Len(kept) => SubSeq(kept, n + 1, Len(kept)) # <<>>
        /\ (b \o SubSeq(kept, 1, n)) \o SubSeq(kept, n + 1, Len(kept)) = b \o kept
        /\ n = Len(kept) => b \o SubSeq(kept, 1, n) = b \o kept
        /\ n = 0 => b \o SubSeq(kept, n + 1, Len(kept)) = b \o kept
    BY ONLY <2>1, SentInParts
  <2> QED
    BY <2>2 DEF b
<1> HIDE DEF sent, rest
<1>5. Len(sent) <= Buffer
  BY <1>1, <1>2, <1>4, JobAssumption
<1>6. LockFits'
  BY <1>3, <1>4, EmptySeq DEF Free, LockFits
<1>7. buf \in [Requests -> Seq(Events)]
  BY DEF BuffersFit
<1>8. BuffersFit' /\ \A p \in Requests \ {q} : buf'[p] = buf[p]
  BY <1>3, <1>4, <1>5, <1>7 DEF BuffersFit
<1>9. buf'[q] = IF n = 0 THEN buf[q] ELSE sent
  BY <1>3, <1>7
<1>10. buf'[q] \in Seq(Events) /\ buf[q] \in Seq(Events)
  BY <1>1, <1>8 DEF BuffersFit
<1>11. CASE n = Len(kept)
  <2>1. lock'.out = <<>> /\ (IF sink' = q THEN lock'.out ELSE <<>>) = <<>>
    BY <1>3, <1>11 DEF Free
  <2>2. buf'[q] \o <<>> = buf'[q] /\ buf[q] \o <<>> = buf[q]
    BY <1>10, ConcatEmptySeq
  <2> QED
    BY <1>1, <1>3, <1>4, <1>6, <1>8, <1>9, <1>11, <2>1, <2>2
<1>12. CASE n # Len(kept)
  <2>1. sink' = q /\ lock'.out = rest
    BY <1>3, <1>12
  <2> QED
    BY <1>1, <1>4, <1>6, <1>8, <1>9, <2>1
<1> QED
  BY <1>11, <1>12

(* A critical section sends all of its events or, when the stream has      *)
(* ended or the context is over, none.                                     *)
LEMMA SectionSends ==
  ASSUME ChannelInv, JobInv, NEW q \in Requests \cup {NoRequest}, NEW out \in Seq(Events), NEW release \in BOOLEAN,
         Section(q, out, release)
  PROVE  \E kept \in {out, <<>>} :
           /\ LockFits' /\ BuffersFit' /\ \A p \in Requests \ {q} : buf'[p] = buf[p]
           /\ sink' = q \/ (sink' = NoRequest /\ release)
           /\ lock' # Free => sink' # NoRequest
           /\ q \in Requests => buf'[q] \o (IF sink' = q THEN lock'.out ELSE <<>>) = buf[q] \o kept
           /\ q \in Requests /\ ctx /\ ~ended[q] => kept = out
           /\ q = NoRequest \/ ended[q] => kept = <<>>
<1>1. PICK kept \in IF q = NoRequest \/ ended[q] THEN {<<>>} ELSE IF ctx THEN {out} ELSE {out, <<>>} :
        SectionKeeps(q, kept, release)
  BY DEF Section, SectionKeeps
<1>2. /\ kept \in {out, <<>>} /\ kept \in Seq(Events) /\ (q = NoRequest \/ ended[q] => kept = <<>>)
      /\ q \in Requests /\ ctx /\ ~ended[q] => kept = out
  <2>1. q \in Requests => q # NoRequest
    BY DEF Requests, NoRequest
  <2>2. kept \in {out, <<>>}
    BY <1>1
  <2> QED
    BY <1>1, <2>1, <2>2, EmptySeq
<1>3. BuffersFit
  BY DEF ChannelInv
<1>4. CASE q \in Requests
  <2>1. \E k \in {out, <<>>} : k = kept
    BY <1>2
  <2> QED
    BY <1>1, <1>2, <1>3, <1>4, <2>1, SectionKeepsPart
<1>5. CASE q = NoRequest
  <2>1. kept = <<>>
    BY <1>2, <1>5
  <2>2. 0 = Len(kept)
    BY <2>1, EmptySeq
  <2>3. buf' = buf /\ lock' = Free /\ sink' = IF release THEN NoRequest ELSE q
    BY <1>1, <2>1, <2>2 DEF SectionKeeps
  <2>4. LockFits' /\ BuffersFit'
    BY <1>3, <2>3, EmptySeq DEF LockFits, BuffersFit, Free
  <2>5. q \notin Requests
    BY <1>5 DEF Requests, NoRequest
  <2> QED
    BY <1>2, <2>3, <2>4, <2>5
<1> QED
  BY <1>4, <1>5

LEMMA StreamsTyped == ASSUME ChannelInv PROVE Streams \in [Requests -> Seq(Events)]
<1>1. ASSUME NEW q \in Requests PROVE Stream(q) \in Seq(Events)
  <2>1. got[q] \in Seq(Events) /\ buf[q] \in Seq(Events) /\ OnTheWay(q) \in Seq(Events)
    BY EmptySeq DEF ChannelInv, LockFits, BuffersFit, OnTheWay
  <2>2. got[q] \o buf[q] \in Seq(Events)
    BY <2>1, ConcatProperties
  <2> QED
    BY <2>1, <2>2, ConcatProperties DEF Stream
<1> QED
  BY <1>1 DEF Streams

(* The order in which parts of a stream are joined does not matter.        *)
LEMMA EventsAssociative ==
  ASSUME NEW s \in Seq(Events), NEW t \in Seq(Events), NEW u \in Seq(Events)
  PROVE  (s \o t) \o u = s \o (t \o u)
BY ConcatAssociative
(* What a section that takes the free mutex does to the streams.           *)
LEMMA SectionStreams ==
  ASSUME ChannelInv, JobInv, NEW q \in Requests \cup {NoRequest}, NEW out \in Seq(Events), NEW release \in BOOLEAN,
         Section(q, out, release), lock = Free, UNCHANGED <<got, ended>>
  PROVE  /\ ChannelInv' /\ \A p \in Requests \ {q} : buf'[p] = buf[p]
         /\ sink' = q \/ (sink' = NoRequest /\ release)
         /\ \/ Streams' = Streams /\ (ctx => q = NoRequest \/ ended[q])
            \/ q \in Requests /\ ~ended[q] /\ Streams' = [Streams EXCEPT ![q] = @ \o out]
<1>1. PICK kept \in {out, <<>>} :
           /\ LockFits' /\ BuffersFit' /\ \A p \in Requests \ {q} : buf'[p] = buf[p]
           /\ sink' = q \/ (sink' = NoRequest /\ release)
           /\ lock' # Free => sink' # NoRequest
           /\ q \in Requests => buf'[q] \o (IF sink' = q THEN lock'.out ELSE <<>>) = buf[q] \o kept
           /\ q \in Requests /\ ctx /\ ~ended[q] => kept = out
           /\ q = NoRequest \/ ended[q] => kept = <<>>
  BY SectionSends
<1>2. ChannelInv'
  BY <1>1 DEF ChannelInv
<1>3. NoRequest \notin Requests
  BY DEF Requests, NoRequest
<1>4. /\ \A p \in Requests : OnTheWay(p) = <<>>
      /\ \A p \in Requests \ {q} : OnTheWay(p)' = <<>>
  BY <1>1, <1>3 DEF OnTheWay, Free
<1>5. \A p \in Requests \ {q} : Stream(p)' = Stream(p)
  BY <1>1, <1>4 DEF Stream
<1>6. ASSUME q \in Requests, ~ended[q] PROVE Stream(q)' = Stream(q) \o kept
  <2>1. /\ got[q] \in Seq(Events) /\ buf[q] \in Seq(Events) /\ kept \in Seq(Events)
        /\ buf'[q] \in Seq(Events) /\ OnTheWay(q)' \in Seq(Events)
    BY <1>1, <1>2, <1>6, EmptySeq DEF ChannelInv, LockFits, BuffersFit, OnTheWay
  <2>2. OnTheWay(q)' = IF sink' = q THEN lock'.out ELSE <<>>
    BY DEF OnTheWay
  <2>3. Stream(q)' = (got[q] \o buf'[q]) \o OnTheWay(q)'
    BY <1>6 DEF Stream
  <2>4. buf'[q] \o OnTheWay(q)' = buf[q] \o kept
    BY <1>1, <1>6 DEF OnTheWay
  <2>5. (got[q] \o buf'[q]) \o OnTheWay(q)' = (got[q] \o buf[q]) \o kept
    <3> DEFINE g == got[q]
    <3> DEFINE b == buf[q]
    <3> DEFINE o == OnTheWay(q)'
    <3> DEFINE b2 == buf'[q]
    <3>1. g \in Seq(Events) /\ b \in Seq(Events) /\ o \in Seq(Events) /\ b2 \in Seq(Events)
          /\ kept \in Seq(Events) /\ b2 \o o = b \o kept
      BY <2>1, <2>4
    <3> HIDE DEF g, b, o, b2
    <3>2. (g \o b2) \o o = g \o (b2 \o o)
      BY ONLY <3>1, EventsAssociative, ZenonT(30)
    <3>3. (g \o b) \o kept = g \o (b \o kept)
      BY ONLY <3>1, EventsAssociative, ZenonT(30)
    <3> QED
      BY <3>1, <3>2, <3>3 DEF g, b, o, b2
  <2>7. Stream(q) = got[q] \o buf[q]
    <3>1. got[q] \o buf[q] \in Seq(Events)
      BY <2>1, ConcatProperties
    <3>2. Stream(q) = (got[q] \o buf[q]) \o <<>>
      BY <1>4, <1>6 DEF Stream
    <3> QED
      BY <3>1, <3>2, ConcatEmptySeq
  <2> QED
    BY <2>3, <2>5, <2>7
<1>7. ASSUME q \in Requests, ended[q] PROVE Stream(q)' = Stream(q)
  BY <1>7 DEF Stream
<1>8. CASE q = NoRequest \/ ended[q]
  <2>1. \A p \in Requests : Stream(p)' = Stream(p)
    BY <1>3, <1>5, <1>7, <1>8
  <2> QED
    BY <1>1, <1>2, <1>8, <2>1 DEF Streams
<1>9. CASE q \in Requests /\ ~ended[q]
  <2>1. Streams \in [Requests -> Seq(Events)] /\ Streams[q] = Stream(q) /\ Stream(q) \in Seq(Events)
    BY <1>9, StreamsTyped DEF Streams
  <2>2. Streams' = [Streams EXCEPT ![q] = @ \o kept]
    BY <1>5, <1>6, <1>9, <2>1 DEF Streams
  <2>3. CASE kept = out
    BY <1>1, <1>2, <1>9, <2>2, <2>3
  <2>4. CASE kept # out
    <3>1. kept = <<>> /\ ~ctx
      BY <1>1, <1>9, <2>4
    <3>2. Stream(q) \o <<>> = Stream(q)
      BY <2>1, ConcatEmptySeq
    <3>3. \A p \in Requests : Stream(p)' = Stream(p)
      BY <1>5, <1>6, <1>9, <3>1, <3>2
    <3> QED
      BY <1>1, <1>2, <3>1, <3>3 DEF Streams
  <2> QED
    BY <2>3, <2>4
<1> QED
  BY <1>8, <1>9

(* A section that goes on sends the rest, or gives it up.                  *)
LEMMA GoOnStreams ==
  ASSUME ChannelInv, JobInv, GoOn
  PROVE  /\ ChannelInv' /\ sink \in Requests /\ sink' \in {sink, NoRequest}
         /\ \A p \in Requests \ {sink} : buf'[p] = buf[p]
         /\ \/ Streams' = Streams
            \/ ~ctx /\ ~ended[sink] /\ Streams' = [Streams EXCEPT ![sink] = got[sink] \o buf[sink]]
<1>0. PICK q : q = sink
  OBVIOUS
<1>1. /\ q \in Requests /\ lock.out \in Seq(Events) /\ lock.release \in BOOLEAN /\ Section(q, lock.out, lock.release)
      /\ UNCHANGED <<got, ended, ctx>>
  BY <1>0 DEF GoOn, ChannelInv, LockFits, closeVars
<1>2. PICK kept \in {lock.out, <<>>} :
           /\ LockFits' /\ BuffersFit' /\ \A p \in Requests \ {q} : buf'[p] = buf[p]
           /\ sink' = q \/ (sink' = NoRequest /\ lock.release)
           /\ lock' # Free => sink' # NoRequest
           /\ q \in Requests => buf'[q] \o (IF sink' = q THEN lock'.out ELSE <<>>) = buf[q] \o kept
           /\ q \in Requests /\ ctx /\ ~ended[q] => kept = lock.out
           /\ q = NoRequest \/ ended[q] => kept = <<>>
  BY <1>1, SectionSends
<1>3. NoRequest \notin Requests
  BY DEF Requests, NoRequest
<1>4. ChannelInv'
  BY <1>1, <1>2 DEF ChannelInv
<1>5. /\ \A p \in Requests \ {q} : OnTheWay(p) = <<>> /\ OnTheWay(p)' = <<>>
      /\ OnTheWay(q) = lock.out
      /\ OnTheWay(q)' = IF sink' = q THEN lock'.out ELSE <<>>
  BY <1>0, <1>1, <1>2, <1>3 DEF OnTheWay
<1>6. \A p \in Requests \ {q} : Stream(p)' = Stream(p)
  BY <1>1, <1>2, <1>5 DEF Stream
<1>7. CASE ended[q]
  <2>1. \A p \in Requests : Stream(p)' = Stream(p)
    BY <1>1, <1>6, <1>7 DEF Stream
  <2> QED
    BY <1>0, <1>1, <1>2, <1>4, <2>1 DEF Streams
<1>8. CASE ~ended[q]
  <2>1. /\ got[q] \in Seq(Events) /\ buf[q] \in Seq(Events) /\ kept \in Seq(Events)
        /\ buf'[q] \in Seq(Events) /\ OnTheWay(q)' \in Seq(Events)
    BY <1>1, <1>2, <1>4, <1>5, EmptySeq DEF ChannelInv, LockFits, BuffersFit
  <2>2. Stream(q)' = (got[q] \o buf'[q]) \o OnTheWay(q)'
    BY <1>1, <1>8 DEF Stream
  <2>4. buf'[q] \o OnTheWay(q)' = buf[q] \o kept
    BY <1>1, <1>2 DEF OnTheWay
  <2>5. (got[q] \o buf'[q]) \o OnTheWay(q)' = (got[q] \o buf[q]) \o kept
    <3> DEFINE g == got[q]
    <3> DEFINE b == buf[q]
    <3> DEFINE o == OnTheWay(q)'
    <3> DEFINE b2 == buf'[q]
    <3>1. g \in Seq(Events) /\ b \in Seq(Events) /\ o \in Seq(Events) /\ b2 \in Seq(Events)
          /\ kept \in Seq(Events) /\ b2 \o o = b \o kept
      BY <2>1, <2>4
    <3> HIDE DEF g, b, o, b2
    <3>2. (g \o b2) \o o = g \o (b2 \o o)
      BY ONLY <3>1, EventsAssociative, ZenonT(30)
    <3>3. (g \o b) \o kept = g \o (b \o kept)
      BY ONLY <3>1, EventsAssociative, ZenonT(30)
    <3> QED
      BY <3>1, <3>2, <3>3 DEF g, b, o, b2
  <2>6. Stream(q)' = (got[q] \o buf[q]) \o kept
    BY <2>2, <2>5
  <2>7. Stream(q) = (got[q] \o buf[q]) \o lock.out
    BY <1>5, <1>8 DEF Stream
  <2>8. CASE kept = lock.out
    <3>1. \A p \in Requests : Stream(p)' = Stream(p)
      BY <1>6, <2>6, <2>7, <2>8
    <3> QED
      BY <1>0, <1>1, <1>2, <1>4, <3>1 DEF Streams
  <2>9. CASE kept # lock.out
    <3>1. kept = <<>> /\ ~ctx
      BY <1>1, <1>2, <1>8, <2>9
    <3>2. got[q] \o buf[q] \in Seq(Events)
      BY <2>1, ConcatProperties
    <3>3. Stream(q)' = got[q] \o buf[q]
      BY <2>6, <3>1, <3>2, ConcatEmptySeq
    <3>4. Streams' = [Streams EXCEPT ![q] = got[q] \o buf[q]]
      BY <1>1, <1>6, <3>3 DEF Streams
    <3> QED
      BY <1>0, <1>1, <1>2, <1>4, <1>8, <3>1, <3>4
  <2> QED
    BY <2>8, <2>9
<1> QED
  BY <1>7, <1>8

-------------------------------------------------------------------------------
(* What the requests and the tool calls say of each other.                 *)
Unstarted == {"idle", "setup", "checking", "refused"}
NotTaken == {"idle", "refused", "checking"}
ClientInv ==
  /\ DOMAIN state = Requests /\ brings \in [Requests -> SUBSET Calls] /\ brings[Starter] = {}
  /\ \A q \in Requests :
       /\ state[q] \in Unstarted => got[q] = <<>> /\ buf[q] = <<>> /\ sink # q
       /\ \A n \in DOMAIN got[q] : got[q][n].t \in Terminal => n = Len(got[q])
       /\ brings[q] \subseteq KnownToClient
CallInv ==
  /\ DOMAIN call = Calls /\ Distinct(order) /\ order \in Seq(Calls)
  /\ \A t \in Calls :
       /\ call[t] \in {"none", "asked"} => t \notin Registered
       /\ call[t] = "delivered" => t \in Registered
       /\ call[t] = "answered" => \E q \in Requests : t \in brings[q] /\ state[q] \notin NotTaken
       /\ call[t] \in {"answered", "back"} => t \in KnownToClient

LEMMA StarterIsRequest == Starter \in Requests /\ NoRequest \notin Requests
BY JobAssumption DEF Starter, NoRequest, Requests

(* What the client knows depends on what it has received.                  *)
LEMMA KnownKept == ASSUME got' = got PROVE KnownToClient' = KnownToClient
BY DEF KnownToClient, HandedOff, Finished

(* Steps in which no request goes on: at most the attached stream gets     *)
(* events or is let go.                                                    *)
LEMMA ClientKept ==
  ASSUME ClientInv, UNCHANGED <<state, brings, got>>, sink' \in {sink, NoRequest},
         \A p \in Requests \ {sink} : buf'[p] = buf[p]
  PROVE  ClientInv'
<1>1. KnownToClient' = KnownToClient
  BY KnownKept
<1>2. \A q \in Requests : state[q] \in Unstarted => buf'[q] = buf[q] /\ sink' # q
  BY StarterIsRequest DEF ClientInv
<1> QED
  BY <1>1, <1>2 DEF ClientInv

(* A request goes on.                                                      *)
LEMMA ClientGoesOn ==
  ASSUME ClientInv, NEW q \in Requests, NEW new, state' = [state EXCEPT ![q] = new], got' = got,
         NEW b, b \subseteq Calls \cap KnownToClient, q = Starter => b = {},
         brings' = [brings EXCEPT ![q] = b] \/ brings' = brings,
         \A p \in Requests \ {q} : buf'[p] = buf[p] /\ (sink' = p => sink = p),
         new \in Unstarted => state[q] \in Unstarted /\ buf'[q] = buf[q] /\ (sink' = q => sink = q)
  PROVE  ClientInv'
<1>1. KnownToClient' = KnownToClient
  BY KnownKept
<1>2. brings' \in [Requests -> SUBSET Calls] /\ brings'[Starter] = {} /\ \A p \in Requests : brings'[p] \subseteq KnownToClient
  <2>1. /\ brings \in [Requests -> SUBSET Calls] /\ brings[Starter] = {} /\ Starter \in Requests
        /\ \A p \in Requests : brings[p] \subseteq KnownToClient
    BY StarterIsRequest DEF ClientInv
  <2>2. CASE brings' = brings
    BY <2>1, <2>2
  <2>3. CASE brings' = [brings EXCEPT ![q] = b]
    BY <2>1, <2>3
  <2> QED
    BY <2>2, <2>3
<1>3. DOMAIN state' = Requests /\ \A p \in Requests : state'[p] = IF p = q THEN new ELSE state[p]
  BY DEF ClientInv
<1>4. \A p \in Requests : state'[p] \in Unstarted => got[p] = <<>> /\ buf'[p] = <<>> /\ sink' # p
  <2>1. SUFFICES ASSUME NEW p \in Requests, state'[p] \in Unstarted
                 PROVE  got[p] = <<>> /\ buf'[p] = <<>> /\ sink' # p
    OBVIOUS
  <2>2. state[p] \in Unstarted /\ buf'[p] = buf[p] /\ (sink' = p => sink = p)
    BY <1>3, <2>1
  <2> QED
    BY <2>2 DEF ClientInv
<1>5. \A p \in Requests : \A n \in DOMAIN got[p] : got[p][n].t \in Terminal => n = Len(got[p])
  BY DEF ClientInv
<1> QED
  BY <1>1, <1>2, <1>3, <1>4, <1>5 DEF ClientInv

(* A request receives nothing after its last event.                        *)
LEMMA RecvEventClient ==
  ASSUME ChannelInv, ClientInv, NEW q \in Requests, RecvEvent(q)
  PROVE  /\ ClientInv' /\ KnownToClient \subseteq KnownToClient'
         /\ got[q] \in Seq(Events) /\ buf[q] \in Seq(Events) /\ buf[q] # <<>>
         /\ got' = [got EXCEPT ![q] = Append(got[q], Head(buf[q]))] /\ buf' = [buf EXCEPT ![q] = Tail(buf[q])]
<1>1. /\ got' = [got EXCEPT ![q] = Append(got[q], Head(buf[q]))] /\ buf' = [buf EXCEPT ![q] = Tail(buf[q])]
      /\ state[q] = "streaming" /\ ~Finished(q) /\ buf[q] # <<>> /\ UNCHANGED <<state, brings, sink>>
  BY DEF RecvEvent, jobVars
<1>2. got \in [Requests -> Seq(Events)] /\ buf \in [Requests -> Seq(Events)]
  BY DEF ChannelInv, BuffersFit
<1>3. Head(buf[q]) \in Events /\ got[q] \in Seq(Events) /\ buf[q] \in Seq(Events)
  BY <1>1, <1>2, HeadTailProperties
<1> DEFINE e == Head(buf[q])
<1> DEFINE g == got[q]
<1> HIDE DEF e
<1>4. /\ Len(g) \in Nat /\ DOMAIN g = 1 .. Len(g) /\ DOMAIN Append(g, e) = 1 .. Len(g) + 1
      /\ \A n \in 1 .. Len(g) : Append(g, e)[n] = g[n]
      /\ Len(Append(g, e)) = Len(g) + 1
  BY <1>3, AppendProperties, LenProperties DEF e
<1>5. \A n \in DOMAIN g : g[n].t \notin Terminal
  <2>1. SUFFICES ASSUME NEW n \in DOMAIN g, g[n].t \in Terminal PROVE FALSE
    OBVIOUS
  <2>2. n = Len(g)
    BY <2>1 DEF ClientInv
  <2>3. g # <<>>
    BY <1>4, EmptySeq
  <2> QED
    BY <1>1, <2>1, <2>2, <2>3 DEF Finished, Last, Terminal
<1>6. \A n \in DOMAIN Append(g, e) : Append(g, e)[n].t \in Terminal => n = Len(Append(g, e))
  BY <1>4, <1>5
<1>7. \A p \in Requests : got'[p] = IF p = q THEN Append(g, e) ELSE got[p]
  BY <1>1, <1>2 DEF e
<1> HIDE DEF g
<1>8. \A p \in Requests : HandedOff(p) => p # q /\ HandedOff(p)'
  BY <1>1, <1>7 DEF HandedOff, Finished
<1>9. KnownToClient \subseteq KnownToClient'
  BY <1>7, <1>8 DEF KnownToClient
<1>10. \A p \in Requests : state[p] \in Unstarted => got'[p] = <<>> /\ buf'[p] = <<>> /\ sink' # p
  <2>1. SUFFICES ASSUME NEW p \in Requests, state[p] \in Unstarted
                 PROVE  got'[p] = <<>> /\ buf'[p] = <<>> /\ sink' # p
    OBVIOUS
  <2>2. p # q
    BY <1>1, <2>1 DEF Unstarted
  <2>3. buf'[p] = buf[p] /\ got'[p] = got[p]
    BY <1>1, <1>2, <2>2
  <2> QED
    BY <1>1, <2>1, <2>3 DEF ClientInv
<1>11. \A p \in Requests : \A n \in DOMAIN got'[p] : got'[p][n].t \in Terminal => n = Len(got'[p])
  BY <1>6, <1>7 DEF ClientInv
<1>12. ClientInv'
  BY <1>1, <1>9, <1>10, <1>11 DEF ClientInv
<1> QED
  BY <1>1, <1>3, <1>9, <1>12

(* Steps that leave the calls alone.                                       *)
LEMMA CallsKept ==
  ASSUME CallInv, UNCHANGED <<order, call>>, KnownToClient \subseteq KnownToClient',
         \A q \in Requests : state[q] \notin NotTaken /\ brings[q] # {} =>
           state'[q] \notin NotTaken /\ brings[q] \subseteq brings'[q]
  PROVE  CallInv'
<1>1. Registered' = Registered
  BY DEF Registered
<1>2. \A t \in Calls : (\E q \in Requests : t \in brings[q] /\ state[q] \notin NotTaken)
                         => \E q \in Requests : t \in brings'[q] /\ state'[q] \notin NotTaken
  OBVIOUS
<1> QED
  BY <1>1, <1>2 DEF CallInv

(* The agent calls a tool, and a held call is answered.                    *)
LEMMA AgentCallStep ==
  ASSUME CallInv, NEW t \in Calls, AgentCalls(t) \/ CallReturns(t)
  PROVE  CallInv' /\ \A u \in Calls : call'[u] \in {"none", "asked", "waiting"} => call[u] \in {"none", "asked", "waiting"}
<1>1. UNCHANGED <<order, state, brings, got>>
  BY DEF AgentCalls, CallReturns, streamVars
<1>2. Registered' = Registered /\ KnownToClient' = KnownToClient
  BY <1>1, KnownKept DEF Registered
<1>3. /\ \A u \in Calls \ {t} : call'[u] = call[u]
      /\ DOMAIN call' = Calls
      /\ \/ call[t] = "none" /\ call'[t] = "asked"
         \/ call[t] = "answered" /\ call'[t] = "back"
         \/ call[t] \in {"waiting", "delivered", "answered"} /\ call'[t] = "gone"
  BY DEF AgentCalls, CallReturns, CallInv
<1>5. ASSUME NEW u \in Calls
      PROVE /\ call'[u] \in {"none", "asked"} => u \notin Registered
            /\ call'[u] = "delivered" => u \in Registered
            /\ call'[u] = "answered" => call[u] = "answered"
            /\ call'[u] \in {"answered", "back"} => u \in KnownToClient
            /\ call'[u] \in {"none", "asked", "waiting"} => call[u] \in {"none", "asked", "waiting"}
  BY <1>3 DEF CallInv
<1>6. \A u \in Calls : call'[u] = "answered" => \E q \in Requests : u \in brings'[q] /\ state'[q] \notin NotTaken
  <2>1. \A u \in Calls : call[u] = "answered" => \E q \in Requests : u \in brings[q] /\ state[q] \notin NotTaken
    BY DEF CallInv
  <2> QED
    BY <1>1, <1>5, <2>1
<1>7. Distinct(order) /\ order \in Seq(Calls)
  BY DEF CallInv
<1> QED
  BY <1>1, <1>2, <1>3, <1>5, <1>6, <1>7 DEF CallInv

LEMMA AppendCall ==
  ASSUME NEW o \in Seq(Calls), Distinct(o), NEW t \in Calls, t \notin ToSet(o)
  PROVE  /\ Append(o, t) \in Seq(Calls) /\ Distinct(Append(o, t))
         /\ \A u : u \in ToSet(Append(o, t)) <=> u \in ToSet(o) \/ u = t
<1>1. /\ Append(o, t) \in Seq(Calls) /\ Len(Append(o, t)) = Len(o) + 1 /\ Append(o, t)[Len(o) + 1] = t
      /\ DOMAIN o = 1 .. Len(o) /\ DOMAIN Append(o, t) = 1 .. Len(o) + 1 /\ Len(o) \in Nat
      /\ \A n \in 1 .. Len(o) : Append(o, t)[n] = o[n]
  BY AppendProperties, LenProperties
<1>2. \A n \in DOMAIN o : o[n] # t
  BY DEF ToSet
<1>3. Distinct(Append(o, t))
  BY <1>1, <1>2 DEF Distinct
<1>4. \A u : u \in ToSet(Append(o, t)) <=> u \in ToSet(o) \/ u = t
  BY <1>1 DEF ToSet
<1> QED
  BY <1>1, <1>3, <1>4

(* A call that comes in: what is sent for it, and the calls afterwards.    *)
LEMMA ServeCallSends ==
  ASSUME CallInv, NEW t \in Calls, ServeCall(t), ~Closed
  PROVE  \E w \in Seq(Calls) :
           /\ Distinct(w) /\ \A n \in DOMAIN w : call[w[n]] \in {"asked", "waiting"} /\ w[n] \in Registered'
           /\ call' = [u \in Calls |-> IF u \in ToSet(w) THEN "delivered" ELSE IF u = t THEN "waiting" ELSE call[u]]
           /\ order' = Append(order, t) /\ Distinct(order') /\ order' \in Seq(Calls)
           /\ \A u : u \in Registered' <=> u \in Registered \/ u = t
           /\ Section(sink, (IF w # <<>> THEN EndText ELSE <<>>) \o CallEvents(w), w # <<>>)
           /\ textOpen' = (textOpen /\ w = <<>>) /\ (sink = NoRequest => w = <<>>)
<1> DEFINE c == [call EXCEPT ![t] = "waiting"]
<1> DEFINE o == Append(order, t)
<1> DEFINE a == sink # NoRequest
<1> DEFINE d == Delivery(o, c, a)
<1>1. /\ call[t] = "asked" /\ order' = o /\ call' = d.call
      /\ Section(sink, (IF d.any THEN EndText ELSE <<>>) \o d.out, d.any)
      /\ textOpen' = (textOpen /\ ~d.any)
  BY DEF ServeCall, Deliver
<1>2. /\ order \in Seq(Calls) /\ Distinct(order) /\ t \notin ToSet(order) /\ DOMAIN call = Calls
      /\ \A u \in Calls : c[u] = IF u = t THEN "waiting" ELSE call[u]
  BY <1>1 DEF CallInv, Registered
<1>3. o \in Seq(Calls) /\ Distinct(o) /\ \A u : u \in ToSet(o) <=> u \in ToSet(order) \/ u = t
  BY <1>2, AppendCall
<1> HIDE DEF o, c
<1>12. a \in BOOLEAN /\ (sink = NoRequest => ~a)
  OBVIOUS
<1> HIDE DEF a
<1>11. PICK w \in Seq(Calls) : Delivers(o, c, w, d) /\ (~a => w = <<>>)
  BY <1>12, <1>3, DeliveryIs
<1> HIDE DEF d
<1>4. /\ Distinct(w) /\ \A n \in DOMAIN w : c[w[n]] = "waiting" /\ w[n] \in ToSet(o)
      /\ d.out = CallEvents(w) /\ d.any = (w # <<>>) /\ (~a => w = <<>>)
      /\ d.call = [u \in Calls |-> IF u \in ToSet(w) THEN "delivered" ELSE c[u]]
  BY <1>11 DEF Delivers
<1>5. \A n \in DOMAIN w : w[n] \in Calls
  BY LenProperties, ElementOfSeq
<1>6. \A n \in DOMAIN w : call[w[n]] \in {"asked", "waiting"}
  BY <1>1, <1>2, <1>4, <1>5
<1>7. Registered' = ToSet(o) /\ Registered = ToSet(order)
  BY <1>1 DEF Registered
<1>8. call' = [u \in Calls |-> IF u \in ToSet(w) THEN "delivered" ELSE IF u = t THEN "waiting" ELSE call[u]]
  BY <1>1, <1>2, <1>4
<1>9. Section(sink, (IF w # <<>> THEN EndText ELSE <<>>) \o CallEvents(w), w # <<>>) /\ textOpen' = (textOpen /\ w = <<>>)
  BY <1>1, <1>4
<1>10. order' = Append(order, t)
  BY <1>1 DEF o
<1> QED
  BY <1>12, <1>1, <1>3, <1>4, <1>6, <1>7, <1>8, <1>9, <1>10

(* A call that comes in is new to the job.                                 *)
LEMMA ServeCallCalls ==
  ASSUME CallInv, NEW t \in Calls, ServeCall(t)
  PROVE  CallInv' /\ \A u \in Calls : call'[u] \in {"none", "asked", "waiting"} => call[u] \in {"none", "asked", "waiting"}
<1>1. UNCHANGED <<state, brings, got>> /\ call[t] = "asked"
  <2>1. CASE Closed
    BY <2>1 DEF ServeCall
  <2>2. CASE ~Closed
    BY <2>2 DEF ServeCall
  <2> QED
    BY <2>1, <2>2
<1>2. KnownToClient' = KnownToClient
  BY <1>1, KnownKept
<1>3. \A u \in Calls : (\E q \in Requests : u \in brings[q] /\ state[q] \notin NotTaken)
                         => (\E q \in Requests : u \in brings'[q] /\ state'[q] \notin NotTaken)
  BY <1>1
<1>4. DOMAIN call = Calls
  BY DEF CallInv
<1>5. CASE Closed
  <2>1. UNCHANGED order /\ call' = [call EXCEPT ![t] = "gone"]
    BY <1>5 DEF ServeCall, Refuse
  <2>2. Registered' = Registered
    BY <2>1 DEF Registered
  <2>3. \A u \in Calls : call'[u] = IF u = t THEN "gone" ELSE call[u]
    BY <1>4, <2>1
  <2> QED
    BY <1>1, <1>2, <1>3, <1>4, <2>1, <2>2, <2>3 DEF CallInv
<1>6. CASE ~Closed
  <2>1. PICK w \in Seq(Calls) :
           /\ Distinct(w) /\ \A n \in DOMAIN w : call[w[n]] \in {"asked", "waiting"} /\ w[n] \in Registered'
           /\ call' = [u \in Calls |-> IF u \in ToSet(w) THEN "delivered" ELSE IF u = t THEN "waiting" ELSE call[u]]
           /\ order' = Append(order, t) /\ Distinct(order') /\ order' \in Seq(Calls)
           /\ \A u : u \in Registered' <=> u \in Registered \/ u = t
    BY <1>6, ServeCallSends
  <2>2. \A u \in ToSet(w) : u \in Registered' /\ call[u] \in {"asked", "waiting"}
    BY <2>1 DEF ToSet
  <2>3. ASSUME NEW u \in Calls
        PROVE  /\ call'[u] \in {"none", "asked"} => u \notin Registered'
               /\ call'[u] = "delivered" => u \in Registered'
               /\ call'[u] = "answered" => call[u] = "answered"
               /\ call'[u] \in {"answered", "back"} => call[u] \in {"answered", "back"}
               /\ call'[u] \in {"none", "asked", "waiting"} => call[u] \in {"none", "asked", "waiting"}
    <3>1. call'[u] = IF u \in ToSet(w) THEN "delivered" ELSE IF u = t THEN "waiting" ELSE call[u]
      BY <2>1
    <3>2. call[u] \in {"none", "asked"} => u \notin Registered
      BY DEF CallInv
    <3>3. call[u] = "delivered" => u \in Registered
      BY DEF CallInv
    <3> QED
      BY <1>1, <2>1, <2>2, <3>1, <3>2, <3>3
  <2>4. DOMAIN call' = Calls
    BY <2>1
  <2>5. \A u \in Calls : /\ call[u] = "answered" => \E q \in Requests : u \in brings[q] /\ state[q] \notin NotTaken
                         /\ call[u] \in {"answered", "back"} => u \in KnownToClient
    BY DEF CallInv
  <2>6. \A u \in Calls : /\ call'[u] = "answered" => \E q \in Requests : u \in brings'[q] /\ state'[q] \notin NotTaken
                         /\ call'[u] \in {"answered", "back"} => u \in KnownToClient'
    BY <1>2, <1>3, <2>3, <2>5
  <2> QED
    BY <2>1, <2>3, <2>4, <2>6 DEF CallInv
<1> QED
  BY <1>5, <1>6

(* A request with results resumes the job: its results answer the calls    *)
(* that are due, and those that came in the meantime are delivered.        *)
LEMMA ResumeSends ==
  ASSUME CallInv, NEW q \in Requests, Resume(q)
  PROVE  \E w \in Seq(Calls) :
           /\ Distinct(w) /\ \A n \in DOMAIN w : call[w[n]] = "waiting" /\ w[n] \in Registered
           /\ call' = [u \in Calls |-> IF u \in ToSet(w) THEN "delivered" ELSE IF u \in Due THEN "answered" ELSE call[u]]
           /\ Section(q, CallEvents(w), w # <<>>)
<1> DEFINE c == [u \in Calls |-> IF u \in Due THEN "answered" ELSE call[u]]
<1> DEFINE a == TRUE
<1> DEFINE d == Delivery(order, c, a)
<1>1. call' = d.call /\ Section(q, d.out, d.any)
  BY DEF Resume
<1>2. order \in Seq(Calls) /\ Distinct(order) /\ a \in BOOLEAN
  BY DEF CallInv
<1>3. \A u \in Calls : c[u] = IF u \in Due THEN "answered" ELSE call[u]
  OBVIOUS
<1> HIDE DEF c, a
<1>11. PICK w \in Seq(Calls) : Delivers(order, c, w, d)
  BY <1>2, DeliveryIs
<1> HIDE DEF d
<1>4. /\ Distinct(w) /\ \A n \in DOMAIN w : c[w[n]] = "waiting" /\ w[n] \in ToSet(order)
      /\ d.out = CallEvents(w) /\ d.any = (w # <<>>)
      /\ d.call = [u \in Calls |-> IF u \in ToSet(w) THEN "delivered" ELSE c[u]]
  BY <1>11 DEF Delivers
<1>5. \A n \in DOMAIN w : w[n] \in Calls
  BY LenProperties, ElementOfSeq
<1>6. \A n \in DOMAIN w : call[w[n]] = "waiting" /\ w[n] \in Registered
  BY <1>3, <1>4, <1>5 DEF Registered
<1>7. call' = [u \in Calls |-> IF u \in ToSet(w) THEN "delivered" ELSE IF u \in Due THEN "answered" ELSE call[u]]
  BY <1>1, <1>3, <1>4
<1>8. Section(q, CallEvents(w), w # <<>>)
  BY <1>1, <1>4
<1> QED
  BY <1>4, <1>6, <1>7, <1>8

(* The results that answer the due calls come from the request that        *)
(* resumes the job.                                                        *)
LEMMA ResumeCalls ==
  ASSUME CallInv, ClientInv, NEW q \in Requests, Resume(q)
  PROVE  CallInv' /\ \A u \in Calls : call'[u] \in {"none", "asked", "waiting"} => call[u] \in {"none", "asked", "waiting"}
<1>1. /\ UNCHANGED <<brings, got, order>> /\ state' = [state EXCEPT ![q] = "streaming"] /\ state[q] = "checking"
      /\ Due \subseteq brings[q]
  BY DEF Resume, Resumable
<1>2. KnownToClient' = KnownToClient /\ Registered' = Registered
  BY <1>1, KnownKept DEF Registered
<1>3. PICK w \in Seq(Calls) :
           /\ Distinct(w) /\ \A n \in DOMAIN w : call[w[n]] = "waiting" /\ w[n] \in Registered
           /\ call' = [u \in Calls |-> IF u \in ToSet(w) THEN "delivered" ELSE IF u \in Due THEN "answered" ELSE call[u]]
  BY ResumeSends
<1>4. \A u \in ToSet(w) : u \in Registered /\ call[u] = "waiting"
  BY <1>3 DEF ToSet
<1>5. state'[q] = "streaming" /\ \A p \in Requests \ {q} : state'[p] = state[p]
  BY <1>1 DEF ClientInv
<1>6. ASSUME NEW u \in Calls, \E p \in Requests : u \in brings[p] /\ state[p] \notin NotTaken
      PROVE  \E p \in Requests : u \in brings'[p] /\ state'[p] \notin NotTaken
  <2>1. PICK p \in Requests : u \in brings[p] /\ state[p] \notin NotTaken
    BY <1>6
  <2>2. p # q
    BY <1>1, <2>1 DEF NotTaken
  <2> QED
    BY <1>1, <1>5, <2>1, <2>2
<1>7. ASSUME NEW u \in Due PROVE u \in brings'[q] /\ state'[q] \notin NotTaken /\ u \in KnownToClient
  BY <1>1, <1>5 DEF ClientInv, NotTaken
<1>8. ASSUME NEW u \in Calls
      PROVE  /\ call'[u] \in {"none", "asked"} => call[u] \in {"none", "asked"}
             /\ call'[u] = "delivered" => u \in Registered
             /\ call'[u] = "answered" => u \in Due \/ call[u] = "answered"
             /\ call'[u] \in {"answered", "back"} => u \in Due \/ call[u] \in {"answered", "back"}
             /\ call'[u] \in {"none", "asked", "waiting"} => call[u] \in {"none", "asked", "waiting"}
  <2>1. call'[u] = IF u \in ToSet(w) THEN "delivered" ELSE IF u \in Due THEN "answered" ELSE call[u]
    BY <1>3
  <2>2. call[u] = "delivered" => u \in Registered
    BY DEF CallInv
  <2> QED
    BY <1>4, <2>1, <2>2
<1>9. \A u \in Calls : call'[u] = "answered" => \E p \in Requests : u \in brings'[p] /\ state'[p] \notin NotTaken
  <2>1. \A u \in Calls : call[u] = "answered" => \E p \in Requests : u \in brings[p] /\ state[p] \notin NotTaken
    BY DEF CallInv
  <2> QED
    BY <1>6, <1>7, <1>8, <2>1
<1>10. \A u \in Calls : call'[u] \in {"answered", "back"} => u \in KnownToClient
  BY <1>7, <1>8 DEF CallInv
<1>11. DOMAIN call' = Calls
  BY <1>3
<1> QED
  BY <1>1, <1>2, <1>8, <1>9, <1>10, <1>11 DEF CallInv

-------------------------------------------------------------------------------
(* The reader of a stream takes what is on its way, and cuts it off at its *)
(* end.                                                                    *)
Begins(s, t) == s \in Seq(Events) /\ Len(s) <= Len(t) /\ \A n \in 1 .. Len(s) : s[n] = t[n]
CutTo(q, s) == Begins(s, Streams[q]) /\ Streams' = [Streams EXCEPT ![q] = s]

LEMMA ConcatBegins ==
  ASSUME NEW s \in Seq(Events), NEW t \in Seq(Events)
  PROVE  s \o t \in Seq(Events) /\ Begins(s, s \o t) /\ Begins(s, s)
<1>1. /\ s \o t \in Seq(Events) /\ Len(s \o t) = Len(s) + Len(t) /\ Len(s) \in Nat /\ Len(t) \in Nat
      /\ \A n \in 1 .. Len(s) + Len(t) : (s \o t)[n] = IF n <= Len(s) THEN s[n] ELSE t[n - Len(s)]
  BY ConcatProperties, LenProperties
<1> QED
  BY <1>1 DEF Begins

(* What a request has is the beginning of its stream.                      *)
LEMMA WhatHasCome ==
  ASSUME ChannelInv, NEW q \in Requests
  PROVE  /\ got[q] \in Seq(Events) /\ buf[q] \in Seq(Events) /\ OnTheWay(q) \in Seq(Events)
         /\ got[q] \o buf[q] \in Seq(Events) /\ Stream(q) \in Seq(Events) /\ Streams[q] = Stream(q)
         /\ Begins(got[q], Stream(q))
         /\ ~ended[q] => Begins(got[q] \o buf[q], Stream(q))
<1>1. got[q] \in Seq(Events) /\ buf[q] \in Seq(Events) /\ OnTheWay(q) \in Seq(Events)
  BY EmptySeq DEF ChannelInv, BuffersFit, LockFits, OnTheWay
<1>2. got[q] \o buf[q] \in Seq(Events) /\ Begins(got[q], got[q] \o buf[q]) /\ Begins(got[q], got[q])
  BY <1>1, ConcatBegins
<1>3. /\ (got[q] \o buf[q]) \o OnTheWay(q) \in Seq(Events)
      /\ Begins(got[q] \o buf[q], (got[q] \o buf[q]) \o OnTheWay(q))
  BY <1>1, <1>2, ConcatBegins
<1>4. Begins(got[q], (got[q] \o buf[q]) \o OnTheWay(q))
  <2> DEFINE g == got[q]
  <2> DEFINE gb == got[q] \o buf[q]
  <2> DEFINE s == (got[q] \o buf[q]) \o OnTheWay(q)
  <2>1. Begins(g, gb) /\ Begins(gb, s)
    BY <1>2, <1>3
  <2>2. Len(g) \in Nat /\ Len(gb) \in Nat /\ Len(s) \in Nat
    BY <1>1, <1>2, <1>3, LenProperties
  <2> HIDE DEF g, gb, s
  <2>3. Begins(g, s)
    BY <2>1, <2>2 DEF Begins
  <2> QED
    BY <2>3 DEF g, s
<1>5. CASE ended[q]
  BY <1>1, <1>2, <1>5 DEF Stream, Streams
<1>6. CASE ~ended[q]
  BY <1>1, <1>2, <1>3, <1>4, <1>6 DEF Stream, Streams
<1> QED
  BY <1>5, <1>6

(* An event that moves from the channel to its reader stays where it was   *)
(* in the stream.                                                          *)
LEMMA MovesHead ==
  ASSUME NEW g \in Seq(Events), NEW b \in Seq(Events), b # <<>>
  PROVE  Append(g, Head(b)) \o Tail(b) = g \o b
<1> DEFINE a == Append(g, Head(b))
<1> DEFINE r == Tail(b)
<1>1. /\ Head(b) = b[1] /\ Head(b) \in Events /\ r \in Seq(Events) /\ Len(r) = Len(b) - 1 /\ Len(b) \in Nat \ {0}
      /\ \A n \in 1 .. Len(r) : r[n] = b[n + 1]
  BY HeadTailProperties, LenProperties, EmptySeq
<1>2. /\ a \in Seq(Events) /\ Len(a) = Len(g) + 1 /\ Len(g) \in Nat
      /\ \A n \in 1 .. Len(g) : a[n] = g[n]
      /\ a[Len(g) + 1] = b[1]
  BY <1>1, AppendProperties, LenProperties
<1> HIDE DEF a, r
<1>3. /\ a \o r \in Seq(Events) /\ Len(a \o r) = Len(a) + Len(r)
      /\ \A n \in 1 .. Len(a) + Len(r) : (a \o r)[n] = IF n <= Len(a) THEN a[n] ELSE r[n - Len(a)]
  BY <1>1, <1>2, ConcatProperties
<1>4. /\ g \o b \in Seq(Events) /\ Len(g \o b) = Len(g) + Len(b)
      /\ \A n \in 1 .. Len(g) + Len(b) : (g \o b)[n] = IF n <= Len(g) THEN g[n] ELSE b[n - Len(g)]
  BY ConcatProperties
<1>5. Len(a \o r) = Len(g \o b) /\ Len(g \o b) = Len(g) + Len(b)
  BY <1>1, <1>2, <1>3, <1>4
<1>6. ASSUME NEW n \in 1 .. Len(g) + Len(b) PROVE (a \o r)[n] = (g \o b)[n]
  <2>1. CASE n <= Len(g)
    BY <1>1, <1>2, <1>3, <1>4, <2>1
  <2>2. CASE n = Len(g) + 1
    BY <1>1, <1>2, <1>3, <1>4, <2>2
  <2>3. CASE n > Len(g) + 1
    <3>1. n \in Int /\ Len(a) = Len(g) + 1 /\ Len(g) \in Nat /\ Len(b) \in Nat /\ Len(r) = Len(b) - 1
      BY <1>1, <1>2
    <3>2. /\ n \in 1 .. Len(a) + Len(r) /\ ~(n <= Len(a)) /\ n - Len(a) \in 1 .. Len(r)
          /\ (n - Len(a)) + 1 = n - Len(g) /\ ~(n <= Len(g))
      BY <2>3, <3>1
    <3>3. (a \o r)[n] = r[n - Len(a)] /\ r[n - Len(a)] = b[(n - Len(a)) + 1]
      BY <1>1, <1>3, <3>2
    <3>4. (g \o b)[n] = b[n - Len(g)]
      BY <1>4, <3>2
    <3> QED
      BY <3>2, <3>3, <3>4
  <2>4. n <= Len(g) \/ n = Len(g) + 1 \/ n > Len(g) + 1
    BY <1>2
  <2> QED
    BY <2>1, <2>2, <2>3, <2>4
<1>7. a \o r = g \o b
  <2>1. \A n \in 1 .. Len(a \o r) : (a \o r)[n] = (g \o b)[n]
    BY <1>5, <1>6
  <2> QED
    BY <1>3, <1>4, <1>5, <2>1, SeqEqual
<1> QED
  BY <1>7 DEF a, r

(* Reading does not change what is on its way.                             *)
LEMMA RecvEventStreams ==
  ASSUME ChannelInv, ClientInv, JobInv, NEW q \in Requests, RecvEvent(q)
  PROVE  ChannelInv' /\ Streams' = Streams
<1>1. /\ got[q] \in Seq(Events) /\ buf[q] \in Seq(Events) /\ buf[q] # <<>> /\ state[q] = "streaming"
      /\ got' = [got EXCEPT ![q] = Append(got[q], Head(buf[q]))] /\ buf' = [buf EXCEPT ![q] = Tail(buf[q])]
      /\ UNCHANGED <<ended, sink, lock>>
  BY RecvEventClient DEF RecvEvent, jobVars
<1>2. got \in [Requests -> Seq(Events)] /\ buf \in [Requests -> Seq(Events)] /\ \A p \in Requests : Len(buf[p]) <= Buffer
  BY DEF ChannelInv, BuffersFit
<1>3. /\ Head(buf[q]) \in Events /\ Tail(buf[q]) \in Seq(Events) /\ Len(Tail(buf[q])) = Len(buf[q]) - 1
      /\ Append(got[q], Head(buf[q])) \in Seq(Events) /\ Len(buf[q]) \in Nat
  BY <1>1, HeadTailProperties, AppendProperties, LenProperties
<1>4. BuffersFit' /\ got' \in [Requests -> Seq(Events)]
  <2>1. Len(Tail(buf[q])) <= Buffer
    BY <1>2, <1>3, JobAssumption
  <2> QED
    BY <1>1, <1>2, <1>3, <2>1 DEF BuffersFit
<1>5. ChannelInv'
  BY <1>1, <1>4 DEF ChannelInv, LockFits
<1>6. ~ended[q]
  BY <1>1 DEF JobInv, StreamInv
<1>7. Append(got[q], Head(buf[q])) \o Tail(buf[q]) = got[q] \o buf[q]
  BY <1>1, MovesHead
<1>8. got'[q] \o buf'[q] = got[q] \o buf[q] /\ \A p \in Requests \ {q} : got'[p] = got[p] /\ buf'[p] = buf[p]
  BY <1>1, <1>2, <1>7
<1>9. \A p \in Requests : OnTheWay(p)' = OnTheWay(p)
  BY <1>1 DEF OnTheWay
<1>10. ASSUME NEW p \in Requests PROVE Stream(p)' = Stream(p)
  <2>1. OnTheWay(p)' = OnTheWay(p) /\ ended'[p] = ended[p]
    BY <1>1, <1>9
  <2>2. CASE p = q
    <3>1. Stream(p)' = (got'[p] \o buf'[p]) \o OnTheWay(p)' /\ Stream(p) = (got[p] \o buf[p]) \o OnTheWay(p)
      BY <1>6, <2>1, <2>2 DEF Stream
    <3> QED
      BY <1>8, <2>1, <2>2, <3>1
  <2>3. CASE p # q
    BY <1>8, <2>1, <2>3 DEF Stream
  <2> QED
    BY <2>2, <2>3
<1> QED
  BY <1>5, <1>10 DEF Streams

(* The context lives until close() begins.                                 *)
CtxInv == ctx \in BOOLEAN /\ textOpen \in BOOLEAN /\ (ctx <=> closing = "no")

(* A stream that ends is cut off after what its request has received.      *)
LEMMA StreamEnds ==
  ASSUME ChannelInv, JobInv, CtxInv, NEW q \in Requests, RecvMarksEnd(q) \/ CloseStream(q)
  PROVE  ChannelInv' /\ CutTo(q, got[q]) /\ (ctx' => Finished(q))
<1>1. /\ UNCHANGED <<got, lock, sink>> /\ ended' = [ended EXCEPT ![q] = TRUE]
      /\ buf' = buf \/ buf' = [buf EXCEPT ![q] = <<>>]
  BY DEF RecvMarksEnd, CloseStream, jobVars
<1>2. \A p \in Requests : buf'[p] = buf[p] \/ (p = q /\ buf'[p] = <<>>)
  BY <1>1 DEF ChannelInv, BuffersFit
<1>3. BuffersFit'
  <2>1. <<>> \in Seq(Events) /\ Len(<<>>) <= Buffer
    BY EmptySeq, JobAssumption
  <2> QED
    BY <1>1, <1>2, <2>1 DEF ChannelInv, BuffersFit
<1>4. ChannelInv'
  BY <1>1, <1>3 DEF ChannelInv, LockFits
<1>5. ended'[q] = TRUE /\ \A p \in Requests \ {q} : ended'[p] = ended[p] /\ OnTheWay(p)' = OnTheWay(p) /\ buf'[p] = buf[p]
  BY <1>1, <1>2 DEF JobInv, OnTheWay
<1>6. Stream(q)' = got[q] /\ \A p \in Requests \ {q} : Stream(p)' = Stream(p)
  BY <1>1, <1>5 DEF Stream
<1>7. CutTo(q, got[q])
  BY <1>6, WhatHasCome DEF CutTo, Streams
<1>8. ctx' => Finished(q)
  <2>1. CASE RecvMarksEnd(q)
    BY <2>1 DEF RecvMarksEnd
  <2>2. CASE CloseStream(q) /\ HandedOff(q)
    BY <2>2 DEF HandedOff
  <2>3. CASE CloseStream(q) /\ ~HandedOff(q)
    <3>1. CloseBegins(q)
      BY <2>3 DEF CloseStream
    <3>2. CASE closing = "no"
      BY <3>1, <3>2 DEF CloseBegins
    <3>3. CASE closing # "no"
      BY <3>1, <3>3 DEF CloseBegins, closeVars, CtxInv
    <3> QED
      BY <3>2, <3>3
  <2> QED
    BY <2>1, <2>2, <2>3
<1> QED
  BY <1>4, <1>7, <1>8

-------------------------------------------------------------------------------
(* Every piece of text and every call is in one place of one stream at     *)
(* most: what the agent has said and the reader has not read is in none    *)
(* yet, nor is a call that was not delivered, nor what was never said.     *)
Spoken == [t : {"text", "end_turn", "broken"}, x : Nat]
Undelivered == {"none", "asked", "waiting"}
SpokenInv ==
  /\ stdout \in Seq(Spoken) /\ said \in Nat /\ DistinctMarks(stdout)
  /\ \A n \in DOMAIN stdout : stdout[n].t = "text" => stdout[n].x <= said /\ Absent(Streams, stdout[n])
  /\ \A k \in Nat : k > said => Absent(Streams, Ev("text", k))
MarkInv ==
  /\ Once(Streams) /\ SpokenInv
  /\ \A t \in Calls : call[t] \in Undelivered => Absent(Streams, Ev("call", t))

(* What is left of the standard output was there before.                   *)
StillSpoken(X) ==
  /\ stdout' \in Seq(Spoken) /\ DistinctMarks(stdout')
  /\ \A n \in DOMAIN stdout' : stdout'[n].t = "text" =>
       (\E m \in DOMAIN stdout : stdout[m] = stdout'[n]) /\ \A i \in DOMAIN X : X[i] # stdout'[n]
(* Events that may be added to a stream: each new in all of them.          *)
NewMarks(X) ==
  /\ AllNew(Streams, X)
  /\ \A n \in DOMAIN X : X[n].t = "text" => X[n].x <= said

(* Streams that stay, are cut off or get new events have every marked      *)
(* event once.                                                             *)
LEMMA StreamsChange ==
  ASSUME ChannelInv, NEW q \in Requests, NEW X \in Seq(Events), Once(Streams), NewMarks(X),
         \/ Streams' = Streams
         \/ Streams' = [Streams EXCEPT ![q] = @ \o X]
         \/ \E p \in Requests : \E s \in Seq(Events) : CutTo(p, s)
  PROVE  Once(Streams') /\ StillAbsent(Streams, Streams', X)
<1>1. Streams \in [Requests -> Seq(Events)]
  BY StreamsTyped
<1>2. PICK S : S = Streams
  OBVIOUS
<1>3. PICK S2 : S2 = Streams'
  OBVIOUS
<1>4. Once(S) /\ AllNew(S, X) /\ S \in [Requests -> Seq(Events)]
  BY <1>1, <1>2 DEF NewMarks
<1>5. CASE S2 = S
  BY <1>2, <1>3, <1>4, <1>5 DEF StillAbsent
<1>6. CASE S2 = [S EXCEPT ![q] = @ \o X]
  <2>1. Once(S2) /\ StillAbsent(S, S2, X)
    BY <1>4, <1>6, LongerMarks
  <2> QED
    BY <1>2, <1>3, <2>1
<1>7. CASE \E p \in Requests : \E s \in Seq(Events) : CutTo(p, s)
  <2>1. PICK p \in Requests, s \in Seq(Events) : CutTo(p, s)
    BY <1>7
  <2>2. Len(s) <= Len(S[p]) /\ (\A n \in 1 .. Len(s) : s[n] = S[p][n]) /\ S2 = [S EXCEPT ![p] = s]
    BY <1>2, <1>3, <2>1 DEF CutTo, Begins
  <2>3. Once(S2) /\ \A e : Absent(S, e) => Absent(S2, e)
    BY ONLY <1>4, <2>1, <2>2, CutMarks
  <2> QED
    BY <1>2, <1>3, <2>3 DEF StillAbsent
<1> QED
  BY <1>2, <1>3, <1>5, <1>6, <1>7

(* The same with what the agent has said and the calls not yet delivered.  *)
LEMMA MarksStep ==
  ASSUME ChannelInv, MarkInv, NEW q \in Requests, NEW X \in Seq(Events), NewMarks(X),
         \/ Streams' = Streams
         \/ Streams' = [Streams EXCEPT ![q] = @ \o X]
         \/ \E p \in Requests : \E s \in Seq(Events) : CutTo(p, s),
         \A u \in Calls : call'[u] \in Undelivered => call[u] \in Undelivered /\ \A n \in DOMAIN X : X[n] # Ev("call", u),
         said' = said, StillSpoken(X)
  PROVE  MarkInv'
<1>1. /\ Once(Streams')
      /\ \A e : Absent(Streams, e) /\ (\A n \in DOMAIN X : X[n] # e) => Absent(Streams', e)
  BY StreamsChange DEF MarkInv, StillAbsent
<1>2. \A t \in Calls : call'[t] \in Undelivered => Absent(Streams', Ev("call", t))
  BY <1>1 DEF MarkInv
<1>3. \A n \in DOMAIN stdout' : stdout'[n].t = "text" => stdout'[n].x <= said /\ Absent(Streams', stdout'[n])
  <2>1. SUFFICES ASSUME NEW n \in DOMAIN stdout', stdout'[n].t = "text"
                 PROVE  stdout'[n].x <= said /\ Absent(Streams', stdout'[n])
    OBVIOUS
  <2>2. PICK m \in DOMAIN stdout : stdout[m] = stdout'[n]
    BY <2>1 DEF StillSpoken
  <2>3. stdout'[n].x <= said /\ Absent(Streams, stdout'[n])
    BY <2>1, <2>2 DEF MarkInv, SpokenInv
  <2>4. \A i \in DOMAIN X : X[i] # stdout'[n]
    BY <2>1 DEF StillSpoken
  <2> QED
    BY <1>1, <2>3, <2>4
<1>4. ASSUME NEW k \in Nat, k > said PROVE Absent(Streams', Ev("text", k))
  <2>1. Absent(Streams, Ev("text", k)) /\ said \in Nat
    BY <1>4 DEF MarkInv, SpokenInv
  <2>2. \A n \in DOMAIN X : X[n] # Ev("text", k)
    <3>1. SUFFICES ASSUME NEW n \in DOMAIN X, X[n] = Ev("text", k) PROVE FALSE
      OBVIOUS
    <3>2. X[n].t = "text" /\ X[n].x = k
      BY <3>1 DEF Ev
    <3>3. k <= said
      BY <3>2 DEF NewMarks
    <3> QED
      BY <1>4, <2>1, <3>3
  <2> QED
    BY <1>1, <2>1, <2>2
<1>5. SpokenInv'
  BY <1>3, <1>4 DEF SpokenInv, MarkInv, StillSpoken
<1> QED
  BY <1>1, <1>2, <1>5 DEF MarkInv

(* The reader takes what the agent says from its front; close() drops it.  *)
LEMMA SpokenLess ==
  ASSUME MarkInv, \/ stdout' = stdout \/ stdout' = <<>>
                  \/ stdout # <<>> /\ stdout' = Tail(stdout)
  PROVE  StillSpoken(<<>>)
<1>1. stdout \in Seq(Spoken) /\ DistinctMarks(stdout) /\ DOMAIN stdout = 1 .. Len(stdout)
  BY LenProperties DEF MarkInv, SpokenInv
<1>2. DOMAIN <<>> = {} /\ <<>> \in Seq(Spoken)
  BY EmptySeq
<1>3. CASE stdout' = stdout
  BY <1>1, <1>2, <1>3 DEF StillSpoken
<1>4. CASE stdout' = <<>>
  BY <1>2, <1>4 DEF StillSpoken, DistinctMarks
<1>5. CASE stdout # <<>> /\ stdout' = Tail(stdout)
  <2>1. /\ stdout' \in Seq(Spoken) /\ Len(stdout') = Len(stdout) - 1 /\ Len(stdout) \in Nat
        /\ DOMAIN stdout' = 1 .. Len(stdout')
        /\ \A n \in 1 .. Len(stdout') : stdout'[n] = stdout[n + 1]
    <3>1. /\ Tail(stdout) \in Seq(Spoken) /\ Len(Tail(stdout)) = Len(stdout) - 1
          /\ \A n \in 1 .. Len(Tail(stdout)) : Tail(stdout)[n] = stdout[n + 1]
      <4>1. stdout \in Seq(Spoken) /\ stdout # <<>>
        BY ONLY <1>1, <1>5, Zenon
      <4> QED
        BY ONLY <4>1, HeadTailProperties
    <3>2. Len(stdout) \in Nat /\ DOMAIN Tail(stdout) = 1 .. Len(Tail(stdout))
      BY <1>1, <3>1, LenProperties
    <3> QED
      <4>1. PICK r : r = Tail(stdout)
        OBVIOUS
      <4>2. stdout' = r
        BY ONLY <1>5, <4>1, Zenon
      <4> QED
        BY ONLY <3>1, <3>2, <4>1, <4>2
  <2>2. \A n \in DOMAIN stdout' : n + 1 \in DOMAIN stdout /\ stdout'[n] = stdout[n + 1] /\ n \in Nat
    BY <1>1, <2>1
  <2>3. DistinctMarks(stdout')
    BY <1>1, <2>2 DEF DistinctMarks
  <2> QED
    BY <1>2, <2>1, <2>2, <2>3 DEF StillSpoken
<1> QED
  BY <1>3, <1>4, <1>5

(* Steps that send nothing.                                                *)
LEMMA MarksKept ==
  ASSUME ChannelInv, MarkInv, Streams' = Streams \/ \E p \in Requests : \E s \in Seq(Events) : CutTo(p, s),
         \A u \in Calls : call'[u] \in Undelivered => call[u] \in Undelivered,
         said' = said, \/ stdout' = stdout \/ stdout' = <<>>
                       \/ stdout # <<>> /\ stdout' = Tail(stdout)
  PROVE  MarkInv'
<1>1. <<>> \in Seq(Events) /\ DOMAIN <<>> = {}
  BY EmptySeq
<1>2. NewMarks(<<>>) /\ StillSpoken(<<>>)
  BY <1>1, SpokenLess DEF NewMarks, AllNew, DistinctMarks
<1>3. \A u \in Calls : call'[u] \in Undelivered => call[u] \in Undelivered /\ \A n \in DOMAIN <<>> : <<>>[n] # Ev("call", u)
  BY <1>1
<1>4. Starter \in Requests
  BY StarterIsRequest
<1> QED
  BY <1>1, <1>2, <1>3, <1>4, MarksStep

(* The agent says something.                                               *)
LEMMA SpokenMore ==
  ASSUME MarkInv, AgentSpeaks \/ AgentEnds, Streams' = Streams
  PROVE  MarkInv'
<1>1. /\ stdout \in Seq(Spoken) /\ said \in Nat /\ DistinctMarks(stdout) /\ DOMAIN stdout = 1 .. Len(stdout)
      /\ Len(stdout) \in Nat
  BY LenProperties DEF MarkInv, SpokenInv
<1>2. call' = call
  BY DEF AgentSpeaks, AgentEnds
<1>3. PICK e \in Spoken : /\ stdout' = Append(stdout, e)
                          /\ \/ said' = said + 1 /\ e = Ev("text", said')
                             \/ said' = said /\ e.t # "text"
  <2>1. CASE AgentSpeaks
    <3>1. Ev("text", said') \in Spoken /\ stdout' = Append(stdout, Ev("text", said')) /\ said' = said + 1
      BY <1>1, <2>1 DEF AgentSpeaks, Ev, Spoken
    <3> QED
      BY <3>1
  <2>2. CASE AgentEnds
    <3>1. PICK stop \in {"end_turn", "broken"} : stdout' = Append(stdout, Ev(stop, 0))
      BY <2>2 DEF AgentEnds
    <3>2. Ev(stop, 0) \in Spoken /\ Ev(stop, 0).t # "text" /\ said' = said
      BY <2>2 DEF AgentEnds, Ev, Spoken
    <3> QED
      BY <3>1, <3>2
  <2> QED
    BY <2>1, <2>2
<1>4. /\ stdout' \in Seq(Spoken) /\ DOMAIN stdout' = 1 .. Len(stdout) + 1 /\ stdout'[Len(stdout) + 1] = e
      /\ \A n \in 1 .. Len(stdout) : stdout'[n] = stdout[n]
  <2>1. /\ Append(stdout, e) \in Seq(Spoken) /\ Len(Append(stdout, e)) = Len(stdout) + 1
        /\ Append(stdout, e)[Len(stdout) + 1] = e
        /\ \A n \in 1 .. Len(stdout) : Append(stdout, e)[n] = stdout[n]
    BY <1>1, AppendProperties
  <2>2. DOMAIN Append(stdout, e) = 1 .. Len(stdout) + 1
    BY <2>1, LenProperties
  <2> QED
    BY <1>3, <2>1, <2>2
<1>5. \A n \in DOMAIN stdout' : (n \in DOMAIN stdout /\ stdout'[n] = stdout[n]) \/ (n = Len(stdout) + 1 /\ stdout'[n] = e)
  BY <1>1, <1>4
<1>6. \A n \in DOMAIN stdout : stdout[n].t = "text" => stdout[n].x <= said /\ Absent(Streams, stdout[n])
  BY DEF MarkInv, SpokenInv
<1>7. said' \in Nat /\ said <= said' /\ \A n \in DOMAIN stdout : stdout[n].x \in Nat
  <2>1. \A n \in DOMAIN stdout : stdout[n] \in Spoken
    BY <1>1, ElementOfSeq
  <2>2. said' = said \/ said' = said + 1
    BY <1>3
  <2> QED
    BY <1>1, <2>1, <2>2 DEF Spoken
<1>8. e.t = "text" => /\ e.x <= said' /\ Absent(Streams, e)
                      /\ \A n \in DOMAIN stdout : stdout[n].t = "text" => stdout[n] # e
  <2>1. SUFFICES ASSUME e.t = "text" PROVE e.x <= said' /\ Absent(Streams, e)
                                           /\ \A n \in DOMAIN stdout : stdout[n].t = "text" => stdout[n] # e
    OBVIOUS
  <2>2. said' = said + 1 /\ e = Ev("text", said + 1) /\ said + 1 > said /\ said + 1 \in Nat
    BY <1>1, <1>3, <2>1
  <2>3. e.x = said + 1
    BY <2>2 DEF Ev
  <2>4. Absent(Streams, e)
    BY <2>2 DEF MarkInv, SpokenInv
  <2>5. \A n \in DOMAIN stdout : stdout[n].t = "text" => stdout[n] # e
    BY <1>1, <1>6, <1>7, <2>3
  <2> QED
    BY <1>1, <2>2, <2>3, <2>4, <2>5
<1>9. DistinctMarks(stdout')
  <2>1. SUFFICES ASSUME NEW n \in DOMAIN stdout', NEW m \in DOMAIN stdout', stdout'[n].t \in Marked, stdout'[n] = stdout'[m]
                 PROVE  n = m
    BY DEF DistinctMarks
  <2>2. stdout'[n].t = "text" /\ stdout'[m].t = "text"
    <3>1. \A i \in DOMAIN stdout' : stdout'[i] \in Spoken
      BY <1>4, LenProperties, ElementOfSeq
    <3>2. stdout'[n] \in Spoken
      BY <2>1, <3>1
    <3> QED
      BY <2>1, <3>2 DEF Spoken, Marked
  <2>3. CASE n \in DOMAIN stdout /\ m \in DOMAIN stdout
    BY <1>1, <1>4, <2>1, <2>3 DEF DistinctMarks
  <2>4. CASE n \notin DOMAIN stdout \/ m \notin DOMAIN stdout
    BY <1>5, <1>8, <2>1, <2>2, <2>4
  <2> QED
    BY <2>3, <2>4
<1>10. \A n \in DOMAIN stdout' : stdout'[n].t = "text" => stdout'[n].x <= said' /\ Absent(Streams', stdout'[n])
  <2>1. SUFFICES ASSUME NEW n \in DOMAIN stdout', stdout'[n].t = "text" PROVE stdout'[n].x <= said' /\ Absent(Streams, stdout'[n])
    OBVIOUS
  <2>2. CASE n \in DOMAIN stdout /\ stdout'[n] = stdout[n]
    BY <1>1, <1>6, <1>7, <2>1, <2>2
  <2>3. CASE stdout'[n] = e
    BY <1>8, <2>1, <2>3
  <2> QED
    BY <1>5, <2>2, <2>3
<1>11. \A k \in Nat : k > said' => Absent(Streams', Ev("text", k))
  <2>1. \A k \in Nat : k > said' => k > said
    BY <1>1, <1>7
  <2> QED
    BY <2>1 DEF MarkInv, SpokenInv
<1>12. Once(Streams') /\ \A t \in Calls : call'[t] \in Undelivered => Absent(Streams', Ev("call", t))
  BY <1>2 DEF MarkInv
<1> QED
  BY <1>4, <1>7, <1>9, <1>10, <1>11, <1>12 DEF MarkInv, SpokenInv

-------------------------------------------------------------------------------
(* Everything a reply and a tool call rest on.                             *)
KiroInv == JobInv /\ ChannelInv /\ CtxInv /\ ClientInv /\ CallInv /\ MarkInv

LEMMA KiroInitInv == Init => KiroInv
<1> SUFFICES ASSUME Init PROVE KiroInv
  OBVIOUS
<1>1. <<>> \in Seq(Events) /\ <<>> \in Seq(Calls) /\ <<>> \in Seq(Spoken) /\ DOMAIN <<>> = {} /\ Len(<<>>) = 0
  BY EmptySeq
<1>2. NoRequest \notin Requests /\ Starter \in Requests
  BY StarterIsRequest
<1>3. ChannelInv
  BY <1>1, JobAssumption DEF Init, ChannelInv, LockFits, BuffersFit, Free
<1>4. \A q \in Requests : Streams[q] = <<>>
  <2>1. SUFFICES ASSUME NEW q \in Requests PROVE Stream(q) = <<>>
    BY DEF Streams
  <2>2. got[q] = <<>> /\ buf[q] = <<>> /\ OnTheWay(q) = <<>> /\ ~ended[q]
    BY <1>2 DEF Init, OnTheWay, Free
  <2>3. <<>> \o <<>> = <<>>
    BY <1>1, ConcatEmptySeq
  <2> QED
    BY <2>2, <2>3 DEF Stream
<1>5. MarkInv
  BY <1>1, <1>4 DEF Init, MarkInv, SpokenInv, Once, Absent, DistinctMarks
<1>6. ClientInv
  BY <1>1, <1>2 DEF Init, ClientInv
<1>7. CallInv
  BY <1>1 DEF Init, CallInv, Distinct, Registered, ToSet
<1>8. CtxInv
  BY DEF Init, CtxInv
<1> QED
  BY <1>3, <1>5, <1>6, <1>7, <1>8, JobInitInv DEF KiroInv

(* Streams change only with channels, end marks and the holder of the      *)
(* mutex.                                                                  *)
LEMMA QuietStreams ==
  ASSUME ChannelInv, UNCHANGED <<buf, got, ended, lock>>,
         sink' = sink \/ (lock = Free /\ sink' \in Requests \cup {NoRequest})
  PROVE  ChannelInv' /\ Streams' = Streams
<1>1. \A q \in Requests : OnTheWay(q)' = OnTheWay(q)
  BY DEF OnTheWay, Free
<1>2. \A q \in Requests : Stream(q)' = Stream(q)
  BY <1>1 DEF Stream
<1> QED
  BY <1>2 DEF Streams, ChannelInv, LockFits, BuffersFit

(* Steps of close(), the agent and the goroutine of the prompt that leave  *)
(* channels, requests and calls alone.                                     *)
Aside ==
  \/ CloseMarks \/ CloseForgets \/ JobTimeout \/ AgentSpeaks \/ AgentEnds \/ PromptCloses
  \/ \E t \in Calls : AgentHangsUp(t)
  \/ \E q \in Requests : WatchChecks(q) \/ WatchCloses(q)
  \/ UNCHANGED vars
(* None of these changes what is on its way.                               *)
LEMMA AsideStep == ASSUME KiroInv, Aside PROVE ChannelInv' /\ ClientInv' /\ CallInv' /\ MarkInv'
<1>1. UNCHANGED <<buf, got, ended, lock, sink, state, brings, order, call>>
  BY DEF Aside, CloseMarks, CloseForgets, JobTimeout, AgentSpeaks, AgentEnds, PromptCloses, AgentHangsUp,
         WatchChecks, WatchCloses, jobVars, streamVars, vars
<1>2. ChannelInv' /\ Streams' = Streams
  BY <1>1, QuietStreams DEF KiroInv
<1>3. ClientInv'
  BY <1>1, ClientKept DEF KiroInv
<1>4. CallInv'
  BY <1>1, CallsKept, KnownKept DEF KiroInv
<1>5. MarkInv'
  <2>1. CASE AgentSpeaks \/ AgentEnds
    BY <1>2, <2>1, SpokenMore DEF KiroInv
  <2>2. CASE ~(AgentSpeaks \/ AgentEnds)
    <3>1. said' = said /\ (stdout' = stdout \/ stdout' = <<>>)
      BY <2>2 DEF Aside, CloseMarks, CloseForgets, JobTimeout, PromptCloses, AgentHangsUp, WatchChecks, WatchCloses,
             jobVars, agentVars, vars
    <3> QED
      BY <1>1, <1>2, <3>1, MarksKept DEF KiroInv
  <2> QED
    BY <2>1, <2>2
<1> QED
  BY <1>2, <1>3, <1>4, <1>5

(* The agent calls a tool, or its call is answered.                        *)
LEMMA CallMoves ==
  ASSUME KiroInv, NEW t \in Calls, AgentCalls(t) \/ CallReturns(t)
  PROVE  ChannelInv' /\ ClientInv' /\ CallInv' /\ MarkInv'
<1>1. UNCHANGED <<buf, got, ended, lock, sink, state, brings, said, stdout>>
  BY DEF AgentCalls, CallReturns, agentVars, streamVars
<1>2. ChannelInv' /\ Streams' = Streams
  BY <1>1, QuietStreams DEF KiroInv
<1>3. ClientInv'
  BY <1>1, ClientKept DEF KiroInv
<1>4. CallInv' /\ \A u \in Calls : call'[u] \in Undelivered => call[u] \in Undelivered
  BY AgentCallStep DEF KiroInv, Undelivered
<1>5. MarkInv'
  BY <1>1, <1>2, <1>4, MarksKept DEF KiroInv
<1> QED
  BY <1>2, <1>3, <1>4, <1>5

(* Requests come, and start the job or fail to.                            *)
Comes(q) ==
  \/ q = Starter /\ (Start \/ StartFails \/ StartJob)
  \/ (\E r \in SUBSET Calls : Return(q, r)) \/ CheckFails(q) \/ ResumeRefused(q)
ComesTo(q, new, b) ==
  /\ state' = [state EXCEPT ![q] = new] /\ b \subseteq Calls \cap KnownToClient /\ (q = Starter => b = {})
  /\ brings' = [brings EXCEPT ![q] = b] \/ brings' = brings
  /\ state[q] \in {"idle", "checking"} \/ (q = Starter /\ state[q] = "setup")
  /\ new \in Unstarted => sink' = sink
(* A request that comes leaves the streams as they are.                    *)
LEMMA RequestComes ==
  ASSUME KiroInv, NEW q \in Requests, Comes(q)
  PROVE  ChannelInv' /\ ClientInv' /\ CallInv' /\ MarkInv'
<1>1. /\ UNCHANGED <<buf, got, ended, lock, order, call, said, stdout>>
      /\ sink' = sink \/ (lock = Free /\ sink' = Starter /\ q = Starter)
  BY DEF Comes, Start, StartFails, StartJob, Return, CheckFails, ResumeRefused, jobVars, agentVars
<1>2. Starter \in Requests
  BY StarterIsRequest
<1>3. ChannelInv' /\ Streams' = Streams
  BY <1>1, <1>2, QuietStreams DEF KiroInv
<1>4. \E new, b : ComesTo(q, new, b)
  <2>1. CASE q = Starter /\ Start
    <3>1. ComesTo(q, "setup", {})
      BY <2>1 DEF Start, ComesTo, jobVars
    <3> QED
      BY <3>1
  <2>2. CASE q = Starter /\ StartFails
    <3>1. ComesTo(q, "refused", {})
      BY <2>2 DEF StartFails, ComesTo, jobVars
    <3> QED
      BY <3>1
  <2>3. CASE q = Starter /\ StartJob
    <3>1. ComesTo(q, "streaming", {})
      BY <2>3 DEF StartJob, ComesTo, Unstarted
    <3> QED
      BY <3>1
  <2>4. ASSUME NEW r \in SUBSET Calls, Return(q, r) PROVE \E new : ComesTo(q, new, r)
    <3>1. CASE r \cap pending = {}
      <4>1. ComesTo(q, "refused", r)
        BY <2>4, <3>1 DEF Return, ComesTo, jobVars
      <4> QED
        BY <4>1
    <3>2. CASE r \cap pending # {}
      <4>1. ComesTo(q, "checking", r)
        BY <2>4, <3>2 DEF Return, ComesTo, jobVars
      <4> QED
        BY <4>1
    <3> QED
      BY <3>1, <3>2
  <2>5. CASE \E r \in SUBSET Calls : Return(q, r)
    BY <2>4, <2>5
  <2>6. CASE CheckFails(q) \/ ResumeRefused(q)
    <3>1. ComesTo(q, "refused", {})
      BY <2>6 DEF CheckFails, ResumeRefused, ComesTo, jobVars
    <3> QED
      BY <3>1
  <2> QED
    BY <2>1, <2>2, <2>3, <2>5, <2>6 DEF Comes
<1>5. PICK new, b : ComesTo(q, new, b)
  BY <1>4
<1>6. ClientInv'
  <2>1. \A p \in Requests \ {q} : buf'[p] = buf[p] /\ (sink' = p => sink = p)
    BY <1>1
  <2>2. new \in Unstarted => state[q] \in Unstarted /\ buf'[q] = buf[q] /\ (sink' = q => sink = q)
    BY <1>1, <1>5 DEF ComesTo, Unstarted
  <2>3. got' = got
    BY <1>1
  <2> QED
    BY <1>5, <2>1, <2>2, <2>3, ClientGoesOn DEF KiroInv, ComesTo
<1>7. CallInv'
  <2>1. ASSUME NEW p \in Requests, state[p] \notin NotTaken, brings[p] # {}
        PROVE  state'[p] \notin NotTaken /\ brings[p] \subseteq brings'[p]
    <3>1. p # q
      BY <1>5, <2>1 DEF KiroInv, ClientInv, NotTaken, ComesTo
    <3>2. DOMAIN state = Requests /\ DOMAIN brings = Requests
      BY DEF KiroInv, ClientInv
    <3>3. state'[p] = state[p] /\ brings'[p] = brings[p]
      BY <1>5, <3>1, <3>2 DEF ComesTo
    <3> QED
      BY <2>1, <3>3
  <2>2. KnownToClient' = KnownToClient
    BY <1>1, KnownKept
  <2> QED
    BY <1>1, <2>1, <2>2, CallsKept DEF KiroInv
<1>8. MarkInv'
  BY <1>1, <1>3, MarksKept DEF KiroInv
<1> QED
  BY <1>3, <1>6, <1>7, <1>8

-------------------------------------------------------------------------------
(* What is sent starts with an event of no mark, or does not.              *)
LEMMA Prefixed ==
  ASSUME NEW e \in Events, e.t \notin Marked, NEW pre \in {<<>>, <<e>>}, NEW X \in Seq(Events)
  PROVE  /\ pre \o X \in Seq(Events)
         /\ NewMarks(X) => NewMarks(pre \o X)
         /\ \A f : f.t \in Marked /\ (\A n \in DOMAIN X : X[n] # f) => \A n \in DOMAIN (pre \o X) : (pre \o X)[n] # f
<1> DEFINE Y == pre \o X
<1>1. pre \in Seq(Events) /\ Len(pre) \in {0, 1} /\ \A n \in 1 .. Len(pre) : pre[n] = e
  <2>1. <<>> \in Seq(Events) /\ Len(<<>>) = 0 /\ <<e>> \in Seq(Events) /\ Len(<<e>>) = 1 /\ <<e>>[1] = e
    BY EmptySeq
  <2>2. CASE pre = <<>>
    BY <2>1, <2>2
  <2>3. CASE pre = <<e>>
    BY <2>1, <2>3
  <2> QED
    BY <2>2, <2>3
<1>2. /\ Y \in Seq(Events) /\ Len(Y) = Len(pre) + Len(X)
      /\ \A n \in 1 .. Len(pre) + Len(X) : Y[n] = IF n <= Len(pre) THEN pre[n] ELSE X[n - Len(pre)]
  BY ONLY <1>1, X \in Seq(Events), ConcatProperties
<1> HIDE DEF Y
<1>3. Len(X) \in Nat /\ DOMAIN X = 1 .. Len(X) /\ DOMAIN Y = 1 .. Len(pre) + Len(X)
  BY <1>2, LenProperties
<1>4. ASSUME NEW n \in DOMAIN Y PROVE Y[n] = e \/ (n - Len(pre) \in DOMAIN X /\ Y[n] = X[n - Len(pre)])
  <2>1. CASE n <= Len(pre)
    BY <1>1, <1>2, <1>3, <2>1
  <2>2. CASE ~(n <= Len(pre))
    <3>1. n \in 1 .. Len(pre) + Len(X) /\ n - Len(pre) \in 1 .. Len(X)
      BY <1>1, <1>3, <2>2
    <3> QED
      BY <1>2, <1>3, <2>2, <3>1
  <2> QED
    BY <2>1, <2>2
<1>5. ASSUME NewMarks(X) PROVE NewMarks(Y)
  <2>1. DistinctMarks(X) /\ \A n \in DOMAIN X : /\ X[n].t \in Marked => Absent(Streams, X[n])
                                                /\ X[n].t = "text" => X[n].x <= said
    BY <1>5 DEF NewMarks, AllNew
  <2>2. DistinctMarks(Y)
    <3>1. SUFFICES ASSUME NEW n \in DOMAIN Y, NEW m \in DOMAIN Y, Y[n].t \in Marked, Y[n] = Y[m] PROVE n = m
      BY DEF DistinctMarks
    <3>2. /\ n - Len(pre) \in DOMAIN X /\ Y[n] = X[n - Len(pre)]
          /\ m - Len(pre) \in DOMAIN X /\ Y[m] = X[m - Len(pre)]
      BY <1>4, <3>1
    <3>3. n - Len(pre) = m - Len(pre)
      BY <2>1, <3>1, <3>2 DEF DistinctMarks
    <3>4. n \in Int /\ m \in Int /\ Len(pre) \in Int
      BY <1>1, <1>3
    <3> QED
      BY <3>3, <3>4
  <2>3. "text" \in Marked
    BY DEF Marked
  <2> QED
    BY <1>4, <2>1, <2>2, <2>3 DEF NewMarks, AllNew
<1> QED
  BY <1>2, <1>4, <1>5 DEF Y

(* A section that takes the mutex keeps the marks when what it sends is    *)
(* new.                                                                    *)
LEMMA SectionMarks ==
  ASSUME KiroInv, NEW q \in Requests \cup {NoRequest}, NEW out \in Seq(Events), NEW release \in BOOLEAN,
         Section(q, out, release), lock = Free, UNCHANGED <<got, ended, said>>, NewMarks(out), StillSpoken(out),
         \A u \in Calls : call'[u] \in Undelivered => call[u] \in Undelivered /\ \A n \in DOMAIN out : out[n] # Ev("call", u)
  PROVE  /\ ChannelInv' /\ MarkInv' /\ \A p \in Requests \ {q} : buf'[p] = buf[p]
         /\ sink' \in {q, NoRequest}
<1>1. /\ ChannelInv' /\ (\A p \in Requests \ {q} : buf'[p] = buf[p]) /\ sink' \in {q, NoRequest}
      /\ Streams' = Streams \/ (q \in Requests /\ Streams' = [Streams EXCEPT ![q] = @ \o out])
  BY SectionStreams DEF KiroInv
<1>2. PICK p \in Requests : Streams' = Streams \/ Streams' = [Streams EXCEPT ![p] = @ \o out]
  BY <1>1, StarterIsRequest
<1>3. MarkInv'
  BY <1>2, MarksStep DEF KiroInv
<1> QED
  BY <1>1, <1>3

LEMMA StillSpokenBy ==
  ASSUME StillSpoken(<<>>), NEW X, \A n \in DOMAIN X : X[n].t # "text"
  PROVE  StillSpoken(X)
BY DEF StillSpoken

LEMMA EventKinds ==
  /\ Ev("textStart", 0) \in Events /\ Ev("textStart", 0).t \notin Marked
  /\ Ev("textEnd", 0) \in Events /\ Ev("textEnd", 0).t \notin Marked
  /\ \A k : k \in {"stop", "tool_calls"} => Ev("done", k) \in Events
  /\ Ev("error", 0) \in Events
  /\ \A t : Ev("call", t).t \in Marked /\ Ev("call", t).t # "text"
BY DEF Ev, Events, Kinds, Marked

LEMMA OneEvent ==
  ASSUME NEW e \in Events
  PROVE  <<e>> \in Seq(Events) /\ DOMAIN <<e>> = {1} /\ <<e>>[1] = e /\ Len(<<e>>) = 1
OBVIOUS

(* Text goes to the attached stream.                                       *)
LEMMA NotifyStep == ASSUME KiroInv, Notify PROVE ChannelInv' /\ ClientInv' /\ CallInv' /\ MarkInv'
<1>1. /\ stdout # <<>> /\ Head(stdout).t = "text" /\ lock = Free /\ stdout' = Tail(stdout)
      /\ UNCHANGED <<order, call, said, got, ended, state, brings>>
  BY DEF Notify
<1>2. CASE Closed \/ sink = NoRequest
  <2>1. UNCHANGED <<lock, sink, buf>>
    BY <1>2 DEF Notify
  <2>2. ChannelInv' /\ Streams' = Streams
    BY <1>1, <2>1, QuietStreams DEF KiroInv
  <2>3. MarkInv'
    BY <1>1, <2>2, MarksKept DEF KiroInv
  <2>4. ClientInv' /\ CallInv'
    BY <1>1, <2>1, ClientKept, CallsKept, KnownKept DEF KiroInv
  <2> QED
    BY <2>2, <2>3, <2>4
<1>3. CASE ~(Closed \/ sink = NoRequest)
  <2>1. PICK h : h = Head(stdout)
    OBVIOUS
  <2>2. PICK pre \in {<<>>, <<Ev("textStart", 0)>>} : Section(sink, pre \o <<h>>, FALSE)
    BY <1>3, <2>1 DEF Notify
  <2>3. stdout \in Seq(Spoken) /\ DistinctMarks(stdout) /\ StillSpoken(<<>>)
    BY <1>1, SpokenLess DEF KiroInv, MarkInv, SpokenInv
  <2>4. h = stdout[1] /\ 1 \in DOMAIN stdout /\ h \in Spoken /\ h.t = "text"
    <3>1. Len(stdout) \in Nat \ {0} /\ DOMAIN stdout = 1 .. Len(stdout)
      BY <1>1, <2>3, LenProperties, EmptySeq
    <3>2. h = stdout[1] /\ 1 \in DOMAIN stdout
      BY <2>1, <3>1 DEF Head
    <3> QED
      BY <1>1, <2>1, <2>3, <3>1, <3>2, ElementOfSeq
  <2>5. h \in Events /\ h.x <= said /\ Absent(Streams, h)
    BY <2>4 DEF Spoken, Events, Kinds, KiroInv, MarkInv, SpokenInv
  <2>6. <<h>> \in Seq(Events) /\ DOMAIN <<h>> = {1} /\ <<h>>[1] = h
    BY <2>5, OneEvent
  <2>7. NewMarks(<<h>>)
    BY <2>5, <2>6 DEF NewMarks, AllNew, DistinctMarks
  <2> DEFINE out == pre \o <<h>>
  <2>8. /\ out \in Seq(Events) /\ NewMarks(out)
        /\ \A f : f.t \in Marked /\ f # h => \A n \in DOMAIN out : out[n] # f
    <3>1. \A f : f # h => \A n \in DOMAIN <<h>> : <<h>>[n] # f
      BY <2>6
    <3>2. PICK X \in Seq(Events) : X = <<h>>
      BY <2>6
    <3>3. /\ pre \o X \in Seq(Events)
          /\ NewMarks(X) => NewMarks(pre \o X)
          /\ \A f : f.t \in Marked /\ (\A n \in DOMAIN X : X[n] # f) => \A n \in DOMAIN (pre \o X) : (pre \o X)[n] # f
      BY <2>2, EventKinds, Prefixed
    <3> QED
      BY <2>7, <3>1, <3>2, <3>3
  <2> HIDE DEF out
  <2>9. \A n \in DOMAIN stdout' : stdout'[n].t = "text" => stdout'[n] # h
    <3>1. SUFFICES ASSUME NEW n \in DOMAIN stdout', stdout'[n] = h PROVE FALSE
      OBVIOUS
    <3>2. /\ DOMAIN stdout' = 1 .. Len(stdout) - 1 /\ Len(stdout) \in Nat /\ DOMAIN stdout = 1 .. Len(stdout)
          /\ \A k \in 1 .. Len(stdout) - 1 : stdout'[k] = stdout[k + 1]
      <4>1. PICK r : r = Tail(stdout)
        OBVIOUS
      <4>2. /\ r \in Seq(Spoken) /\ Len(r) = Len(stdout) - 1 /\ \A k \in 1 .. Len(r) : r[k] = stdout[k + 1]
        BY <1>1, <2>3, <4>1, HeadTailProperties
      <4>3. Len(stdout) \in Nat /\ DOMAIN stdout = 1 .. Len(stdout) /\ DOMAIN r = 1 .. Len(r)
        BY <2>3, <4>2, LenProperties
      <4>4. stdout' = r
        BY ONLY <1>1, <4>1, Zenon
      <4> QED
        BY ONLY <4>2, <4>3, <4>4
    <3>3. n + 1 \in DOMAIN stdout /\ stdout[n + 1] = stdout[1] /\ n # 0 /\ n \in Nat
      BY <2>4, <3>1, <3>2
    <3>4. stdout[1].t \in Marked
      BY <2>4 DEF Marked
    <3> QED
      BY <2>3, <2>4, <3>3, <3>4 DEF DistinctMarks
  <2>10. StillSpoken(out)
    BY <2>3, <2>8, <2>9 DEF StillSpoken, Marked
  <2>11. \A u \in Calls : call'[u] \in Undelivered => call[u] \in Undelivered /\ \A n \in DOMAIN out : out[n] # Ev("call", u)
    <3>1. \A u \in Calls : Ev("call", u).t \in Marked /\ Ev("call", u) # h
      BY <2>4, EventKinds
    <3> QED
      BY <1>1, <2>8, <3>1
  <2>12. sink \in Requests \cup {NoRequest} /\ Section(sink, out, FALSE)
    BY <2>2 DEF KiroInv, ChannelInv, out
  <2>13. ChannelInv' /\ MarkInv' /\ (\A p \in Requests \ {sink} : buf'[p] = buf[p]) /\ sink' \in {sink, NoRequest}
    BY <1>1, <2>8, <2>10, <2>11, <2>12, SectionMarks
  <2>14. ClientInv'
    BY <1>1, <2>13, ClientKept DEF KiroInv
  <2>15. CallInv'
    BY <1>1, CallsKept, KnownKept DEF KiroInv
  <2> QED
    BY <2>13, <2>14, <2>15
<1> QED
  BY <1>2, <1>3

(* The answer of the prompt.                                               *)
LEMMA PromptStep == ASSUME KiroInv, PromptReturns PROVE ChannelInv' /\ ClientInv' /\ CallInv' /\ MarkInv'
<1>1. /\ lock = Free /\ UNCHANGED <<order, call, said, got, ended, state, brings>>
      /\ stdout' = stdout \/ (stdout # <<>> /\ stdout' = Tail(stdout))
  BY DEF PromptReturns, CallEnds
<1>2. CASE Closed
  <2>1. UNCHANGED <<lock, sink, buf>>
    BY <1>2 DEF PromptReturns
  <2>2. ChannelInv' /\ Streams' = Streams
    BY <1>1, <2>1, QuietStreams DEF KiroInv
  <2>3. MarkInv'
    BY <1>1, <2>2, MarksKept DEF KiroInv
  <2>4. ClientInv' /\ CallInv'
    BY <1>1, <2>1, ClientKept, CallsKept, KnownKept DEF KiroInv
  <2> QED
    BY <2>2, <2>3, <2>4
<1>3. CASE ~Closed
  <2>1. PICK final \in {Ev("error", 0), Ev("done", "stop")} : Section(sink, EndText \o <<final>>, FALSE)
    BY <1>3 DEF PromptReturns
  <2>2. final \in Events /\ final.t \notin Marked
    BY <2>1, EventKinds DEF Ev, Marked
  <2>3. PICK X \in Seq(Events) : X = <<final>> /\ DOMAIN X = {1} /\ X[1] = final
    BY <2>2, OneEvent
  <2>4. NewMarks(X)
    BY <2>2, <2>3 DEF NewMarks, AllNew, DistinctMarks, Marked
  <2>5. PICK pre \in {<<>>, <<Ev("textEnd", 0)>>} : pre = EndText
    BY DEF EndText
  <2>6. PICK out : out = pre \o X
    OBVIOUS
  <2>7. /\ out \in Seq(Events) /\ NewMarks(out)
        /\ \A f : f.t \in Marked => \A n \in DOMAIN out : out[n] # f
    <3>1. \A f : f.t \in Marked => \A n \in DOMAIN X : X[n] # f
      BY <2>2, <2>3
    <3>2. /\ pre \o X \in Seq(Events)
          /\ NewMarks(X) => NewMarks(pre \o X)
          /\ \A f : f.t \in Marked /\ (\A n \in DOMAIN X : X[n] # f) => \A n \in DOMAIN (pre \o X) : (pre \o X)[n] # f
      BY <2>5, EventKinds, Prefixed
    <3> QED
      BY <2>4, <2>6, <3>1, <3>2
  <2>8. StillSpoken(out)
    <3>1. StillSpoken(<<>>)
      BY <1>1, SpokenLess DEF KiroInv
    <3>2. \A n \in DOMAIN out : out[n].t # "text"
      BY <2>7 DEF Marked
    <3> QED
      BY <3>1, <3>2, StillSpokenBy
  <2>9. \A u \in Calls : call'[u] \in Undelivered => call[u] \in Undelivered /\ \A n \in DOMAIN out : out[n] # Ev("call", u)
    BY <1>1, <2>7, EventKinds
  <2>10. sink \in Requests \cup {NoRequest} /\ Section(sink, out, FALSE)
    BY <2>1, <2>3, <2>5, <2>6 DEF KiroInv, ChannelInv
  <2>11. ChannelInv' /\ MarkInv' /\ (\A p \in Requests \ {sink} : buf'[p] = buf[p]) /\ sink' \in {sink, NoRequest}
    BY <1>1, <2>7, <2>8, <2>9, <2>10, SectionMarks
  <2>12. ClientInv' /\ CallInv'
    BY <1>1, <2>11, ClientKept, CallsKept, KnownKept DEF KiroInv
  <2> QED
    BY <2>11, <2>12
<1> QED
  BY <1>2, <1>3

(* The events that hand over calls that were not delivered before.         *)
LEMMA CallEventsNew ==
  ASSUME KiroInv, NEW w \in Seq(Calls), Distinct(w), \A n \in DOMAIN w : call[w[n]] \in {"asked", "waiting"}
  PROVE  /\ CallEvents(w) \in Seq(Events) /\ NewMarks(CallEvents(w))
         /\ \A n \in DOMAIN CallEvents(w) : CallEvents(w)[n].t # "text"
         /\ \A u : u \notin ToSet(w) => \A n \in DOMAIN CallEvents(w) : CallEvents(w)[n] # Ev("call", u)
<1>1. CallEvents(w) \in Seq(Events)
  BY CallEventsAre
<1>2. CASE w = <<>>
  <2>1. CallEvents(w) = <<>> /\ DOMAIN <<>> = {}
    <3>1. CallEvents(w) = <<>>
      BY <1>2, CallEventsAre
    <3> QED
      BY <3>1, EmptySeq
  <2>2. NewMarks(<<>>)
    BY <2>1 DEF NewMarks, AllNew, DistinctMarks
  <2> QED
    BY <1>1, <2>1, <2>2
<1>3. CASE w # <<>>
  <2> DEFINE X == CallEvents(w)
  <2>1. /\ DOMAIN w = 1 .. Len(w) /\ DOMAIN X = 1 .. Len(w) + 1 /\ Len(w) \in Nat
        /\ \A n \in 1 .. Len(w) : X[n] = Ev("call", w[n])
        /\ X[Len(w) + 1] = Ev("done", "tool_calls")
    BY <1>3, CallEventsAre
  <2> HIDE DEF X
  <2>2. Ev("done", "tool_calls").t \notin Marked /\ \A x : Ev("call", x).t = "call" /\ Ev("call", x).x = x
    BY DEF Ev, Marked
  <2>3. \A n \in DOMAIN X : (n \in DOMAIN w /\ X[n] = Ev("call", w[n])) \/ X[n] = Ev("done", "tool_calls")
    BY <2>1
  <2>4. DistinctMarks(X)
    <3>1. SUFFICES ASSUME NEW n \in DOMAIN X, NEW m \in DOMAIN X, X[n].t \in Marked, X[n] = X[m] PROVE n = m
      BY DEF DistinctMarks
    <3>2. n \in DOMAIN w /\ m \in DOMAIN w /\ X[n] = Ev("call", w[n]) /\ X[m] = Ev("call", w[m])
      BY <2>2, <2>3, <3>1
    <3>3. w[n] = w[m]
      <4>1. Ev("call", w[n]).x = w[n] /\ Ev("call", w[m]).x = w[m]
        BY <2>2
      <4> QED
        BY <3>1, <3>2, <4>1
    <3> QED
      BY <3>2, <3>3 DEF Distinct
  <2>5. \A n \in DOMAIN X : X[n].t # "text" /\ (X[n].t \in Marked => Absent(Streams, X[n]))
    <3>1. SUFFICES ASSUME NEW n \in DOMAIN X PROVE X[n].t # "text" /\ (X[n].t \in Marked => Absent(Streams, X[n]))
      OBVIOUS
    <3>2. CASE n \in DOMAIN w /\ X[n] = Ev("call", w[n])
      <4>1. w[n] \in Calls /\ call[w[n]] \in Undelivered
        BY <2>1, <3>2, ElementOfSeq DEF Undelivered
      <4> QED
        BY <2>2, <3>2, <4>1 DEF KiroInv, MarkInv
    <3>3. CASE X[n] = Ev("done", "tool_calls")
      BY <2>2, <3>3 DEF Marked
    <3> QED
      BY <2>3, <3>2, <3>3
  <2>6. \A u : u \notin ToSet(w) => \A n \in DOMAIN X : X[n] # Ev("call", u)
    <3>1. \A n \in DOMAIN w : w[n] \in ToSet(w)
      BY DEF ToSet
    <3>2. "call" \in Marked
      BY DEF Marked
    <3> QED
      BY <2>2, <2>3, <3>1, <3>2
  <2>7. NewMarks(X)
    BY <2>4, <2>5 DEF NewMarks, AllNew
  <2> QED
    BY <1>1, <2>5, <2>6, <2>7 DEF X
<1> QED
  BY <1>2, <1>3

(* A call comes in: it is refused, held or handed over.                    *)
LEMMA ServeCallKeeps ==
  ASSUME KiroInv, NEW t \in Calls, ServeCall(t) PROVE ChannelInv' /\ ClientInv' /\ CallInv' /\ MarkInv'
<1>1. /\ lock = Free /\ UNCHANGED <<said, stdout, got, ended, state, brings>>
      /\ Closed => UNCHANGED <<lock, sink, buf>>
  BY DEF ServeCall, Refuse, agentVars
<1>2. CallInv' /\ \A u \in Calls : call'[u] \in Undelivered => call[u] \in Undelivered
  BY ServeCallCalls DEF KiroInv, Undelivered
<1>3. CASE Closed
  <2>1. ChannelInv' /\ Streams' = Streams
    BY <1>1, <1>3, QuietStreams DEF KiroInv
  <2>2. MarkInv'
    BY <1>1, <1>2, <2>1, MarksKept DEF KiroInv
  <2>3. ClientInv'
    BY <1>1, <1>3, ClientKept DEF KiroInv
  <2> QED
    BY <1>2, <2>1, <2>2, <2>3
<1>4. CASE ~Closed
  <2>1. PICK w \in Seq(Calls) :
           /\ Distinct(w) /\ \A n \in DOMAIN w : call[w[n]] \in {"asked", "waiting"}
           /\ call' = [u \in Calls |-> IF u \in ToSet(w) THEN "delivered" ELSE IF u = t THEN "waiting" ELSE call[u]]
           /\ Section(sink, (IF w # <<>> THEN EndText ELSE <<>>) \o CallEvents(w), w # <<>>)
    BY <1>4, ServeCallSends DEF KiroInv
  <2>2. /\ CallEvents(w) \in Seq(Events) /\ NewMarks(CallEvents(w))
        /\ \A n \in DOMAIN CallEvents(w) : CallEvents(w)[n].t # "text"
        /\ \A u : u \notin ToSet(w) => \A n \in DOMAIN CallEvents(w) : CallEvents(w)[n] # Ev("call", u)
    BY <2>1, CallEventsNew
  <2>3. PICK X \in Seq(Events) : X = CallEvents(w)
    BY <2>2
  <2>4. PICK pre \in {<<>>, <<Ev("textEnd", 0)>>} : pre = IF w # <<>> THEN EndText ELSE <<>>
    BY DEF EndText
  <2>5. PICK out : out = pre \o X
    OBVIOUS
  <2>6. /\ out \in Seq(Events) /\ NewMarks(out)
        /\ \A f : f.t \in Marked /\ (\A n \in DOMAIN X : X[n] # f) => \A n \in DOMAIN out : out[n] # f
    <3>1. /\ pre \o X \in Seq(Events)
          /\ NewMarks(X) => NewMarks(pre \o X)
          /\ \A f : f.t \in Marked /\ (\A n \in DOMAIN X : X[n] # f) => \A n \in DOMAIN (pre \o X) : (pre \o X)[n] # f
      BY <2>4, EventKinds, Prefixed
    <3> QED
      BY <2>2, <2>3, <2>5, <3>1
  <2>7. StillSpoken(out)
    <3>1. StillSpoken(<<>>)
      BY <1>1, SpokenLess DEF KiroInv
    <3>2. ASSUME NEW f, f.t = "text" PROVE \A n \in DOMAIN out : out[n] # f
      <4>1. \A n \in DOMAIN X : X[n] # f
        BY <2>2, <2>3, <3>2
      <4> QED
        BY <2>6, <3>2, <4>1 DEF Marked
    <3>3. \A n \in DOMAIN out : out[n].t # "text"
      BY <3>2
    <3> QED
      BY <3>1, <3>3, StillSpokenBy
  <2>8. ASSUME NEW u \in Calls, call'[u] \in Undelivered PROVE call[u] \in Undelivered /\ \A n \in DOMAIN out : out[n] # Ev("call", u)
    <3>1. u \notin ToSet(w)
      BY <2>1, <2>8 DEF Undelivered
    <3>2. \A n \in DOMAIN X : X[n] # Ev("call", u)
      BY <2>2, <2>3, <3>1
    <3>3. \A n \in DOMAIN out : out[n] # Ev("call", u)
      BY <2>6, <3>2, EventKinds
    <3> QED
      BY <1>2, <2>8, <3>3
  <2>9. PICK release \in BOOLEAN : Section(sink, out, release)
    BY <2>1, <2>3, <2>4, <2>5
  <2>10. sink \in Requests \cup {NoRequest}
    BY DEF KiroInv, ChannelInv
  <2>11. ChannelInv' /\ MarkInv' /\ (\A p \in Requests \ {sink} : buf'[p] = buf[p]) /\ sink' \in {sink, NoRequest}
    BY <1>1, <2>6, <2>7, <2>8, <2>9, <2>10, SectionMarks
  <2>12. ClientInv'
    BY <1>1, <2>11, ClientKept DEF KiroInv
  <2> QED
    BY <1>2, <2>11, <2>12
<1> QED
  BY <1>3, <1>4

(* A request resumes the job and is handed what came in the meantime.      *)
LEMMA ResumeKeeps ==
  ASSUME KiroInv, NEW q \in Requests, Resume(q) PROVE ChannelInv' /\ ClientInv' /\ CallInv' /\ MarkInv'
<1>1. /\ lock = Free /\ sink = NoRequest /\ UNCHANGED <<said, stdout, got, ended, brings>>
      /\ state' = [state EXCEPT ![q] = "streaming"]
  BY DEF Resume, Resumable, agentVars
<1>2. CallInv' /\ \A u \in Calls : call'[u] \in Undelivered => call[u] \in Undelivered
  BY ResumeCalls DEF KiroInv, Undelivered
<1>3. PICK w \in Seq(Calls) :
           /\ Distinct(w) /\ \A n \in DOMAIN w : call[w[n]] = "waiting"
           /\ call' = [u \in Calls |-> IF u \in ToSet(w) THEN "delivered" ELSE IF u \in Due THEN "answered" ELSE call[u]]
           /\ Section(q, CallEvents(w), w # <<>>)
  BY ResumeSends DEF KiroInv
<1>4. /\ CallEvents(w) \in Seq(Events) /\ NewMarks(CallEvents(w))
      /\ \A n \in DOMAIN CallEvents(w) : CallEvents(w)[n].t # "text"
      /\ \A u : u \notin ToSet(w) => \A n \in DOMAIN CallEvents(w) : CallEvents(w)[n] # Ev("call", u)
  BY <1>3, CallEventsNew
<1>5. PICK out \in Seq(Events) : out = CallEvents(w)
  BY <1>4
<1>6. StillSpoken(out)
  BY <1>1, <1>4, <1>5, SpokenLess, StillSpokenBy DEF KiroInv
<1>7. ASSUME NEW u \in Calls, call'[u] \in Undelivered PROVE call[u] \in Undelivered /\ \A n \in DOMAIN out : out[n] # Ev("call", u)
  <2>1. u \notin ToSet(w)
    BY <1>3, <1>7 DEF Undelivered
  <2> QED
    BY <1>2, <1>4, <1>5, <1>7, <2>1
<1>8. PICK release \in BOOLEAN : Section(q, out, release)
  BY <1>3, <1>5
<1>9. ChannelInv' /\ MarkInv' /\ (\A p \in Requests \ {q} : buf'[p] = buf[p]) /\ sink' \in {q, NoRequest}
  BY <1>1, <1>4, <1>5, <1>6, <1>7, <1>8, SectionMarks
<1>10. ClientInv'
  <2>1. \A p \in Requests \ {q} : buf'[p] = buf[p] /\ (sink' = p => sink = p)
    BY <1>9, StarterIsRequest
  <2>2. PICK b : b = {}
    OBVIOUS
  <2>3. PICK new : new = "streaming"
    OBVIOUS
  <2>4. new \notin Unstarted /\ b \subseteq Calls \cap KnownToClient /\ got' = got /\ brings' = brings
    BY <1>1, <2>2, <2>3 DEF Unstarted
  <2> QED
    BY <1>1, <2>1, <2>2, <2>3, <2>4, ClientGoesOn DEF KiroInv
<1> QED
  BY <1>2, <1>9, <1>10

(* The reader of a stream, and a section that goes on.                     *)
LEMMA ReadStep ==
  ASSUME KiroInv, NEW q \in Requests, RecvEvent(q) \/ RecvMarksEnd(q) \/ CloseStream(q)
  PROVE  ChannelInv' /\ ClientInv' /\ CallInv' /\ MarkInv'
<1>1. UNCHANGED <<order, call, said, stdout, brings, sink, lock>>
  BY DEF RecvEvent, RecvMarksEnd, CloseStream, jobVars, agentVars
<1>2. ChannelInv' /\ (Streams' = Streams \/ \E s \in Seq(Events) : CutTo(q, s))
  <2>1. CASE RecvEvent(q)
    BY <2>1, RecvEventStreams DEF KiroInv
  <2>2. CASE RecvMarksEnd(q) \/ CloseStream(q)
    <3>1. ChannelInv' /\ CutTo(q, got[q])
      BY <2>2, StreamEnds DEF KiroInv
    <3>2. got[q] \in Seq(Events)
      BY DEF KiroInv, ChannelInv
    <3> QED
      BY <3>1, <3>2
  <2> QED
    BY <2>1, <2>2
<1>3. MarkInv'
  BY <1>1, <1>2, MarksKept DEF KiroInv
<1>4. ClientInv' /\ KnownToClient \subseteq KnownToClient'
  <2>1. CASE RecvEvent(q)
    BY <2>1, RecvEventClient DEF KiroInv
  <2>2. CASE RecvMarksEnd(q) \/ CloseStream(q)
    <3>1. \E new \in {"over", "closed"} : state' = [state EXCEPT ![q] = new]
      BY <2>2 DEF RecvMarksEnd, CloseStream
    <3>2. PICK new \in {"over", "closed"} : state' = [state EXCEPT ![q] = new]
      BY <3>1
    <3>6. PICK b : b = {}
      OBVIOUS
    <3>3. new \notin Unstarted /\ b \subseteq Calls \cap KnownToClient /\ got' = got
      BY <2>2, <3>6 DEF Unstarted, RecvMarksEnd, CloseStream
    <3>4. \A p \in Requests \ {q} : buf'[p] = buf[p]
      BY <2>2 DEF RecvMarksEnd, CloseStream, KiroInv, ChannelInv, BuffersFit
    <3>5. KnownToClient' = KnownToClient
      BY <3>3, KnownKept
    <3> QED
      BY <1>1, <3>2, <3>3, <3>4, <3>5, <3>6, ClientGoesOn DEF KiroInv
  <2> QED
    BY <2>1, <2>2
<1>5. CallInv'
  <2>1. ASSUME NEW p \in Requests, state[p] \notin NotTaken PROVE state'[p] \notin NotTaken /\ brings[p] \subseteq brings'[p]
    <3>1. state' = state \/ \E new \in {"over", "closed"} : state' = [state EXCEPT ![q] = new]
      BY DEF RecvEvent, RecvMarksEnd, CloseStream
    <3>2. state'[p] = state[p] \/ state'[p] \in {"over", "closed"}
      BY <3>1 DEF KiroInv, ClientInv
    <3> QED
      BY <1>1, <2>1, <3>2 DEF NotTaken
  <2> QED
    BY <1>1, <1>4, <2>1, CallsKept DEF KiroInv
<1> QED
  BY <1>2, <1>3, <1>4, <1>5

(* The holder of the mutex goes on sending.                                *)
LEMMA GoOnStep == ASSUME KiroInv, GoOn PROVE ChannelInv' /\ ClientInv' /\ CallInv' /\ MarkInv'
<1>1. UNCHANGED <<order, call, said, stdout, brings, state, got, ended>>
  BY DEF GoOn, agentVars
<1>2. /\ ChannelInv' /\ sink \in Requests /\ sink' \in {sink, NoRequest}
      /\ \A p \in Requests \ {sink} : buf'[p] = buf[p]
      /\ \/ Streams' = Streams
         \/ ~ended[sink] /\ Streams' = [Streams EXCEPT ![sink] = got[sink] \o buf[sink]]
  BY GoOnStreams DEF KiroInv
<1>3. Streams' = Streams \/ \E p \in Requests : \E s \in Seq(Events) : CutTo(p, s)
  <2>1. PICK q \in Requests : q = sink
    BY <1>2
  <2>2. got[q] \o buf[q] \in Seq(Events) /\ (~ended[q] => Begins(got[q] \o buf[q], Streams[q]))
    BY WhatHasCome DEF KiroInv
  <2> QED
    BY <1>2, <2>1, <2>2 DEF CutTo
<1>4. MarkInv'
  BY <1>1, <1>3, MarksKept DEF KiroInv
<1>5. ClientInv'
  BY <1>1, <1>2, ClientKept DEF KiroInv
<1>6. CallInv'
  BY <1>1, CallsKept, KnownKept DEF KiroInv
<1> QED
  BY <1>2, <1>4, <1>5, <1>6

(* The context ends once.                                                  *)
LEMMA CtxMoves ==
  ASSUME KiroInv, [Next]_vars
  PROVE  \/ UNCHANGED <<ctx, closing>>
         \/ ctx' = FALSE /\ closing' = "cancelled"
         \/ ctx' = ctx /\ closing # "no" /\ closing' # "no"
<1>1. CASE CloseMarks \/ CloseForgets
  BY <1>1 DEF CloseMarks, CloseForgets
<1>2. CASE \E who \in Requests \cup {NoRequest} : CloseBegins(who)
  BY <1>2 DEF CloseBegins, closeVars
<1>3. CASE JobTimeout \/ PromptCloses \/ StartFails \/ \E t \in Calls : AgentHangsUp(t)
  BY <1>2, <1>3 DEF JobTimeout, PromptCloses, StartFails, AgentHangsUp
<1>4. CASE UNCHANGED closeVars
  BY <1>4 DEF closeVars
<1>5. ASSUME NEW q \in Requests, CheckFails(q) \/ CloseStream(q) \/ WatchCloses(q)
      PROVE  UNCHANGED closeVars \/ CloseBegins(q)
  BY <1>5 DEF CheckFails, CloseStream, WatchCloses
<1>6. CASE \E q \in Requests : CheckFails(q) \/ CloseStream(q) \/ WatchCloses(q)
  BY <1>2, <1>4, <1>5, <1>6
<1>7. CASE \E q \in Requests : WatchChecks(q)
  BY <1>7 DEF WatchChecks
<1> QED
  BY <1>1, <1>3, <1>4, <1>6, <1>7
  DEF Next, GoOn, AgentSpeaks, AgentEnds, Notify, PromptReturns, AgentCalls, ServeCall, CallReturns, Start,
      StartJob, Return, ResumeRefused, Resume, RecvEvent, RecvMarksEnd, vars

LEMMA CtxStep == ASSUME KiroInv, [Next]_vars PROVE CtxInv' /\ (ctx' => ctx)
<1>1. CtxInv
  BY DEF KiroInv
<1>2. \/ UNCHANGED <<ctx, closing>>
      \/ ctx' = FALSE /\ closing' = "cancelled"
      \/ ctx' = ctx /\ closing # "no" /\ closing' # "no"
  BY CtxMoves, Zenon
<1>3. textOpen' \in BOOLEAN
  <2>1. textOpen \in BOOLEAN
    BY <1>1 DEF CtxInv
  <2>2. CASE UNCHANGED textOpen
    BY <2>1, <2>2
  <2>3. CASE Notify \/ PromptReturns \/ StartJob \/ \E q \in Requests : Resume(q)
    BY <2>1, <2>3 DEF Notify, PromptReturns, StartJob, Resume
  <2>4. ASSUME NEW t \in Calls, ServeCall(t) PROVE textOpen' \in BOOLEAN
    <3>1. CASE Closed
      BY <2>1, <2>4, <3>1 DEF ServeCall, Refuse
    <3>2. CASE ~Closed
      BY <2>4, <3>2, ServeCallSends DEF KiroInv
    <3> QED
      BY <3>1, <3>2
  <2>5. CASE \E t \in Calls : ServeCall(t)
    BY <2>4, <2>5
  <2> QED
    BY <2>2, <2>3, <2>5
    DEF Next, CloseMarks, CloseForgets, JobTimeout, GoOn, AgentSpeaks, AgentEnds, PromptCloses, AgentCalls,
        CallReturns, AgentHangsUp, Start, StartFails, Return, CheckFails, ResumeRefused, RecvEvent, RecvMarksEnd,
        CloseStream, WatchChecks, WatchCloses, jobVars, vars
<1>4. ctx' \in BOOLEAN /\ (ctx' <=> closing' = "no") /\ (ctx' => ctx)
  <2>1. ctx \in BOOLEAN /\ (ctx <=> closing = "no")
    BY <1>1 DEF CtxInv
  <2>2. CASE ctx' = ctx /\ closing' = closing
    BY <2>1, <2>2
  <2>3. CASE ctx' = FALSE /\ closing' = "cancelled"
    BY <2>3
  <2>4. CASE ctx' = ctx /\ closing # "no" /\ closing' # "no"
    BY <2>1, <2>4
  <2> QED
    BY <1>2, <2>2, <2>3, <2>4
<1> QED
  BY <1>3, <1>4 DEF CtxInv

(* Every step keeps all of it.                                             *)
LEMMA KiroStep == ASSUME KiroInv, [Next]_vars PROVE KiroInv'
<1>1. JobInv' /\ CtxInv'
  BY JobStep, CtxStep DEF KiroInv
<1>2. CASE Aside
  BY <1>1, <1>2, AsideStep DEF KiroInv
<1>3. CASE \E t \in Calls : AgentCalls(t) \/ CallReturns(t)
  BY <1>1, <1>3, CallMoves DEF KiroInv
<1>4. CASE \E q \in Requests : Comes(q)
  BY <1>1, <1>4, RequestComes DEF KiroInv
<1>5. CASE Notify \/ PromptReturns
  BY <1>1, <1>5, NotifyStep, PromptStep DEF KiroInv
<1>6. CASE \E t \in Calls : ServeCall(t)
  BY <1>1, <1>6, ServeCallKeeps DEF KiroInv
<1>7. CASE \E q \in Requests : Resume(q)
  BY <1>1, <1>7, ResumeKeeps DEF KiroInv
<1>8. CASE \E q \in Requests : RecvEvent(q) \/ RecvMarksEnd(q) \/ CloseStream(q)
  BY <1>1, <1>8, ReadStep DEF KiroInv
<1>9. CASE GoOn
  BY <1>1, <1>9, GoOnStep DEF KiroInv
<1>10. Start \/ StartFails \/ StartJob => \E q \in Requests : Comes(q)
  BY StarterIsRequest DEF Comes
<1> QED
  BY <1>2, <1>3, <1>4, <1>5, <1>6, <1>7, <1>8, <1>9, <1>10 DEF Next, Aside, Comes

(* Events on their way, requests and calls agree in every order of what    *)
(* agent, requests and close() do (adapter/kiro).                          *)
THEOREM KiroInvariant == Spec => []KiroInv
BY KiroInitInv, KiroStep, PTL DEF Spec

(* A tool call is told to one client once, its result goes back only after *)
(* that, and the index finds the job by it for as long as it has to        *)
(* (serveMCP, deliverWaiting, resume, close).                              *)
THEOREM CallsAreAccountedFor == Spec => []CallsAccountedFor
<1>1. ASSUME KiroInv PROVE CallsAccountedFor
  <2>1. ASSUME NEW t \in Calls, NEW q \in Requests, NEW p \in Requests, NEW n \in DOMAIN got[q], NEW m \in DOMAIN got[p],
               got[q][n] = Ev("call", t), got[p][m] = Ev("call", t)
        PROVE  q = p /\ n = m
    <3>1. ASSUME NEW r \in Requests, NEW i \in DOMAIN got[r] PROVE i \in DOMAIN Streams[r] /\ Streams[r][i] = got[r][i]
      <4>1. /\ got[r] \in Seq(Events) /\ Streams[r] \in Seq(Events)
            /\ Len(got[r]) <= Len(Streams[r]) /\ \A k \in 1 .. Len(got[r]) : got[r][k] = Streams[r][k]
        BY <1>1, WhatHasCome DEF KiroInv, Begins
      <4>2. i \in 1 .. Len(got[r]) /\ Len(got[r]) \in Nat /\ Len(Streams[r]) \in Nat /\ DOMAIN Streams[r] = 1 .. Len(Streams[r])
        BY <3>1, <4>1, LenProperties
      <4> QED
        BY <4>1, <4>2
    <3>2. Ev("call", t).t \in Marked
      BY EventKinds
    <3> QED
      BY <1>1, <2>1, <3>1, <3>2 DEF KiroInv, MarkInv, Once
  <2>2. \A t \in Calls : /\ call[t] = "answered" => \E q \in Requests : t \in brings[q] /\ state[q] \notin {"idle", "refused", "checking"}
                         /\ call[t] \in {"answered", "back"} => t \in KnownToClient
    BY <1>1 DEF KiroInv, CallInv, NotTaken
  <2>3. \A t \in Calls : call[t] = "delivered" /\ closing \in {"no", "cancelled"} => t \in pending
    BY <1>1 DEF KiroInv, CallInv, JobInv, IndexInv
  <2>4. closing = "done" => pending = {}
    BY <1>1 DEF KiroInv, JobInv, IndexInv
  <2> QED
    BY <2>1, <2>2, <2>3, <2>4 DEF CallsAccountedFor
<1> QED
  BY <1>1, KiroInvariant, PTL

-------------------------------------------------------------------------------
(* Which event may follow which in a reply, up to its end: text is between *)
(* the start and the end of a block, which nothing else interrupts, and    *)
(* tool calls are followed by tool calls and the end that hands over.      *)
Nothing == Ev("textEnd", 0)
HandOver == Ev("done", "tool_calls")
Follows(e, f) ==
  /\ e.t \in InBlock <=> f.t \in {"text", "textEnd"}
  /\ e.t = "call" => f.t = "call" \/ f = HandOver
  /\ f = HandOver => e.t = "call"
Chain(e, s) == \A n \in DOMAIN s : Follows(IF n = 1 THEN e ELSE s[n - 1], s[n])
Over(s) == \E n \in DOMAIN s : s[n].t \in Terminal
Grammar(s) ==
  \A n \in DOMAIN s : (\A m \in 1 .. n - 1 : s[m].t \notin Terminal) => Follows(IF n = 1 THEN Nothing ELSE s[n - 1], s[n])
Standing(s) == IF s = <<>> THEN Nothing ELSE s[Len(s)]

(* The beginning of a well-formed reply is one.                            *)
LEMMA GrammarBegins ==
  ASSUME NEW s \in Seq(Events), NEW t \in Seq(Events), Begins(s, t), Grammar(t)
  PROVE  Grammar(s)
<1>1. /\ Len(s) \in Nat /\ Len(t) \in Nat /\ DOMAIN s = 1 .. Len(s) /\ DOMAIN t = 1 .. Len(t) /\ Len(s) <= Len(t)
      /\ \A n \in 1 .. Len(s) : s[n] = t[n]
  BY LenProperties DEF Begins
<1>2. SUFFICES ASSUME NEW n \in DOMAIN s, \A m \in 1 .. n - 1 : s[m].t \notin Terminal
               PROVE  Follows(IF n = 1 THEN Nothing ELSE s[n - 1], s[n])
  BY DEF Grammar
<1>3. n \in DOMAIN t /\ t[n] = s[n] /\ (n # 1 => t[n - 1] = s[n - 1]) /\ \A m \in 1 .. n - 1 : t[m] = s[m]
  <2>1. n \in 1 .. Len(s)
    BY <1>1
  <2>2. n # 1 => n - 1 \in 1 .. Len(s)
    BY <1>1, <2>1
  <2>3. \A m \in 1 .. n - 1 : m \in 1 .. Len(s)
    BY <1>1, <2>1
  <2>4. n \in 1 .. Len(t)
    BY <1>1, <2>1
  <2> QED
    BY <1>1, <2>1, <2>2, <2>3, <2>4
<1>4. \A m \in 1 .. n - 1 : t[m].t \notin Terminal
  BY <1>2, <1>3
<1>5. Follows(IF n = 1 THEN Nothing ELSE t[n - 1], t[n])
  BY <1>3, <1>4 DEF Grammar
<1> QED
  BY <1>3, <1>5

(* A well-formed reply goes on as one when what is added may follow how it *)
(* stands.                                                                 *)
LEMMA GrammarLonger ==
  ASSUME NEW s \in Seq(Events), NEW X \in Seq(Events), Grammar(s), Over(s) \/ Chain(Standing(s), X)
  PROVE  /\ s \o X \in Seq(Events) /\ Grammar(s \o X) /\ (Over(s) \/ Over(X) => Over(s \o X))
         /\ Standing(s \o X) = IF X = <<>> THEN Standing(s) ELSE X[Len(X)]
<1> DEFINE r == s \o X
<1>1. /\ r \in Seq(Events) /\ Len(r) = Len(s) + Len(X)
      /\ \A n \in 1 .. Len(s) + Len(X) : r[n] = IF n <= Len(s) THEN s[n] ELSE X[n - Len(s)]
  BY ConcatProperties
<1> HIDE DEF r
<1>2. /\ Len(s) \in Nat /\ Len(X) \in Nat /\ DOMAIN s = 1 .. Len(s) /\ DOMAIN X = 1 .. Len(X)
      /\ DOMAIN r = 1 .. Len(s) + Len(X)
      /\ (s = <<>> <=> Len(s) = 0) /\ (X = <<>> <=> Len(X) = 0) /\ (r = <<>> <=> Len(r) = 0)
  BY <1>1, LenProperties, EmptySeq
<1>3. /\ \A n \in 1 .. Len(s) : n \in 1 .. Len(s) + Len(X) /\ r[n] = s[n]
      /\ \A n \in 1 .. Len(X) : n + Len(s) \in 1 .. Len(s) + Len(X) /\ r[n + Len(s)] = X[n]
  <2>1. ASSUME NEW n \in 1 .. Len(s) PROVE n \in 1 .. Len(s) + Len(X) /\ r[n] = s[n]
    BY <1>1, <1>2
  <2>2. ASSUME NEW n \in 1 .. Len(X) PROVE n + Len(s) \in 1 .. Len(s) + Len(X) /\ r[n + Len(s)] = X[n]
    <3>1. n + Len(s) \in 1 .. Len(s) + Len(X) /\ ~(n + Len(s) <= Len(s)) /\ (n + Len(s)) - Len(s) = n
      BY <1>2
    <3> QED
      BY <1>1, <3>1
  <2> QED
    BY <2>1, <2>2
<1>4. Over(s) \/ Over(X) => Over(r)
  BY <1>2, <1>3 DEF Over
<1>5. Standing(r) = IF X = <<>> THEN Standing(s) ELSE X[Len(X)]
  <2>1. CASE X = <<>>
    <3>1. Len(r) = Len(s)
      BY <1>1, <1>2, <2>1
    <3>2. s # <<>> => Len(s) \in 1 .. Len(s)
      BY <1>2
    <3> QED
      BY <1>2, <1>3, <2>1, <3>1, <3>2 DEF Standing
  <2>2. CASE X # <<>>
    <3>1. Len(X) \in 1 .. Len(X) /\ Len(r) = Len(X) + Len(s) /\ r # <<>>
      BY <1>1, <1>2, <2>2
    <3> QED
      BY <1>3, <2>2, <3>1 DEF Standing
  <2> QED
    BY <2>1, <2>2
<1>6. ASSUME NEW n \in DOMAIN r, \A m \in 1 .. n - 1 : r[m].t \notin Terminal
      PROVE  Follows(IF n = 1 THEN Nothing ELSE r[n - 1], r[n])
  <2>1. CASE n <= Len(s)
    <3>1. n \in 1 .. Len(s) /\ (n # 1 => n - 1 \in 1 .. Len(s)) /\ \A m \in 1 .. n - 1 : m \in 1 .. Len(s)
      BY <1>2, <2>1
    <3>2. r[n] = s[n] /\ (n # 1 => r[n - 1] = s[n - 1]) /\ \A m \in 1 .. n - 1 : s[m].t \notin Terminal
      BY <1>3, <1>6, <3>1
    <3>3. Follows(IF n = 1 THEN Nothing ELSE s[n - 1], s[n])
      BY <1>2, <3>1, <3>2 DEF Grammar
    <3> QED
      BY <3>2, <3>3
  <2>2. CASE ~(n <= Len(s))
    <3>1. PICK i \in 1 .. Len(X) : n = i + Len(s)
      <4>1. n - Len(s) \in 1 .. Len(X) /\ n = (n - Len(s)) + Len(s)
        BY <1>2, <2>2
      <4> QED
        BY <4>1
    <3>2. r[n] = X[i]
      BY <1>3, <3>1
    <3>3. ~Over(s)
      <4>1. SUFFICES ASSUME NEW m \in DOMAIN s PROVE s[m].t \notin Terminal
        BY DEF Over
      <4>2. m \in 1 .. n - 1 /\ m \in 1 .. Len(s)
        BY <1>2, <3>1
      <4> QED
        BY <1>3, <1>6, <4>2
    <3>4. Follows(IF i = 1 THEN Standing(s) ELSE X[i - 1], X[i])
      BY <1>2, <3>3 DEF Chain
    <3>5. CASE i # 1
      <4>1. i - 1 \in 1 .. Len(X) /\ n - 1 = (i - 1) + Len(s) /\ n # 1
        BY <1>2, <3>1, <3>5
      <4>2. r[n - 1] = X[i - 1]
        BY <1>3, <4>1
      <4> QED
        BY <3>2, <3>4, <3>5, <4>1, <4>2
    <3>6. CASE i = 1 /\ s # <<>>
      <4>1. n - 1 = Len(s) /\ n # 1 /\ Len(s) \in 1 .. Len(s)
        BY <1>2, <3>1, <3>6
      <4>2. r[n - 1] = Standing(s)
        BY <1>3, <3>6, <4>1 DEF Standing
      <4> QED
        BY <3>2, <3>4, <3>6, <4>1, <4>2
    <3>7. CASE i = 1 /\ s = <<>>
      <4>1. n = 1 /\ Standing(s) = Nothing
        BY <1>2, <3>1, <3>7 DEF Standing
      <4> QED
        BY <3>2, <3>4, <3>7, <4>1
    <3> QED
      BY <3>5, <3>6, <3>7
  <2> QED
    BY <2>1, <2>2
<1>7. Grammar(r)
  BY <1>6 DEF Grammar
<1> QED
  BY <1>1, <1>4, <1>5, <1>7 DEF r

(* As long as the job lives, what is on its way is well-formed, a stream   *)
(* that has ended was brought to its end, and the job remembers how the    *)
(* reply it is attached to stands.                                         *)
Stands(e, open) == (open <=> e.t \in InBlock) /\ e.t # "call"
GrammarInv ==
  ctx => /\ \A q \in Requests : Grammar(Streams[q]) /\ (ended[q] => Over(Streams[q]))
         /\ sink \in Requests /\ ~Over(Streams[sink]) => Stands(Standing(Streams[sink]), textOpen)

(* Steps that send nothing, and the start of a job, whose stream is empty. *)
LEMMA GrammarKept ==
  ASSUME GrammarInv, ctx' => ctx, Streams' = Streams, ended' = ended,
         \/ sink' = NoRequest \/ (sink' = sink /\ textOpen' = textOpen)
         \/ sink' \in Requests /\ Streams[sink'] = <<>> /\ textOpen' = FALSE
  PROVE  GrammarInv'
<1>1. SUFFICES ASSUME ctx' PROVE /\ \A q \in Requests : Grammar(Streams[q]) /\ (ended[q] => Over(Streams[q]))
                                 /\ sink' \in Requests /\ ~Over(Streams[sink']) => Stands(Standing(Streams[sink']), textOpen')
  BY DEF GrammarInv
<1>2. /\ \A q \in Requests : Grammar(Streams[q]) /\ (ended[q] => Over(Streams[q]))
      /\ sink \in Requests /\ ~Over(Streams[sink]) => Stands(Standing(Streams[sink]), textOpen)
  BY <1>1 DEF GrammarInv
<1>3. CASE sink' = NoRequest
  BY <1>2, <1>3, StarterIsRequest
<1>4. CASE sink' = sink /\ textOpen' = textOpen
  BY <1>2, <1>4
<1>5. CASE sink' \in Requests /\ Streams[sink'] = <<>> /\ textOpen' = FALSE
  <2>1. Stands(Standing(Streams[sink']), textOpen')
    BY <1>5 DEF Stands, Standing, Nothing, Ev, InBlock
  <2> QED
    BY <1>2, <2>1
<1> QED
  BY <1>3, <1>4, <1>5

(* A section sends what may follow, and the job remembers how it ended.    *)
LEMMA GrammarSection ==
  ASSUME KiroInv, GrammarInv, ctx' => ctx,
         NEW q \in Requests \cup {NoRequest}, NEW X \in Seq(Events), NEW release \in BOOLEAN,
         Section(q, X, release), lock = Free, UNCHANGED <<got, ended>>,
         ctx /\ q \in Requests /\ ~Over(Streams[q]) =>
           /\ Chain(Standing(Streams[q]), X)
           /\ Over(X) \/ Stands(IF X = <<>> THEN Standing(Streams[q]) ELSE X[Len(X)], textOpen')
  PROVE  GrammarInv'
<1>1. SUFFICES ASSUME ctx' PROVE GrammarInv'
  BY DEF GrammarInv
<1>2. ctx /\ \A p \in Requests : Grammar(Streams[p]) /\ (ended[p] => Over(Streams[p]))
  BY <1>1 DEF GrammarInv
<1>3. /\ sink' \in {q, NoRequest} /\ ended' = ended
      /\ \/ Streams' = Streams /\ (ctx => q = NoRequest \/ ended[q])
         \/ q \in Requests /\ ~ended[q] /\ Streams' = [Streams EXCEPT ![q] = @ \o X]
  BY SectionStreams DEF KiroInv
<1>4. NoRequest \notin Requests
  BY StarterIsRequest
<1>5. CASE Streams' = Streams /\ (ctx => q = NoRequest \/ ended[q])
  <2>1. sink' \in Requests => Over(Streams[sink'])
    BY <1>2, <1>3, <1>4, <1>5
  <2> QED
    BY <1>2, <1>3, <1>5, <2>1 DEF GrammarInv
<1>6. CASE q \in Requests /\ ~ended[q] /\ Streams' = [Streams EXCEPT ![q] = @ \o X]
  <2>1. Streams \in [Requests -> Seq(Events)]
    BY StreamsTyped DEF KiroInv
  <2>2. PICK s \in Seq(Events) : s = Streams[q]
    BY <1>6, <2>1
  <2>3. Streams'[q] = s \o X /\ \A p \in Requests \ {q} : Streams'[p] = Streams[p]
    BY <1>6, <2>1, <2>2
  <2>4. Grammar(s) /\ (Over(s) \/ Chain(Standing(s), X))
    BY <1>2, <1>6, <2>2
  <2>5. /\ Grammar(s \o X) /\ (Over(s) \/ Over(X) => Over(s \o X))
        /\ Standing(s \o X) = IF X = <<>> THEN Standing(s) ELSE X[Len(X)]
    BY <2>4, GrammarLonger
  <2>6. Over(s \o X) \/ Stands(Standing(s \o X), textOpen')
    BY <1>2, <1>6, <2>2, <2>5
  <2>7. \A p \in Requests : Grammar(Streams'[p]) /\ (ended'[p] => Over(Streams'[p]))
    BY <1>2, <1>3, <1>6, <2>3, <2>5
  <2>8. sink' \in Requests /\ ~Over(Streams'[sink']) => Stands(Standing(Streams'[sink']), textOpen')
    BY <1>3, <1>4, <2>3, <2>6
  <2> QED
    BY <2>7, <2>8 DEF GrammarInv
<1> QED
  BY <1>3, <1>5, <1>6

(* What each of them sends may follow.                                     *)
LEMMA ChainOne ==
  ASSUME NEW e, NEW f \in Events, Follows(e, f)
  PROVE  Chain(e, <<f>>) /\ <<f>> # <<>> /\ <<f>>[Len(<<f>>)] = f /\ (f.t \in Terminal => Over(<<f>>))
<1>1. <<f>> \in Seq(Events) /\ DOMAIN <<f>> = {1} /\ <<f>>[1] = f /\ Len(<<f>>) = 1 /\ <<f>> # <<>>
  BY OneEvent, EmptySeq
<1> QED
  BY <1>1 DEF Chain, Over
(* The event that opens or closes a block before them.                     *)
LEMMA ChainPrefixed ==
  ASSUME NEW e, NEW f \in Events, Follows(e, f), NEW X \in Seq(Events), X # <<>>, Chain(f, X)
  PROVE  /\ <<f>> \o X \in Seq(Events) /\ Chain(e, <<f>> \o X) /\ (Over(X) => Over(<<f>> \o X))
         /\ <<f>> \o X # <<>> /\ (<<f>> \o X)[Len(<<f>> \o X)] = X[Len(X)]
<1> DEFINE p == <<f>>
<1>1. p \in Seq(Events) /\ p[1] = f /\ Len(p) = 1
  BY OneEvent
<1> HIDE DEF p
<1> DEFINE r == p \o X
<1>2. /\ r \in Seq(Events) /\ Len(r) = Len(p) + Len(X)
      /\ \A n \in 1 .. Len(p) + Len(X) : r[n] = IF n <= Len(p) THEN p[n] ELSE X[n - Len(p)]
  BY <1>1, ConcatProperties
<1> HIDE DEF r
<1>3. Len(X) \in Nat \ {0} /\ DOMAIN X = 1 .. Len(X) /\ DOMAIN r = 1 .. Len(X) + 1 /\ Len(r) = Len(X) + 1 /\ r # <<>>
  <2>1. Len(X) \in Nat /\ Len(X) # 0 /\ DOMAIN X = 1 .. Len(X)
    BY LenProperties, EmptySeq
  <2>2. Len(r) = Len(X) + 1 /\ DOMAIN r = 1 .. Len(r)
    BY <1>1, <1>2, <2>1, LenProperties
  <2> QED
    BY <1>2, <2>1, <2>2, EmptySeq
<1>4. r[1] = f /\ \A n \in 1 .. Len(X) : n + 1 \in 1 .. Len(X) + 1 /\ r[n + 1] = X[n]
  <2>1. ASSUME NEW n \in 1 .. Len(X) PROVE n + 1 \in 1 .. Len(X) + 1 /\ r[n + 1] = X[n]
    <3>1. n + 1 \in 1 .. Len(p) + Len(X) /\ ~(n + 1 <= Len(p)) /\ (n + 1) - Len(p) = n
      BY <1>1, <1>3
    <3> QED
      BY <1>1, <1>2, <1>3, <3>1
  <2>2. 1 \in 1 .. Len(p) + Len(X) /\ 1 <= Len(p)
    BY <1>1, <1>3
  <2> QED
    BY <1>1, <1>2, <2>1, <2>2
<1>5. Over(X) => Over(r)
  BY <1>3, <1>4 DEF Over
<1>6. r[Len(r)] = X[Len(X)]
  BY <1>3, <1>4
<1>7. Chain(e, r)
  <2>1. SUFFICES ASSUME NEW n \in 1 .. Len(X) + 1 PROVE Follows(IF n = 1 THEN e ELSE r[n - 1], r[n])
    BY <1>3 DEF Chain
  <2>2. CASE n = 1
    BY <1>4, <2>2
  <2>3. CASE n # 1
    <3>1. PICK i \in 1 .. Len(X) : n = i + 1
      <4>1. n - 1 \in 1 .. Len(X) /\ n = (n - 1) + 1
        BY <1>3, <2>3
      <4> QED
        BY <4>1
    <3>2. r[n] = X[i] /\ Follows(IF i = 1 THEN f ELSE X[i - 1], X[i])
      BY <1>3, <1>4, <3>1 DEF Chain
    <3>3. r[n - 1] = IF i = 1 THEN f ELSE X[i - 1]
      <4>1. CASE i = 1
        BY <1>4, <3>1, <4>1
      <4>2. CASE i # 1
        <5>1. i - 1 \in 1 .. Len(X) /\ n - 1 = (i - 1) + 1
          BY <1>3, <3>1, <4>2
        <5> QED
          BY <1>4, <4>2, <5>1
      <4> QED
        BY <4>1, <4>2
    <3> QED
      BY <2>3, <3>2, <3>3
  <2> QED
    BY <2>2, <2>3
<1> QED
  BY <1>2, <1>3, <1>5, <1>6, <1>7 DEF r, p

(* Calls that are handed over, and the end.                                *)
LEMMA ChainCalls ==
  ASSUME NEW w \in Seq(Calls), w # <<>>, NEW e, e.t \notin InBlock, e.t # "call"
  PROVE  Chain(e, CallEvents(w)) /\ Over(CallEvents(w)) /\ CallEvents(w) # <<>> /\ CallEvents(w) \in Seq(Events)
<1> DEFINE X == CallEvents(w)
<1>1. /\ X \in Seq(Events) /\ Len(X) = Len(w) + 1 /\ Len(w) \in Nat \ {0} /\ DOMAIN X = 1 .. Len(w) + 1
      /\ \A n \in 1 .. Len(w) : X[n] = Ev("call", w[n])
      /\ X[Len(w) + 1] = HandOver
  BY CallEventsAre DEF HandOver
<1> HIDE DEF X
<1>2. /\ HandOver.t = "done" /\ \A x : Ev("call", x).t = "call" /\ Ev("call", x) # HandOver
      /\ "done" \in Terminal /\ "call" \notin InBlock
  BY DEF Ev, HandOver, Terminal, InBlock
<1>3. X # <<>> /\ Over(X)
  <2>1. Len(w) + 1 \in DOMAIN X
    BY <1>1
  <2> QED
    BY <1>1, <1>2, <2>1, EmptySeq DEF Over
<1>4. ASSUME NEW n \in DOMAIN X PROVE Follows(IF n = 1 THEN e ELSE X[n - 1], X[n])
  <2>1. (X[n].t = "call" /\ X[n] # HandOver) \/ (n # 1 /\ X[n] = HandOver)
    BY <1>1, <1>2
  <2>2. CASE n = 1
    BY <1>1, <1>2, <2>1, <2>2 DEF Follows
  <2>3. CASE n # 1
    <3>1. n - 1 \in 1 .. Len(w)
      BY <1>1, <2>3
    <3>2. X[n - 1].t = "call"
      BY <1>1, <1>2, <3>1
    <3>3. X[n].t \notin {"text", "textEnd"} /\ (X[n].t = "call" \/ X[n] = HandOver)
      BY <1>2, <2>1
    <3> QED
      BY <1>2, <2>3, <3>2, <3>3 DEF Follows
  <2> QED
    BY <2>2, <2>3
<1> QED
  BY <1>1, <1>3, <1>4 DEF Chain, X

(* What may follow inside and outside of a block.                          *)
LEMMA FollowFacts ==
  ASSUME NEW e, NEW h, h.t = "text"
  PROVE  /\ Stands(e, TRUE) => Follows(e, h) /\ Follows(e, Ev("textEnd", 0))
         /\ Stands(e, FALSE) => Follows(e, Ev("textStart", 0)) /\ e.t \notin InBlock /\ e.t # "call"
         /\ Follows(Ev("textStart", 0), h) /\ Stands(h, TRUE)
         /\ Ev("textEnd", 0).t \notin InBlock /\ Ev("textEnd", 0).t # "call"
         /\ \A f \in {Ev("error", 0), Ev("done", "stop")} :
              /\ Stands(e, FALSE) => Follows(e, f)
              /\ Follows(Ev("textEnd", 0), f) /\ f.t \in Terminal
BY DEF Stands, Follows, Ev, InBlock, HandOver, Terminal

(* Text: the block is opened before its first piece.                       *)
LEMMA NotifyGrammar == ASSUME KiroInv, GrammarInv, Notify PROVE GrammarInv'
<1>1. lock = Free /\ UNCHANGED <<got, ended, ctx>> /\ stdout # <<>> /\ Head(stdout).t = "text"
  BY DEF Notify, closeVars
<1>2. CASE Closed \/ sink = NoRequest
  <2>1. UNCHANGED <<lock, sink, buf, textOpen>>
    BY <1>2 DEF Notify
  <2>2. Streams' = Streams
    BY <1>1, <2>1, QuietStreams DEF KiroInv
  <2> QED
    BY <1>1, <2>1, <2>2, GrammarKept
<1>3. CASE ~(Closed \/ sink = NoRequest)
  <2>1. PICK h : h = Head(stdout)
    OBVIOUS
  <2>2. h \in Events /\ h.t = "text"
    <3>1. stdout \in Seq(Spoken)
      BY DEF KiroInv, MarkInv, SpokenInv
    <3>2. h \in Spoken
      BY <1>1, <2>1, <3>1, HeadTailProperties
    <3> QED
      BY <1>1, <2>1, <3>2 DEF Spoken, Events, Kinds
  <2>3. PICK X \in Seq(Events) : X = <<h>>
    BY <2>2, OneEvent
  <2>4. PICK out : out = (IF textOpen THEN <<>> ELSE <<Ev("textStart", 0)>>) \o X
    OBVIOUS
  <2>5. Section(sink, out, FALSE) /\ textOpen' = TRUE
    BY <1>3, <2>1, <2>3, <2>4 DEF Notify
  <2>6. PICK s : s = Streams[sink]
    OBVIOUS
  <2>7. X # <<>> /\ X[Len(X)] = h /\ Chain(Ev("textStart", 0), X)
    BY <2>2, <2>3, FollowFacts, ChainOne
  <2>8. out \in Seq(Events) /\ out # <<>> /\ out[Len(out)] = h /\ (Stands(Standing(s), textOpen) => Chain(Standing(s), out))
    <3>1. CASE textOpen = TRUE
      <4>1. out = X
        BY <2>3, <2>4, <3>1, ConcatEmptySeq
      <4>2. Stands(Standing(s), textOpen) => Chain(Standing(s), X)
        BY <2>2, <2>3, <3>1, FollowFacts, ChainOne
      <4> QED
        BY <2>7, <4>1, <4>2
    <3>2. CASE textOpen = FALSE
      <4>1. out = <<Ev("textStart", 0)>> \o X
        BY <2>4, <3>2
      <4>2. PICK f \in Events : f = Ev("textStart", 0)
        BY EventKinds
      <4>3. <<f>> \o X \in Seq(Events) /\ <<f>> \o X # <<>> /\ (<<f>> \o X)[Len(<<f>> \o X)] = X[Len(X)]
        <5>1. Follows(Nothing, f)
          BY <4>2 DEF Follows, Nothing, Ev, InBlock, HandOver
        <5> QED
          BY <2>7, <4>2, <5>1, ChainPrefixed
      <4>4. ASSUME Stands(Standing(s), textOpen) PROVE Chain(Standing(s), <<f>> \o X)
        <5>1. Follows(Standing(s), f)
          BY <2>2, <3>2, <4>2, <4>4, FollowFacts
        <5> QED
          BY <2>7, <4>2, <5>1, ChainPrefixed
      <4> QED
        BY <2>7, <4>1, <4>2, <4>3, <4>4
    <3> QED
      BY <3>1, <3>2 DEF KiroInv, CtxInv
  <2>9. ctx /\ sink \in Requests /\ ~Over(Streams[sink]) =>
           /\ Chain(Standing(Streams[sink]), out)
           /\ Over(out) \/ Stands(IF out = <<>> THEN Standing(Streams[sink]) ELSE out[Len(out)], textOpen')
    <3>1. Stands(h, TRUE)
      BY <2>2, FollowFacts
    <3>2. ctx /\ sink \in Requests /\ ~Over(Streams[sink]) => Stands(Standing(s), textOpen)
      BY <2>6 DEF GrammarInv
    <3> QED
      BY <2>5, <2>6, <2>8, <3>1, <3>2
  <2>10. sink \in Requests \cup {NoRequest} /\ (ctx' => ctx)
    BY <1>1 DEF KiroInv, ChannelInv
  <2> QED
    BY <1>1, <2>5, <2>8, <2>9, <2>10, GrammarSection
<1> QED
  BY <1>2, <1>3

(* The answer of the prompt: an open block is closed before the end.       *)
LEMMA PromptGrammar == ASSUME KiroInv, GrammarInv, PromptReturns PROVE GrammarInv'
<1>1. lock = Free /\ UNCHANGED <<got, ended, ctx>>
  BY DEF PromptReturns, closeVars
<1>2. CASE Closed
  <2>1. UNCHANGED <<lock, sink, buf, textOpen>>
    BY <1>2 DEF PromptReturns
  <2>2. Streams' = Streams
    BY <1>1, <2>1, QuietStreams DEF KiroInv
  <2> QED
    BY <1>1, <2>1, <2>2, GrammarKept
<1>3. CASE ~Closed
  <2>1. PICK f \in {Ev("error", 0), Ev("done", "stop")} : Section(sink, EndText \o <<f>>, FALSE)
    BY <1>3 DEF PromptReturns
  <2>2. f \in Events /\ f.t \in Terminal /\ Follows(Ev("textEnd", 0), f)
    <3>1. PICK h : h = Ev("text", 0)
      OBVIOUS
    <3>2. h.t = "text"
      BY <3>1 DEF Ev
    <3> QED
      BY <2>1, <3>2, EventKinds, FollowFacts
  <2>3. PICK X \in Seq(Events) : X = <<f>>
    BY <2>2, OneEvent
  <2>4. PICK out : out = EndText \o X
    OBVIOUS
  <2>5. PICK s : s = Streams[sink]
    OBVIOUS
  <2>6. X # <<>> /\ Over(X) /\ Chain(Ev("textEnd", 0), X)
    BY <2>2, <2>3, ChainOne
  <2>7. ASSUME Stands(Standing(s), TRUE) PROVE Follows(Standing(s), Ev("textEnd", 0))
    BY <2>7 DEF Stands, Follows, Ev, InBlock, HandOver
  <2>8. ASSUME Stands(Standing(s), FALSE) PROVE Follows(Standing(s), f)
    BY <2>1, <2>8 DEF Stands, Follows, Ev, InBlock, HandOver
  <2>9. out \in Seq(Events) /\ Over(out) /\ (Stands(Standing(s), textOpen) => Chain(Standing(s), out))
    <3>1. CASE textOpen = FALSE
      <4>1. out = X
        BY <2>3, <2>4, <3>1, ConcatEmptySeq DEF EndText
      <4>2. Stands(Standing(s), textOpen) => Chain(Standing(s), X)
        BY <2>2, <2>3, <2>8, <3>1, ChainOne
      <4> QED
        BY <2>6, <4>1, <4>2
    <3>2. CASE textOpen = TRUE
      <4>1. out = <<Ev("textEnd", 0)>> \o X
        BY <2>4, <3>2 DEF EndText
      <4>2. PICK g \in Events : g = Ev("textEnd", 0)
        BY EventKinds
      <4>3. <<g>> \o X \in Seq(Events) /\ Over(<<g>> \o X)
        <5>1. Follows(Ev("text", 0), g)
          BY <4>2 DEF Follows, Ev, InBlock, HandOver
        <5> QED
          BY <2>6, <4>2, <5>1, ChainPrefixed
      <4>4. ASSUME Stands(Standing(s), textOpen) PROVE Chain(Standing(s), <<g>> \o X)
        <5>1. Follows(Standing(s), g)
          BY <2>7, <3>2, <4>2, <4>4
        <5> QED
          BY <2>6, <4>2, <5>1, ChainPrefixed
      <4> QED
        BY <4>1, <4>2, <4>3, <4>4
    <3> QED
      BY <3>1, <3>2 DEF KiroInv, CtxInv
  <2>10. ctx /\ sink \in Requests /\ ~Over(Streams[sink]) =>
           /\ Chain(Standing(Streams[sink]), out)
           /\ Over(out) \/ Stands(IF out = <<>> THEN Standing(Streams[sink]) ELSE out[Len(out)], textOpen')
    BY <2>5, <2>9 DEF GrammarInv
  <2>11. sink \in Requests \cup {NoRequest} /\ (ctx' => ctx) /\ Section(sink, out, FALSE)
    BY <1>1, <2>1, <2>3, <2>4 DEF KiroInv, ChannelInv
  <2> QED
    BY <1>1, <2>9, <2>10, <2>11, GrammarSection
<1> QED
  BY <1>2, <1>3

(* A call: an open block is closed before it is handed over.               *)
LEMMA ServeGrammar == ASSUME KiroInv, GrammarInv, NEW t \in Calls, ServeCall(t) PROVE GrammarInv'
<1>1. lock = Free /\ UNCHANGED <<got, ended, ctx>>
  BY DEF ServeCall, closeVars
<1>2. CASE Closed
  <2>1. UNCHANGED <<lock, sink, buf, textOpen>>
    BY <1>2 DEF ServeCall, Refuse
  <2>2. Streams' = Streams
    BY <1>1, <2>1, QuietStreams DEF KiroInv
  <2> QED
    BY <1>1, <2>1, <2>2, GrammarKept
<1>3. CASE ~Closed
  <2>1. PICK w \in Seq(Calls) :
           /\ Section(sink, (IF w # <<>> THEN EndText ELSE <<>>) \o CallEvents(w), w # <<>>)
           /\ textOpen' = (textOpen /\ w = <<>>)
    BY <1>3, ServeCallSends DEF KiroInv
  <2>2. PICK X \in Seq(Events) : X = CallEvents(w)
    BY CallEventsAre
  <2>3. PICK out : out = (IF w # <<>> THEN EndText ELSE <<>>) \o X
    OBVIOUS
  <2>4. PICK s : s = Streams[sink]
    OBVIOUS
  <2>5. textOpen \in BOOLEAN
    BY DEF KiroInv, CtxInv
  <2>6. /\ out \in Seq(Events)
        /\ Stands(Standing(s), textOpen) =>
             Chain(Standing(s), out) /\ (Over(out) \/ Stands(IF out = <<>> THEN Standing(s) ELSE out[Len(out)], textOpen'))
    <3>1. CASE w = <<>>
      <4>1. X = <<>> /\ out = <<>> /\ <<>> \in Seq(Events) /\ DOMAIN <<>> = {}
        <5>1. X = <<>> /\ <<>> \in Seq(Events) /\ DOMAIN <<>> = {} /\ <<>> \o <<>> = <<>>
          <6>1. X = <<>>
            BY <2>2, <3>1, CallEventsAre
          <6> QED
            BY <6>1, EmptySeq, ConcatEmptySeq
        <5> QED
          BY <2>3, <3>1, <5>1
      <4>2. textOpen' = textOpen
        BY <2>1, <2>5, <3>1
      <4> QED
        BY <4>1, <4>2 DEF Chain
    <3>2. CASE w # <<>> /\ textOpen = FALSE
      <4>1. out = X
        BY <2>2, <2>3, <3>2, ConcatEmptySeq DEF EndText
      <4>2. Stands(Standing(s), textOpen) => Chain(Standing(s), X) /\ Over(X)
        BY <2>2, <3>2, ChainCalls DEF Stands
      <4> QED
        BY <4>1, <4>2
    <3>3. CASE w # <<>> /\ textOpen = TRUE
      <4>1. out = <<Ev("textEnd", 0)>> \o X
        BY <2>3, <3>3 DEF EndText
      <4>2. PICK g \in Events : g = Ev("textEnd", 0)
        BY EventKinds
      <4>3. Chain(g, X) /\ Over(X) /\ X # <<>>
        <5>1. g.t \notin InBlock /\ g.t # "call"
          BY <4>2 DEF Ev, InBlock
        <5> QED
          BY <2>2, <3>3, <5>1, ChainCalls
      <4>4. <<g>> \o X \in Seq(Events) /\ Over(<<g>> \o X)
        <5>1. Follows(Ev("text", 0), g)
          BY <4>2 DEF Follows, Ev, InBlock, HandOver
        <5> QED
          BY <4>3, <5>1, ChainPrefixed
      <4>5. ASSUME Stands(Standing(s), textOpen) PROVE Chain(Standing(s), <<g>> \o X)
        <5>1. Follows(Standing(s), g)
          BY <3>3, <4>2, <4>5 DEF Stands, Follows, Ev, InBlock, HandOver
        <5> QED
          BY <4>3, <5>1, ChainPrefixed
      <4> QED
        BY <4>1, <4>2, <4>4, <4>5
    <3> QED
      BY <2>5, <3>1, <3>2, <3>3
  <2>7. ctx /\ sink \in Requests /\ ~Over(Streams[sink]) =>
           /\ Chain(Standing(Streams[sink]), out)
           /\ Over(out) \/ Stands(IF out = <<>> THEN Standing(Streams[sink]) ELSE out[Len(out)], textOpen')
    BY <2>4, <2>6 DEF GrammarInv
  <2>8. PICK release \in BOOLEAN : Section(sink, out, release)
    BY <2>1, <2>2, <2>3
  <2>9. sink \in Requests \cup {NoRequest} /\ (ctx' => ctx)
    BY <1>1 DEF KiroInv, ChannelInv
  <2> QED
    BY <1>1, <2>6, <2>7, <2>8, <2>9, GrammarSection
<1> QED
  BY <1>2, <1>3

(* A request that has not begun to stream has an empty stream.             *)
LEMMA FreshStream ==
  ASSUME KiroInv, NEW q \in Requests, state[q] \in Unstarted
  PROVE  Streams[q] = <<>> /\ ~ended[q]
<1>1. got[q] = <<>> /\ buf[q] = <<>> /\ sink # q /\ ~ended[q]
  BY DEF KiroInv, ClientInv, JobInv, StreamInv, Unstarted
<1>2. <<>> \o <<>> = <<>>
  BY EmptySeq, ConcatEmptySeq
<1> QED
  BY <1>1, <1>2 DEF Streams, Stream, OnTheWay

(* A resumed job starts a reply with the calls that came in the meantime.  *)
LEMMA ResumeGrammar == ASSUME KiroInv, GrammarInv, NEW q \in Requests, Resume(q) PROVE GrammarInv'
<1>1. lock = Free /\ UNCHANGED <<got, ended, ctx>> /\ state[q] = "checking" /\ textOpen' = FALSE
  BY DEF Resume, closeVars
<1>2. PICK w \in Seq(Calls) : Section(q, CallEvents(w), w # <<>>)
  BY ResumeSends DEF KiroInv
<1>3. PICK X \in Seq(Events) : X = CallEvents(w)
  BY CallEventsAre
<1>4. Standing(Streams[q]) = Nothing
  BY <1>1, FreshStream DEF Standing, Unstarted
<1>5. Nothing.t \notin InBlock /\ Nothing.t # "call" /\ Stands(Nothing, FALSE)
  BY DEF Nothing, Ev, InBlock, Stands
<1>6. Chain(Nothing, X) /\ (Over(X) \/ Stands(IF X = <<>> THEN Nothing ELSE X[Len(X)], textOpen'))
  <2>1. CASE w = <<>>
    <3>1. X = <<>>
      BY <1>3, <2>1, CallEventsAre
    <3>2. DOMAIN <<>> = {}
      BY EmptySeq
    <3> QED
      BY <1>1, <1>5, <3>1, <3>2 DEF Chain
  <2>2. CASE w # <<>>
    BY <1>3, <1>5, <2>2, ChainCalls
  <2> QED
    BY <2>1, <2>2
<1>7. PICK release \in BOOLEAN : Section(q, X, release)
  BY <1>2, <1>3
<1>8. ctx' => ctx
  BY <1>1
<1> QED
  BY <1>1, <1>4, <1>6, <1>7, <1>8, GrammarSection

(* A stream ends in the life of a job only when its request has the last   *)
(* event.                                                                  *)
LEMMA ReadGrammar ==
  ASSUME KiroInv, GrammarInv, ctx' => ctx, NEW q \in Requests, RecvMarksEnd(q) \/ CloseStream(q)
  PROVE  GrammarInv'
<1>1. SUFFICES ASSUME ctx' PROVE GrammarInv'
  BY DEF GrammarInv
<1>2. ctx /\ Finished(q) /\ CutTo(q, got[q])
  BY <1>1, StreamEnds DEF KiroInv
<1>3. /\ UNCHANGED <<sink, textOpen>> /\ ended' = [ended EXCEPT ![q] = TRUE]
  BY DEF RecvMarksEnd, CloseStream, jobVars
<1>4. Streams \in [Requests -> Seq(Events)] /\ got[q] \in Seq(Events) /\ Begins(got[q], Streams[q])
  BY <1>2, StreamsTyped DEF KiroInv, CutTo, Begins
<1>5. Streams'[q] = got[q] /\ \A p \in Requests \ {q} : Streams'[p] = Streams[p] /\ ended'[p] = ended[p]
  BY <1>2, <1>3, <1>4 DEF CutTo, KiroInv, JobInv
<1>6. Over(got[q])
  <2>1. Len(got[q]) \in DOMAIN got[q]
    BY <1>2, <1>4, LenProperties, EmptySeq DEF Finished
  <2> QED
    BY <1>2, <2>1 DEF Finished, Last, Over, Terminal
<1>7. \A p \in Requests : Grammar(Streams[p]) /\ (ended[p] => Over(Streams[p]))
  BY <1>2 DEF GrammarInv
<1>8. Grammar(got[q])
  <2>1. Streams[q] \in Seq(Events) /\ Grammar(Streams[q])
    BY <1>4, <1>7
  <2> QED
    BY <1>4, <2>1, GrammarBegins
<1>9. \A p \in Requests : Grammar(Streams'[p]) /\ (ended'[p] => Over(Streams'[p]))
  BY <1>5, <1>6, <1>7, <1>8
<1>10. sink' \in Requests /\ ~Over(Streams'[sink']) => Stands(Standing(Streams'[sink']), textOpen')
  BY <1>2, <1>3, <1>5, <1>6 DEF GrammarInv
<1> QED
  BY <1>9, <1>10 DEF GrammarInv

(* Every step keeps replies well-formed.                                   *)
LEMMA GrammarStep == ASSUME KiroInv, GrammarInv, [Next]_vars PROVE GrammarInv'
<1>1. ctx' => ctx
  BY CtxStep
<1>2. CASE Aside
  <2>1. UNCHANGED <<buf, got, ended, lock, sink, textOpen>>
    BY <1>2 DEF Aside, CloseMarks, CloseForgets, JobTimeout, AgentSpeaks, AgentEnds, PromptCloses, AgentHangsUp,
           WatchChecks, WatchCloses, jobVars, streamVars, vars
  <2>2. Streams' = Streams
    BY <2>1, QuietStreams DEF KiroInv
  <2> QED
    BY <1>1, <2>1, <2>2, GrammarKept
<1>3. CASE \E t \in Calls : AgentCalls(t) \/ CallReturns(t)
  <2>1. UNCHANGED <<buf, got, ended, lock, sink, textOpen>>
    BY <1>3 DEF AgentCalls, CallReturns, streamVars
  <2>2. Streams' = Streams
    BY <2>1, QuietStreams DEF KiroInv
  <2> QED
    BY <1>1, <2>1, <2>2, GrammarKept
<1>4. CASE \E q \in Requests : Comes(q)
  <2>1. /\ UNCHANGED <<buf, got, ended, lock>>
        /\ \/ UNCHANGED <<sink, textOpen>>
           \/ lock = Free /\ sink' = Starter /\ state[Starter] = "setup" /\ textOpen' = FALSE
    BY <1>4 DEF Comes, Start, StartFails, StartJob, Return, CheckFails, ResumeRefused, jobVars
  <2>2. Streams' = Streams
    BY <2>1, QuietStreams, StarterIsRequest DEF KiroInv
  <2>3. state[Starter] = "setup" => Streams[Starter] = <<>>
    BY FreshStream, StarterIsRequest DEF Unstarted
  <2> QED
    BY <1>1, <2>1, <2>2, <2>3, GrammarKept, StarterIsRequest
<1>5. CASE Notify \/ PromptReturns
  BY <1>5, NotifyGrammar, PromptGrammar
<1>6. CASE \E t \in Calls : ServeCall(t)
  BY <1>6, ServeGrammar
<1>7. CASE \E q \in Requests : Resume(q)
  BY <1>7, ResumeGrammar
<1>8. ASSUME NEW q \in Requests, RecvEvent(q) PROVE GrammarInv'
  <2>1. Streams' = Streams
    BY <1>8, RecvEventStreams DEF KiroInv
  <2>2. UNCHANGED <<ended, sink, textOpen>>
    BY <1>8 DEF RecvEvent, jobVars
  <2> QED
    BY <1>1, <2>1, <2>2, GrammarKept
<1>9. CASE \E q \in Requests : RecvMarksEnd(q) \/ CloseStream(q)
  BY <1>1, <1>9, ReadGrammar
<1>10. CASE GoOn
  <2>1. UNCHANGED <<ctx, ended, textOpen>> /\ sink' \in {sink, NoRequest} /\ (Streams' = Streams \/ ~ctx)
    BY <1>10, GoOnStreams DEF GoOn, closeVars, KiroInv
  <2>2. CASE Streams' = Streams
    BY <1>1, <2>1, <2>2, GrammarKept
  <2>3. CASE ~ctx
    BY <2>1, <2>3 DEF GrammarInv
  <2> QED
    BY <2>1, <2>2, <2>3
<1>11. Start \/ StartFails \/ StartJob => \E q \in Requests : Comes(q)
  BY StarterIsRequest DEF Comes
<1> QED
  BY <1>2, <1>3, <1>4, <1>5, <1>6, <1>7, <1>8, <1>9, <1>10, <1>11 DEF Next, Aside, Comes

-------------------------------------------------------------------------------
(* How often a kind of event is among the first n, counted one by one.     *)
LEMMA CountNext ==
  ASSUME NEW g \in Seq(Events), NEW k, NEW n \in Nat, n + 1 <= Len(g)
  PROVE  /\ Count(SubSeq(g, 1, n), k) \in Nat
         /\ Count(SubSeq(g, 1, n + 1), k) = Count(SubSeq(g, 1, n), k) + IF g[n + 1].t = k THEN 1 ELSE 0
<1> DEFINE At(m) == {i \in 1 .. m : g[i].t = k}
<1>1. Len(g) \in Nat /\ \A i \in 1 .. Len(g) : g[i] \in Events
  BY LenProperties, ElementOfSeq
<1>2. ASSUME NEW m \in Nat, m <= Len(g) PROVE Count(SubSeq(g, 1, m), k) = Cardinality(At(m))
  <2>1. DOMAIN SubSeq(g, 1, m) = 1 .. m /\ \A i \in 1 .. m : SubSeq(g, 1, m)[i] = g[i]
    <3>1. \A i \in 1 .. m : g[i] \in Events
      BY <1>1, <1>2
    <3>2. /\ SubSeq(g, 1, m) \in Seq(Events) /\ Len(SubSeq(g, 1, m)) = IF 1 <= m THEN m - 1 + 1 ELSE 0
          /\ \A i \in 1 .. m - 1 + 1 : SubSeq(g, 1, m)[i] = g[1 + i - 1]
      BY <3>1, SubSeqProperties
    <3>3. Len(SubSeq(g, 1, m)) = m
      BY <3>2
    <3>4. DOMAIN SubSeq(g, 1, m) = 1 .. m
      BY <3>2, <3>3, LenProperties
    <3>5. \A i \in 1 .. m : i \in 1 .. m - 1 + 1 /\ 1 + i - 1 = i
      OBVIOUS
    <3> QED
      BY <3>2, <3>4, <3>5
  <2>2. {i \in DOMAIN SubSeq(g, 1, m) : SubSeq(g, 1, m)[i].t = k} = At(m)
    BY <2>1
  <2> QED
    BY <2>2 DEF Count
<1>3. n \in Nat /\ n <= Len(g) /\ n + 1 \in Nat
  BY <1>1
<1>4. IsFiniteSet(At(n)) /\ Cardinality(At(n)) \in Nat
  <2>1. IsFiniteSet(1 .. n)
    BY FS_Interval
  <2>2. IsFiniteSet(At(n))
    BY <2>1, FS_Subset
  <2> QED
    BY <2>2, FS_CardinalityType
<1>5. At(n + 1) = IF g[n + 1].t = k THEN At(n) \cup {n + 1} ELSE At(n)
  OBVIOUS
<1>6. n + 1 \notin At(n)
  OBVIOUS
<1>7. Cardinality(At(n) \cup {n + 1}) = Cardinality(At(n)) + 1
  BY <1>4, <1>6, FS_AddElement
<1> HIDE DEF At
<1> QED
  BY <1>2, <1>3, <1>4, <1>5, <1>7

(* A count is positive when there is one to count.                         *)
LEMMA CountWhole ==
  ASSUME NEW g \in Seq(Events), NEW k
  PROVE  /\ (\A i \in DOMAIN g : g[i].t # k) => Count(g, k) = 0
         /\ (\E i \in DOMAIN g : g[i].t = k) => Count(g, k) > 0
<1> DEFINE S == {i \in DOMAIN g : g[i].t = k}
<1>1. IsFiniteSet(S) /\ Cardinality(S) \in Nat
  <2>1. IsFiniteSet(1 .. Len(g)) /\ DOMAIN g = 1 .. Len(g)
    BY LenProperties, FS_Interval
  <2>2. IsFiniteSet(S)
    BY <2>1, FS_Subset
  <2> QED
    BY <2>2, FS_CardinalityType
<1>2. Cardinality(S) = 0 <=> S = {}
  BY <1>1, FS_EmptySet
<1> QED
  BY <1>1, <1>2 DEF Count

(* What a request has received, when nothing follows the end of it.        *)
Received(g) ==
  /\ g \in Seq(Events)
  /\ \A n \in DOMAIN g : /\ g[n].t \in Terminal => n = Len(g)
                         /\ Follows(IF n = 1 THEN Nothing ELSE g[n - 1], g[n])

(* A block is open after an event exactly when the event is in it.         *)
LEMMA BlocksOpen ==
  ASSUME NEW g, Received(g), NEW n \in 1 .. Len(g)
  PROVE  Count(SubSeq(g, 1, n), "textStart") - Count(SubSeq(g, 1, n), "textEnd") = IF g[n].t \in InBlock THEN 1 ELSE 0
<1> DEFINE Starts(m) == Count(SubSeq(g, 1, m), "textStart")
<1> DEFINE Ends(m) == Count(SubSeq(g, 1, m), "textEnd")
<1> DEFINE In(m) == IF m # 0 /\ g[m].t \in InBlock THEN 1 ELSE 0
<1> DEFINE S == {m \in Nat : m <= Len(g) => Starts(m) - Ends(m) = In(m)}
<1>1. g \in Seq(Events) /\ Len(g) \in Nat /\ DOMAIN g = 1 .. Len(g)
  BY LenProperties DEF Received
<1>2. 0 \in S
  <2>1. SubSeq(g, 1, 0) = <<>>
    <3>1. SubSeq(g, 1, 0) \in Seq(Events) /\ Len(SubSeq(g, 1, 0)) = 0
      <4>1. \A i \in 1 .. 0 : g[i] \in Events
        OBVIOUS
      <4>2. SubSeq(g, 1, 0) \in Seq(Events) /\ Len(SubSeq(g, 1, 0)) = IF 1 <= 0 THEN 0 - 1 + 1 ELSE 0
        BY <1>1, <4>1, SubSeqProperties
      <4> QED
        BY <4>2
    <3> QED
      BY <3>1, EmptySeq
  <2>2. Starts(0) = 0 /\ Ends(0) = 0
    <3>1. <<>> \in Seq(Events) /\ DOMAIN <<>> = {}
      BY EmptySeq
    <3> QED
      BY <2>1, <3>1, CountWhole
  <2> QED
    BY <2>2
<1>3. ASSUME NEW m \in Nat, m \in S PROVE m + 1 \in S
  <2>1. SUFFICES ASSUME m + 1 <= Len(g) PROVE Starts(m + 1) - Ends(m + 1) = In(m + 1)
    OBVIOUS
  <2>2. /\ Starts(m) \in Nat /\ Starts(m + 1) = Starts(m) + IF g[m + 1].t = "textStart" THEN 1 ELSE 0
        /\ Ends(m) \in Nat /\ Ends(m + 1) = Ends(m) + IF g[m + 1].t = "textEnd" THEN 1 ELSE 0
    BY <1>1, <2>1, CountNext
  <2>3. m <= Len(g) /\ m + 1 \in DOMAIN g
    BY <1>1, <2>1
  <2>4. Starts(m) - Ends(m) = In(m)
    BY <1>3, <2>3
  <2>5. Follows(IF m + 1 = 1 THEN Nothing ELSE g[(m + 1) - 1], g[m + 1])
    BY <2>3 DEF Received
  <2>6. (m + 1) - 1 = m /\ (m + 1 = 1 <=> m = 0) /\ m + 1 # 0
    OBVIOUS
  <2>7. In(m) = 1 <=> g[m + 1].t \in {"text", "textEnd"}
    <3>1. CASE m = 0
      BY <2>5, <2>6, <3>1 DEF Follows, Nothing, Ev, InBlock
    <3>2. CASE m # 0
      BY <2>5, <2>6, <3>2 DEF Follows
    <3> QED
      BY <3>1, <3>2
  <2>8. In(m) \in {0, 1} /\ In(m + 1) = IF g[m + 1].t \in InBlock THEN 1 ELSE 0
    BY <2>6
  <2> HIDE DEF Starts, Ends, In
  <2>9. PICK kind : kind = g[m + 1].t
    OBVIOUS
  <2>10. CASE kind = "textStart"
    <3>1. In(m) = 0 /\ In(m + 1) = 1
      BY ONLY <2>7, <2>8, <2>9, <2>10 DEF InBlock
    <3>2. Starts(m + 1) = Starts(m) + 1 /\ Ends(m + 1) = Ends(m)
      BY ONLY <2>2, <2>9, <2>10
    <3> QED
      BY ONLY <2>2, <2>4, <3>1, <3>2
  <2>11. CASE kind = "textEnd"
    <3>1. In(m) = 1 /\ In(m + 1) = 0
      BY ONLY <2>7, <2>8, <2>9, <2>11 DEF InBlock
    <3>2. Starts(m + 1) = Starts(m) /\ Ends(m + 1) = Ends(m) + 1
      BY ONLY <2>2, <2>9, <2>11
    <3> QED
      BY ONLY <2>2, <2>4, <3>1, <3>2
  <2>12. CASE kind # "textStart" /\ kind # "textEnd"
    <3>1. In(m + 1) = In(m)
      BY ONLY <2>7, <2>8, <2>9, <2>12 DEF InBlock
    <3>2. Starts(m + 1) = Starts(m) /\ Ends(m + 1) = Ends(m)
      BY ONLY <2>2, <2>9, <2>12
    <3> QED
      BY ONLY <2>2, <2>4, <3>1, <3>2
  <2> QED
    BY <2>10, <2>11, <2>12
<1> HIDE DEF S
<1>4. Nat \subseteq S
  BY <1>2, <1>3, NumberInduction
<1> USE DEF S
<1>5. Starts(n) - Ends(n) = In(n) /\ n # 0
  <2>1. n \in Nat /\ n <= Len(g) /\ n # 0
    BY <1>1
  <2> QED
    BY <1>4, <2>1
<1> QED
  BY <1>5

(* A tool call in a reply makes it end as handed over.                     *)
LEMMA CallsHandOver ==
  ASSUME NEW g, Received(g), NEW k \in DOMAIN g, g[k].t = "call", NEW n \in DOMAIN g, k <= n
  PROVE  g[n].t = "call" \/ g[n] = HandOver
<1> DEFINE S == {j \in Nat : k + j <= n => g[k + j].t = "call" \/ g[k + j] = HandOver}
<1>1. g \in Seq(Events) /\ Len(g) \in Nat /\ DOMAIN g = 1 .. Len(g) /\ k \in Nat \ {0} /\ n \in Nat /\ n <= Len(g)
  BY LenProperties DEF Received
<1>2. 0 \in S
  BY <1>1
<1>3. ASSUME NEW j \in Nat, j \in S PROVE j + 1 \in S
  <2>1. SUFFICES ASSUME k + (j + 1) <= n PROVE g[k + (j + 1)].t = "call" \/ g[k + (j + 1)] = HandOver
    OBVIOUS
  <2>2. /\ k + j <= n /\ k + j \in DOMAIN g /\ k + j # Len(g) /\ k + (j + 1) \in DOMAIN g /\ k + (j + 1) # 1
        /\ (k + (j + 1)) - 1 = k + j
    BY <1>1, <2>1
  <2>3. g[k + j].t = "call" \/ g[k + j] = HandOver
    BY <1>3, <2>2
  <2>4. g[k + j] # HandOver
    BY <2>2 DEF Received, HandOver, Ev, Terminal
  <2>5. Follows(g[k + j], g[k + (j + 1)])
    BY <2>2 DEF Received
  <2> QED
    BY <2>3, <2>4, <2>5 DEF Follows
<1> HIDE DEF S
<1>4. Nat \subseteq S
  BY <1>2, <1>3, NumberInduction
<1> USE DEF S
<1>5. n - k \in Nat /\ k + (n - k) = n
  BY <1>1
<1> QED
  BY <1>1, <1>4, <1>5

LEMMA GrammarInitInv == Init => GrammarInv
<1> SUFFICES ASSUME Init PROVE GrammarInv
  OBVIOUS
<1>1. KiroInv
  BY KiroInitInv
<1>2. \A q \in Requests : state[q] \in Unstarted
  BY DEF Init, Unstarted
<1>3. \A q \in Requests : Streams[q] = <<>> /\ ~ended[q]
  BY <1>1, <1>2, FreshStream
<1>4. Grammar(<<>>)
  BY EmptySeq DEF Grammar
<1>5. sink \notin Requests
  BY StarterIsRequest DEF Init
<1> QED
  BY <1>3, <1>4, <1>5 DEF GrammarInv

(* As long as the job lives, everything on its way to a client is well-    *)
(* formed (notify, serveMCP, runPrompt, resume, forwardStream).            *)
THEOREM GrammarInvariant == Spec => [](KiroInv /\ GrammarInv)
<1>1. Init => KiroInv /\ GrammarInv
  BY KiroInitInv, GrammarInitInv
<1>2. KiroInv /\ GrammarInv /\ [Next]_vars => KiroInv' /\ GrammarInv'
  BY KiroStep, GrammarStep
<1> QED
  BY <1>1, <1>2, PTL DEF Spec

(* A request receives one well-formed reply, whoever sends and however the *)
(* job goes from one request to the next.                                  *)
THEOREM RepliesAreWellFormed == Spec => []ReplyWellFormed
<1>1. ASSUME KiroInv, GrammarInv PROVE ReplyWellFormed
  <2>1. ASSUME NEW q \in Requests
        PROVE  /\ got[q] \in Seq(Events) /\ DOMAIN got[q] = 1 .. Len(got[q]) /\ Len(got[q]) \in Nat
               /\ \A n \in DOMAIN got[q] : n \in DOMAIN Streams[q] /\ Streams[q][n] = got[q][n]
               /\ ctx => Received(got[q])
    <3>1. /\ got[q] \in Seq(Events) /\ Streams[q] \in Seq(Events) /\ Begins(got[q], Streams[q])
      BY <1>1, WhatHasCome DEF KiroInv
    <3>2. /\ Len(got[q]) \in Nat /\ Len(Streams[q]) \in Nat /\ DOMAIN got[q] = 1 .. Len(got[q])
          /\ DOMAIN Streams[q] = 1 .. Len(Streams[q])
      BY <3>1, LenProperties
    <3>3. \A n \in DOMAIN got[q] : n \in DOMAIN Streams[q] /\ Streams[q][n] = got[q][n]
      BY <3>1, <3>2 DEF Begins
    <3>4. \A n \in DOMAIN got[q] : got[q][n].t \in Terminal => n = Len(got[q])
      BY <1>1 DEF KiroInv, ClientInv
    <3>5. ASSUME ctx, NEW n \in DOMAIN got[q] PROVE Follows(IF n = 1 THEN Nothing ELSE got[q][n - 1], got[q][n])
      <4>1. Grammar(got[q])
        BY <1>1, <3>1, <3>5, GrammarBegins DEF GrammarInv
      <4>2. \A m \in 1 .. n - 1 : m \in DOMAIN got[q] /\ m # Len(got[q])
        BY <3>2, <3>5
      <4> QED
        BY <3>4, <4>1, <4>2 DEF Grammar
    <3> QED
      BY <3>1, <3>2, <3>3, <3>4, <3>5 DEF Received
  <2>2. ASSUME NEW q \in Requests, NEW n \in DOMAIN got[q], got[q][n].t = "text",
               NEW p \in Requests, NEW m \in DOMAIN got[p], got[p][m] = got[q][n]
        PROVE  p = q /\ m = n
    <3>1. /\ n \in DOMAIN Streams[q] /\ Streams[q][n] = got[q][n]
          /\ m \in DOMAIN Streams[p] /\ Streams[p][m] = got[p][m]
      BY <2>1, <2>2
    <3>2. got[q][n].t \in Marked
      BY <2>2 DEF Marked
    <3> QED
      BY <1>1, <2>2, <3>1, <3>2 DEF KiroInv, MarkInv, Once
  <2>3. ASSUME NEW q \in Requests, NEW n \in DOMAIN got[q], ctx, NEW open,
               open = Count(SubSeq(got[q], 1, n), "textStart") - Count(SubSeq(got[q], 1, n), "textEnd")
        PROVE  /\ open \in {0, 1}
               /\ got[q][n].t = "text" => open = 1
               /\ got[q][n].t \in {"call", "done"} => open = 0
    <3>1. open = IF got[q][n].t \in InBlock THEN 1 ELSE 0
      BY <2>1, <2>3, BlocksOpen
    <3> QED
      BY <3>1 DEF InBlock
  <2>4. ASSUME NEW q \in Requests, NEW n \in DOMAIN got[q], ctx, got[q][n] = Ev("done", "tool_calls")
        PROVE  Count(got[q], "call") > 0
    <3>1. Follows(IF n = 1 THEN Nothing ELSE got[q][n - 1], got[q][n])
      BY <2>1, <2>4 DEF Received
    <3>2. n # 1 /\ got[q][n - 1].t = "call"
      BY <2>4, <3>1 DEF Follows, HandOver, Nothing, Ev
    <3>3. n - 1 \in DOMAIN got[q]
      BY <2>1, <2>4, <3>2
    <3> QED
      BY <2>1, <3>2, <3>3, CountWhole
  <2>5. ASSUME NEW q \in Requests, NEW n \in DOMAIN got[q], ctx, got[q][n] = Ev("done", "stop")
        PROVE  Count(got[q], "call") = 0
    <3>1. SUFFICES ASSUME NEW k \in DOMAIN got[q], got[q][k].t = "call" PROVE FALSE
      BY <2>1, CountWhole
    <3>2. n = Len(got[q])
      BY <2>1, <2>5 DEF Received, Terminal, Ev
    <3>3. k <= n
      BY <2>1, <3>2
    <3>4. got[q][n].t = "call" \/ got[q][n] = HandOver
      BY <2>1, <2>5, <3>1, <3>3, CallsHandOver
    <3> QED
      BY <2>5, <3>4 DEF HandOver, Ev
  <2>6. \A q \in Requests : \A n \in DOMAIN got[q] : got[q][n].t \in Terminal => n = Len(got[q])
    BY <1>1 DEF KiroInv, ClientInv
  <2> QED
    BY <2>2, <2>3, <2>4, <2>5, <2>6 DEF ReplyWellFormed
<1> QED
  BY <1>1, GrammarInvariant, PTL
===============================================================================
