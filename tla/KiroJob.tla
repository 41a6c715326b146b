-------------------------------- MODULE KiroJob --------------------------------
(***************************************************************************)
(* A Kiro generation (adapter/kiro): a job runs one native agent, whose    *)
(* text comes over its standard output and whose tool calls come as HTTP   *)
(* requests to the job's own server. A tool call is handed to the client,  *)
(* whose request ends there; the agent waits until a later request of that *)
(* client brings the result and resumes the job. Requests start a job,     *)
(* resume it, are repeated and leave; the agent may die and the job's time *)
(* may run out.                                                            *)
(***************************************************************************)
EXTENDS Integers, Sequences, FiniteSets, SequencesExt

CONSTANTS
  LastRequest,  \* requests of one client: the first starts the job, the others bring results
  LastCall,     \* bound on the tool calls of the agent
  MaxTurns,     \* bound on requests and tool calls together
  MaxText,      \* bound on the pieces of text the agent says
  Buffer        \* events a stream holds

ASSUME JobAssumption ==
  /\ LastRequest \in Nat \ {0} /\ LastCall \in Nat /\ MaxTurns \in Nat /\ MaxText \in Nat /\ Buffer \in Nat \ {0}

Requests == 1 .. LastRequest
Calls == 1 .. LastCall
Starter == 1
NoRequest == 0

VARIABLES
  ctx,         \* the job's context is alive
  closing,     \* how far close() has come: no, cancelled, marked, done
  doomed,      \* the calls close() is to forget
  closer,      \* the request that cancels the job, if one does
  leaving,     \* the requests whose watcher found the client gone before the end and is about to call close()
  lock,        \* what the holder of the job's mutex has yet to send, and whether it lets the stream go
  sink,        \* the stream attached to the job
  textOpen,    \* a text block is open
  order,       \* the tool calls the job knows, in order
  call,        \* each tool call: none, asked, waiting, delivered, answered, back, gone
  pending,     \* the adapter's index of tool calls with a job
  stdout,      \* what the agent has said and the reader has not read
  agent,       \* the agent: working, over
  prompt,      \* the goroutine of the prompt: none, calling, waiting, done
  said,        \* pieces of text said
  buf,         \* events in the channel of a request's stream
  got,         \* events a request has received
  ended,       \* a stream's end channel is closed
  state,       \* a request: idle, setup, checking, streaming, over, closed, refused
  brings       \* the results a request brings

agentVars == <<agent, stdout, said>>
closeVars == <<ctx, closing, doomed, closer, leaving>>
streamVars == <<buf, got, ended, state, brings>>
jobVars == <<lock, sink, textOpen, order, call, pending, agentVars, prompt>>
vars == <<closeVars, jobVars, streamVars>>

Free == [out |-> <<>>, release |-> FALSE]
Ev(t, x) == [t |-> t, x |-> x]
Registered == ToSet(order)
(* The bound on what a client and an agent do together. *)
MoreTurns == Cardinality({q \in Requests : state[q] # "idle"}) + Cardinality({t \in Calls : call[t] # "none"}) < MaxTurns

Init ==
  /\ ctx = TRUE /\ closing = "no" /\ doomed = {} /\ closer = NoRequest /\ leaving = {}
  /\ lock = Free /\ sink = NoRequest /\ textOpen = FALSE
  /\ order = <<>> /\ call = [t \in Calls |-> "none"] /\ pending = {}
  /\ stdout = <<>> /\ agent = "working" /\ said = 0 /\ prompt = "none"
  /\ buf = [q \in Requests |-> <<>>] /\ got = [q \in Requests |-> <<>>]
  /\ ended = [q \in Requests |-> FALSE]
  /\ state = [q \in Requests |-> "idle"] /\ brings = [q \in Requests |-> {}]

Finished(q) == got[q] # <<>> /\ Last(got[q]).t \in {"done", "error"}
HandedOff(q) == Finished(q) /\ Last(got[q]) = Ev("done", "tool_calls")

(* close() cancels the context first and takes the mutex after, so that a  *)
(* holder that waits for room in a channel lets go. The job ends once:     *)
(* watchers that are about to end it find nothing left to do.              *)
CloseBegins(who) ==
  IF closing = "no" THEN ctx' = FALSE /\ closing' = "cancelled" /\ closer' = who /\ leaving' = {} /\ UNCHANGED doomed
  ELSE UNCHANGED closeVars
CloseMarks ==
  /\ closing = "cancelled" /\ lock = Free
  /\ closing' = "marked" /\ doomed' = Registered /\ closer' = NoRequest
  /\ UNCHANGED <<ctx, leaving, jobVars, streamVars>>
CloseForgets ==
  /\ closing = "marked" /\ closing' = "done" /\ pending' = pending \ doomed /\ doomed' = {}
  /\ agent' = "over" /\ stdout' = <<>>
  /\ UNCHANGED <<ctx, closer, leaving, lock, sink, textOpen, order, call, said, prompt, streamVars>>
Closed == closing \in {"marked", "done"}
(* The time of the job runs out (or its context was cancelled).            *)
JobTimeout ==
  /\ prompt # "none" /\ closing = "no" /\ CloseBegins(NoRequest)
  /\ UNCHANGED <<jobVars, streamVars>>

(* Variant: a send that knows only its own stream's end, not the job's.    *)
SectionIgnoresJob(q, out, release) ==
  \E kept \in IF q = NoRequest \/ ended[q] THEN {<<>>} ELSE {out} :
    LET n == IF kept = <<>> THEN 0 ELSE Min({Len(kept), Buffer - Len(buf[q])})
        over == n = Len(kept)
    IN /\ buf' = IF n = 0 THEN buf ELSE [buf EXCEPT ![q] = @ \o SubSeq(kept, 1, n)]
       /\ lock' = IF over THEN Free ELSE [out |-> SubSeq(kept, n + 1, Len(kept)), release |-> release]
       /\ sink' = IF over /\ release THEN NoRequest ELSE q
(* The mutex: a critical section sends its events to the stream q. A send  *)
(* waits for room and is given up when the stream has ended or the job is  *)
(* over, so the section keeps the mutex as long as the channel is full.    *)
(* Nobody reads what an ended stream gets; after the job's end what is     *)
(* left of a section goes or is given up together.                         *)
Section(q, out, release) ==
  \E kept \in IF q = NoRequest \/ ended[q] THEN {<<>>} ELSE IF ctx THEN {out} ELSE {out, <<>>} :
    LET n == IF kept = <<>> THEN 0 ELSE Min({Len(kept), Buffer - Len(buf[q])})
        over == n = Len(kept)
    IN /\ buf' = IF n = 0 THEN buf ELSE [buf EXCEPT ![q] = @ \o SubSeq(kept, 1, n)]
       /\ lock' = IF over THEN Free ELSE [out |-> SubSeq(kept, n + 1, Len(kept)), release |-> release]
       /\ sink' = IF over /\ release THEN NoRequest ELSE q
GoOn ==
  /\ lock # Free /\ Section(sink, lock.out, lock.release) /\ lock' # lock
  /\ UNCHANGED <<closeVars, textOpen, order, call, pending, agentVars, prompt, got, ended, state, brings>>

EndText == IF textOpen THEN <<Ev("textEnd", 0)>> ELSE <<>>
Waiting(o, c) == FoldLeft(LAMBDA w, t : IF c[t] = "waiting" THEN Append(w, t) ELSE w, <<>>, o)
(* deliverWaiting, for the calls o in states c: what it sends, the calls   *)
(* as it leaves them, and whether the stream is handed off.                *)
Delivery(o, c, attached) ==
  LET w == IF attached THEN Waiting(o, c) ELSE <<>> IN
  [out |-> IF w = <<>> THEN <<>>
           ELSE [n \in DOMAIN w |-> Ev("call", w[n])] \o <<Ev("done", "tool_calls")>>,
   call |-> [t \in Calls |-> IF t \in ToSet(w) THEN "delivered" ELSE c[t]],
   any |-> w # <<>>]

(* The agent speaks, calls a tool, ends its turn or dies.                  *)
AgentSpeaks ==
  /\ prompt = "calling" /\ agent = "working" /\ said < MaxText
  /\ said' = said + 1 /\ stdout' = Append(stdout, Ev("text", said'))
  /\ UNCHANGED <<closeVars, lock, sink, textOpen, order, call, pending, agent, prompt, streamVars>>
AgentCalls(t) ==
  /\ prompt = "calling" /\ agent = "working" /\ call[t] = "none"
  /\ MoreTurns /\ \A u \in 1 .. t - 1 : call[u] # "none"
  /\ call' = [call EXCEPT ![t] = "asked"]
  /\ UNCHANGED <<closeVars, lock, sink, textOpen, order, pending, agentVars, prompt, streamVars>>
Outstanding == {t \in Calls : call[t] \in {"asked", "waiting", "delivered", "answered"}}
AgentEnds ==
  /\ prompt = "calling" /\ agent = "working" /\ agent' = "over"
  /\ \E stop \in IF Outstanding = {} THEN {"end_turn", "broken"} ELSE {"broken"} :
       stdout' = Append(stdout, Ev(stop, 0))
  /\ UNCHANGED <<closeVars, lock, sink, textOpen, order, call, pending, said, prompt, streamVars>>

(* The reader of the standard output: text goes to the attached stream, or *)
(* nowhere when none is; anything else is the answer of the prompt.        *)
Notify ==
  /\ stdout # <<>> /\ Head(stdout).t = "text" /\ lock = Free
  /\ stdout' = Tail(stdout)
  /\ IF Closed \/ sink = NoRequest THEN UNCHANGED <<lock, sink, textOpen, buf>>
     ELSE /\ Section(sink, (IF textOpen THEN <<>> ELSE <<Ev("textStart", 0)>>) \o <<Head(stdout)>>, FALSE)
          /\ textOpen' = TRUE
  /\ UNCHANGED <<closeVars, order, call, pending, agent, said, prompt, got, ended, state, brings>>

(* The answer of the prompt; a broken one is any other stop reason, the    *)
(* end of the connection or of the job.                                    *)
CallEnds(outcome) ==
  \/ stdout # <<>> /\ Head(stdout).t = outcome /\ stdout' = Tail(stdout)
  \/ ~ctx /\ outcome = "broken" /\ UNCHANGED stdout
PromptReturns ==
  \E outcome \in {"end_turn", "broken"}, requireTool \in BOOLEAN :
  LET final == IF outcome = "broken" \/ (requireTool /\ order = <<>>) THEN Ev("error", 0)
               ELSE Ev("done", "stop")
  IN /\ prompt = "calling" /\ lock = Free /\ CallEnds(outcome)
     /\ IF Closed THEN prompt' = "done" /\ UNCHANGED <<lock, sink, textOpen, buf>>
        ELSE prompt' = "waiting" /\ textOpen' = FALSE /\ Section(sink, EndText \o <<final>>, FALSE)
     /\ UNCHANGED <<closeVars, order, call, pending, agent, said, got, ended, state, brings>>
(* It waits for the reader of the stream, for at most thirty seconds.      *)
PromptCloses ==
  /\ prompt = "waiting" /\ lock = Free /\ prompt' = "done"
  /\ CloseBegins(NoRequest)
  /\ UNCHANGED <<lock, sink, textOpen, order, call, pending, agentVars, streamVars>>

(* serveMCP: a call that arrives after close() is refused; otherwise it is *)
(* registered and, when a stream is attached, delivered.                   *)
Deliver(t, close) ==
  LET c == [call EXCEPT ![t] = "waiting"]
      d == Delivery(Append(order, t), c, sink # NoRequest)
  IN /\ order' = Append(order, t) /\ pending' = pending \cup {t} /\ call' = d.call
     /\ Section(sink, (IF d.any THEN close ELSE <<>>) \o d.out, d.any)
     /\ textOpen' = (textOpen /\ ~d.any)
Refuse(t) == call' = [call EXCEPT ![t] = "gone"] /\ UNCHANGED <<lock, sink, order, pending, textOpen, buf>>
(* Variant: the call is registered also when close() has collected them.   *)
ServeCallLate(t) ==
  /\ call[t] = "asked" /\ lock = Free /\ Deliver(t, EndText)
  /\ UNCHANGED <<closeVars, agentVars, prompt, got, ended, state, brings>>
(* Variant: the text block before the call is not closed.                  *)
ServeCallInText(t) ==
  /\ call[t] = "asked" /\ lock = Free
  /\ IF Closed THEN Refuse(t) ELSE Deliver(t, <<>>)
  /\ UNCHANGED <<closeVars, agentVars, prompt, got, ended, state, brings>>
ServeCall(t) ==
  /\ call[t] = "asked" /\ lock = Free
  /\ IF Closed THEN Refuse(t) ELSE Deliver(t, EndText)
  /\ UNCHANGED <<closeVars, agentVars, prompt, got, ended, state, brings>>
(* The held call is answered with its result, or told that the job is over.*)
CallReturns(t) ==
  /\ \/ call[t] = "answered" /\ call' = [call EXCEPT ![t] = "back"]
     \/ call[t] \in {"waiting", "delivered", "answered"} /\ ~ctx /\ call' = [call EXCEPT ![t] = "gone"]
  /\ UNCHANGED <<closeVars, lock, sink, textOpen, order, pending, agentVars, prompt, streamVars>>
(* The agent gives up its HTTP request.                                    *)
AgentHangsUp(t) ==
  /\ call[t] \in {"waiting", "delivered"} /\ closing = "no"
  /\ CloseBegins(NoRequest)
  /\ UNCHANGED <<jobVars, streamVars>>

(* A request that starts the job. Setting it up may fail, also because its *)
(* client leaves.                                                          *)
Start ==
  /\ state[Starter] = "idle" /\ state' = [state EXCEPT ![Starter] = "setup"]
  /\ UNCHANGED <<closeVars, jobVars, buf, got, ended, brings>>
StartFails ==
  /\ state[Starter] = "setup" /\ state' = [state EXCEPT ![Starter] = "refused"]
  /\ CloseBegins(NoRequest)
  /\ UNCHANGED <<jobVars, buf, got, ended, brings>>
StartJob ==
  /\ state[Starter] = "setup" /\ lock = Free /\ ctx
  /\ state' = [state EXCEPT ![Starter] = "streaming"]
  /\ sink' = Starter /\ textOpen' = FALSE
  /\ prompt' = "calling"
  /\ UNCHANGED <<closeVars, lock, order, call, pending, agentVars, buf, got, ended, brings>>

(* A request with results: the calls some request was handed. It finds the *)
(* job by them; without one, the session has expired. Then the account is  *)
(* checked, and a failure ends the job.                                    *)
KnownToClient == {t \in Calls : \E q \in Requests : HandedOff(q) /\ Ev("call", t) \in ToSet(got[q])}
Return(q, results) ==
  /\ q # Starter /\ MoreTurns /\ state[q] = "idle" /\ state[q - 1] # "idle" /\ results # {} /\ results \subseteq KnownToClient
  /\ IF results \cap pending = {} THEN state' = [state EXCEPT ![q] = "refused"] /\ UNCHANGED brings
     ELSE state' = [state EXCEPT ![q] = "checking"] /\ brings' = [brings EXCEPT ![q] = results]
  /\ UNCHANGED <<closeVars, jobVars, buf, got, ended>>
CheckFails(q) ==
  /\ state[q] = "checking" /\ state' = [state EXCEPT ![q] = "refused"]
  /\ brings' = [brings EXCEPT ![q] = {}]
  /\ CloseBegins(q)
  /\ UNCHANGED <<jobVars, buf, got, ended>>

(* resume: the job must be idle and every call it has delivered must get   *)
(* its result; calls that came in the meantime are delivered at once.      *)
Due == {t \in Registered : call[t] = "delivered"}
Resumable(q) == ~Closed /\ sink = NoRequest /\ Due # {} /\ Due \subseteq brings[q]
ResumeRefused(q) ==
  /\ state[q] = "checking" /\ lock = Free /\ ~Resumable(q)
  /\ state' = [state EXCEPT ![q] = "refused"] /\ brings' = [brings EXCEPT ![q] = {}]
  /\ UNCHANGED <<closeVars, jobVars, buf, got, ended>>
Resume(q) ==
  LET answered == [t \in Calls |-> IF t \in Due THEN "answered" ELSE call[t]]
      d == Delivery(order, answered, TRUE)
  IN /\ state[q] = "checking" /\ lock = Free /\ Resumable(q)
     /\ textOpen' = FALSE /\ call' = d.call /\ Section(q, d.out, d.any)
     /\ state' = [state EXCEPT ![q] = "streaming"]
     /\ UNCHANGED <<closeVars, order, pending, agentVars, prompt, got, ended, brings>>

(* Recv: after the last event the end of the stream is announced.          *)
RecvEvent(q) ==
  /\ state[q] = "streaming" /\ ~Finished(q) /\ buf[q] # <<>>
  /\ got' = [got EXCEPT ![q] = Append(@, Head(buf[q]))]
  /\ buf' = [buf EXCEPT ![q] = Tail(@)]
  /\ UNCHANGED <<closeVars, jobVars, ended, state, brings>>
RecvMarksEnd(q) ==
  /\ state[q] = "streaming" /\ Finished(q)
  /\ ended' = [ended EXCEPT ![q] = TRUE] /\ state' = [state EXCEPT ![q] = "over"]
  /\ UNCHANGED <<closeVars, jobVars, buf, got, brings>>
(* Variant: closing the stream ends the job, handed off or not.            *)
CloseStreamEndsJob(q) ==
  /\ state[q] = "over" \/ (state[q] = "streaming" /\ ~Finished(q))
  /\ state' = [state EXCEPT ![q] = "closed"]
  /\ ended' = [ended EXCEPT ![q] = TRUE] /\ buf' = [buf EXCEPT ![q] = <<>>]
  /\ CloseBegins(q)
  /\ UNCHANGED <<jobVars, got, brings>>
(* The handler closes the stream, at its end or when Recv gave it the      *)
(* client's leaving, the end of the job, or it cannot write: a job that    *)
(* was handed off is kept.                                                 *)
CloseStream(q) ==
  /\ state[q] = "over" \/ (state[q] = "streaming" /\ ~Finished(q))
  /\ state' = [state EXCEPT ![q] = "closed"]
  /\ ended' = [ended EXCEPT ![q] = TRUE] /\ buf' = [buf EXCEPT ![q] = <<>>]
  /\ IF HandedOff(q) THEN UNCHANGED closeVars ELSE CloseBegins(q)
  /\ UNCHANGED <<jobVars, got, brings>>
(* watch: the watcher of a request finds its client gone and the end of    *)
(* its stream not announced, and then ends the job. No lock is held over   *)
(* both: in between Recv may take the last event, announce the end and     *)
(* hand the job off. (A watcher that looks when the job is ending anyway   *)
(* changes nothing.)                                                       *)
WatchChecks(q) ==
  /\ state[q] = "streaming" /\ ~ended[q] /\ closing = "no" /\ leaving' = leaving \cup {q}
  /\ UNCHANGED <<ctx, closing, doomed, closer, jobVars, streamVars>>
WatchCloses(q) ==
  /\ q \in leaving /\ CloseBegins(q)
  /\ UNCHANGED <<jobVars, streamVars>>

Next ==
  \/ CloseMarks \/ CloseForgets \/ JobTimeout \/ GoOn
  \/ AgentSpeaks \/ AgentEnds \/ Notify \/ PromptReturns \/ PromptCloses
  \/ \E t \in Calls : AgentCalls(t) \/ ServeCall(t) \/ CallReturns(t) \/ AgentHangsUp(t)
  \/ Start \/ StartFails \/ StartJob
  \/ \E q \in Requests :
       \/ \E r \in SUBSET Calls : Return(q, r)
       \/ CheckFails(q) \/ ResumeRefused(q) \/ Resume(q)
       \/ RecvEvent(q) \/ RecvMarksEnd(q) \/ CloseStream(q) \/ WatchChecks(q) \/ WatchCloses(q)

(* The time of a job runs out, close() and the holder of the mutex go on.  *)
(* No client is assumed to read, and the agent may do nothing.             *)
Closing == JobTimeout \/ CloseMarks \/ CloseForgets
Handles(t) == ServeCall(t) \/ CallReturns(t)
Fairness ==
  /\ WF_vars(Closing) /\ WF_vars(GoOn)
  /\ \A t \in Calls : WF_vars(Handles(t))
Spec == Init /\ [][Next]_vars /\ Fairness
-------------------------------------------------------------------------------
Terminal == {"done", "error"}
Count(s, t) == Cardinality({n \in DOMAIN s : s[n].t = t})

(* What a request receives is one well-formed reply, whatever streams the  *)
(* job has had before and whichever goroutine sends: no event of one       *)
(* request's reply goes to another, and nothing follows its end. As long   *)
(* as the job lives its text block is open exactly while text comes, a     *)
(* tool call comes outside of text, and it ends as handed off exactly when *)
(* it brought tool calls (once the context is over, a send may be given up *)
(* and the next one go through).                                           *)
ReplyWellFormed ==
  \A q \in Requests :
    LET g == got[q]
        Open(n) == Count(SubSeq(g, 1, n), "textStart") - Count(SubSeq(g, 1, n), "textEnd")
    IN \A n \in DOMAIN g :
         /\ g[n].t \in Terminal => n = Len(g)
         /\ g[n].t = "text" => \A p \in Requests : \A m \in DOMAIN got[p] :
                                 got[p][m] = g[n] => p = q /\ m = n
         /\ ctx => /\ Open(n) \in {0, 1}
                   /\ g[n].t = "text" => Open(n) = 1
                   /\ g[n].t \in {"call", "done"} => Open(n) = 0
                   /\ g[n] = Ev("done", "tool_calls") => Count(g, "call") > 0
                   /\ g[n] = Ev("done", "stop") => Count(g, "call") = 0

(* A tool call is told to one client once; its result goes to the agent    *)
(* only after that and from a request that brings it; while the job lives  *)
(* it can be found by every call it has handed out, and after close() by   *)
(* none.                                                                   *)
CallsAccountedFor ==
  /\ \A t \in Calls :
       /\ \A q \in Requests, p \in Requests : \A n \in DOMAIN got[q], m \in DOMAIN got[p] :
            got[q][n] = Ev("call", t) /\ got[p][m] = Ev("call", t) => q = p /\ n = m
       /\ call[t] = "answered" => \E q \in Requests : t \in brings[q] /\ state[q] \notin {"idle", "refused", "checking"}
       /\ call[t] \in {"answered", "back"} => t \in KnownToClient
       /\ call[t] = "delivered" /\ closing \in {"no", "cancelled"} => t \in pending
  /\ closing = "done" => pending = {}

(* A client that stays until it was told the end of a reply with tool      *)
(* calls keeps its job: neither its handler, which closes the stream, nor  *)
(* its watcher, however late it finds the client gone, ends it. The one    *)
(* request that ends a job it has handed off is one whose watcher had      *)
(* found the client gone before the end and had yet to act when Recv took  *)
(* the last event.                                                         *)
HandOffSurvives ==
  [][\A q \in Requests : HandedOff(q) /\ ended[q] =>
       /\ q \notin leaving => q \notin leaving'
       /\ closer' = q /\ closer # q => q \in leaving]_vars

(* A job that was started ends and is forgotten, and no tool call is left  *)
(* unanswered, even when a client stops reading with its channel full.     *)
EveryJobEnds ==
  prompt # "none" ~> closing = "done" /\ \A t \in Calls : call[t] \in {"none", "back", "gone"}

===============================================================================
