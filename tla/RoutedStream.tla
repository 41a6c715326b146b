------------------------------ MODULE RoutedStream ------------------------------
(***************************************************************************)
(* The life of one request: serve, openRoutedStream, routeStream, the      *)
(* attempts of the pool and of the adapters, and writeStream or writeFinal *)
(* (app/app.go, app/routing.go, app/live.go, adapter/pool.go).  What the   *)
(* accounts of a pool share is in AccountPool, what a WorkBuddy adapter    *)
(* does with its credential in UpstreamRetry; here they only answer.       *)
(*                                                                         *)
(* Four clocks run against the request: its client, the time-out of a      *)
(* request that is not streamed, the routing timer, and on each attempt    *)
(* the header timer of BeginAttempt or, on WorkBuddy, the upload guard.    *)
(***************************************************************************)
EXTENDS Execution

CONSTANTS
  Routes,        \* platforms routeStream may try, the primary one first: with
                 \* FallbackOnUnavailable and a bare model name all that serve it
  WorkBuddy,     \* those with an upload guard and redials, no header timer
  VendorCodes,   \* those that report a 5xx under a code of their own
  Accounts,      \* accounts of each pool
  Redials,       \* retryAttemptLimit
  Causes         \* what an upstream may refuse a request for

ASSUME RouteConstants ==
  /\ {Routes, Accounts, Redials} \subseteq Nat \ {0}
  /\ WorkBuddy \subseteq 1..Routes /\ VendorCodes \subseteq 1..Routes
  /\ Causes \subseteq {"rate_limited", "unauthorized", "bad_request", "http_5xx", "vendor_5xx"}

VARIABLES
  pc,            \* where the goroutine of the request is
  streaming,     \* the client asked for SSE
  client,        \* "here" or "gone"
  parent,        \* why the context given to openRoutedStream ended, or "live"
  routing,       \* the same of routingCtx, a child of parent
  attemptDead,   \* the context of the last attempt was cancelled on its own
  timer,         \* the routing timer
  watchdog,      \* the header timer or the upload guard of the last attempt
  route, tried, dials,  \* loop variables: platform, accounts tried, dials of one
  renewals,      \* refreshedOnAttempt: refreshes of its credential after a 401
  answer,        \* what client.Do and the status line said
  err,           \* the error in hand
  body,          \* the response body of the last attempt is open
  slot,          \* a slot of an account is held
  done,          \* observedStream.done: the completion event was received
  sent,          \* what the client was sent
  rec            \* the record the metrics will get

ctlVars == <<pc, streaming, route, tried, dials, renewals>>
ctxVars == <<client, parent, routing, attemptDead, timer, watchdog>>
outVars == <<answer, err, body, slot, done, sent, rec>>
vars == <<execVars, ctlVars, ctxVars, outVars>>

Init ==
  /\ ExecInit
  /\ pc = "reading" /\ streaming = FALSE
  /\ client = "here" /\ parent = "live" /\ routing = "live" /\ attemptDead = FALSE
  /\ timer = "off" /\ watchdog = "off"
  /\ route = 1 /\ tried = 0 /\ dials = 0 /\ renewals = 0
  /\ answer = "none" /\ err = "none" /\ body = FALSE /\ slot = FALSE
  /\ done = FALSE /\ sent = "nothing"
  /\ rec = [ok |-> TRUE, status |-> 200, code |-> "none"]

\* App.fail.
Failed(code) == rec' = [ok |-> FALSE, status |-> HTTPStatus(code), code |-> code]

(***************************************************************************)
(* From the request to the pool.                                           *)
(***************************************************************************)
\* A request that is not a POST, is too large or cannot be decoded.
Reject ==
  /\ pc = "reading" /\ pc' = "over"
  /\ Failed("bad_request") /\ sent' = "error"
  /\ UNCHANGED <<execVars, ctxVars, streaming, route, tried, dials, renewals,
                 answer, err, body, slot, done>>

\* StartRouting, then writeStream or writeFinal.
StartRouting ==
  /\ pc = "reading" /\ pc' = "open"
  /\ phase' = "routing"
  /\ streaming' \in BOOLEAN
  /\ UNCHANGED <<attempts, late, ctxVars, outVars, route, tried, dials, renewals>>

\* Variant: no routing timer.
NoTimer == timer' = "off"

ArmTimer == timer' = "armed"

OpenRoutedStream ==
  /\ pc = "open" /\ pc' = "platform"
  /\ ArmTimer
  /\ UNCHANGED <<execVars, client, parent, routing, attemptDead, watchdog, outVars,
                 streaming, route, tried, dials, renewals>>

\* The image guard refuses, or the pool begins to look for an account.
OpenPlatformStream ==
  /\ pc = "platform"
  /\ \/ pc' = "noStream" /\ err' = "bad_request"
     \/ pc' = "pool" /\ err' = "none"
  /\ tried' = 0
  /\ UNCHANGED <<execVars, ctxVars, streaming, route, dials, renewals,
                 answer, body, slot, done, sent, rec>>

\* ctx.Err tells nothing of the cause the routing timer gives to its context.
ContextErr == IF routing = "routing_timeout" THEN "canceled" ELSE routing

\* exhaustedFailure, when no account is available: all are cooling, blocked or disabled.
Exhausted == (Causes \cap {"rate_limited", "unauthorized"}) \cup {"transport"}

\* Pool.Stream returns without having dialled: the context is over, nobody is
\* left to try, or the local queue is full.
PoolReturns ==
  /\ pc = "pool" /\ pc' = "noStream"
  /\ \/ routing # "live" /\ err' = ContextErr
     \/ err # "none" /\ err' = err
     \/ err' \in Exhausted
     \/ err' = "queue_full"
     \/ late /\ err' = "routing_timeout"
  /\ tried' = 0
  /\ UNCHANGED <<execVars, ctxVars, streaming, route, dials, renewals,
                 answer, body, slot, done, sent, rec>>

TakeSlot == slot' = TRUE /\ tried' = tried + 1 /\ dials' = 0 /\ renewals' = 0 /\ pc' = "reserved"

Reserve ==
  /\ pc = "pool" /\ routing = "live" /\ tried < Accounts
  /\ TakeSlot
  /\ UNCHANGED <<execVars, ctxVars, streaming, route, answer, err, body,
                 done, sent, rec>>

\* reserve: every account left is busy.
Enqueue ==
  /\ pc = "pool" /\ tried < Accounts /\ ~late
  /\ pc' = "queued" /\ phase' = "queued"
  /\ UNCHANGED <<attempts, late, ctxVars, outVars, streaming, route, tried, dials, renewals>>

Dequeue ==
  /\ pc = "queued"
  /\ phase' = "routing"
  /\ UNCHANGED <<attempts, late, ctxVars, streaming, route, answer, body,
                 done, sent, rec>>

QueueServes ==
  /\ Dequeue /\ TakeSlot /\ routing = "live"
  /\ UNCHANGED err

QueueFails ==
  /\ Dequeue /\ pc' = "noStream"
  /\ \/ routing # "live" /\ err' = ContextErr
     \/ err' \in {"queue_timeout"} \cup Exhausted
  /\ tried' = 0
  /\ UNCHANGED <<dials, renewals, slot>>

(***************************************************************************)
(* One attempt.                                                            *)
(***************************************************************************)
Guarded == route \in WorkBuddy

\* TRAE and Cursor report a 5xx under codes of their own, and so does WorkBuddy if
\* the body holds a business code.
Refusals ==
  Causes \ ( (IF route \in VendorCodes THEN {"http_5xx"} ELSE {})
             \cup (IF route \in VendorCodes \cup WorkBuddy THEN {} ELSE {"vendor_5xx"}) )

\* Credential, catalog, model and images are seen to before anything is sent: the
\* others ask their upstream first, which may refuse; WorkBuddy shows that it prepares
\* images, and goes on without those it cannot upload.
Prepare ==
  /\ pc = "reserved"
  /\ \/ pc' = "dial" /\ UNCHANGED err
     \/ pc' = "refused" /\ routing # "live" /\ err' \in {ContextErr, routing}
     \/ pc' = "refused" /\ err' \in {"unauthorized", "bad_request", "transport"}
                                   \cup (IF Guarded THEN {} ELSE Refusals)
  /\ phase' \in {phase} \cup (IF Guarded THEN {"preparing_images"} ELSE {})
  /\ UNCHANGED <<attempts, late, ctxVars, streaming, route, tried, dials, renewals,
                 answer, body, slot, done, sent, rec>>

AttemptRefused ==
  /\ pc = "dial" /\ pc' = "refused"
  /\ dials' = 0 /\ renewals' = 0
  /\ \/ routing # "live" /\ err' = ContextErr
     \/ routing = "live" /\ (late \/ ~WithinBudget) /\ err' = Refusal
  /\ UNCHANGED <<execVars, ctxVars, streaming, route, tried,
                 answer, body, slot, done, sent, rec>>

\* BeginAttempt, after which client.Do runs.
Send ==
  /\ pc = "dial" /\ routing = "live"
  /\ BeginAttempt
  /\ pc' = "sent" /\ dials' = dials + 1
  /\ attemptDead' = FALSE
  /\ watchdog' = IF Guarded THEN "off" ELSE "armed"
  /\ UNCHANGED <<late, client, parent, routing, timer, outVars, streaming,
                 route, tried, renewals>>

\* The status line as it was received.
WireStatus(class) ==
  CASE class = "ok" -> 200
    [] class \in {"http_5xx", "vendor_5xx"} -> 503
    [] OTHER -> HTTPStatus(class)

\* The upstream answers, if it ever does.  The WorkBuddy client turns a refusal
\* into an error and closes its body; the others hand it to finish.
UpstreamAnswers ==
  /\ pc = "sent" /\ pc' = "answered"
  /\ answer' \in Refusals \cup {"ok", "transport"}
  /\ answer' = "transport" => ~(Guarded /\ attemptDead)
  /\ body' = (answer' = "ok" \/ (~Guarded /\ answer' # "transport"))
  /\ watchdog' = IF Guarded /\ answer' # "ok" /\ watchdog # "expired" THEN "stopped" ELSE watchdog
  /\ UNCHANGED <<execVars, client, parent, routing, attemptDead, timer, streaming,
                 route, tried, dials, renewals, err, slot, done, sent, rec>>

\* Do returns because the context of the attempt is over.
DoAborted ==
  /\ pc = "sent" /\ (routing # "live" \/ attemptDead)
  /\ pc' = "answered"
  /\ answer' = IF Guarded /\ routing = "live" THEN "upstream_upload_timeout" ELSE "transport"
  /\ watchdog' = IF Guarded /\ watchdog # "expired" THEN "stopped" ELSE watchdog
  /\ UNCHANGED <<execVars, client, parent, routing, attemptDead, timer, streaming,
                 route, tried, dials, renewals, err, body, slot, done, sent, rec>>

HeaderTimedOut == ~Guarded /\ watchdog = "expired"

\* Variant: ctx.Err where the code asks for context.Cause.
OutcomeByErr ==
  IF routing # "live" THEN ContextErr
  ELSE IF HeaderTimedOut THEN "upstream_header_timeout"
  ELSE IF body THEN "none" ELSE answer

\* What finish makes of the attempt: a clock that ran out explains more than the
\* error of the transport, and the end of the request more than either.
Outcome ==
  IF routing # "live" THEN routing
  ELSE IF HeaderTimedOut THEN "upstream_header_timeout"
  ELSE IF body THEN "none" ELSE answer

\* finish waits for a header timer that has fired to have cancelled.
Finish ==
  /\ pc = "answered" /\ (Guarded \/ watchdog # "fired")
  /\ LET failure == Outcome
         status == IF body THEN WireStatus(answer)
                   ELSE IF failure = "none" THEN 0 ELSE HTTPStatus(failure)
     IN /\ Finished(status, failure)
        /\ err' = failure
        /\ pc' = IF failure = "none" THEN "headers" ELSE "dialed"
        /\ answer' = IF failure = "none" THEN answer ELSE "none"
        /\ body' = (body /\ failure = "none")
        /\ attemptDead' = (attemptDead \/ failure # "none")
        /\ watchdog' = IF watchdog # "expired" /\ (~Guarded \/ failure # "none")
                         THEN "stopped" ELSE watchdog
  /\ UNCHANGED <<late, client, parent, routing, timer, streaming, route, tried, dials, renewals,
                 slot, done, sent, rec>>

\* The status line is not a 200: the body is closed, the reason noted.
Refuse ==
  /\ pc = "headers" /\ answer # "ok" /\ pc' = "dialed"
  /\ NoteAttemptFailure(answer)
  /\ err' = answer /\ body' = FALSE /\ answer' = "none"
  /\ UNCHANGED <<late, ctxVars, streaming, route, tried, dials, renewals, slot, done, sent, rec>>

\* A 200 that is no event stream; WorkBuddy does not look.
NotAStream ==
  /\ pc = "headers" /\ answer = "ok" /\ ~Guarded /\ pc' = "dialed"
  /\ err' = "transport" /\ body' = FALSE /\ answer' = "none"
  /\ UNCHANGED <<execVars, ctxVars, streaming, route, tried, dials, renewals, slot, done, sent, rec>>

DialOpens ==
  /\ pc = "headers" /\ answer = "ok" /\ pc' = "probe"
  /\ dials' = 0 /\ renewals' = 0 /\ answer' = "none"
  /\ UNCHANGED <<execVars, ctxVars, streaming, route, tried, err, body, slot, done, sent, rec>>

\* Variant: an upload that stalled is sent again.
RetryAll == {}

\* Failures of a request that may have been accepted.
NoRetry == {"upstream_upload_timeout", "upstream_response_canceled"}

UpstreamFault == {"transport", "http_5xx", "vendor_5xx", "upstream_upload_timeout"}

\* shouldRetryDial: WorkBuddy dials the same account again after a transport error
\* or a 5xx, and once after a 401 with a refreshed credential (UpstreamRetry).  The
\* second path that an old international site is asked at after a 404 is left out.
Redial ==
  /\ pc = "dialed" /\ Guarded /\ routing = "live"
  /\ \/ err \in UpstreamFault \ NoRetry /\ dials < Redials
        /\ dials' = dials
        /\ UNCHANGED renewals
     \/ err = "unauthorized" /\ renewals = 0 /\ dials' = dials - 1 /\ renewals' = 1
  /\ pc' = "dial"
  /\ UNCHANGED <<execVars, ctxVars, outVars, streaming, route, tried>>

AdapterReturns ==
  /\ pc = "dialed" /\ pc' = "refused"
  /\ dials' = 0 /\ renewals' = 0
  /\ UNCHANGED <<execVars, ctxVars, outVars, streaming, route, tried>>

CloseBody ==
  /\ body' = FALSE
  /\ watchdog' = IF watchdog = "expired" THEN watchdog ELSE "stopped"

\* probeFirstEvent: the first event, or a stream with none, makes the stream the
\* answer of the pool.
ProbeAccepts ==
  /\ pc = "probe" /\ pc' = "routed"
  /\ tried' = 0
  /\ UNCHANGED <<execVars, ctxVars, outVars, streaming, route, dials, renewals>>

\* Why Recv fails: the end of a context, or of the upstream itself.
RecvError(code) ==
  IF parent # "live" THEN code \in {parent, "transport"}
  ELSE IF routing # "live" THEN code \in {routing, ContextErr, "transport"}
  ELSE IF attemptDead THEN code = "upstream_upload_timeout"
  ELSE code \in (Causes \ {"http_5xx", "vendor_5xx"}) \cup {"transport"}
                 \cup (IF Guarded THEN {"upstream_response_canceled"} ELSE {})

ProbeFails ==
  /\ pc = "probe" /\ pc' = "refused"
  /\ \E code \in Codes :
       /\ RecvError(code)
       /\ NoteAttemptFailure(code) /\ err' = code
  /\ CloseBody
  /\ UNCHANGED <<late, client, parent, routing, attemptDead, timer, streaming,
                 route, tried, dials, renewals, answer, slot, done, sent, rec>>

(***************************************************************************)
(* What the pool and routeStream do with a failure.                        *)
(***************************************************************************)
\* No other account can help: a local limit, a request that may have been
\* accepted, a request that is wrong.
Final == Local \cup NoRetry \cup {"bad_request", "canceled"}

PoolGivesUp ==
  /\ pc = "refused" /\ (err \in Final \/ routing # "live")
  /\ pc' = "noStream" /\ slot' = FALSE /\ tried' = 0
  /\ UNCHANGED <<execVars, ctxVars, streaming, route, dials, renewals, answer, err, body, done, sent,
                 rec>>

NextAccount ==
  /\ pc = "refused" /\ err \notin Final
  /\ pc' = "pool" /\ slot' = FALSE
  /\ UNCHANGED <<execVars, ctxVars, streaming, route, tried, dials, renewals, answer, err, body, done,
                 sent, rec>>

\* eligible tells a 5xx by the prefix of its code.
Eligible == err \in {"rate_limited", "http_5xx"}
FallsBack == routing = "live" /\ Eligible /\ route < Routes

FallBack ==
  /\ pc = "noStream" /\ FallsBack
  /\ pc' = "platform" /\ route' = route + 1
  /\ UNCHANGED <<execVars, ctxVars, outVars, streaming, tried, dials, renewals>>

NoStream == pc = "noStream" /\ ~FallsBack

(***************************************************************************)
(* The routing timer is stopped, or has been too fast.                     *)
(***************************************************************************)
Ended(why) == IF why = "live" THEN "canceled" ELSE why

\* writeStream and writeFinal give an error that comes instead of a stream a status.
AnswerError(code) == Failed(code) /\ sent' = "error" /\ pc' = "over"

\* Variant: the timer is not stopped.
HandOverArmed ==
  /\ pc = "routed" /\ timer = "armed"
  /\ pc' = "serving"
  /\ UNCHANGED <<execVars, ctxVars, outVars, streaming, route, tried, dials, renewals>>

HandOver ==
  /\ pc = "routed" /\ timer = "armed"
  /\ timer' = "stopped" /\ pc' = "serving"
  /\ UNCHANGED <<execVars, client, parent, routing, attemptDead, watchdog, outVars, streaming,
                 route, tried, dials, renewals>>

OpenFails ==
  /\ NoStream /\ timer = "armed"
  /\ timer' = "stopped" /\ routing' = Ended(routing)
  /\ AnswerError(err)
  /\ UNCHANGED <<execVars, client, parent, attemptDead, watchdog, streaming, route, tried,
                 dials, renewals, answer, err, body, slot, done>>

\* Stop came too late: the time-out is the answer unless the request is over.
TimeoutAnswers ==
  /\ pc = "routed" \/ NoStream
  /\ timer = "expired"
  /\ IF parent # "live"
       THEN err' = parent /\ UNCHANGED <<phase, attempts>>
       ELSE err' = "routing_timeout" /\ NoteAttemptFailure("routing_timeout")
  /\ AnswerError(err')
  /\ UNCHANGED <<late, client, parent, routing, attemptDead, timer, streaming, route, tried,
                 dials, renewals, answer, done>>

\* Variant: the stream that lost the race is forgotten.
RoutingExpiredOnly == TimeoutAnswers /\ UNCHANGED <<body, watchdog, slot>>

RoutingExpired ==
  /\ TimeoutAnswers
  /\ IF body THEN CloseBody /\ slot' = FALSE ELSE UNCHANGED <<body, watchdog, slot>>

(***************************************************************************)
(* writeStream and writeFinal: from the stream to the client.              *)
(***************************************************************************)
Committed == sent = "streaming"

\* An event is encoded, written and flushed; one that makes no frame is not.
\* Output moves the phase (ObserveLive), for writeFinal too.
Relay ==
  /\ pc = "serving" /\ ~done
  /\ sent' = IF streaming THEN "streaming" ELSE sent
  /\ phase' \in {phase, "streaming"}
  /\ UNCHANGED <<attempts, late, ctlVars, ctxVars, answer, err, body, slot, done, rec>>

\* The completion event, with its frames.
RelayDone ==
  /\ pc = "serving" /\ ~done
  /\ done' = TRUE
  /\ sent' = IF streaming THEN "streaming" ELSE sent
  /\ UNCHANGED <<execVars, ctlVars, ctxVars, answer, err, body, slot, rec>>

\* recordWriteFailure keeps an earlier failure.
LostClient == rec' = IF rec.ok
  THEN [ok |-> FALSE, status |-> HTTPStatus("client_write_failed"), code |-> "client_write_failed"]
  ELSE rec

\* Write or Flush reports that the connection is gone.
WriteFails ==
  /\ pc = "serving" /\ client = "gone" /\ (streaming \/ done)
  /\ LostClient /\ pc' = "closing" /\ sent' = "cut"
  /\ UNCHANGED <<execVars, ctxVars, streaming, route, tried, dials, renewals, answer, err,
                 body, slot, done>>

\* ErrStreamDone after the completion event; writeFinal writes only now.
Complete ==
  /\ pc = "serving" /\ done
  /\ pc' = "closing" /\ sent' = "complete"
  /\ UNCHANGED <<execVars, ctxVars, streaming, route, tried, dials, renewals, answer, err,
                 body, slot, done, rec>>

\* Variant: any end of the stream is good.
EndIsFine == FALSE

\* observedStream.Recv: the stream may not end without its completion event.
EndIsFailure == ~done

\* A failure is the status of the answer or, when part of it was written, an event
\* of the stream.
ServingFails(code) ==
  /\ Failed(code) /\ pc' = "closing"
  /\ sent' = IF Committed THEN "errorEvent" ELSE "error"
  /\ UNCHANGED <<late, ctxVars, streaming, route, tried, dials, renewals, answer, err,
                 body, slot, done>>

UpstreamEnds ==
  /\ pc = "serving" /\ ~done
  /\ IF EndIsFailure
       THEN ServingFails("upstream_incomplete")
       ELSE /\ pc' = "closing" /\ sent' = "complete"
            /\ UNCHANGED <<late, ctxVars, streaming, route, tried, dials, renewals, answer,
                           err, body, slot, done, rec>>
  /\ UNCHANGED <<phase, attempts>>

\* Recv returns an error, or an error event that the trace is told of.
UpstreamFails ==
  /\ pc = "serving"
  /\ \E code \in Codes :
       /\ RecvError(code) /\ ServingFails(code)
       /\ UNCHANGED <<phase, attempts>> \/ NoteAttemptFailure(code)

\* The deferred Close, then the record goes to the metrics.
Close ==
  /\ pc = "closing" /\ pc' = "over"
  /\ CloseBody /\ slot' = FALSE /\ routing' = Ended(routing)
  /\ UNCHANGED <<execVars, client, parent, attemptDead, timer, streaming, route,
                 tried, dials, renewals, answer, err, done, sent, rec>>

(***************************************************************************)
(* Clocks, callbacks and the client.                                       *)
(***************************************************************************)
DeadlinePasses ==
  /\ pc # "over" /\ ~late /\ late' = TRUE
  /\ UNCHANGED <<phase, attempts, ctlVars, ctxVars, outVars>>

\* time.AfterFunc: from the moment the timer fires Stop returns FALSE; its
\* function, which cancels and closes expired, runs in a goroutine of its own.
RoutingTimerFires ==
  /\ timer = "armed" /\ late
  /\ timer' = "fired"
  /\ UNCHANGED <<execVars, ctlVars, outVars, client, parent, routing, attemptDead, watchdog>>

RoutingTimerRuns ==
  /\ timer = "fired" /\ timer' = "expired"
  /\ routing' = IF routing = "live" THEN "routing_timeout" ELSE routing
  /\ UNCHANGED <<execVars, ctlVars, outVars, client, parent, attemptDead, watchdog>>

HeaderTimerFires ==
  /\ ~Guarded /\ watchdog = "armed" /\ pc \in {"sent", "answered"}
  /\ watchdog' = "fired"
  /\ UNCHANGED <<execVars, ctlVars, outVars, client, parent, routing, attemptDead, timer>>

HeaderTimerRuns ==
  /\ watchdog = "fired" /\ watchdog' = "expired"
  /\ attemptDead' = TRUE
  /\ UNCHANGED <<execVars, ctlVars, outVars, client, parent, routing, timer>>

\* uploadGuard.checkIdle: no progress between GotConn and WroteRequest.
UploadStalls ==
  /\ Guarded /\ watchdog = "armed" /\ routing = "live"
  /\ watchdog' = "expired" /\ attemptDead' = TRUE
  /\ UNCHANGED <<execVars, ctlVars, outVars, client, parent, routing, timer>>

\* uploadGuard.start and finishUpload, for the guard of attempt i; that of an
\* earlier attempt is closed.
GuardStarts(i) ==
  watchdog' = IF Guarded /\ i = Last /\ watchdog = "off" /\ routing = "live"
                THEN "armed" ELSE watchdog
GuardStops(i) ==
  watchdog' = IF Guarded /\ i = Last /\ watchdog \in {"off", "armed"}
                THEN "stopped" ELSE watchdog

Callback(i) ==
  /\ pc # "over"   \* the record has been handed in
  /\ \/ (GotConn(i) \/ WroteHeaders(i)) /\ GuardStarts(i)
     \/ (WroteRequest(i) \/ (watchdog = "armed" /\ WriteBreaks(i))) /\ GuardStops(i)
  /\ UNCHANGED <<late, ctlVars, outVars, client, parent, routing, attemptDead, timer>>

EndParent(why) ==
  /\ pc \notin {"reading", "over"} /\ parent = "live"
  /\ parent' = why
  /\ routing' = IF routing = "live" THEN why ELSE routing
  /\ UNCHANGED <<execVars, ctlVars, outVars, client, attemptDead, timer, watchdog>>

ClientLeaves ==
  /\ pc # "over" /\ client = "here" /\ client' = "gone"
  /\ UNCHANGED <<execVars, ctlVars, outVars, parent, routing, attemptDead, timer, watchdog>>

\* net/http notices and cancels the context of the request.
Disconnect == client = "gone" /\ EndParent("canceled")

\* writeFinal gives the whole request a time-out.
RequestTimesOut == ~streaming /\ EndParent("deadline")

(***************************************************************************)
(* Specification                                                           *)
(***************************************************************************)
\* Steps the goroutine takes without waiting for an account or an upstream; how
\* long a stream may be silent and how long it may last is bounded by the adapters.
Runs ==
  \/ OpenRoutedStream \/ OpenPlatformStream \/ PoolReturns \/ Reserve \/ Enqueue
  \/ QueueFails \/ Prepare \/ AttemptRefused \/ Send \/ DoAborted \/ Finish
  \/ Refuse \/ NotAStream \/ DialOpens \/ Redial \/ AdapterReturns
  \/ ProbeAccepts \/ ProbeFails \/ PoolGivesUp \/ NextAccount \/ FallBack
  \/ HandOver \/ OpenFails \/ RoutingExpired
  \/ Relay \/ RelayDone \/ WriteFails \/ Complete \/ UpstreamEnds \/ UpstreamFails \/ Close
Waits == QueueServes \/ UpstreamAnswers
Arrives == Reject \/ StartRouting
Timers == RoutingTimerFires \/ RoutingTimerRuns \/ HeaderTimerRuns
World ==
  \/ DeadlinePasses \/ HeaderTimerFires \/ UploadStalls \/ ClientLeaves \/ Disconnect
  \/ RequestTimesOut \/ \E i \in 1..Last : Callback(i)

Next == Arrives \/ Runs \/ Waits \/ Timers \/ World
Spec == Init /\ [][Next]_vars

\* Goroutines run, time passes and timers that are due fire.  No account need
\* become free and no upstream need answer; nobody has to leave.
FairSpec ==
  /\ Spec
  /\ WF_vars(Runs)
  /\ WF_vars(DeadlinePasses) /\ WF_vars(RoutingTimerFires)
  /\ WF_vars(RoutingTimerRuns) /\ WF_vars(HeaderTimerRuns)

-------------------------------------------------------------------------------
(* Properties                                                                *)

Labels == {"reading", "open", "platform", "pool", "queued", "reserved", "dial", "sent",
           "answered", "headers", "dialed", "probe", "refused", "noStream", "routed",
           "serving", "closing", "over"}
Clock == {"off", "armed", "fired", "expired", "stopped"}

\* The types of the variables, and the budget of attempts that redials, accounts
\* and platforms share (BeginAttempt).
RequestTypeOK ==
  /\ ExecTypeOK
  /\ pc \in Labels /\ streaming \in BOOLEAN
  /\ client \in {"here", "gone"}
  /\ parent \in {"live", "canceled", "deadline"}
  /\ routing \in {"live", "canceled", "deadline", "routing_timeout"}
  /\ attemptDead \in BOOLEAN /\ timer \in Clock /\ watchdog \in Clock
  /\ route \in 1..Routes /\ tried \in 0..Accounts /\ dials \in Nat /\ renewals \in 0..1
  /\ answer \in Codes \cup {"none", "ok"} /\ err \in Codes \cup {"none"}
  /\ body \in BOOLEAN /\ slot \in BOOLEAN /\ done \in BOOLEAN
  /\ sent \in {"nothing", "streaming", "complete", "error", "errorEvent", "cut"}
  /\ rec \in [ok : BOOLEAN, status : Nat, code : Codes \cup {"none"}]

\* An upstream response that is open is paid for with a slot of its account, only
\* while it is dialled, probed or served, and nothing the request acquired outlives
\* it: no body, no slot, no armed timer, whichever clock won which race (finish,
\* openRoutedStream, the deferred Close).
Holding == {"answered", "headers", "probe", "routed", "serving", "closing"}
NothingLeaks ==
  /\ body => slot /\ pc \in Holding
  /\ slot => pc \in Holding \cup {"reserved", "dial", "sent", "dialed", "refused"}
  /\ pc = "over" => timer # "armed" /\ watchdog # "armed"

\* Once a stream is served no timer of the routing phase can end it: its context
\* ends with the client's or, without streaming, with the time-out of the request.
\* Only an upload that is still going on and stalls may cut it (openRoutedStream,
\* BeginAttempt, uploadGuard).
AcceptedNeverCut ==
  pc = "serving" =>
    /\ routing = parent /\ timer = "stopped"
    /\ attemptDead => Guarded /\ watchdog = "expired"

\* 499 is said of an attempt or of a request only when its client has left, and
\* routing_timeout only after the deadline, although one context stands for both
\* (context.Cause in finish, the order of the checks in openRoutedStream).  A stream
\* that the routing timer ends while it is probed says "canceled" too; the note of
\* openRoutedStream corrects it, unless the time-out of the request came just then.
Blamed(code) ==
  /\ code \in {"canceled", "client_write_failed"} => client = "gone"
  /\ code = "routing_timeout" => late
TruthfulBlame ==
  /\ Blamed(rec.code)
  /\ \A i \in 1..Last :
       /\ attempts[i].status = 499 => client = "gone"
       /\ pc = "over" /\ parent # "deadline" => Blamed(attempts[i].code)

\* The phase is the one the request is in, however late the callbacks of this or of
\* an earlier attempt are (SetAttemptPhase).
PhaseTellsTruth ==
  /\ phase \in Transport => pc \in {"sent", "answered"}
  /\ phase = "uploading" => attempts[Last].wrote \notin {"nothing", "conn"}
  /\ phase = "waiting_headers" => attempts[Last].wrote = "request"
  /\ (phase = "queued") = (pc = "queued")
  /\ pc \in {"sent", "answered"} => phase \in Transport
  /\ pc = "serving" => phase \in {"waiting_output", "streaming"}
  /\ phase = "streaming" => pc \in {"serving", "closing", "over"}

\* Nothing changes the record of an attempt that was followed by another, and no late
\* callback reports the upload of one that has failed (updateUpload).
HistoryOfAttempts ==
  \A i \in 1..Last :
    /\ i < Last => Recorded(i)' = Recorded(i)
    /\ attempts[i].code # "none" => attempts'[i].uploaded = attempts[i].uploaded
HistoryStands == [][HistoryOfAttempts]_vars

\* A request counts as successful only if the upstream said that it was complete and
\* the client got all of it; a client that is still there is told of anything else
\* (observedStream.Recv, writeStream, writeFinal, recordWriteFailure).
HonestAnswer ==
  pc = "over" =>
    /\ rec.ok => done /\ sent = "complete"
    /\ ~rec.ok /\ client = "here" => sent \in {"error", "errorEvent"}

\* A request whose upload stalled or whose answer was cut may have been accepted: no
\* dial, no account and no platform is tried after it (Failure.NoRetry through
\* shouldRetryDial, Pool.Stream and routeStream).
NoReplayAfterUpload ==
  [][Last' > Last =>
       \A i \in 1..Last : attempts[i].code
                            \notin {"upstream_upload_timeout", "upstream_response_canceled"}]_vars

\* Every request that is routed ends, even if no upstream ever answers and no account
\* becomes free.
EveryRequestReturns == pc = "open" ~> pc = "over"

\* With fallback_on_unavailable an HTTP 5xx before the stream makes the gateway try
\* the other platforms of a bare model name (docs/configuration.md:64).
UnavailableFallsBack ==
  [][pc = "noStream" /\ pc' = "over" /\ routing = "live" /\ timer = "armed"
       /\ err \in {"http_5xx", "vendor_5xx"}
     => route = Routes]_vars
===============================================================================
