--------------------------- MODULE RoutedStreamProofs ---------------------------
(***************************************************************************)
(* Theorems about RoutedStream, for any number of platforms, accounts,     *)
(* redials and attempts.                                                   *)
(*                                                                         *)
(* The inductive invariant RInv says where the request holds what, which   *)
(* clock may still run at each place, and what each failure in hand or on  *)
(* record is evidence of.                                                  *)
(***************************************************************************)
EXTENDS RoutedStream, SequenceTheorems, TLAPS

SlotHeld == Holding \cup {"reserved", "dial", "sent", "dialed", "refused"}
Accepted == {"probe", "routed", "serving"}

\* What is held where.
HoldInv ==
  /\ slot <=> pc \in SlotHeld
  /\ body => pc \in Holding
  /\ pc \in Accepted \cup {"headers"} => body
  /\ pc \in Holding \cup {"sent", "dialed"} => Last > 0

\* What the local variables are good for.
LocalInv ==
  /\ pc = "queued" => tried < Accounts
  /\ pc \in {"sent", "answered", "headers", "dialed"} => dials > 0
  /\ answer \in Causes \cup {"none", "ok", "transport", "upstream_upload_timeout"}
  /\ pc \in {"answered", "headers"} => answer # "none"
  /\ pc = "answered" /\ answer = "ok" => body
  /\ pc \in {"answered", "headers"} /\ body /\ Guarded => answer = "ok"

\* The routing timer, and why a context is over.
TimerInv ==
  /\ pc \in {"reading", "open"} => timer = "off"
  /\ pc \in {"serving", "closing"} => timer = "stopped"
  /\ pc = "over" => timer \notin {"armed", "fired"}
  /\ pc \notin {"reading", "open", "serving", "closing", "over"}
       => timer \in {"armed", "fired", "expired"}
  /\ timer \in {"fired", "expired"} => late
  /\ pc # "over" => \/ routing = parent
                    \/ routing = "routing_timeout" /\ timer = "expired"
  /\ parent = "canceled" => client = "gone"

\* The header timer and the upload guard.
WatchInv ==
  /\ Last = 0 => watchdog = "off"
  /\ watchdog = "fired" => ~Guarded /\ pc \in {"sent", "answered"}
  /\ watchdog \in {"off", "armed"} /\ Last > 0 =>
       \/ pc \in {"sent", "answered"}
       \/ Guarded /\ pc \in Accepted \cup {"headers", "closing"}
  /\ pc \in {"sent", "answered"} /\ attemptDead => watchdog = "expired"
  /\ pc \in Accepted \cup {"headers", "closing"} =>
       /\ attemptDead => Guarded /\ watchdog = "expired"
       /\ ~Guarded => watchdog = "stopped"

\* After a failure that forbids another attempt the request can only end.
ReplayInv ==
  \A i \in 1..Last : attempts[i].code \in NoRetry =>
    \/ pc \in {"dialed", "refused", "noStream"} /\ err \in NoRetry
    \/ pc \in {"closing", "over"}

\* The record is good until the answer is decided, and then tells what was sent.
AnswerInv ==
  /\ pc \notin {"closing", "over"} => rec.ok
  /\ pc \in {"closing", "over"} =>
       /\ rec.ok => done /\ sent = "complete"
       /\ ~rec.ok /\ client = "here" => sent \in {"error", "errorEvent"}

\* What a code in hand or on record is evidence of.
Evidence(i) ==
  /\ attempts[i].status = 499 => client = "gone"
  /\ attempts[i].code = "routing_timeout" => late
  /\ attempts[i].code # "client_write_failed"
  /\ attempts[i].code = "canceled" =>
       \/ client = "gone"
       \/ pc # "over" /\ i = Last /\ routing = "routing_timeout"
       \/ pc = "over" /\ parent = "deadline"
BlameInv ==
  /\ Blamed(rec.code)
  /\ err = "routing_timeout" => late
  /\ pc # "over" /\ err = "canceled" => client = "gone" \/ routing = "routing_timeout"
  /\ err # "client_write_failed"
  /\ \A i \in 1..Last : Evidence(i)

\* The phase and what the transport has reported.
TraceInv ==
  /\ PhaseTellsTruth
  /\ pc \in Accepted \cup {"headers"} => phase \in {"waiting_output", "streaming"}
  /\ \A i \in 1..Last : attempts[i].uploaded => attempts[i].wrote = "request"

RInv ==
  /\ RequestTypeOK /\ HoldInv /\ LocalInv /\ TimerInv /\ WatchInv
  /\ ReplayInv /\ AnswerInv /\ BlameInv /\ TraceInv

-------------------------------------------------------------------------------
\* The constants are positive numbers.
LEMMA Numbers == Routes \in Nat /\ Accounts \in Nat /\ Redials \in Nat /\ Accounts > 0 /\ Routes > 0
BY RouteConstants

-------------------------------------------------------------------------------
(* What the operators of Execution do to the attempts.                       *)

\* HTTPStatus gives 499 to nothing but what the client is blamed for.
LEMMA StatusTypes ==
  ASSUME NEW code
  PROVE  /\ HTTPStatus(code) \in Nat
         /\ HTTPStatus(code) = 499 => code \in {"canceled", "client_write_failed"}
BY DEF HTTPStatus, Local

LEMMA AttemptsTyped ==
  ASSUME ExecTypeOK
  PROVE  /\ attempts \in Seq(Attempt) /\ Last \in Nat
         /\ \A i \in 1..Last : attempts[i] \in Attempt
BY LenProperties, ElementOfSeq DEF ExecTypeOK, Last

SameOutcome(i) ==
  attempts'[i].status = attempts[i].status /\ attempts'[i].code = attempts[i].code
SameUpload(i) ==
  attempts'[i].wrote = attempts[i].wrote /\ attempts'[i].uploaded = attempts[i].uploaded

\* finish writes the outcome of the last attempt.
LEMMA FinishedAttempts ==
  ASSUME ExecTypeOK, Last > 0, NEW status \in Nat, NEW code \in Codes \cup {"none"},
         Finished(status, code)
  PROVE  /\ attempts' \in Seq(Attempt) /\ Last' = Last
         /\ attempts'[Last].status = status /\ attempts'[Last].code = code
         /\ \A i \in 1..Last : SameUpload(i) /\ (i # Last => SameOutcome(i))
         /\ phase' = IF code = "none" THEN "waiting_output" ELSE "routing"
<1> DEFINE new == [attempts[Last] EXCEPT !.status = status, !.code = code]
<1>1. attempts \in Seq(Attempt) /\ Last \in 1..Last /\ attempts[Last] \in Attempt
  BY AttemptsTyped
<1>2. new \in Attempt /\ new.status = status /\ new.code = code
      /\ new.wrote = attempts[Last].wrote /\ new.uploaded = attempts[Last].uploaded
  BY <1>1 DEF Attempt
<1>3. attempts' = [attempts EXCEPT ![Last] = new]
  BY <1>1 DEF Finished
<1> HIDE DEF new
<1>4. /\ attempts' \in Seq(Attempt) /\ Len(attempts') = Len(attempts)
      /\ \A i \in 1..Len(attempts) : attempts'[i] = IF i = Last THEN new ELSE attempts[i]
  BY <1>1, <1>2, <1>3, ExceptSeq DEF Last
<1>5. phase' = IF code = "none" THEN "waiting_output" ELSE "routing"
  BY DEF Finished
<1> QED
  BY <1>1, <1>2, <1>4, <1>5 DEF Last, SameOutcome, SameUpload

\* A note changes the code of the last attempt, if there is one, and nothing else.
LEMMA NotedAttempts ==
  ASSUME ExecTypeOK, NEW code \in Codes \cup {"none"}, NoteAttemptFailure(code)
  PROVE  /\ attempts' \in Seq(Attempt) /\ Last' = Last
         /\ \A i \in 1..Last : /\ SameUpload(i) /\ attempts'[i].status = attempts[i].status
                               /\ attempts'[i].code = IF i = Last THEN code ELSE attempts[i].code
         /\ phase' = "routing"
<1>1. /\ attempts \in Seq(Attempt) /\ Last \in Nat
      /\ \A i \in 1..Last : attempts[i] \in Attempt
  BY AttemptsTyped
<1>2. attempts' \in [1..Last -> Attempt]
  BY <1>1 DEF NoteAttemptFailure, Attempt
<1>3. attempts' \in Seq(Attempt) /\ Last' = Last
  BY <1>1, <1>2 DEF Last
<1>4. ASSUME NEW i \in 1..Last
      PROVE  /\ SameUpload(i) /\ attempts'[i].status = attempts[i].status
             /\ attempts'[i].code = IF i = Last THEN code ELSE attempts[i].code
  BY <1>1 DEF NoteAttemptFailure, Attempt, SameUpload
<1> QED
  BY <1>3, <1>4 DEF NoteAttemptFailure

\* A new attempt comes after the others.
LEMMA NewAttempts ==
  ASSUME ExecTypeOK, BeginAttempt
  PROVE  /\ attempts' \in Seq(Attempt) /\ Last' = Last + 1 /\ Last' <= MaxAttempts
         /\ attempts'[Last + 1] = NewAttempt
         /\ \A i \in 1..Last : attempts'[i] = attempts[i]
         /\ phase' = "connecting" /\ ~late
<1>1. attempts \in Seq(Attempt) /\ NewAttempt \in Attempt /\ Last \in Nat
  BY LenProperties DEF ExecTypeOK, NewAttempt, Attempt, Codes, Last
<1> QED
  BY <1>1, ExecutionConstants DEF BeginAttempt, WithinBudget, Last

\* The transport reports on one attempt.
LEMMA ReportedAttempts ==
  ASSUME ExecTypeOK, NEW i \in 1..Last,
         NEW wrote \in {"nothing", "conn", "headers", "request", "broken"},
         NEW uploaded \in BOOLEAN,
         attempts' = [attempts EXCEPT ![i] = [attempts[i] EXCEPT !.wrote = wrote,
                                                                !.uploaded = uploaded]]
  PROVE  /\ attempts' \in Seq(Attempt) /\ Last' = Last
         /\ attempts'[i].wrote = wrote /\ attempts'[i].uploaded = uploaded
         /\ \A j \in 1..Last : SameOutcome(j) /\ (j # i => SameUpload(j))
<1> DEFINE new == [attempts[i] EXCEPT !.wrote = wrote, !.uploaded = uploaded]
<1>1. attempts \in Seq(Attempt) /\ attempts[i] \in Attempt
  BY AttemptsTyped
<1>2. new \in Attempt /\ new.wrote = wrote /\ new.uploaded = uploaded
      /\ new.status = attempts[i].status /\ new.code = attempts[i].code
  BY <1>1 DEF Attempt
<1>3. attempts' = [attempts EXCEPT ![i] = new]
  OBVIOUS
<1> HIDE DEF new
<1>4. /\ attempts' \in Seq(Attempt) /\ Len(attempts') = Len(attempts)
      /\ \A j \in 1..Len(attempts) : attempts'[j] = IF j = i THEN new ELSE attempts[j]
  BY <1>1, <1>2, <1>3, ExceptSeq DEF Last
<1> QED
  BY <1>2, <1>4 DEF Last, SameOutcome, SameUpload

\* Every action preserves the invariant.  Most leave the attempts alone; FALSE as a
\* value of a variable is Zenon's, the rest SMT's.

\* From the request to an account.
LEMMA ArrivalSteps ==
  ASSUME RInv,
         Reject \/ StartRouting \/ OpenRoutedStream \/ OpenPlatformStream \/
         PoolReturns \/ Reserve \/ Enqueue \/ QueueServes \/ QueueFails \/
         FallBack
  PROVE  RInv'
<1> USE Numbers, RouteConstants
    DEF Last, RInv, RequestTypeOK, ExecTypeOK, HoldInv, LocalInv, TimerInv, WatchInv,
        ReplayInv, AnswerInv, BlameInv, Evidence, Blamed, TraceInv, PhaseTellsTruth,
        SlotHeld, Holding, Accepted, Labels, Clock, Phases, Transport, Guarded, NoRetry,
        execVars, ctlVars, ctxVars, outVars
<1>1. CASE Reject
  BY <1>1 DEF Reject, Failed, HTTPStatus, Codes, Local
<1>2. CASE StartRouting
  BY <1>2 DEF StartRouting
<1>3. CASE OpenRoutedStream
  BY <1>3 DEF OpenRoutedStream, ArmTimer
<1>4. CASE OpenPlatformStream
  BY <1>4 DEF OpenPlatformStream, Codes, Local
<1>5. CASE PoolReturns
  BY <1>5 DEF PoolReturns, ContextErr, Exhausted, Codes, Local
<1>6. CASE Reserve
  BY <1>6 DEF Reserve, TakeSlot
<1>7. CASE Enqueue
  BY <1>7 DEF Enqueue
<1>8. CASE QueueServes
  BY <1>8 DEF QueueServes, Dequeue, TakeSlot
<1>9. CASE QueueFails
  BY <1>9 DEF QueueFails, Dequeue, ContextErr, Exhausted, Codes, Local
<1>10. CASE FallBack
  BY <1>10 DEF FallBack, FallsBack, Eligible
<1> QED
  BY <1>1, <1>2, <1>3, <1>4, <1>5, <1>6, <1>7, <1>8, <1>9, <1>10

\* An attempt, but for the steps that write its record.
LEMMA AttemptSteps ==
  ASSUME RInv,
         Prepare \/ AttemptRefused \/ UpstreamAnswers \/ DoAborted \/
         NotAStream \/ DialOpens \/ Redial \/ AdapterReturns \/ ProbeAccepts \/
         PoolGivesUp \/ NextAccount
  PROVE  RInv'
<1> USE Numbers, RouteConstants
    DEF Last, RInv, RequestTypeOK, ExecTypeOK, HoldInv, LocalInv, TimerInv, WatchInv,
        ReplayInv, AnswerInv, BlameInv, Evidence, Blamed, TraceInv, PhaseTellsTruth,
        SlotHeld, Holding, Accepted, Labels, Clock, Phases, Transport, Guarded, NoRetry,
        execVars, ctlVars, ctxVars, outVars
<1>1. CASE Prepare
  <2>1. /\ pc = "reserved" /\ pc' \in {"dial", "refused"}
        /\ phase' \in {phase, "preparing_images"}
        /\ UNCHANGED <<attempts, late, ctxVars, streaming, route, tried, dials, renewals,
                       answer, body, slot, done, sent, rec>>
    BY <1>1 DEF Prepare
  <2>2. /\ err' \in Codes \cup {"none"} /\ err' # "client_write_failed"
        /\ err' = "routing_timeout" => late
        /\ err' = "canceled" => client = "gone" \/ routing = "routing_timeout"
    <3>1. Refusals \subseteq {"rate_limited", "unauthorized", "bad_request", "http_5xx", "vendor_5xx"}
      BY DEF Refusals
    <3>2. \/ UNCHANGED err
          \/ routing # "live" /\ err' \in {ContextErr, routing}
          \/ err' \in {"unauthorized", "bad_request", "transport"} \cup Refusals
      BY <1>1 DEF Prepare
    <3>3. CASE UNCHANGED err
      BY <2>1, <3>3
    <3>4. CASE routing # "live" /\ err' \in {ContextErr, routing}
      BY <2>1, <3>4 DEF ContextErr, Codes, Local
    <3>5. CASE err' \in {"unauthorized", "bad_request", "transport"} \cup Refusals
      BY <3>1, <3>5 DEF Codes, Local
    <3> QED
      BY <3>2, <3>3, <3>4, <3>5
  <2>3. \A i \in 1..Last : attempts[i].code \notin NoRetry
    BY <2>1
  <2>4. Last' = Last /\ (\A i \in 1..Last : Evidence(i)') /\ TraceInv'
    BY <2>1
  <2>5. ReplayInv' /\ BlameInv'
    BY <2>1, <2>2, <2>3, <2>4
  <2>6. RequestTypeOK'
    BY <2>1, <2>2
  <2>7. HoldInv' /\ LocalInv' /\ TimerInv' /\ WatchInv' /\ AnswerInv'
    BY <2>1
  <2> QED
    BY <2>4, <2>5, <2>6, <2>7
<1>2. CASE AttemptRefused
  BY <1>2 DEF AttemptRefused, ContextErr, Refusal, WithinBudget, Codes, Local
<1>3. CASE UpstreamAnswers
  BY <1>3 DEF UpstreamAnswers, Refusals, Codes, Local
<1>4. CASE DoAborted
  BY <1>4 DEF DoAborted, Codes, Local
<1>5. CASE NotAStream
  <2>1. body' \in BOOLEAN
    BY <1>5, Zenon DEF NotAStream
  <2> QED
    BY <1>5, <2>1 DEF NotAStream, Codes, Local
<1>6. CASE DialOpens
  BY <1>6 DEF DialOpens
<1>7. CASE Redial
  BY <1>7 DEF Redial, UpstreamFault, Codes, Local
<1>8. CASE AdapterReturns
  BY <1>8 DEF AdapterReturns
<1>9. CASE ProbeAccepts
  BY <1>9 DEF ProbeAccepts
<1>10. CASE PoolGivesUp
  <2>1. slot' \in BOOLEAN
    BY <1>10, Zenon DEF PoolGivesUp
  <2> QED
    BY <1>10, <2>1 DEF PoolGivesUp, Final, Codes, Local
<1>11. CASE NextAccount
  <2>1. slot' \in BOOLEAN
    BY <1>11, Zenon DEF NextAccount
  <2> QED
    BY <1>11, <2>1 DEF NextAccount, Final, Codes, Local
<1> QED
  BY <1>1, <1>2, <1>3, <1>4, <1>5, <1>6, <1>7, <1>8, <1>9, <1>10, <1>11

\* Hand-over and relay.
LEMMA ServingSteps ==
  ASSUME RInv,
         HandOver \/ OpenFails \/ Relay \/ RelayDone \/ WriteFails \/ Complete
         \/ Close
  PROVE  RInv'
<1> USE Numbers, RouteConstants
    DEF Last, RInv, RequestTypeOK, ExecTypeOK, HoldInv, LocalInv, TimerInv, WatchInv,
        ReplayInv, AnswerInv, BlameInv, Evidence, Blamed, TraceInv, PhaseTellsTruth,
        SlotHeld, Holding, Accepted, Labels, Clock, Phases, Transport, Guarded, NoRetry,
        execVars, ctlVars, ctxVars, outVars
<1>1. CASE HandOver
  BY <1>1 DEF HandOver
<1>2. CASE OpenFails
  BY <1>2 DEF OpenFails, NoStream, FallsBack, Eligible, Ended, AnswerError, Failed, HTTPStatus,
             Codes, Local
<1>3. CASE Relay
  BY <1>3 DEF Relay
<1>4. CASE RelayDone
  BY <1>4 DEF RelayDone
<1>5. CASE WriteFails
  BY <1>5 DEF WriteFails, LostClient, HTTPStatus, Codes, Local
<1>6. CASE Complete
  BY <1>6 DEF Complete
<1>7. CASE Close
  <2>1. body' \in BOOLEAN
    BY <1>7, Zenon DEF Close, CloseBody
  <2>2. slot' \in BOOLEAN
    BY <1>7, Zenon DEF Close, CloseBody
  <2> QED
    BY <1>7, <2>1, <2>2 DEF Close, CloseBody, Ended
<1> QED
  BY <1>1, <1>2, <1>3, <1>4, <1>5, <1>6, <1>7

\* Clocks and the client.
LEMMA WorldSteps ==
  ASSUME RInv,
         DeadlinePasses \/ RoutingTimerFires \/ RoutingTimerRuns \/
         HeaderTimerFires \/ HeaderTimerRuns \/ UploadStalls \/ ClientLeaves \/
         Disconnect \/ RequestTimesOut
  PROVE  RInv'
<1> USE Numbers, RouteConstants
    DEF Last, RInv, RequestTypeOK, ExecTypeOK, HoldInv, LocalInv, TimerInv, WatchInv,
        ReplayInv, AnswerInv, BlameInv, Evidence, Blamed, TraceInv, PhaseTellsTruth,
        SlotHeld, Holding, Accepted, Labels, Clock, Phases, Transport, Guarded, NoRetry,
        execVars, ctlVars, ctxVars, outVars
<1>1. CASE DeadlinePasses
  BY <1>1 DEF DeadlinePasses
<1>2. CASE RoutingTimerFires
  BY <1>2 DEF RoutingTimerFires
<1>3. CASE RoutingTimerRuns
  BY <1>3 DEF RoutingTimerRuns
<1>4. CASE HeaderTimerFires
  BY <1>4 DEF HeaderTimerFires
<1>5. CASE HeaderTimerRuns
  BY <1>5 DEF HeaderTimerRuns
<1>6. CASE UploadStalls
  BY <1>6 DEF UploadStalls
<1>7. CASE ClientLeaves
  BY <1>7 DEF ClientLeaves
<1>8. CASE Disconnect
  BY <1>8 DEF Disconnect, EndParent
<1>9. CASE RequestTimesOut
  BY <1>9 DEF RequestTimesOut, EndParent
<1> QED
  BY <1>1, <1>2, <1>3, <1>4, <1>5, <1>6, <1>7, <1>8, <1>9

\* BeginAttempt.
LEMMA SendKeeps == ASSUME RInv, Send PROVE RInv'
<1> USE DEF RInv, RequestTypeOK, HoldInv, LocalInv, TimerInv, WatchInv, ReplayInv, AnswerInv,
        BlameInv, Evidence, Blamed, TraceInv, PhaseTellsTruth, SlotHeld, Holding, Accepted, Labels,
        Clock, Phases, Transport, Guarded, NoRetry, ctlVars, ctxVars, outVars, Send
<1>1. /\ attempts' \in Seq(Attempt) /\ Last' = Last + 1 /\ Last' <= MaxAttempts
      /\ attempts'[Last + 1] = NewAttempt
      /\ \A i \in 1..Last : attempts'[i] = attempts[i]
      /\ phase' = "connecting" /\ ~late
  BY NewAttempts
<1>2. Last \in Nat
  BY AttemptsTyped
<1>3. NewAttempt.status = 0 /\ NewAttempt.code = "none" /\ ~NewAttempt.uploaded
  BY DEF NewAttempt
<1>4. attemptDead' \in BOOLEAN
  BY Zenon
<1>a. RequestTypeOK'
  BY <1>1, <1>4 DEF ExecTypeOK
<1>b. HoldInv' /\ LocalInv' /\ TimerInv' /\ WatchInv' /\ AnswerInv'
  BY <1>1, <1>2
<1>c. ASSUME NEW i \in 1..Last'
      PROVE  /\ attempts'[i].code \notin NoRetry
             /\ Evidence(i)'
             /\ attempts'[i].uploaded => attempts'[i].wrote = "request"
  <2>1. CASE i \in 1..Last
    BY <1>1, <1>2, <2>1
  <2>2. CASE i = Last + 1
    BY <1>1, <1>2, <1>3, <2>2
  <2> QED
    BY <1>1, <1>2, <2>1, <2>2
<1>d. (Blamed(rec.code)) ' /\ PhaseTellsTruth'
  BY <1>1, <1>2
<1> QED
  BY <1>1, <1>2, <1>a, <1>b, <1>c, <1>d

\* finish.
LEMMA FinishKeeps == ASSUME RInv, Finish PROVE RInv'
<1> DEFINE failure == Outcome
           status == IF body THEN WireStatus(answer)
                     ELSE IF failure = "none" THEN 0 ELSE HTTPStatus(failure)
<1> USE Numbers, RouteConstants
    DEF RInv, RequestTypeOK, HoldInv, LocalInv, TimerInv, WatchInv, ReplayInv, AnswerInv,
        BlameInv, Evidence, Blamed, TraceInv, PhaseTellsTruth, SlotHeld, Holding, Accepted, Labels,
        Clock, Phases, Transport, Guarded, NoRetry, Finish
<1>1. /\ failure \in Codes \cup {"none"} /\ failure # "client_write_failed"
      /\ failure = "canceled" => client = "gone"
      /\ failure = "routing_timeout" => late
      /\ failure = "none" => body /\ routing = "live" /\ ~HeaderTimedOut
      /\ failure = "upstream_response_canceled" => FALSE
  BY DEF Outcome, HeaderTimedOut, Codes, Local
<1>2. status \in Nat /\ (status = 499 => client = "gone")
  <2>1. WireStatus(answer) \in Nat /\ (body => WireStatus(answer) # 499)
    BY StatusTypes DEF WireStatus
  <2> QED
    BY <1>1, <2>1, StatusTypes
<1> HIDE DEF failure, status
<1>3. /\ Finished(status, failure)
      /\ err' = failure
      /\ pc' = IF failure = "none" THEN "headers" ELSE "dialed"
      /\ answer' = IF failure = "none" THEN answer ELSE "none"
      /\ body' = (body /\ failure = "none")
      /\ attemptDead' = (attemptDead \/ failure # "none")
      /\ watchdog' = IF watchdog # "expired" /\ (~Guarded \/ failure # "none")
                       THEN "stopped" ELSE watchdog
      /\ UNCHANGED <<late, client, parent, routing, timer, streaming, route, tried, dials, renewals,
                     slot, done, sent, rec>>
  BY DEF Finish, failure, status
<1>4. Last > 0 /\ pc = "answered"
  OBVIOUS
<1>5. /\ attempts' \in Seq(Attempt) /\ Last' = Last
      /\ attempts'[Last].status = status /\ attempts'[Last].code = failure
      /\ \A i \in 1..Last : SameUpload(i) /\ (i # Last => SameOutcome(i))
      /\ phase' = IF failure = "none" THEN "waiting_output" ELSE "routing"
  BY <1>1, <1>2, <1>3, <1>4, FinishedAttempts
<1>6. body' \in BOOLEAN /\ attemptDead' \in BOOLEAN
  BY <1>3, Zenon
<1> HIDE DEF Finish
<1>a. RequestTypeOK'
  BY <1>1, <1>3, <1>4, <1>5, <1>6 DEF ExecTypeOK
<1>b. HoldInv'
  BY <1>1, <1>3, <1>4, <1>5
<1>c. LocalInv'
  BY <1>1, <1>3, <1>4, <1>5
<1>d. TimerInv'
  BY <1>1, <1>3, <1>4, <1>5
<1>e. AnswerInv'
  BY <1>1, <1>3, <1>4, <1>5
<1>f. WatchInv'
  BY <1>1, <1>3, <1>4, <1>5 DEF HeaderTimedOut
<1>g. ReplayInv'
  BY <1>1, <1>3, <1>4, <1>5 DEF SameOutcome
<1>h. BlameInv'
  <2>1. ASSUME NEW i \in 1..Last PROVE Evidence(i)'
    BY <1>1, <1>2, <1>3, <1>4, <1>5 DEF SameOutcome
  <2> QED
    BY <1>1, <1>3, <1>4, <1>5, <2>1
<1>i. TraceInv'
  <2>1. \A i \in 1..Last' : attempts'[i].uploaded => attempts'[i].wrote = "request"
    BY <1>5 DEF SameUpload
  <2>2. (phase' = "queued") = (pc' = "queued")
    BY <1>3, <1>5, Zenon
  <2>3. PhaseTellsTruth'
    BY <1>3, <1>5, <2>2
  <2> QED
    BY <1>3, <1>5, <2>1, <2>3
<1> QED
  BY <1>a, <1>b, <1>c, <1>d, <1>e, <1>f, <1>g, <1>h, <1>i

\* A status line that is not a 200.
LEMMA RefuseKeeps == ASSUME RInv, Refuse PROVE RInv'
<1> USE RouteConstants
    DEF RInv, RequestTypeOK, HoldInv, LocalInv, TimerInv, WatchInv, ReplayInv, AnswerInv,
        BlameInv, Evidence, Blamed, TraceInv, PhaseTellsTruth, SlotHeld, Holding, Accepted, Labels,
        Clock, Phases, Transport, Guarded, NoRetry, ctxVars, Refuse
<1>1. /\ answer \in Codes
      /\ answer \notin {"canceled", "client_write_failed", "routing_timeout",
                        "upstream_response_canceled"}
  BY DEF Codes
<1>2. /\ attempts' \in Seq(Attempt) /\ Last' = Last
      /\ \A i \in 1..Last : /\ SameUpload(i) /\ attempts'[i].status = attempts[i].status
                            /\ attempts'[i].code = IF i = Last THEN answer ELSE attempts[i].code
      /\ phase' = "routing"
  BY <1>1, NotedAttempts
<1>3. body' \in BOOLEAN
  BY Zenon
<1>a. RequestTypeOK'
  BY <1>1, <1>2, <1>3 DEF ExecTypeOK
<1>b. HoldInv' /\ LocalInv' /\ TimerInv' /\ WatchInv' /\ AnswerInv'
  BY <1>1, <1>2
<1>c. ReplayInv'
  BY <1>1, <1>2
<1>d. BlameInv'
  <2>1. ASSUME NEW i \in 1..Last PROVE Evidence(i)'
    BY <1>1, <1>2
  <2> QED
    BY <1>1, <1>2, <2>1
<1>e. TraceInv'
  <2>1. \A i \in 1..Last' : attempts'[i].uploaded => attempts'[i].wrote = "request"
    BY <1>2 DEF SameUpload
  <2> QED
    BY <1>2, <2>1
<1> QED
  BY <1>a, <1>b, <1>c, <1>d, <1>e

\* The first event is an error.
LEMMA ProbeFailsKeeps == ASSUME RInv, ProbeFails PROVE RInv'
<1> USE RouteConstants
    DEF RInv, RequestTypeOK, HoldInv, LocalInv, TimerInv, WatchInv, ReplayInv, AnswerInv,
        BlameInv, Evidence, Blamed, TraceInv, PhaseTellsTruth, SlotHeld, Holding, Accepted, Labels,
        Clock, Phases, Transport, Guarded, NoRetry
<1>1. PICK code \in Codes : RecvError(code) /\ NoteAttemptFailure(code) /\ err' = code
  BY DEF ProbeFails
<1>2. /\ pc = "probe" /\ pc' = "refused" /\ body' = FALSE
      /\ watchdog' = IF watchdog = "expired" THEN watchdog ELSE "stopped"
      /\ UNCHANGED <<late, client, parent, routing, attemptDead, timer, streaming,
                     route, tried, dials, renewals, answer, slot, done, sent, rec>>
  BY DEF ProbeFails, CloseBody
<1>3. /\ attempts' \in Seq(Attempt) /\ Last' = Last
      /\ \A i \in 1..Last : /\ SameUpload(i) /\ attempts'[i].status = attempts[i].status
                            /\ attempts'[i].code = IF i = Last THEN code ELSE attempts[i].code
      /\ phase' = "routing"
  BY <1>1, NotedAttempts
<1>4. /\ code # "client_write_failed"
      /\ code = "routing_timeout" => late
      /\ code = "canceled" => client = "gone" \/ routing = "routing_timeout"
  BY <1>1, <1>2 DEF RecvError, ContextErr
<1>5. body' \in BOOLEAN
  BY <1>2, Zenon
<1>a. RequestTypeOK'
  BY <1>1, <1>2, <1>3, <1>5 DEF ExecTypeOK
<1>b. HoldInv' /\ LocalInv' /\ TimerInv' /\ AnswerInv'
  BY <1>2, <1>3
<1>c. WatchInv'
  BY <1>2, <1>3
<1>d. ReplayInv'
  BY <1>1, <1>2, <1>3
<1>e. BlameInv'
  <2>1. ASSUME NEW i \in 1..Last PROVE Evidence(i)'
    BY <1>2, <1>3, <1>4
  <2> QED
    BY <1>1, <1>2, <1>3, <1>4, <2>1
<1>f. TraceInv'
  <2>1. \A i \in 1..Last' : attempts'[i].uploaded => attempts'[i].wrote = "request"
    BY <1>3 DEF SameUpload
  <2> QED
    BY <1>2, <1>3, <2>1
<1> QED
  BY <1>a, <1>b, <1>c, <1>d, <1>e, <1>f

\* The routing timer was faster than Stop.
LEMMA RoutingExpiredKeeps == ASSUME RInv, RoutingExpired PROVE RInv'
<1> USE RouteConstants
    DEF RInv, RequestTypeOK, HoldInv, LocalInv, TimerInv, WatchInv, ReplayInv, AnswerInv,
        BlameInv, Evidence, Blamed, TraceInv, PhaseTellsTruth, SlotHeld, Holding, Accepted, Labels,
        Clock, Phases, Transport, Guarded, NoRetry
<1>1. /\ pc \in {"routed", "noStream"} /\ timer = "expired" /\ pc' = "over" /\ sent' = "error"
      /\ rec' = [ok |-> FALSE, status |-> HTTPStatus(err'), code |-> err']
      /\ UNCHANGED <<late, client, parent, routing, attemptDead, timer, streaming, route, tried,
                     dials, renewals, answer, done>>
  BY DEF RoutingExpired, TimeoutAnswers, NoStream, AnswerError, Failed
<1>2. /\ err' = IF parent # "live" THEN parent ELSE "routing_timeout"
      /\ err' \in Codes /\ HTTPStatus(err') \in Nat
  BY StatusTypes DEF RoutingExpired, TimeoutAnswers, Codes, Local
<1>3. /\ attempts' \in Seq(Attempt) /\ Last' = Last
      /\ \A i \in 1..Last :
           /\ SameUpload(i) /\ attempts'[i].status = attempts[i].status
           /\ attempts'[i].code = IF parent = "live" /\ i = Last THEN "routing_timeout"
                                                                 ELSE attempts[i].code
      /\ phase' \in {phase, "routing"}
  <2>1. CASE parent # "live"
    BY <2>1 DEF RoutingExpired, TimeoutAnswers, ExecTypeOK, Last, SameUpload
  <2>2. CASE parent = "live"
    BY <2>2, NotedAttempts DEF RoutingExpired, TimeoutAnswers, Codes, Local
  <2> QED
    BY <2>1, <2>2
<1>4. body' = FALSE /\ slot' = FALSE
  <2>1. CASE body
    BY <2>1, Zenon DEF RoutingExpired, CloseBody
  <2>2. CASE ~body
    <3>1. body = FALSE /\ body' = body /\ slot' = slot
      BY <2>2 DEF RoutingExpired
    <3>2. ~slot
      BY <1>1, <2>2
    <3>3. slot = FALSE
      BY <3>2
    <3> QED
      BY <3>1, <3>3, Zenon
  <2> QED
    BY <2>1, <2>2
<1>6. watchdog' \in {"off", "stopped", "expired"} /\ (watchdog' = "off" <=> Last = 0)
  <2>1. CASE body
    BY <2>1, <1>1 DEF RoutingExpired, CloseBody
  <2>2. CASE ~body
    BY <2>2, <1>1, AttemptsTyped DEF RoutingExpired
  <2> QED
    BY <2>1, <2>2
<1>5. body' \in BOOLEAN /\ slot' \in BOOLEAN
  BY <1>4, Zenon
<1>a. RequestTypeOK'
  BY <1>1, <1>2, <1>3, <1>4, <1>5, <1>6 DEF ExecTypeOK
<1>b. HoldInv' /\ LocalInv' /\ TimerInv' /\ AnswerInv'
  BY <1>1, <1>2, <1>3, <1>4
<1>c. WatchInv'
  BY <1>1, <1>3, <1>4, <1>6
<1>d. ReplayInv'
  BY <1>1
<1>e. BlameInv'
  <2>1. ASSUME NEW i \in 1..Last PROVE Evidence(i)'
    BY <1>1, <1>3
  <2> QED
    BY <1>1, <1>2, <1>3, <2>1
<1>f. TraceInv'
  <2>1. \A i \in 1..Last' : attempts'[i].uploaded => attempts'[i].wrote = "request"
    BY <1>3 DEF SameUpload
  <2> QED
    BY <1>1, <1>3, <2>1
<1> QED
  BY <1>a, <1>b, <1>c, <1>d, <1>e, <1>f

\* A stream that is served fails: for a reason that may be said of it.
LEMMA ServingFailsKeeps ==
  ASSUME RInv, pc = "serving", NEW code \in Codes, ServingFails(code), Blamed(code),
         code # "client_write_failed",
         UNCHANGED <<phase, attempts>> \/ NoteAttemptFailure(code)
  PROVE  RInv'
<1> USE DEF RInv, RequestTypeOK, HoldInv, LocalInv, TimerInv, WatchInv, ReplayInv, AnswerInv,
        BlameInv, Evidence, Blamed, TraceInv, PhaseTellsTruth, SlotHeld, Holding, Accepted, Labels,
        Clock, Phases, Transport, Guarded, NoRetry, ctxVars, ServingFails, Failed
<1>1. /\ attempts' \in Seq(Attempt) /\ Last' = Last
      /\ \A i \in 1..Last : /\ SameUpload(i) /\ attempts'[i].status = attempts[i].status
                            /\ attempts'[i].code \in {code, attempts[i].code}
      /\ phase' \in {phase, "routing"}
  <2>1. CASE UNCHANGED <<phase, attempts>>
    BY <2>1 DEF ExecTypeOK, Last, SameUpload
  <2>2. CASE NoteAttemptFailure(code)
    BY <2>2, NotedAttempts
  <2> QED
    BY <2>1, <2>2
<1>2. rec' = [ok |-> FALSE, status |-> HTTPStatus(code), code |-> code] /\ HTTPStatus(code) \in Nat
  BY StatusTypes
<1>3. pc' = "closing" /\ sent' \in {"errorEvent", "error"}
  BY DEF Committed
<1>a. RequestTypeOK'
  BY <1>1, <1>2, <1>3 DEF ExecTypeOK
<1>b. HoldInv' /\ LocalInv' /\ TimerInv' /\ WatchInv' /\ AnswerInv'
  BY <1>1, <1>2, <1>3
<1>c. ReplayInv'
  BY <1>3
<1>d. TraceInv'
  <2>1. phase' \in {"waiting_output", "streaming", "routing"}
    BY <1>1
  <2>2. \A i \in 1..Last' : attempts'[i].uploaded => attempts'[i].wrote = "request"
    BY <1>1 DEF SameUpload
  <2>3. (phase' = "queued") = (pc' = "queued")
    BY <1>3, <2>1, Zenon
  <2>4. PhaseTellsTruth'
    BY <1>3, <2>1, <2>3
  <2> QED
    BY <1>3, <2>2, <2>4, Zenon
<1>e. BlameInv'
  <2>1. ASSUME NEW i \in 1..Last PROVE Evidence(i)'
    BY <1>1, <1>3
  <2> QED
    BY <1>1, <1>2, <1>3, <2>1
<1> QED
  BY <1>a, <1>b, <1>c, <1>d, <1>e

\* Recv ends without an event, or with an error.
LEMMA StreamBreaks == ASSUME RInv, UpstreamEnds \/ UpstreamFails PROVE RInv'
<1>1. CASE UpstreamEnds
  <2>1. pc = "serving" /\ ServingFails("upstream_incomplete") /\ UNCHANGED <<phase, attempts>>
    BY <1>1 DEF UpstreamEnds, EndIsFailure
  <2> QED
    BY <2>1, ServingFailsKeeps DEF Codes, Blamed
<1>2. CASE UpstreamFails
  <2>1. PICK code \in Codes : /\ RecvError(code) /\ ServingFails(code)
                              /\ UNCHANGED <<phase, attempts>> \/ NoteAttemptFailure(code)
    BY <1>2 DEF UpstreamFails
  <2>2. pc = "serving"
    BY <1>2 DEF UpstreamFails
  <2>3. Blamed(code) /\ code # "client_write_failed"
    BY <2>1, <2>2, RouteConstants DEF RInv, RequestTypeOK, TimerInv, RecvError, ContextErr, Blamed
  <2> QED
    BY <2>1, <2>2, <2>3, ServingFailsKeeps
<1> QED
  BY <1>1, <1>2

\* A callback reports on one attempt, and moves the phase only as the report says.
LEMMA CallbackReports ==
  ASSUME RInv, NEW i \in 1..Last, Callback(i)
  PROVE  \E wrote \in {"conn", "headers", "request", "broken"}, uploaded \in BOOLEAN :
           /\ attempts' = [attempts EXCEPT ![i] = [attempts[i] EXCEPT !.wrote = wrote,
                                                                     !.uploaded = uploaded]]
           /\ uploaded => wrote = "request"
           /\ uploaded = attempts[i].uploaded \/ UpdatesUpload(i)
           /\ attempts[i].wrote # "request"
           /\ wrote = "conn" => attempts[i].wrote = "nothing"
           /\ \/ phase' = phase
              \/ phase \in Transport /\ i = Last /\ wrote = "headers" /\ phase' = "uploading"
              \/ phase \in Transport /\ i = Last /\ wrote = "request" /\ phase' = "waiting_headers"
<1>1. /\ attempts[i] \in Attempt /\ attempts \in Seq(Attempt)
      /\ attempts[i].wrote # "request" => attempts[i].uploaded = FALSE
  BY AttemptsTyped DEF RInv, RequestTypeOK, TraceInv, Attempt
<1>2. CASE GotConn(i)
  <2>1. attempts' = [attempts EXCEPT ![i] = [attempts[i] EXCEPT !.wrote = "conn",
                                             !.uploaded = attempts[i].uploaded]]
    BY <1>1, <1>2 DEF GotConn, Attempt
  <2> QED
    BY <1>1, <1>2, <2>1 DEF GotConn
<1>3. CASE WroteHeaders(i)
  <2>1. attempts' = [attempts EXCEPT ![i] = [attempts[i] EXCEPT !.wrote = "headers",
                                             !.uploaded = attempts[i].uploaded]]
    BY <1>1, <1>3 DEF WroteHeaders, Attempt
  <2> QED
    BY <1>1, <1>3, <2>1 DEF WroteHeaders, SetAttemptPhase, Unfinished
<1>4. CASE WroteRequest(i)
  <2>1. UpdatesUpload(i) \in BOOLEAN
    BY DEF UpdatesUpload
  <2>2. attempts' = [attempts EXCEPT ![i] = [attempts[i] EXCEPT !.wrote = "request",
                                             !.uploaded = UpdatesUpload(i)]]
    BY <1>1, <1>4 DEF WroteRequest, Attempt
  <2>3. attempts[i].wrote # "request" /\ attempts[i].uploaded = FALSE
    BY <1>1, <1>4 DEF WroteRequest
  <2>4. UpdatesUpload(i) = attempts[i].uploaded \/ UpdatesUpload(i)
    BY <2>1, <2>3
  <2> QED
    BY <1>4, <2>1, <2>2, <2>3, <2>4 DEF WroteRequest, SetAttemptPhase, Unfinished
<1>5. CASE WriteBreaks(i)
  <2>1. attempts' = [attempts EXCEPT ![i] = [attempts[i] EXCEPT !.wrote = "broken",
                                             !.uploaded = attempts[i].uploaded]]
    BY <1>1, <1>5 DEF WriteBreaks, Attempt
  <2> QED
    BY <1>1, <1>5, <2>1 DEF WriteBreaks
<1> QED
  BY <1>2, <1>3, <1>4, <1>5 DEF Callback

\* The transport's callbacks.
LEMMA CallbackSteps == ASSUME RInv, NEW i \in 1..Last, Callback(i) PROVE RInv'
<1> USE RouteConstants
    DEF RInv, RequestTypeOK, HoldInv, LocalInv, TimerInv, WatchInv, ReplayInv, AnswerInv,
        BlameInv, Evidence, Blamed, TraceInv, PhaseTellsTruth, SlotHeld, Holding, Accepted, Labels,
        Clock, Phases, Transport, Guarded, NoRetry, ctlVars, outVars
<1>1. attempts \in Seq(Attempt) /\ Last \in Nat /\ attempts[i] \in Attempt
  BY AttemptsTyped
<1>2. UNCHANGED <<late, ctlVars, outVars, client, parent, routing, attemptDead, timer>>
  BY DEF Callback
<1>3. \/ watchdog' = watchdog
      \/ Guarded /\ watchdog = "off" /\ watchdog' = "armed"
      \/ Guarded /\ watchdog \in {"off", "armed"} /\ watchdog' = "stopped"
  BY DEF Callback, GuardStarts, GuardStops
<1>4. PICK wrote \in {"conn", "headers", "request", "broken"}, uploaded \in BOOLEAN :
         /\ attempts' = [attempts EXCEPT ![i] = [attempts[i] EXCEPT !.wrote = wrote,
                                                                   !.uploaded = uploaded]]
         /\ uploaded => wrote = "request"
         /\ attempts[i].wrote # "request"
         /\ wrote = "conn" => attempts[i].wrote = "nothing"
         /\ \/ phase' = phase
            \/ phase \in Transport /\ i = Last /\ wrote = "headers" /\ phase' = "uploading"
            \/ phase \in Transport /\ i = Last /\ wrote = "request" /\ phase' = "waiting_headers"
  BY CallbackReports
<1>5. /\ attempts' \in Seq(Attempt) /\ Last' = Last
      /\ attempts'[i].wrote = wrote /\ attempts'[i].uploaded = uploaded
      /\ \A j \in 1..Last : SameOutcome(j) /\ (j # i => SameUpload(j))
  BY <1>4, ReportedAttempts
<1>a. RequestTypeOK'
  BY <1>2, <1>3, <1>4, <1>5 DEF ExecTypeOK
<1>b. HoldInv' /\ LocalInv' /\ TimerInv' /\ AnswerInv'
  BY <1>2, <1>5
<1>c. WatchInv'
  BY <1>2, <1>3, <1>5
<1>d. ReplayInv'
  BY <1>2, <1>5 DEF SameOutcome
<1>e. BlameInv'
  <2>1. ASSUME NEW j \in 1..Last PROVE Evidence(j)'
    BY <1>2, <1>5 DEF SameOutcome
  <2> QED
    BY <1>2, <1>5, <2>1
<1>f. TraceInv'
  <2>1. \A j \in 1..Last' : attempts'[j].uploaded => attempts'[j].wrote = "request"
    BY <1>4, <1>5 DEF SameUpload
  <2>2. PhaseTellsTruth'
    BY <1>2, <1>4, <1>5 DEF SameUpload
  <2> QED
    BY <1>2, <1>4, <2>1, <2>2
<1> QED
  BY <1>a, <1>b, <1>c, <1>d, <1>e, <1>f

-------------------------------------------------------------------------------
\* Init.
LEMMA InitRInv == Init => RInv
<1> SUFFICES ASSUME Init PROVE RInv
  OBVIOUS
<1>1. attempts \in Seq(Attempt) /\ Last = 0
  BY DEF Init, ExecInit, Last
<1>2. streaming \in BOOLEAN /\ attemptDead \in BOOLEAN /\ body \in BOOLEAN /\ slot \in BOOLEAN
      /\ done \in BOOLEAN /\ late \in BOOLEAN
  BY Zenon DEF Init, ExecInit
<1>3. /\ rec \in [ok : BOOLEAN, status : Nat, code : Codes \cup {"none"}]
      /\ rec.ok /\ rec.code = "none"
  BY DEF Init
<1> QED
  BY <1>1, <1>2, <1>3, Numbers, ExecutionConstants
     DEF Init, ExecInit, RInv, RequestTypeOK, ExecTypeOK, HoldInv, LocalInv, TimerInv, WatchInv,
         ReplayInv, AnswerInv, BlameInv, Evidence, Blamed, TraceInv, PhaseTellsTruth, SlotHeld,
         Holding, Accepted, Labels, Clock, Phases, Transport, Guarded, NoRetry

\* The groups are all of Next.
LEMMA RequestSteps == ASSUME RInv, [Next]_vars PROVE RInv'
<1>1. CASE Next
  BY <1>1, ArrivalSteps, AttemptSteps, ServingSteps, WorldSteps, SendKeeps, FinishKeeps,
     RefuseKeeps, ProbeFailsKeeps, RoutingExpiredKeeps, StreamBreaks, CallbackSteps
     DEF Next, Arrives, Runs, Waits, Timers, World
<1>2. CASE UNCHANGED vars
  BY <1>2 DEF vars, execVars, ctlVars, ctxVars, outVars, RInv, RequestTypeOK, ExecTypeOK, HoldInv,
         LocalInv, TimerInv, WatchInv,
         ReplayInv, AnswerInv, BlameInv, Evidence, Blamed, TraceInv, PhaseTellsTruth, Guarded, Last
<1> QED
  BY <1>1, <1>2

\* The invariant holds in every state of every behaviour: it relates what the request
\* holds, which clocks can still reach it and what its failures are evidence of.
THEOREM RequestInvariant == Spec => []RInv
<1> QED
  BY InitRInv, RequestSteps, PTL DEF Spec

\* Type correctness, with the budget of attempts that redials, accounts and platforms
\* share, for every budget.
THEOREM RequestTyped == Spec => []RequestTypeOK
<1>1. RInv => RequestTypeOK
  BY DEF RInv
<1> QED
  BY <1>1, RequestInvariant, PTL

\* Whichever clock won which race, an open response is paid for with a slot and neither
\* outlives the request, nor does a timer (openRoutedStream, finish, the deferred Close).
THEOREM RequestLeaksNothing == Spec => []NothingLeaks
<1>1. RInv => NothingLeaks
  BY AttemptsTyped DEF RInv, RequestTypeOK, HoldInv, TimerInv, WatchInv, NothingLeaks,
         SlotHeld, Holding, Accepted
<1> QED
  BY <1>1, RequestInvariant, PTL

\* A stream that is served is out of reach of the routing and of the header timer: Stop
\* succeeded before the hand-over and finish stopped the watchdog (openRoutedStream).
THEOREM AcceptedStreams == Spec => []AcceptedNeverCut
<1>1. RInv => AcceptedNeverCut
  BY DEF RInv, HoldInv, TimerInv, WatchInv, AcceptedNeverCut, Accepted, Holding
<1> QED
  BY <1>1, RequestInvariant, PTL

\* No client is blamed that was there and no routing time-out reported that was not, in
\* the answer or on an attempt, for any number of attempts (finish, context.Cause).
THEOREM BlameIsTruthful == Spec => []TruthfulBlame
<1>1. RInv => TruthfulBlame
  <2> SUFFICES ASSUME RInv PROVE TruthfulBlame
    OBVIOUS
  <2>1. Blamed(rec.code) /\ \A i \in 1..Last : Evidence(i)
    BY DEF RInv, BlameInv
  <2> QED
    BY <2>1 DEF TruthfulBlame, Evidence, Blamed
<1> QED
  BY <1>1, RequestInvariant, PTL

\* Success is recorded only of a complete answer, and a client that is there hears of
\* every failure (observedStream.Recv, writeStream, writeFinal).
THEOREM AnswersAreHonest == Spec => []HonestAnswer
<1>1. RInv => HonestAnswer
  BY DEF RInv, AnswerInv, HonestAnswer
<1> QED
  BY <1>1, RequestInvariant, PTL

-------------------------------------------------------------------------------
(* What a step may do to the attempts on record.                             *)

RecordKept == Last' = Last /\ \A i \in 1..Last : SameUpload(i) /\ (i # Last => SameOutcome(i))

\* A step of the goroutine or of a clock other than Send makes no attempt, and writes at
\* most the outcome of the last one.
LEMMA RequestWrites ==
  ASSUME RInv, Next, ~Send, \A i \in 1..Last : ~Callback(i)
  PROVE  RecordKept
<1>1. CASE attempts' = attempts
  BY <1>1 DEF RecordKept, Last, SameUpload, SameOutcome
<1>2. ASSUME NEW code \in Codes \cup {"none"}, NoteAttemptFailure(code) PROVE RecordKept
  BY <1>2, NotedAttempts DEF RInv, RequestTypeOK, SameOutcome, RecordKept
<1>3. CASE Finish
  <2>1. PICK status \in Nat, code \in Codes \cup {"none"} : Finished(status, code)
    <3>1. Outcome \in Codes \cup {"none"}
      BY <1>3, RouteConstants DEF Finish, Outcome, HeaderTimedOut, Codes, Local, RInv,
         LocalInv, RequestTypeOK
    <3>2. WireStatus(answer) \in Nat /\ HTTPStatus(Outcome) \in Nat
      BY StatusTypes DEF WireStatus
    <3> QED
      BY <1>3, <3>1, <3>2 DEF Finish
  <2>2. Last > 0
    BY <1>3 DEF Finish, RInv, HoldInv, Holding
  <2> QED
    BY <2>1, <2>2, FinishedAttempts DEF RInv, RequestTypeOK, RecordKept
<1>4. CASE Refuse
  <2>1. answer \in Codes
    BY <1>4, RouteConstants DEF Refuse, RInv, LocalInv, Codes
  <2> QED
    BY <1>2, <1>4, <2>1 DEF Refuse
<1>5. CASE ProbeFails
  BY <1>2, <1>5 DEF ProbeFails
<1>6. CASE RoutingExpired
  BY <1>1, <1>2, <1>6 DEF RoutingExpired, TimeoutAnswers, Codes, Local
<1>7. CASE UpstreamFails
  BY <1>1, <1>2, <1>7 DEF UpstreamFails
<1>8. CASE Arrives \/ Waits \/ Timers \/ DeadlinePasses \/ HeaderTimerFires \/ UploadStalls \/
           ClientLeaves \/ Disconnect \/ RequestTimesOut
  <2>1. attempts' = attempts
    BY <1>8 DEF Arrives, Waits, Timers, Reject, StartRouting, QueueServes, Dequeue, UpstreamAnswers,
       RoutingTimerFires, RoutingTimerRuns, HeaderTimerRuns, DeadlinePasses, HeaderTimerFires,
       UploadStalls, ClientLeaves, Disconnect, RequestTimesOut, EndParent, execVars
  <2> QED
    BY <1>1, <2>1
<1>9. CASE OpenRoutedStream \/ OpenPlatformStream \/ PoolReturns \/ Reserve \/ Enqueue
           \/ QueueFails \/ Prepare \/ AttemptRefused \/ DoAborted \/ NotAStream \/ DialOpens
           \/ Redial \/ AdapterReturns \/ ProbeAccepts \/ PoolGivesUp \/ NextAccount \/ FallBack
  <2>1. attempts' = attempts
    BY <1>9 DEF OpenRoutedStream, OpenPlatformStream, PoolReturns, Reserve, Enqueue, QueueFails,
       Dequeue, Prepare, AttemptRefused, DoAborted, NotAStream, DialOpens, Redial, AdapterReturns,
       ProbeAccepts, PoolGivesUp, NextAccount, FallBack, execVars
  <2> QED
    BY <1>1, <2>1
<1>10. CASE HandOver \/ OpenFails \/ Relay \/ RelayDone \/ WriteFails \/ Complete
            \/ UpstreamEnds \/ Close
  <2>1. attempts' = attempts
    BY <1>10 DEF HandOver, OpenFails, Relay, RelayDone, WriteFails, Complete, UpstreamEnds, Close,
       execVars
  <2> QED
    BY <1>1, <2>1
<1> QED
  BY <1>3, <1>4, <1>5, <1>6, <1>7, <1>8, <1>9, <1>10 DEF Next, Runs, World

\* A callback makes no attempt and changes no outcome, and tells the record of an upload
\* only if the attempt is the last one and has not failed.
LEMMA CallbackWrites ==
  ASSUME RInv, NEW i \in 1..Last, Callback(i)
  PROVE  /\ Last' = Last
         /\ \A j \in 1..Last : /\ SameOutcome(j)
                               /\ j # Last \/ attempts[j].code # "none"
                                   => attempts'[j].uploaded = attempts[j].uploaded
<1>1. PICK wrote \in {"conn", "headers", "request", "broken"}, uploaded \in BOOLEAN :
         /\ attempts' = [attempts EXCEPT ![i] = [attempts[i] EXCEPT !.wrote = wrote,
                                                                   !.uploaded = uploaded]]
         /\ uploaded = attempts[i].uploaded \/ UpdatesUpload(i)
  BY CallbackReports
<1>2. /\ Last' = Last /\ attempts'[i].uploaded = uploaded
      /\ \A j \in 1..Last : SameOutcome(j) /\ (j # i => SameUpload(j))
  BY <1>1, ReportedAttempts DEF RInv, RequestTypeOK
<1>3. UpdatesUpload(i) => i = Last /\ attempts[i].code = "none"
  BY DEF UpdatesUpload
<1> QED
  BY <1>1, <1>2, <1>3 DEF SameUpload

\* What is on record after a step of the request.
LEMMA HistoryOfStep == ASSUME RInv, [Next]_vars PROVE HistoryOfAttempts /\ (Last' > Last => Send)
<1>1. CASE Send
  <2>1. /\ \A i \in 1..Last : attempts'[i] = attempts[i]
    BY <1>1, NewAttempts DEF Send, RInv, RequestTypeOK
  <2> QED
    BY <1>1, <2>1 DEF HistoryOfAttempts, Recorded
<1>2. CASE \E i \in 1..Last : Callback(i)
  <2>1. PICK i \in 1..Last : Callback(i)
    BY <1>2
  <2>2. /\ Last' = Last
        /\ \A j \in 1..Last : /\ SameOutcome(j)
                              /\ j # Last \/ attempts[j].code # "none"
                                  => attempts'[j].uploaded = attempts[j].uploaded
    BY <2>1, CallbackWrites
  <2>3. Last \in Nat /\ HistoryOfAttempts
    BY <2>2, AttemptsTyped DEF HistoryOfAttempts, Recorded, SameOutcome, RInv, RequestTypeOK
  <2> QED
    BY <2>2, <2>3
<1>3. CASE Next /\ ~Send /\ ~\E i \in 1..Last : Callback(i)
  <2>1. RecordKept
    BY <1>3, RequestWrites
  <2> QED
    BY <2>1, AttemptsTyped DEF RecordKept, HistoryOfAttempts, Recorded, SameOutcome,
         SameUpload, RInv, RequestTypeOK
<1>4. CASE UNCHANGED vars
  <2>1. attempts' = attempts
    BY <1>4 DEF vars, execVars
  <2> QED
    BY <2>1, AttemptsTyped DEF HistoryOfAttempts, Recorded, Last, RInv, RequestTypeOK
<1> QED
  BY <1>1, <1>2, <1>3, <1>4

\* After an attempt that may have been accepted nothing is sent again, whatever number of
\* redials, accounts and platforms is left (Failure.NoRetry).
THEOREM NoReplay == Spec => NoReplayAfterUpload
<1>1. RInv /\ [Next]_vars =>
        (Last' > Last => \A i \in 1..Last : attempts[i].code
                            \notin {"upstream_upload_timeout", "upstream_response_canceled"})
  <2> SUFFICES ASSUME RInv, [Next]_vars, Last' > Last, NEW i \in 1..Last
               PROVE  attempts[i].code
                        \notin {"upstream_upload_timeout", "upstream_response_canceled"}
    OBVIOUS
  <2>1. pc = "dial"
    BY HistoryOfStep DEF Send
  <2> QED
    BY <2>1 DEF RInv, ReplayInv, NoRetry
<1> QED
  BY <1>1, RequestInvariant, PTL DEF Spec, NoReplayAfterUpload

\* The phase tells where the request is, however late the callbacks of any of its attempts
\* are (SetAttemptPhase).
THEOREM PhaseIsTruthful == Spec => []PhaseTellsTruth
<1>1. RInv => PhaseTellsTruth
  BY DEF RInv, TraceInv
<1> QED
  BY <1>1, RequestInvariant, PTL

\* The record of an attempt that failed or was followed by another stands (updateUpload).
THEOREM HistoryIsKept == Spec => HistoryStands
<1>1. RInv /\ [Next]_vars => HistoryOfAttempts
  BY HistoryOfStep
<1> QED
  BY <1>1, RequestInvariant, PTL DEF Spec, HistoryStands
===============================================================================
