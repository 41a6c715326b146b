------------------------------- MODULE Execution -------------------------------
(***************************************************************************)
(* What the gateway keeps of one request while it looks for an upstream:   *)
(* llm.Execution.  The goroutine of the request writes it, and so do the   *)
(* transport callbacks of every attempt it ever made (http_trace.go), at   *)
(* any time, also when the attempt is long over.                           *)
(***************************************************************************)
EXTENDS Naturals, Sequences

CONSTANT MaxAttempts     \* the budget shared by redials, accounts, platforms

ASSUME ExecutionConstants == MaxAttempts \in Nat \ {0}

VARIABLES
  phase,      \* what the console shows of a live request
  attempts,   \* one record for each generation request sent upstream
  late        \* Execution.deadline has passed

execVars == <<phase, attempts, late>>

(* Why something failed, and the status Failure.HTTPStatus gives it.         *)
Local == {"routing_timeout", "retry_budget_exhausted", "queue_full", "queue_timeout"}
Codes == Local \cup
  {"canceled", "deadline", "client_write_failed", "rate_limited", "unauthorized",
   "bad_request", "http_5xx", "vendor_5xx", "transport", "upstream_incomplete",
   "upstream_header_timeout", "upstream_upload_timeout", "upstream_response_canceled"}
HTTPStatus(code) ==
  CASE code \in {"canceled", "client_write_failed"} -> 499
    [] code \in Local -> 503
    [] code \in {"deadline", "upstream_header_timeout", "upstream_upload_timeout"} -> 504
    [] code = "unauthorized" -> 401
    [] code = "rate_limited" -> 429
    [] code = "bad_request" -> 400
    [] OTHER -> 502
Transport == {"connecting", "uploading", "waiting_headers"}
Phases == Transport \cup {"reading", "routing", "queued", "preparing_images", "waiting_output", "streaming"}

ExecInit == phase = "reading" /\ attempts = <<>> /\ late = FALSE

Last == Len(attempts)

\* wrote: how far the transport says it got with sending the request;
\* uploaded: what the record tells of it (UploadCompletedAtMs).
NewAttempt == [status |-> 0, code |-> "none", wrote |-> "nothing", uploaded |-> FALSE]

\* Variant: one attempt too many.
BudgetOffByOne == Last <= MaxAttempts

\* The shared budget and the deadline refuse an attempt before it is sent.
WithinBudget == Last < MaxAttempts

BeginAttempt ==
  /\ WithinBudget /\ ~late
  /\ attempts' = Append(attempts, NewAttempt)
  /\ phase' = "connecting"

Refusal == IF WithinBudget THEN "routing_timeout" ELSE "retry_budget_exhausted"

\* finish writes the outcome of the attempt it was made for, the last one.
Finished(status, code) ==
  /\ attempts' = [attempts EXCEPT ![Last].status = status, ![Last].code = code]
  /\ phase' = IF code = "none" THEN "waiting_output" ELSE "routing"

\* A failure found after finish is put on the last attempt, if there is one.
NoteAttemptFailure(code) ==
  /\ attempts' = [i \in 1..Last |-> IF i = Last THEN [attempts[i] EXCEPT !.code = code]
                                                ELSE attempts[i]]
  /\ phase' = "routing"

(* Callbacks of the transport.                                               *)
\* Variant: any callback may move the phase.
AnyAttempt(i) == i \in 1..Last

Unfinished(i) == i = Last /\ attempts[i].status = 0 /\ attempts[i].code = "none"

SetAttemptPhase(i, next) ==
  phase' = IF Unfinished(i) /\ phase \in Transport THEN next ELSE phase

\* Variant: an upload is reported of an attempt that has failed.
UpdatesLast(i) == i = Last

UpdatesUpload(i) == i = Last /\ attempts[i].code = "none"

GotConn(i) ==
  /\ attempts[i].wrote = "nothing"
  /\ attempts' = [attempts EXCEPT ![i].wrote = "conn"]
  /\ UNCHANGED phase

WroteHeaders(i) ==
  /\ attempts[i].wrote = "conn"
  /\ attempts' = [attempts EXCEPT ![i].wrote = "headers"]
  /\ SetAttemptPhase(i, "uploading")

WroteRequest(i) ==
  /\ attempts[i].wrote = "headers"
  /\ attempts' = [attempts EXCEPT ![i].wrote = "request", ![i].uploaded = UpdatesUpload(i)]
  /\ SetAttemptPhase(i, "waiting_headers")

\* The body could not be sent: only the upload guard hears of it.
WriteBreaks(i) ==
  /\ attempts[i].wrote \in {"conn", "headers"}
  /\ attempts' = [attempts EXCEPT ![i].wrote = "broken"]
  /\ UNCHANGED phase

\* What the program recorded of an attempt, without the transport's progress.
Recorded(i) == <<attempts[i].status, attempts[i].code, attempts[i].uploaded>>

Attempt == [status : Nat, code : Codes \cup {"none"}, uploaded : BOOLEAN,
            wrote : {"nothing", "conn", "headers", "request", "broken"}]

ExecTypeOK ==
  /\ phase \in Phases
  /\ attempts \in Seq(Attempt)
  /\ Last <= MaxAttempts
  /\ late \in BOOLEAN
===============================================================================
