----------------------------- MODULE UpstreamRetry -----------------------------
(***************************************************************************)
(* One attempt of the pool on a WorkBuddy account: Adapter.Stream in       *)
(* adapter/workbuddy/adapter.go, with the credential it shares with the    *)
(* other requests of the account (CredentialRefresh).                      *)
(*                                                                         *)
(* A dial ends in a stream, a 401, a failure worth dialling again          *)
(* ("transport", 5xx) or a final one (semantic refusal, exhausted budget). *)
(***************************************************************************)
EXTENDS CredentialRefresh

CONSTANTS
  Streams,            \* the callers that are requests; the others (keep-alive,
                      \* catalog, benefits) only want a valid credential
  RetryAttemptLimit   \* retryAttemptLimit

ASSUME RetryConstants ==
  /\ Streams \subseteq Callers
  /\ RetryAttemptLimit \in Nat \ {0}

VARIABLES phase,      \* where Stream is, while it is not inside refresh
          attempt,    \* its loop variable
          refreshed   \* refreshedOnAttempt

streamVars == <<phase, attempt, refreshed>>
rvars == <<authVars, streamVars>>

RetryInit ==
  /\ AuthInit
  /\ phase = [r \in Callers |-> "new"]
  /\ attempt = [r \in Callers |-> 1]
  /\ refreshed = [r \in Callers |-> FALSE]

Over == {"opened", "failed", "canceled", "checked"}

\* The next label, what the last refresh returned having been read; a call that
\* is over has no local variables left.
Goto(r, label) ==
  /\ phase' = [phase EXCEPT ![r] = label]
  /\ NextCall(r)
  /\ gone'[r] = (gone[r] /\ label \notin Over)
  /\ attempt' = IF label \in Over THEN [attempt EXCEPT ![r] = 1] ELSE attempt
  /\ refreshed' = IF label \in Over THEN [refreshed EXCEPT ![r] = FALSE] ELSE refreshed

\* EnsureValid comes first.
Begin(r) ==
  /\ phase[r] = "new"
  /\ phase' = [phase EXCEPT ![r] = "ensure"]
  /\ Call(r, FALSE)
  /\ UNCHANGED <<attempt, refreshed>>

\* The keep-alive only reports what it was told.
Checked(r) ==
  /\ phase[r] = "ensure" /\ pc[r] = "idle" /\ r \notin Streams
  /\ Goto(r, "checked")

\* A refresh that failed does not stop the request, the old token may do; only
\* a client that left does.
Ensured(r) ==
  /\ phase[r] = "ensure" /\ pc[r] = "idle" /\ r \in Streams
  /\ Goto(r, IF gone[r] /\ outcome[r] # "ok" THEN "canceled" ELSE "dial")

\* A dial reads the credential in use and may end in four ways.
DialOpens(r) ==
  /\ phase[r] = "dial"
  /\ Goto(r, "opened")

\* A final failure, or any failure once the client has left.
DialFatal(r) ==
  /\ phase[r] = "dial"
  /\ Goto(r, "failed")

\* Variant: the loop does not remember that it refreshed.
RefreshEveryTime(r) ==
  /\ phase[r] = "dial" /\ ~gone[r]
  /\ phase' = [phase EXCEPT ![r] = "recover"]
  /\ Call(r, TRUE)
  /\ UNCHANGED <<attempt, refreshed>>

\* The first 401 forces a refresh and is not counted, the second one is final.
DialUnauthorized(r) ==
  /\ phase[r] = "dial" /\ ~gone[r]
  /\ IF refreshed[r]
       THEN Goto(r, "failed")
       ELSE /\ phase' = [phase EXCEPT ![r] = "recover"]
            /\ refreshed' = [refreshed EXCEPT ![r] = TRUE]
            /\ Call(r, TRUE)
            /\ UNCHANGED attempt

\* Without a fresh credential the 401 is what the pool is told.
Recovered(r) ==
  /\ phase[r] = "recover" /\ pc[r] = "idle"
  /\ Goto(r, IF outcome[r] = "ok" THEN "dial" ELSE IF gone[r] THEN "canceled" ELSE "failed")

\* Worth dialling again after a pause, unless it was the last attempt.
DialRetryable(r) ==
  /\ phase[r] = "dial" /\ ~gone[r]
  /\ Goto(r, IF attempt[r] < RetryAttemptLimit THEN "backoff" ELSE "failed")

BackoffOver(r) ==
  /\ phase[r] = "backoff"
  /\ \/ gone[r] /\ Goto(r, "failed")
     \/ /\ phase' = [phase EXCEPT ![r] = "dial"]
        /\ attempt' = [attempt EXCEPT ![r] = @ + 1]
        /\ UNCHANGED <<authVars, refreshed>>

StreamStep(r) ==
  \/ Begin(r) \/ Checked(r) \/ Ensured(r) \/ Recovered(r) \/ BackoffOver(r)
  \/ DialOpens(r) \/ DialFatal(r) \/ DialUnauthorized(r) \/ DialRetryable(r)

ClientLeaves(r) ==
  /\ phase[r] \notin Over \cup {"new"}
  /\ Cancel(r)
  /\ UNCHANGED streamVars

Inside(r) == CallerStep(r) /\ UNCHANGED streamVars

RetryNext ==
  \/ \E r \in Callers : StreamStep(r) \/ Inside(r)
  \/ \E r \in Impatient : ClientLeaves(r)
  \/ Others /\ UNCHANGED streamVars

RetrySpec == RetryInit /\ [][RetryNext]_rvars

(* Fairness: goroutines run, an exchange and a dial end (the first within 20  *)
(* seconds, the second within the time-outs of the HTTP client), a login that *)
(* holds commitMu goes on.  Streams, logins, departures and the ageing of a   *)
(* credential are not required.                                               *)
Unfinished(r) == phase[r] # "new" /\ StreamStep(r)
RetryFairness ==
  /\ \A r \in Callers : WF_rvars(Unfinished(r) \/ Inside(r))
  /\ \A c \in Flights : WF_rvars(FlightStep(c) /\ UNCHANGED streamVars)
  /\ \A l \in Logins : WF_rvars(LoginStep(l) /\ UNCHANGED streamVars)
FairRetrySpec == RetrySpec /\ RetryFairness

-------------------------------------------------------------------------------
(* Properties                                                                *)

\* Every request ends, whoever else leaves, logs in or refreshes meanwhile.
EveryStreamReturns ==
  \A r \in Callers : phase[r] = "ensure" ~> phase[r] \in Over
===============================================================================
