------------------------------- MODULE PoolRetry -------------------------------
(***************************************************************************)
(* AccountPool with a history variable: what is left of the Retry-After a  *)
(* client was given with all_accounts_cooling.  The pool itself forgets    *)
(* the promise once it has returned it.                                    *)
(***************************************************************************)
EXTENDS AccountPool

VARIABLE promise   \* promise[r] ticks remain of the wait r was told to observe

Cooling(r) == result[r].code = "all_accounts_cooling"

\* A request step may end a call with a new promise.
Promised(r) ==
  IF pc[r] = "exhausted" /\ pc'[r] = "idle" /\ result'[r].code = "all_accounts_cooling"
    THEN result'[r].after
    ELSE promise[r]

RetryInit == Init /\ promise = [r \in Requests |-> 0]
RetryNext ==
  \/ RequestStep /\ promise' = [r \in Requests |-> Promised(r)]
  \/ (\E s \in Sessions : BindingExpires(s)) /\ UNCHANGED promise
  \/ Tick /\ promise' = [r \in Requests |-> Dec(promise[r])]
  \* An operator may repair an account or add one: earlier promises are void.
  \/ (\E a \in Accounts : Operate(a)) /\ promise' = [r \in Requests |-> 0]

RetrySpec == RetryInit /\ [][RetryNext]_<<vars, promise>>

\* "Every account is cooling" always comes with a time to retry at, and a client
\* that was told to wait loses nothing by waiting: until the promised time has
\* passed, whatever the other requests report, no account can serve its model
\* (exhaustedFailure).
RetryPromise ==
  \A r \in Requests :
    /\ Cooling(r) => result[r].after > 0
    /\ promise[r] > 0 => \A a \in pool : ~Available(a, ModelOf[r])
===============================================================================
