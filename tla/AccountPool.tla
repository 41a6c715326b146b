----------------------------- MODULE AccountPool ------------------------------
(***************************************************************************)
(* The account pool of internal/adapter: pool.go (dispatch, fail-over,     *)
(* cooldowns, operator commands), queue.go (slot reservation and the       *)
(* waiting queue) and its use of affinity.go.                              *)
(*                                                                         *)
(* Each request is a goroutine in Pool.Stream; every critical section of   *)
(* p.mu is one action, so whatever happens between two of them (another    *)
(* request, an operator, time) is an interleaving of this model.           *)
(*                                                                         *)
(* Time is kept as countdowns: "until.After(now)" is "left > 0" and Tick   *)
(* lets one unit pass for all of them.  Health scores only weight a random *)
(* choice among candidates (every weight is positive), so the choice is    *)
(* nondeterministic and the scores are left out.  stateCooldown is left    *)
(* out because no code path writes it: cooldownAccount is called with      *)
(* reasonUnauthorized only.                                                *)
(*                                                                         *)
(* A definition introduced by "Variant:" is no part of the model.  It is   *)
(* the definition that follows it with a bug the code could plausibly      *)
(* have; the property it is written for has to notice the difference.      *)
(***************************************************************************)
EXTENDS Naturals, FiniteSets

CONSTANTS
  Accounts,         \* labels of every account that is ever added
  StartAccounts,    \* the accounts present when the gateway starts
  Requests,         \* the request goroutines
  Models,           \* model IDs
  Sessions,         \* session keys
  NoAccount,        \* "no account" (index -1, an absent binding)
  NoSession,        \* a request without a session key
  ModelOf,          \* the model each request asks for
  SessionOf,        \* the session key of each request, or NoSession
  MaxConc,          \* max_concurrency_per_account, 0 = unlimited
  QueueLimit,       \* p.queueLimit
  QueueTimeout,     \* p.queueTimeout, in ticks
  AuthCooldown,     \* cooldownUnauthorized, in ticks
  MaxCooldown,      \* maxCooldown, in ticks
  AffinityMaxKeys,  \* affinityMaxKeys
  RetryAfters,      \* the RetryAfterSeconds an upstream may report, in ticks
  Commands,         \* the operator commands the environment may issue
  Impatient         \* the requests whose client may disconnect

ASSUME PoolConstants ==
  /\ IsFiniteSet(Accounts) /\ StartAccounts \subseteq Accounts
  /\ NoAccount \notin Accounts
  /\ IsFiniteSet(Requests)
  /\ NoSession \notin Sessions
  /\ ModelOf \in [Requests -> Models]
  /\ SessionOf \in [Requests -> Sessions \cup {NoSession}]
  /\ MaxConc \in Nat
  /\ QueueLimit \in Nat \ {0}
  /\ QueueTimeout \in Nat \ {0}
  /\ AuthCooldown \in Nat \ {0}
  /\ MaxCooldown \in Nat \ {0}
  /\ AffinityMaxKeys \in Nat
  /\ RetryAfters \subseteq Nat
  /\ Commands \subseteq {"add", "enable", "disable", "reset", "reauthenticated"}
  /\ Impatient \subseteq Requests

VARIABLES
  pool,       \* the accounts in p.accounts
  state,      \* account state: ready, blocked or disabled
  coolLeft,   \* time until cooldownUntil
  modelLeft,  \* time until modelCooldown[model], per account and model
  affinity,   \* session key -> bound account; an expired entry is absent
  inFlight,   \* the inFlight counter (equal to len(sem) when there is a limit)
  holds,      \* the account of the request's release function, until it ran
  queued,     \* p.queued
  inQueue,    \* reserve's local "queued"
  signalled,  \* the p.changed channel captured by the waiter is closed
  deadline,   \* time left until the waiter's queue deadline
  wakeAt,     \* time left until the waiter's timer fires
  pc,         \* where each request's goroutine is
  attempts,   \* n, the account count read when Stream started
  tried,      \* the accounts this request has tried
  bound,      \* boundIdx, the preferred account of the next reserve
  acct,       \* acc, the account of the current attempt
  failure,    \* the classified failure of the last attempt
  cancelled,  \* ctx.Err() # nil
  result      \* what the last call returned

accountVars == <<pool, state, coolLeft, modelLeft>>
slotVars    == <<inFlight, holds>>
queueVars   == <<queued, inQueue, signalled, deadline, wakeAt>>
callVars    == <<attempts, tried, bound, acct, failure>>
vars == <<pool, state, coolLeft, modelLeft, affinity, inFlight, holds, queued,
          inQueue, signalled, deadline, wakeAt, pc, attempts, tried, bound,
          acct, failure, cancelled, result>>

AccountStates == {"ready", "blocked", "disabled"}

\* The failure classes Pool.Stream tells apart, in the order it tests them:
\* "local" is Local || NoRetry, "rate" is QuotaExhausted || RateLimited.
Failures ==
  [kind : {"local", "unauthorized", "client", "upstream"}, after : {0}]
    \cup [kind : {"rate"}, after : RetryAfters \cup {0}]
NoFailure == [kind |-> "none", after |-> 0]

ResultCodes ==
  {"none", "accepted", "canceled", "local", "client", "upstream", "no_account",
   "no_available_accounts", "all_accounts_blocked", "all_accounts_cooling"}
Result(code) == [code |-> code, after |-> 0]

PCs == {"idle", "lookup", "reserve", "waiting", "reserved", "dial", "failed",
        "unbind", "classify", "exhausted", "leaving", "streaming", "ended",
        "tearing", "closing"}

-------------------------------------------------------------------------------
(* Scheduling predicates                                                     *)

Larger(x, y) == IF x > y THEN x ELSE y
Dec(x) == IF x > 0 THEN x - 1 ELSE 0

\* Time until both cooldowns of (a, m) have run out.
ReadyIn(a, m) == Larger(coolLeft[a], modelLeft[a][m])

\* poolAccount.available: enabled, not blocked, neither level cooling.
Available(a, m) ==
  /\ state[a] \notin {"disabled", "blocked"}
  /\ coolLeft[a] = 0
  /\ modelLeft[a][m] = 0

\* Variant: one slot too many.
CapacityOffByOne(a) == MaxConc = 0 \/ inFlight[a] <= MaxConc

HasCapacity(a) == MaxConc = 0 \/ inFlight[a] < MaxConc

Candidates(r) == {a \in pool \ tried[r] : Available(a, ModelOf[r])}
FreeCandidates(r) == {a \in Candidates(r) : HasCapacity(a)}

\* reserve prefers the bound account; pickByHealthLocked draws any free one.
ReserveChoices(r) ==
  IF bound[r] \in FreeCandidates(r) THEN {bound[r]} ELSE FreeCandidates(r)

\* Variant: the timer knows the deadline only.
WakeAtDeadlineOnly(r, limit) == {limit}

\* When the waiter's timer is set: its queue deadline, or earlier, when an
\* idle account leaves a known cooldown.
WakeTimes(r, limit) ==
  {limit} \cup
  {ReadyIn(a, ModelOf[r]) : a \in
     {b \in pool \ tried[r] :
        /\ HasCapacity(b)
        /\ state[b] \notin {"disabled", "blocked"}
        /\ ReadyIn(b, ModelOf[r]) > 0}}

\* Variant: the last reset instead of the first.
Latest(S) == CHOOSE x \in S : \A y \in S : x >= y

Earliest(S) == CHOOSE x \in S : \A y \in S : x <= y

\* notifyLocked closes the channel every current waiter has captured.
Notify == signalled' = [r \in Requests |-> signalled[r] \/ pc[r] = "waiting"]

\* Variant: a release function that is not wrapped in OnceFunc.
ReleaseEveryTime(r) ==
  IF holds[r] = NoAccount THEN UNCHANGED <<inFlight, holds, signalled>>
  ELSE /\ inFlight' = [inFlight EXCEPT ![holds[r]] = @ - 1]
       /\ Notify
       /\ UNCHANGED holds

\* The release function (sync.OnceFunc): the first call returns the slot.
Release(r) ==
  IF holds[r] = NoAccount THEN UNCHANGED <<inFlight, holds, signalled>>
  ELSE /\ inFlight' = [inFlight EXCEPT ![holds[r]] = @ - 1]
       /\ holds' = [holds EXCEPT ![r] = NoAccount]
       /\ Notify

\* The call is over; the local variables of its loop are gone.
Forget(r) ==
  /\ attempts' = [attempts EXCEPT ![r] = 0]
  /\ tried' = [tried EXCEPT ![r] = {}]
  /\ bound' = [bound EXCEPT ![r] = NoAccount]
  /\ failure' = [failure EXCEPT ![r] = NoFailure]
Finish(r, res) ==
  /\ pc' = [pc EXCEPT ![r] = "idle"]
  /\ Forget(r)
  /\ acct' = [acct EXCEPT ![r] = NoAccount]
  /\ cancelled' = [cancelled EXCEPT ![r] = FALSE]
  /\ result' = [result EXCEPT ![r] = res]
Goto(r, label) == pc' = [pc EXCEPT ![r] = label]

-------------------------------------------------------------------------------
Init ==
  /\ pool = StartAccounts
  /\ state = [a \in Accounts |-> "ready"]
  /\ coolLeft = [a \in Accounts |-> 0]
  /\ modelLeft = [a \in Accounts |-> [m \in Models |-> 0]]
  /\ affinity = [s \in Sessions |-> NoAccount]
  /\ inFlight = [a \in Accounts |-> 0]
  /\ holds = [r \in Requests |-> NoAccount]
  /\ queued = 0
  /\ inQueue = [r \in Requests |-> FALSE]
  /\ signalled = [r \in Requests |-> FALSE]
  /\ deadline = [r \in Requests |-> 0]
  /\ wakeAt = [r \in Requests |-> 0]
  /\ pc = [r \in Requests |-> "idle"]
  /\ attempts = [r \in Requests |-> 0]
  /\ tried = [r \in Requests |-> {}]
  /\ bound = [r \in Requests |-> NoAccount]
  /\ acct = [r \in Requests |-> NoAccount]
  /\ failure = [r \in Requests |-> NoFailure]
  /\ cancelled = [r \in Requests |-> FALSE]
  /\ result = [r \in Requests |-> Result("none")]

-------------------------------------------------------------------------------
(* Pool.Stream: before the loop                                              *)

Arrive(r) ==
  /\ pc[r] = "idle"
  /\ IF pool = {}
       THEN /\ Finish(r, Result("no_account"))
       ELSE /\ Goto(r, IF SessionOf[r] = NoSession THEN "reserve" ELSE "lookup")
            /\ attempts' = [attempts EXCEPT ![r] = Cardinality(pool)]
            /\ result' = [result EXCEPT ![r] = Result("none")]
            /\ UNCHANGED <<tried, bound, acct, failure, cancelled>>
  /\ UNCHANGED <<accountVars, affinity, slotVars, queueVars>>

\* The session's account is preferred if it can serve the model; a binding
\* that cannot be used is dropped.
Lookup(r) ==
  /\ pc[r] = "lookup"
  /\ LET a == affinity[SessionOf[r]] IN
       IF a \in pool /\ Available(a, ModelOf[r])
         THEN bound' = [bound EXCEPT ![r] = a] /\ UNCHANGED affinity
         ELSE /\ affinity' = [affinity EXCEPT ![SessionOf[r]] = NoAccount]
              /\ UNCHANGED bound
  /\ Goto(r, "reserve")
  /\ UNCHANGED <<accountVars, slotVars, queueVars, attempts, tried, acct,
                 failure, cancelled, result>>

-------------------------------------------------------------------------------
(* reserve: choosing an account and taking its slot in one critical section,  *)
(* or waiting for the pool to change                                          *)

ReserveCanceled(r) ==
  /\ pc[r] = "reserve" /\ cancelled[r]
  /\ Goto(r, "leaving")
  /\ result' = [result EXCEPT ![r] = Result("canceled")]
  /\ UNCHANGED <<accountVars, affinity, slotVars, queueVars, callVars, cancelled>>

\* Every account was tried, or no untried one is available: leave the loop.
ReserveNone(r) ==
  /\ pc[r] = "reserve"
  /\ \/ Cardinality(tried[r]) >= attempts[r]
     \/ ~cancelled[r] /\ Candidates(r) = {}
  /\ Goto(r, "exhausted")
  /\ bound' = [bound EXCEPT ![r] = NoAccount]
  /\ UNCHANGED <<accountVars, affinity, slotVars, queueVars, attempts, tried,
                 acct, failure, cancelled, result>>

Reserving(r) ==
  /\ pc[r] = "reserve" /\ ~cancelled[r]
  /\ Cardinality(tried[r]) < attempts[r]
  /\ Candidates(r) # {}

ReserveSlot(r, a) ==
  /\ Reserving(r)
  /\ a \in ReserveChoices(r)
  /\ inFlight' = [inFlight EXCEPT ![a] = @ + 1]
  /\ holds' = [holds EXCEPT ![r] = a]
  /\ acct' = [acct EXCEPT ![r] = a]
  /\ tried' = [tried EXCEPT ![r] = @ \cup {a}]
  /\ bound' = [bound EXCEPT ![r] = NoAccount]
  /\ Goto(r, "reserved")
  /\ UNCHANGED <<accountVars, affinity, queueVars, attempts, failure,
                 cancelled, result>>

\* The queue is full, or the request has no routing time left to wait.
ReserveRefused(r) ==
  /\ Reserving(r) /\ ReserveChoices(r) = {} /\ ~inQueue[r]
  /\ Goto(r, "leaving")
  /\ result' = [result EXCEPT ![r] = Result("local")]
  /\ UNCHANGED <<accountVars, affinity, slotVars, queueVars, callVars, cancelled>>

\* Variant: the queue is not bounded.
JoinUnbounded(r) ==
  \E limit \in 1..QueueTimeout :
    /\ queued' = queued + 1
    /\ inQueue' = [inQueue EXCEPT ![r] = TRUE]
    /\ deadline' = [deadline EXCEPT ![r] = limit]

\* Join the queue; limit is the smaller of queueTimeout and the time the
\* request's execution has left.
JoinQueue(r) ==
  \E limit \in 1..QueueTimeout :
    /\ queued < QueueLimit
    /\ queued' = queued + 1
    /\ inQueue' = [inQueue EXCEPT ![r] = TRUE]
    /\ deadline' = [deadline EXCEPT ![r] = limit]

\* Wait for a change, or until the deadline or a known cooldown has passed.
ReserveWait(r) ==
  /\ Reserving(r) /\ ReserveChoices(r) = {}
  /\ IF inQueue[r] THEN UNCHANGED <<queued, inQueue, deadline>> ELSE JoinQueue(r)
  /\ signalled' = [signalled EXCEPT ![r] = FALSE]
  /\ wakeAt' = [wakeAt EXCEPT ![r] = Earliest(WakeTimes(r, deadline'[r]))]
  /\ Goto(r, "waiting")
  /\ UNCHANGED <<accountVars, affinity, slotVars, callVars, cancelled, result>>

StopWaiting(r) ==
  /\ signalled' = [signalled EXCEPT ![r] = FALSE]
  /\ wakeAt' = [wakeAt EXCEPT ![r] = 0]
  /\ UNCHANGED <<accountVars, affinity, slotVars, queued, inQueue, deadline,
                 callVars, cancelled>>

WakeCanceled(r) ==
  /\ pc[r] = "waiting" /\ cancelled[r]
  /\ Goto(r, "leaving")
  /\ result' = [result EXCEPT ![r] = Result("canceled")]
  /\ StopWaiting(r)

\* Variant: the timer branch does not look at the deadline.
WakeTimerAgain(r) ==
  /\ pc[r] = "waiting" /\ wakeAt[r] = 0
  /\ Goto(r, "reserve")
  /\ StopWaiting(r)
  /\ UNCHANGED result

\* The timer fired: for the deadline (queue_timeout) or for a cooldown.
WakeTimer(r) ==
  /\ pc[r] = "waiting" /\ wakeAt[r] = 0
  /\ IF deadline[r] = 0
       THEN /\ Goto(r, "leaving")
            /\ result' = [result EXCEPT ![r] = Result("local")]
       ELSE Goto(r, "reserve") /\ UNCHANGED result
  /\ StopWaiting(r)

WakeChanged(r) ==
  /\ pc[r] = "waiting" /\ signalled[r]
  /\ Goto(r, "reserve")
  /\ StopWaiting(r)
  /\ UNCHANGED result

\* reserve's deferred function: a critical section of its own.
Dequeue(r) ==
  /\ pc[r] \in {"reserved", "exhausted", "leaving"} /\ inQueue[r]
  /\ queued' = queued - 1
  /\ inQueue' = [inQueue EXCEPT ![r] = FALSE]
  /\ deadline' = [deadline EXCEPT ![r] = 0]
  /\ UNCHANGED <<accountVars, affinity, slotVars, signalled, wakeAt, pc,
                 callVars, cancelled, result>>

Leave(r) ==
  /\ pc[r] = "leaving" /\ ~inQueue[r]
  /\ Finish(r, result[r])
  /\ UNCHANGED <<accountVars, affinity, slotVars, queueVars>>
-------------------------------------------------------------------------------
(* One attempt                                                               *)

\* The client left between the reservation and the dial.
AbortReserved(r) ==
  /\ pc[r] = "reserved" /\ ~inQueue[r] /\ cancelled[r]
  /\ Release(r)
  /\ Finish(r, Result("canceled"))
  /\ UNCHANGED <<accountVars, affinity, queued, inQueue, deadline, wakeAt>>

BeginDial(r) ==
  /\ pc[r] = "reserved" /\ ~inQueue[r] /\ ~cancelled[r]
  /\ Goto(r, "dial")
  /\ UNCHANGED <<accountVars, affinity, slotVars, queueVars, callVars, cancelled, result>>

\* affinityTable.set: a new key needs room, an existing one is overwritten.
Bind(s, a) ==
  IF affinity[s] = NoAccount
     /\ Cardinality({k \in Sessions : affinity[k] # NoAccount}) >= AffinityMaxKeys
    THEN UNCHANGED affinity
    ELSE affinity' = [affinity EXCEPT ![s] = a]

\* The first event arrived: the stream is handed to the caller, who keeps the
\* slot until Recv reports its end or Close has closed the upstream.
DialSucceeds(r) ==
  /\ pc[r] = "dial"
  /\ IF SessionOf[r] = NoSession THEN UNCHANGED affinity
       ELSE Bind(SessionOf[r], acct[r])
  /\ Goto(r, "streaming")
  /\ result' = [result EXCEPT ![r] = Result("accepted")]
  /\ Forget(r)
  /\ UNCHANGED <<accountVars, slotVars, queueVars, acct, cancelled>>

\* The adapter refused, or the first event was an error (stream closed).
DialFails(r, f) ==
  /\ pc[r] = "dial"
  /\ f \in Failures
  /\ failure' = [failure EXCEPT ![r] = f]
  /\ Goto(r, "failed")
  /\ UNCHANGED <<accountVars, affinity, slotVars, queueVars, attempts, tried,
                 bound, acct, cancelled, result>>

\* The slot goes back before the failure is recorded; a local failure ends
\* the call here.
ReleaseFailed(r) ==
  /\ pc[r] = "failed"
  /\ Release(r)
  /\ IF failure[r].kind = "local"
       THEN Finish(r, Result("local"))
       ELSE /\ Goto(r, IF SessionOf[r] = NoSession THEN "classify" ELSE "unbind")
            /\ UNCHANGED <<callVars, cancelled, result>>
  /\ UNCHANGED <<accountVars, affinity, queued, inQueue, deadline, wakeAt>>

\* Variant: the failure drops whatever the session is bound to.
UnbindAnything(r) ==
  /\ pc[r] = "unbind"
  /\ affinity' = [affinity EXCEPT ![SessionOf[r]] = NoAccount]
  /\ Goto(r, "classify")
  /\ UNCHANGED <<accountVars, slotVars, queueVars, callVars, cancelled, result>>

\* The session is unbound only from the account that failed: meanwhile
\* another request of the session may have bound it elsewhere.
Unbind(r) ==
  /\ pc[r] = "unbind"
  /\ IF affinity[SessionOf[r]] = acct[r]
       THEN affinity' = [affinity EXCEPT ![SessionOf[r]] = NoAccount]
       ELSE UNCHANGED affinity
  /\ Goto(r, "classify")
  /\ UNCHANGED <<accountVars, slotVars, queueVars, callVars, cancelled, result>>

Smaller(x, y) == IF x < y THEN x ELSE y

\* Variant: the last report wins.
OverwriteCooldown(a, m, after) ==
  modelLeft' = [modelLeft EXCEPT ![a][m] = Smaller(after, MaxCooldown)]

\* upstreamCooldown and cooldownModel: only a reset time the upstream stated,
\* capped, and never earlier than a cooldown already running.
CooldownModel(a, m, after) ==
  modelLeft' = [modelLeft EXCEPT ![a][m] = Larger(@, Smaller(after, MaxCooldown))]

\* cooldownAccount with reasonUnauthorized: whatever the state was, the
\* account becomes blocked, unless a later cooldown is running.
CooldownAccount(a) ==
  LET d == Smaller(AuthCooldown, MaxCooldown) IN
    IF coolLeft[a] > d THEN UNCHANGED <<state, coolLeft>>
    ELSE /\ coolLeft' = [coolLeft EXCEPT ![a] = d]
         /\ state' = [state EXCEPT ![a] = "blocked"]

NextAttempt(r) ==
  /\ Goto(r, "reserve")
  /\ acct' = [acct EXCEPT ![r] = NoAccount]
  /\ failure' = [failure EXCEPT ![r] = NoFailure]
  /\ UNCHANGED <<attempts, tried, bound, cancelled, result>>

\* What the failure means for the account and for the call.  The back-off
\* sleep after an upstream failure and the test of ctx after the switch end
\* like the test at the head of the loop.
Classify(r) ==
  /\ pc[r] = "classify"
  /\ LET a == acct[r]  f == failure[r] IN
       \/ /\ cancelled[r]
          /\ Finish(r, Result("canceled"))
          /\ UNCHANGED <<state, coolLeft, modelLeft>>
       \/ /\ ~cancelled[r] /\ f.kind = "rate"
          /\ CooldownModel(a, ModelOf[r], f.after)
          /\ NextAttempt(r)
          /\ UNCHANGED <<state, coolLeft>>
       \/ /\ ~cancelled[r] /\ f.kind = "unauthorized"
          /\ CooldownAccount(a)
          /\ NextAttempt(r)
          /\ UNCHANGED modelLeft
       \/ /\ ~cancelled[r] /\ f.kind = "client"
          /\ Finish(r, Result("client"))
          /\ UNCHANGED <<state, coolLeft, modelLeft>>
       \/ /\ ~cancelled[r] /\ f.kind = "upstream"
          /\ NextAttempt(r)
          /\ UNCHANGED <<state, coolLeft, modelLeft>>
  /\ UNCHANGED <<pool, affinity, slotVars, queueVars>>

\* exhaustedFailure: one snapshot of the pool decides what the client is told.
Exhaustion(r) ==
  LET m == ModelOf[r]
      enabled == {a \in pool : state[a] # "disabled"}
      open == {a \in enabled : state[a] # "blocked"}
      resets == {ReadyIn(a, m) : a \in {b \in open : ReadyIn(b, m) > 0}}
  IN CASE \E a \in enabled : Available(a, m) ->
            Result(IF tried[r] = {} THEN "no_available_accounts" ELSE "upstream")
       [] enabled = {} -> Result("no_available_accounts")
       [] enabled # {} /\ open = {} -> Result("all_accounts_blocked")
       [] OTHER -> [code |-> "all_accounts_cooling",
                    after |-> IF resets = {} THEN 0 ELSE Earliest(resets)]

Exhausted(r) ==
  /\ pc[r] = "exhausted" /\ ~inQueue[r]
  /\ Finish(r, Exhaustion(r))
  /\ UNCHANGED <<accountVars, affinity, slotVars, queueVars>>

-------------------------------------------------------------------------------
(* slotStream: the slot is held for the life of the stream                   *)

\* Recv returned an error or the end of the stream: the conversation is over and
\* the slot goes back, whether or not the caller will call Close.
StreamEnds(r) ==
  /\ pc[r] = "streaming"
  /\ Release(r)
  /\ Goto(r, "ended")
  /\ UNCHANGED <<accountVars, affinity, queued, inQueue, deadline, wakeAt,
                 callVars, cancelled, result>>

\* Variant: Close gives the slot back before it closes the upstream.
ReleaseThenClose(r) ==
  /\ pc[r] = "streaming"
  /\ Release(r)
  /\ Goto(r, "tearing")
  /\ UNCHANGED <<accountVars, affinity, queued, inQueue, deadline, wakeAt,
                 callVars, cancelled, result>>

\* The caller closes a stream that has not ended (a client that left, an error
\* of its own): the upstream connection is being torn down.
BeginClose(r) ==
  /\ pc[r] = "streaming"
  /\ Goto(r, "tearing")
  /\ UNCHANGED <<accountVars, affinity, slotVars, queueVars, callVars, cancelled, result>>

\* Close closes the upstream first ...
CloseUpstream(r) ==
  /\ pc[r] \in {"tearing", "ended"}
  /\ Goto(r, "closing")
  /\ UNCHANGED <<accountVars, affinity, slotVars, queueVars, callVars, cancelled, result>>

\* ... and then releases the slot, if Recv has not.
CloseReleases(r) ==
  /\ pc[r] = "closing"
  /\ Release(r)
  /\ Finish(r, result[r])
  /\ UNCHANGED <<accountVars, affinity, queued, inQueue, deadline, wakeAt>>

-------------------------------------------------------------------------------
(* The client, the operator and time                                         *)

Cancel(r) ==
  /\ pc[r] # "idle" /\ ~cancelled[r]
  /\ cancelled' = [cancelled EXCEPT ![r] = TRUE]
  /\ UNCHANGED <<accountVars, affinity, slotVars, queueVars, pc, callVars, result>>

OperatorStep ==
  /\ Notify
  /\ UNCHANGED <<affinity, slotVars, queued, inQueue, deadline, wakeAt, pc,
                 callVars, cancelled, result>>

\* poolwatch found a new credential file.
Add(a) ==
  /\ a \in Accounts \ pool
  /\ pool' = pool \cup {a}
  /\ OperatorStep
  /\ UNCHANGED <<state, coolLeft, modelLeft>>

ClearModels(a) == modelLeft' = [modelLeft EXCEPT ![a] = [m \in Models |-> 0]]

Enable(a) ==
  /\ a \in pool
  /\ IF state[a] = "disabled"
       THEN /\ state' = [state EXCEPT ![a] = "ready"]
            /\ coolLeft' = [coolLeft EXCEPT ![a] = 0]
            /\ ClearModels(a)
       ELSE UNCHANGED <<state, coolLeft, modelLeft>>
  /\ OperatorStep
  /\ UNCHANGED pool

Disable(a) ==
  /\ a \in pool
  /\ state' = [state EXCEPT ![a] = "disabled"]
  /\ coolLeft' = [coolLeft EXCEPT ![a] = 0]
  /\ OperatorStep
  /\ UNCHANGED <<pool, modelLeft>>

\* Refused for a disabled account (waiters are notified all the same).
ResetCooldown(a) ==
  /\ a \in pool
  /\ IF state[a] = "disabled"
       THEN UNCHANGED <<state, coolLeft, modelLeft>>
       ELSE /\ state' = [state EXCEPT ![a] = "ready"]
            /\ coolLeft' = [coolLeft EXCEPT ![a] = 0]
            /\ ClearModels(a)
  /\ OperatorStep
  /\ UNCHANGED pool

\* A new login of the account was committed.
Reauthenticated(a) ==
  /\ a \in pool
  /\ IF state[a] = "blocked"
       THEN /\ state' = [state EXCEPT ![a] = "ready"]
            /\ coolLeft' = [coolLeft EXCEPT ![a] = 0]
       ELSE UNCHANGED <<state, coolLeft>>
  /\ OperatorStep
  /\ UNCHANGED <<pool, modelLeft>>

\* A binding was not used for affinityTTL.
BindingExpires(s) ==
  /\ affinity[s] # NoAccount
  /\ affinity' = [affinity EXCEPT ![s] = NoAccount]
  /\ UNCHANGED <<accountVars, slotVars, queueVars, pc, callVars, cancelled, result>>

TimeRuns ==
  \/ \E a \in Accounts : coolLeft[a] > 0 \/ \E m \in Models : modelLeft[a][m] > 0
  \/ \E r \in Requests : deadline[r] > 0 \/ wakeAt[r] > 0

Tick ==
  /\ TimeRuns
  /\ coolLeft' = [a \in Accounts |-> Dec(coolLeft[a])]
  /\ modelLeft' = [a \in Accounts |-> [m \in Models |-> Dec(modelLeft[a][m])]]
  /\ deadline' = [r \in Requests |-> Dec(deadline[r])]
  /\ wakeAt' = [r \in Requests |-> Dec(wakeAt[r])]
  /\ UNCHANGED <<pool, state, affinity, slotVars, queued, inQueue, signalled,
                 pc, callVars, cancelled, result>>

-------------------------------------------------------------------------------
\* The steps of the request's own goroutine, once it has arrived.
Working(r) ==
  \/ Lookup(r)
  \/ ReserveCanceled(r) \/ ReserveNone(r) \/ ReserveRefused(r) \/ ReserveWait(r)
  \/ \E a \in Accounts : ReserveSlot(r, a)
  \/ WakeCanceled(r) \/ WakeChanged(r)
  \/ Dequeue(r) \/ Leave(r)
  \/ AbortReserved(r) \/ BeginDial(r)
  \/ DialSucceeds(r) \/ \E f \in Failures : DialFails(r, f)
  \/ ReleaseFailed(r) \/ Unbind(r) \/ Classify(r) \/ Exhausted(r)
  \/ StreamEnds(r) \/ BeginClose(r) \/ CloseUpstream(r) \/ CloseReleases(r)

Operate(a) ==
  \/ "add" \in Commands /\ Add(a)
  \/ "enable" \in Commands /\ Enable(a)
  \/ "disable" \in Commands /\ Disable(a)
  \/ "reset" \in Commands /\ ResetCooldown(a)
  \/ "reauthenticated" \in Commands /\ Reauthenticated(a)

RequestStep ==
  \/ \E r \in Requests : Arrive(r) \/ Working(r) \/ WakeTimer(r)
  \/ \E r \in Impatient : Cancel(r)

Next ==
  \/ RequestStep
  \/ \E a \in Accounts : Operate(a)
  \/ \E s \in Sessions : BindingExpires(s)
  \/ Tick

Spec == Init /\ [][Next]_vars

(* Fairness.  A goroutine that can run does; the dial and the stream end      *)
(* because the adapters bound both with timeouts; time passes.  A waiter     *)
(* whose channel keeps being closed by others still takes its timer branch:  *)
(* select chooses among ready branches at random.  Arrivals, cancellations,  *)
(* operator commands and expiries are never required.                        *)
Fairness ==
  /\ \A r \in Requests : WF_vars(Working(r)) /\ SF_vars(WakeTimer(r))
  /\ WF_vars(Tick)
FairSpec == Spec /\ Fairness

-------------------------------------------------------------------------------
(* Properties                                                                *)

TypeOK ==
  /\ pool \subseteq Accounts
  /\ state \in [Accounts -> AccountStates]
  /\ coolLeft \in [Accounts -> Nat]
  /\ modelLeft \in [Accounts -> [Models -> Nat]]
  /\ affinity \in [Sessions -> Accounts \cup {NoAccount}]
  /\ inFlight \in [Accounts -> Nat]
  /\ holds \in [Requests -> Accounts \cup {NoAccount}]
  /\ queued \in Nat
  /\ inQueue \in [Requests -> BOOLEAN]
  /\ signalled \in [Requests -> BOOLEAN]
  /\ deadline \in [Requests -> Nat]
  /\ wakeAt \in [Requests -> Nat]
  /\ pc \in [Requests -> PCs]
  /\ attempts \in [Requests -> Nat]
  /\ tried \in [Requests -> SUBSET Accounts]
  /\ bound \in [Requests -> Accounts \cup {NoAccount}]
  /\ acct \in [Requests -> Accounts \cup {NoAccount}]
  /\ failure \in [Requests -> Failures \cup {NoFailure}]
  /\ cancelled \in [Requests -> BOOLEAN]
  /\ result \in [Requests -> [code : ResultCodes, after : Nat]]

Holders(a) == {r \in Requests : holds[r] = a}
InQueue == {r \in Requests : inQueue[r]}

SlotCount ==
  \A a \in Accounts :
    /\ inFlight[a] = Cardinality(Holders(a))
    /\ MaxConc # 0 => inFlight[a] <= MaxConc
QueueCount == queued = Cardinality(InQueue) /\ queued <= QueueLimit

\* Slots are neither leaked nor returned twice on any path (failure, abort,
\* Recv's release followed by Close's), and the limit is respected: the
\* counter of an account is the number of release functions not yet run, and a
\* call without an attempt under way keeps none.
SlotAccounting ==
  /\ SlotCount
  /\ \A r \in Requests :
       holds[r] # NoAccount =>
         pc[r] \in {"reserved", "dial", "failed", "streaming", "tearing", "closing"}

\* The conversations of an account the upstream may still be serving: dialled or
\* streaming, or being torn down by Close before Recv has reported their end.
Conversing(a) ==
  {r \in Requests : pc[r] \in {"dial", "streaming", "tearing"} /\ acct[r] = a}

\* An account never serves more upstream conversations at once than its limit.
\* slotStream returns the slot as soon as Recv reports the end of the stream,
\* before the caller's Close, because that conversation is over; a stream closed
\* before its end keeps the slot until the upstream connection has been torn down,
\* and a failed dial until its stream is closed.
UpstreamWithinLimit ==
  \A a \in Accounts : MaxConc # 0 => Cardinality(Conversing(a)) <= MaxConc

\* The bounded queue counts exactly the calls that wait or have yet to run
\* reserve's deferred decrement, whichever way they stopped waiting, and a
\* call that returned is no longer counted.
QueueAccounting ==
  /\ QueueCount
  /\ \A r \in Requests : pc[r] \in {"idle", "dial", "streaming"} => ~inQueue[r]

\* A waiter that nobody signalled and whose timer has not fired is not missing
\* anything: every account it could still try is full or unavailable.
NoLostWakeup ==
  \A r \in Requests :
    pc[r] = "waiting" /\ ~signalled[r] /\ wakeAt[r] > 0 => FreeCandidates(r) = {}

\* No request shortens a cooldown another one recorded, at either level: only
\* time and the operator do.
CooldownNeverShortened ==
  [][(\E r \in Requests : Working(r) \/ WakeTimer(r)) =>
       \A a \in Accounts :
         /\ coolLeft'[a] >= coolLeft[a]
         /\ \A m \in Models : modelLeft'[a][m] >= modelLeft[a][m]]_vars

\* A session loses its binding to b only when the binding expires, when b
\* cannot serve the request that looked it up, or when an attempt on b failed:
\* a late failure on another account never undoes a newer binding.
UnbindOnlyOwn ==
  [][\A s \in Sessions : affinity[s] # NoAccount /\ affinity'[s] = NoAccount =>
       \/ BindingExpires(s)
       \/ \E r \in Requests : SessionOf[r] = s /\
            \/ /\ pc[r] = "lookup"
               /\ affinity[s] \notin pool \/ ~Available(affinity[s], ModelOf[r])
            \/ pc[r] = "unbind" /\ acct[r] = affinity[s]]_vars

\* Every call returns and every stream gives its goroutine back, whatever the
\* other requests and the operator do.
EveryCallReturns ==
  \A r \in Requests : pc[r] # "idle" ~> pc[r] = "idle"

\* Forgetting everything but slots and the queue, the pool is a ledger.
Ledger == INSTANCE SlotLedger WITH
  lease <- holds, waiting <- InQueue
LedgerSpec == Ledger!LedgerSpec
===============================================================================
