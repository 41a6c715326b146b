--------------------------- MODULE AccountPoolProofs ---------------------------
(***************************************************************************)
(* Theorems about AccountPool, PoolRetry and AccountAdmission, for every   *)
(* number of accounts, requests, models and sessions and every value of    *)
(* the limits and timeouts.                                                *)
(*                                                                         *)
(* The inductive invariant IInv joins the type invariant, the accounting   *)
(* of slots and of the queue, what the program counter of a call says of   *)
(* its attempt, and what a sleeping waiter may assume of the accounts.     *)
(***************************************************************************)
EXTENDS PoolRetry, AccountAdmission, InductionLemmas, FiniteSetTheorems, TLAPS

\* What the program counter of a call says of its account, its slot, its failure
\* and its place in the queue.
Place(r) ==
  /\ pc[r] \in {"reserved", "dial", "failed", "streaming", "tearing"} => holds[r] = acct[r]
  /\ holds[r] # NoAccount =>
       pc[r] \in {"reserved", "dial", "failed", "streaming", "tearing", "closing"}
  /\ pc[r] \in {"reserved", "dial", "failed", "unbind", "classify", "streaming", "tearing"}
       => acct[r] \in Accounts
  /\ pc[r] \in {"failed", "unbind", "classify"} => failure[r] \in Failures
  /\ pc[r] \in {"lookup", "unbind"} => SessionOf[r] # NoSession
  /\ inQueue[r] =>
       pc[r] \in {"reserve", "waiting", "reserved", "exhausted", "leaving"}

\* An account a sleeping waiter could still use is full, needs an operator, or
\* stays in a cooldown that does not end before the waiter's timer fires.
Out(a, r) ==
  \/ ~HasCapacity(a)
  \/ state[a] \in {"disabled", "blocked"}
  \/ ReadyIn(a, ModelOf[r]) >= wakeAt[r]
WaitInv ==
  \A r \in Requests :
    pc[r] = "waiting" /\ ~signalled[r] => \A a \in pool \ tried[r] : Out(a, r)

IInv ==
  /\ TypeOK
  /\ SlotCount
  /\ QueueCount
  /\ \A r \in Requests : Place(r)
  /\ WaitInv

-------------------------------------------------------------------------------
\* The CHOOSE in Earliest has a value.
LEMMA EarliestIsLeast ==
  ASSUME NEW S, S \subseteq Nat, S # {}
  PROVE  Earliest(S) \in S /\ \A y \in S : Earliest(S) <= y
BY NatMin DEF Earliest

-------------------------------------------------------------------------------
(* Types                                                                     *)

\* Cardinalities of sets of requests are numbers.
LEMMA HoldersFinite ==
  ASSUME NEW a
  PROVE  IsFiniteSet(Holders(a)) /\ Cardinality(Holders(a)) \in Nat
BY PoolConstants, FS_Subset, FS_CardinalityType DEF Holders

\* An account whose slot somebody holds counts at least one.
LEMMA HeldSlotIsCounted ==
  ASSUME IInv, NEW r \in Requests, holds[r] # NoAccount
  PROVE  holds[r] \in Accounts /\ inFlight[holds[r]] \in Nat \ {0}
<1>1. holds[r] \in Accounts
  BY DEF IInv, TypeOK
<1>2. r \in Holders(holds[r])
  BY DEF Holders
<1>3. Cardinality(Holders(holds[r])) # 0
  BY <1>2, HoldersFinite, FS_EmptySet
<1> QED BY <1>1, <1>3, HoldersFinite DEF IInv, TypeOK, SlotCount

\* The release function keeps the counters numbers.
LEMMA ReleaseType ==
  ASSUME IInv, NEW r \in Requests, Release(r)
  PROVE  /\ inFlight' \in [Accounts -> Nat]
         /\ holds' \in [Requests -> Accounts \cup {NoAccount}]
         /\ signalled' \in [Requests -> BOOLEAN]
<1>1. CASE holds[r] = NoAccount
  BY <1>1 DEF Release, IInv, TypeOK
<1>2. CASE holds[r] # NoAccount
  <2>1. holds[r] \in Accounts /\ inFlight[holds[r]] - 1 \in Nat
    BY <1>2, HeldSlotIsCounted
  <2>2. inFlight' = [inFlight EXCEPT ![holds[r]] = inFlight[holds[r]] - 1]
    BY <1>2 DEF Release
  <2>3. holds' = [holds EXCEPT ![r] = NoAccount]
    BY <1>2 DEF Release
  <2>4. signalled' = [q \in Requests |-> signalled[q] \/ pc[q] = "waiting"]
    BY <1>2 DEF Release, Notify
  <2>5. inFlight' \in [Accounts -> Nat]
    BY <2>1, <2>2 DEF IInv, TypeOK
  <2>6. signalled' \in [Requests -> BOOLEAN]
    BY <2>4
  <2> QED BY <2>3, <2>5, <2>6 DEF IInv, TypeOK
<1> QED BY <1>1, <1>2

\* A timer is set to a number.
LEMMA WakeTimesNat ==
  ASSUME IInv, NEW r \in Requests, NEW limit \in Nat
  PROVE  Earliest(WakeTimes(r, limit)) \in Nat
<1>1. \A a \in Accounts : ReadyIn(a, ModelOf[r]) \in Nat
  BY PoolConstants DEF ReadyIn, Larger, IInv, TypeOK
<1>2. WakeTimes(r, limit) \subseteq Nat /\ WakeTimes(r, limit) # {}
  BY <1>1 DEF WakeTimes, IInv, TypeOK
<1> QED BY <1>2, EarliestIsLeast

\* exhaustedFailure returns one of the failures it may return.
LEMMA ExhaustionType ==
  ASSUME IInv, NEW r \in Requests
  PROVE  Exhaustion(r) \in [code : ResultCodes, after : Nat]
<1> DEFINE m == ModelOf[r]
           enabled == {a \in pool : state[a] # "disabled"}
           open == {a \in enabled : state[a] # "blocked"}
           resets == {ReadyIn(a, m) : a \in {b \in open : ReadyIn(b, m) > 0}}
<1>1. \A a \in Accounts : ReadyIn(a, m) \in Nat
  BY PoolConstants DEF ReadyIn, Larger, IInv, TypeOK
<1>2. resets \subseteq Nat
  BY <1>1 DEF IInv, TypeOK
<1>3. resets # {} => Earliest(resets) \in Nat
  BY <1>2, EarliestIsLeast
<1> HIDE DEF resets
<1> QED BY <1>3 DEF Exhaustion, Result, ResultCodes, resets

\* A cooldown read from a failure is a number.
LEMMA FailureAfter ==
  ASSUME NEW f \in Failures
  PROVE  f.after \in Nat
<1>1. RetryAfters \cup {0} \subseteq Nat
  BY PoolConstants
<1>2. CASE f \in [kind : {"rate"}, after : RetryAfters \cup {0}]
  BY <1>1, <1>2
<1>3. CASE f \in [kind : {"local", "unauthorized", "client", "upstream"}, after : {0}]
  BY <1>3
<1> QED BY <1>2, <1>3 DEF Failures

\* What Finish leaves behind has the right types.
LEMMA FinishType ==
  ASSUME IInv, NEW r \in Requests, NEW res \in [code : ResultCodes, after : Nat],
         Finish(r, res)
  PROVE  /\ pc' \in [Requests -> PCs]
         /\ attempts' \in [Requests -> Nat]
         /\ tried' \in [Requests -> SUBSET Accounts]
         /\ bound' \in [Requests -> Accounts \cup {NoAccount}]
         /\ acct' \in [Requests -> Accounts \cup {NoAccount}]
         /\ failure' \in [Requests -> Failures \cup {NoFailure}]
         /\ cancelled' \in [Requests -> BOOLEAN]
         /\ result' \in [Requests -> [code : ResultCodes, after : Nat]]
BY DEF Finish, Forget, IInv, TypeOK, PCs

\* A result without a retry time is a result.
LEMMA ResultType ==
  \A c \in ResultCodes : Result(c) \in [code : ResultCodes, after : Nat]
BY DEF Result

\* TypeOK', handler by handler: a call arrives.
LEMMA ArriveType ==
  ASSUME IInv, NEW r \in Requests, Arrive(r)
  PROVE  TypeOK'
<1> USE DEF IInv, accountVars, slotVars, queueVars
<1>1. CASE pool = {}
  <2>1. Finish(r, Result("no_account"))
    BY <1>1 DEF Arrive
  <2>2. UNCHANGED <<accountVars, affinity, slotVars, queueVars>>
    BY DEF Arrive
  <2>3. Result("no_account") \in [code : ResultCodes, after : Nat]
    BY ResultType DEF ResultCodes
  <2> QED BY <2>1, <2>2, <2>3, FinishType DEF TypeOK
<1>2. CASE pool # {}
  <2>1. Goto(r, IF SessionOf[r] = NoSession THEN "reserve" ELSE "lookup")
    BY <1>2 DEF Arrive
  <2>2. pc' \in [Requests -> PCs]
    BY <2>1 DEF Goto, PCs, TypeOK
  <2>3. Cardinality(pool) \in Nat
    BY PoolConstants, FS_Subset, FS_CardinalityType DEF TypeOK
  <2>4. attempts' = [attempts EXCEPT ![r] = Cardinality(pool)]
    BY <1>2 DEF Arrive
  <2>5. attempts' \in [Requests -> Nat]
    BY <2>3, <2>4 DEF TypeOK
  <2>6. result' = [result EXCEPT ![r] = Result("none")]
    BY <1>2 DEF Arrive
  <2>7. result' \in [Requests -> [code : ResultCodes, after : Nat]]
    BY <2>6, ResultType DEF TypeOK, ResultCodes
  <2>8. UNCHANGED <<tried, bound, acct, failure, cancelled, accountVars, affinity, slotVars, queueVars>>
    BY <1>2 DEF Arrive
  <2> QED BY <2>2, <2>5, <2>7, <2>8 DEF TypeOK
<1> QED BY <1>1, <1>2

\* Joining the queue and setting the timer.
LEMMA ReserveWaitType ==
  ASSUME IInv, NEW r \in Requests, ReserveWait(r)
  PROVE  TypeOK'
<1>1. /\ queued' \in Nat
      /\ inQueue' \in [Requests -> BOOLEAN]
      /\ deadline' \in [Requests -> Nat]
  <2>1. CASE inQueue[r]
    BY <2>1 DEF ReserveWait, IInv, TypeOK
  <2>2. CASE ~inQueue[r]
    <3>1. JoinQueue(r)
      BY <2>2 DEF ReserveWait
    <3>2. PICK limit \in 1..QueueTimeout :
             /\ queued' = queued + 1
             /\ inQueue' = [inQueue EXCEPT ![r] = TRUE]
             /\ deadline' = [deadline EXCEPT ![r] = limit]
      BY <3>1 DEF JoinQueue
    <3>3. limit \in Nat
      BY PoolConstants
    <3> QED BY <3>2, <3>3 DEF IInv, TypeOK
  <2> QED BY <2>1, <2>2
<1>2. Earliest(WakeTimes(r, deadline'[r])) \in Nat
  BY <1>1, WakeTimesNat
<1> QED BY <1>1, <1>2 DEF ReserveWait, Goto, IInv, TypeOK, PCs,
            accountVars, slotVars, callVars

\* Taking a slot.
LEMMA ReserveSlotType ==
  ASSUME IInv, NEW r \in Requests, NEW a \in Accounts, ReserveSlot(r, a)
  PROVE  TypeOK'
<1>1. inFlight' \in [Accounts -> Nat] /\ tried' \in [Requests -> SUBSET Accounts]
  BY DEF ReserveSlot, IInv, TypeOK
<1> QED BY <1>1 DEF ReserveSlot, Goto, IInv, TypeOK, PCs, accountVars, queueVars

\* The counter of the queue does not become negative: the call itself is counted.
LEMMA DequeueType ==
  ASSUME IInv, NEW r \in Requests, Dequeue(r)
  PROVE  TypeOK'
<1>1. r \in InQueue /\ IsFiniteSet(InQueue)
  BY PoolConstants, FS_Subset DEF InQueue, Dequeue
<1>2. Cardinality(InQueue) \in Nat \ {0}
  BY <1>1, FS_EmptySet, FS_CardinalityType
<1>3. queued - 1 \in Nat
  BY <1>2 DEF IInv, QueueCount
<1> QED BY <1>3 DEF Dequeue, IInv, TypeOK, accountVars, slotVars, callVars

\* The end of a failed attempt.
LEMMA ReleaseFailedType ==
  ASSUME IInv, NEW r \in Requests, ReleaseFailed(r)
  PROVE  TypeOK'
<1> USE DEF accountVars
<1>1. Release(r) /\ UNCHANGED <<accountVars, affinity, queued, inQueue, deadline, wakeAt>>
  BY DEF ReleaseFailed
<1>2. CASE failure[r].kind = "local"
  <2>1. Finish(r, Result("local")) /\ Result("local") \in [code : ResultCodes, after : Nat]
    BY <1>2, ResultType DEF ReleaseFailed, ResultCodes
  <2> QED BY <1>1, <2>1, FinishType, ReleaseType DEF IInv, TypeOK
<1>3. CASE failure[r].kind # "local"
  <2>1. /\ Goto(r, IF SessionOf[r] = NoSession THEN "classify" ELSE "unbind")
        /\ UNCHANGED <<callVars, cancelled, result>>
    BY <1>3 DEF ReleaseFailed
  <2>2. pc' \in [Requests -> PCs]
    BY <2>1 DEF Goto, PCs, IInv, TypeOK
  <2> QED BY <1>1, <2>1, <2>2, ReleaseType DEF IInv, TypeOK, callVars
<1> QED BY <1>2, <1>3

\* Classify: cooldowns stay numbers and states stay states ...
LEMMA ClassifyAccounts ==
  ASSUME IInv, NEW r \in Requests, Classify(r)
  PROVE  /\ acct[r] \in Accounts
         /\ state' \in [Accounts -> AccountStates]
         /\ coolLeft' \in [Accounts -> Nat]
         /\ modelLeft' \in [Accounts -> [Models -> Nat]]
<1>1. acct[r] \in Accounts /\ failure[r] \in Failures /\ ModelOf[r] \in Models
  BY PoolConstants DEF Place, Classify, IInv
<1>2. failure[r].after \in Nat /\ MaxCooldown \in Nat /\ AuthCooldown \in Nat
  BY <1>1, FailureAfter, PoolConstants
<1>3. ASSUME CooldownModel(acct[r], ModelOf[r], failure[r].after)
      PROVE  modelLeft' \in [Accounts -> [Models -> Nat]]
  BY <1>1, <1>2, <1>3 DEF CooldownModel, Larger, Smaller, IInv, TypeOK
<1>4. ASSUME CooldownAccount(acct[r])
      PROVE  state' \in [Accounts -> AccountStates] /\ coolLeft' \in [Accounts -> Nat]
  <2> DEFINE d == Smaller(AuthCooldown, MaxCooldown)
  <2>1. d \in Nat
    BY <1>2 DEF Smaller
  <2>2. CASE coolLeft[acct[r]] > d
    BY <1>4, <2>2 DEF CooldownAccount, IInv, TypeOK
  <2>3. CASE ~(coolLeft[acct[r]] > d)
    <3>1. /\ coolLeft' = [coolLeft EXCEPT ![acct[r]] = d]
          /\ state' = [state EXCEPT ![acct[r]] = "blocked"]
      BY <1>4, <2>3 DEF CooldownAccount
    <3> HIDE DEF d
    <3> QED BY <2>1, <3>1 DEF IInv, TypeOK, AccountStates
  <2> QED BY <2>2, <2>3
<1>5. /\ UNCHANGED <<state, coolLeft>> \/ CooldownAccount(acct[r])
      /\ UNCHANGED modelLeft \/ CooldownModel(acct[r], ModelOf[r], failure[r].after)
  BY DEF Classify
<1>6. UNCHANGED <<state, coolLeft>> =>
        state' \in [Accounts -> AccountStates] /\ coolLeft' \in [Accounts -> Nat]
  BY DEF IInv, TypeOK
<1>7. UNCHANGED modelLeft => modelLeft' \in [Accounts -> [Models -> Nat]]
  BY DEF IInv, TypeOK
<1> QED BY <1>1, <1>3, <1>4, <1>5, <1>6, <1>7

\* ... and the call goes on or ends.
LEMMA ClassifyType ==
  ASSUME IInv, NEW r \in Requests, Classify(r)
  PROVE  TypeOK'
<1> USE DEF accountVars, slotVars, queueVars
<1>1. UNCHANGED <<pool, affinity, slotVars, queueVars>>
  BY DEF Classify
<1>2. CASE \E c \in {"canceled", "client"} : Finish(r, Result(c))
  <2>1. PICK c \in {"canceled", "client"} : Finish(r, Result(c))
    BY <1>2
  <2>2. Result(c) \in [code : ResultCodes, after : Nat]
    BY ResultType DEF ResultCodes
  <2> QED BY <1>1, <2>1, <2>2, FinishType, ClassifyAccounts DEF IInv, TypeOK
<1>3. CASE NextAttempt(r)
  <2>1. /\ pc' \in [Requests -> PCs]
        /\ acct' \in [Requests -> Accounts \cup {NoAccount}]
        /\ failure' \in [Requests -> Failures \cup {NoFailure}]
        /\ UNCHANGED <<attempts, tried, bound, cancelled, result>>
    BY <1>3 DEF NextAttempt, Goto, PCs, IInv, TypeOK
  <2> QED BY <1>1, <2>1, ClassifyAccounts DEF IInv, TypeOK
<1>4. (\E c \in {"canceled", "client"} : Finish(r, Result(c))) \/ NextAttempt(r)
  BY DEF Classify
<1> QED BY <1>2, <1>3, <1>4

\* The remaining handlers assign one or two variables each.
LEMMA CallType ==
  ASSUME IInv, NEW r \in Requests,
         Arrive(r) \/ Working(r) \/ WakeTimer(r) \/ Cancel(r)
  PROVE  TypeOK'
<1> USE PoolConstants DEF IInv, TypeOK, Goto, accountVars, slotVars, queueVars, callVars
<1>1. CASE Arrive(r)
  BY <1>1, ArriveType
<1>2. CASE Lookup(r)
  <2>1. pc' \in [Requests -> PCs]
    BY <1>2 DEF Lookup, PCs
  <2>2. affinity[SessionOf[r]] \in Accounts \cup {NoAccount}
    BY <1>2 DEF Lookup, Place
  <2>3. affinity' \in [Sessions -> Accounts \cup {NoAccount}] /\ bound' \in [Requests -> Accounts \cup {NoAccount}]
    BY <1>2, <2>2 DEF Lookup
  <2>4. UNCHANGED <<accountVars, slotVars, queueVars, attempts, tried, acct, failure, cancelled, result>>
    BY <1>2 DEF Lookup
  <2> QED BY <2>1, <2>3, <2>4
<1>3. CASE ReserveCanceled(r)
  BY <1>3 DEF ReserveCanceled, PCs, Result, ResultCodes
<1>24. CASE ReserveRefused(r)
  BY <1>24 DEF ReserveRefused, PCs, Result, ResultCodes
<1>4. CASE ReserveNone(r)
  BY <1>4 DEF ReserveNone, PCs
<1>5. CASE \E a \in Accounts : ReserveSlot(r, a)
  BY <1>5, ReserveSlotType
<1>6. CASE ReserveWait(r)
  BY <1>6, ReserveWaitType
<1>7. CASE WakeCanceled(r)
  BY <1>7 DEF WakeCanceled, StopWaiting, PCs, Result, ResultCodes
<1>8. CASE WakeTimer(r)
  <2>1. CASE deadline[r] = 0
    <3>1. pc' = [pc EXCEPT ![r] = "leaving"] /\ result' = [result EXCEPT ![r] = Result("local")]
      BY <1>8, <2>1 DEF WakeTimer
    <3>2. pc' \in [Requests -> PCs]
      BY <3>1 DEF PCs
    <3>3. result' \in [Requests -> [code : ResultCodes, after : Nat]]
      BY <3>1 DEF Result, ResultCodes
    <3> QED BY <1>8, <3>2, <3>3 DEF WakeTimer, StopWaiting
  <2>2. CASE deadline[r] # 0
    BY <1>8, <2>2 DEF WakeTimer, StopWaiting, PCs
  <2> QED BY <2>1, <2>2
<1>9. CASE WakeChanged(r)
  BY <1>9 DEF WakeChanged, StopWaiting, PCs
<1>10. CASE Dequeue(r)
  BY <1>10, DequeueType
<1>11. CASE Leave(r)
  BY <1>11, FinishType DEF Leave
<1>12. CASE AbortReserved(r)
  <2>1. Result("canceled") \in [code : ResultCodes, after : Nat]
    BY DEF Result, ResultCodes
  <2>2. Release(r) /\ Finish(r, Result("canceled"))
    BY <1>12 DEF AbortReserved
  <2> HIDE DEF Finish, Goto
  <2> QED BY <1>12, <2>1, <2>2, ReleaseType, FinishType DEF AbortReserved
<1>13. CASE BeginDial(r)
  BY <1>13 DEF BeginDial, PCs
<1>14. CASE DialSucceeds(r)
  BY <1>14 DEF DialSucceeds, Forget, Bind, PCs, Result, ResultCodes
<1>15. CASE \E f \in Failures : DialFails(r, f)
  BY <1>15 DEF DialFails, PCs
<1>16. CASE ReleaseFailed(r)
  BY <1>16, ReleaseFailedType
<1>17. CASE Unbind(r)
  BY <1>17 DEF Unbind, PCs
<1>18. CASE Classify(r)
  BY <1>18, ClassifyType
<1>19. CASE Exhausted(r)
  BY <1>19, ExhaustionType, FinishType DEF Exhausted
<1>20. CASE StreamEnds(r)
  BY <1>20, ReleaseType DEF StreamEnds, PCs
<1>21. CASE BeginClose(r)
  BY <1>21 DEF BeginClose, PCs
<1>25. CASE CloseUpstream(r)
  BY <1>25 DEF CloseUpstream, PCs
<1>22. CASE CloseReleases(r)
  BY <1>22, ReleaseType, FinishType DEF CloseReleases
<1>23. CASE Cancel(r)
  BY <1>23 DEF Cancel
<1> HIDE DEF IInv, TypeOK, Goto
<1> QED BY <1>1, <1>2, <1>3, <1>4, <1>5, <1>6, <1>7, <1>8, <1>9, <1>10, <1>11,
           <1>12, <1>13, <1>14, <1>15, <1>16, <1>17, <1>18, <1>19, <1>20, <1>21,
           <1>22, <1>23, <1>24, <1>25 DEF Working

\* An operator command changes the accounts and tells the waiters.
LEMMA OperateType ==
  ASSUME IInv, NEW a \in Accounts, Operate(a)
  PROVE  TypeOK'
<1>1. OperatorStep /\ signalled' \in [Requests -> BOOLEAN]
  BY DEF Operate, Add, Enable, Disable, ResetCooldown, Reauthenticated, OperatorStep, Notify
<1>2. pool' \subseteq Accounts
  BY DEF Operate, Add, Enable, Disable, ResetCooldown, Reauthenticated, IInv, TypeOK
<1> DEFINE Fixed == UNCHANGED <<state, coolLeft, modelLeft>>
           Revived == /\ state' = [state EXCEPT ![a] = "ready"]
                      /\ coolLeft' = [coolLeft EXCEPT ![a] = 0]
                      /\ UNCHANGED modelLeft \/ ClearModels(a)
           Stopped == /\ state' = [state EXCEPT ![a] = "disabled"]
                      /\ coolLeft' = [coolLeft EXCEPT ![a] = 0]
                      /\ UNCHANGED modelLeft
           Goal == /\ state' \in [Accounts -> AccountStates]
                   /\ coolLeft' \in [Accounts -> Nat]
                   /\ modelLeft' \in [Accounts -> [Models -> Nat]]
<1>3. Fixed \/ Revived \/ Stopped
  BY DEF Operate, Add, Enable, Disable, ResetCooldown, Reauthenticated
<1>4. Fixed => Goal
  BY DEF IInv, TypeOK
<1>5. Revived => Goal
  <2>1. UNCHANGED modelLeft \/ ClearModels(a) => modelLeft' \in [Accounts -> [Models -> Nat]]
    <3>1. [m \in Models |-> 0] \in [Models -> Nat]
      OBVIOUS
    <3> QED BY <3>1 DEF IInv, TypeOK, ClearModels
  <2> QED BY <2>1 DEF IInv, TypeOK, AccountStates
<1>6. Stopped => Goal
  BY DEF IInv, TypeOK, AccountStates
<1>7. Goal
  BY <1>3, <1>4, <1>5, <1>6
<1> QED BY <1>1, <1>2, <1>7 DEF OperatorStep, slotVars, callVars, IInv, TypeOK

\* TypeOK is preserved by every step.
LEMMA TypeStep ==
  ASSUME IInv, [Next]_vars
  PROVE  TypeOK'
<1>1. CASE RequestStep
  BY <1>1, CallType, PoolConstants DEF RequestStep
<1>2. CASE \E a \in Accounts : Operate(a)
  BY <1>2, OperateType
<1>3. CASE \E s \in Sessions : BindingExpires(s)
  BY <1>3 DEF BindingExpires, IInv, TypeOK, accountVars, slotVars, queueVars, callVars
<1>4. CASE Tick
  BY <1>4 DEF Tick, Dec, IInv, TypeOK, slotVars, callVars
<1>5. CASE UNCHANGED vars
  BY <1>5 DEF vars, IInv, TypeOK
<1> QED BY <1>1, <1>2, <1>3, <1>4, <1>5 DEF Next

-------------------------------------------------------------------------------
(* Counting slots and queue places                                           *)

\* Returning a slot: one holder less, one less in flight.
LEMMA ReleaseCounts ==
  ASSUME IInv, NEW r \in Requests, Release(r)
  PROVE  /\ SlotCount'
         /\ holds'[r] = NoAccount
         /\ \A q \in Requests \ {r} : holds'[q] = holds[q]
<1>1. CASE holds[r] = NoAccount
  <2>1. UNCHANGED <<inFlight, holds>>
    BY <1>1 DEF Release
  <2> QED BY <1>1, <2>1 DEF IInv, SlotCount, Holders
<1>2. CASE holds[r] # NoAccount
  <2> DEFINE h == holds[r]
  <2>1. h \in Accounts /\ inFlight[h] \in Nat \ {0}
    BY <1>2, HeldSlotIsCounted
  <2>2. inFlight' = [inFlight EXCEPT ![h] = inFlight[h] - 1]
    BY <1>2 DEF Release
  <2>3. holds' = [holds EXCEPT ![r] = NoAccount]
    BY <1>2 DEF Release
  <2>4. holds'[r] = NoAccount /\ \A q \in Requests \ {r} : holds'[q] = holds[q]
    BY <2>3 DEF IInv, TypeOK
  <2>5. ASSUME NEW a \in Accounts
        PROVE  /\ inFlight'[a] = Cardinality(Holders(a)')
               /\ MaxConc # 0 => inFlight'[a] <= MaxConc
    <3>1. /\ inFlight[a] = Cardinality(Holders(a)) /\ inFlight[a] \in Nat
          /\ MaxConc # 0 => inFlight[a] <= MaxConc
      BY DEF IInv, SlotCount, TypeOK
    <3>2. CASE a = h
      <4>1. Holders(a)' = Holders(a) \ {r} /\ r \in Holders(a)
        BY <2>1, <2>4, <3>2, PoolConstants DEF Holders
      <4>2. Cardinality(Holders(a)') = Cardinality(Holders(a)) - 1
        BY <4>1, HoldersFinite, FS_RemoveElement
      <4>3. inFlight'[a] = inFlight[a] - 1
        BY <2>1, <2>2, <3>2 DEF IInv, TypeOK
      <4> QED BY <3>1, <4>2, <4>3, PoolConstants
    <3>3. CASE a # h
      <4>1. Holders(a)' = Holders(a)
        BY <2>4, <3>3, PoolConstants DEF Holders
      <4>2. inFlight'[a] = inFlight[a]
        BY <2>2, <3>3 DEF IInv, TypeOK
      <4> QED BY <3>1, <4>1, <4>2
    <3> QED BY <3>2, <3>3
  <2> QED BY <2>4, <2>5 DEF SlotCount
<1> QED BY <1>1, <1>2

\* Taking a free slot of an account with capacity.
LEMMA ReserveCounts ==
  ASSUME IInv, NEW r \in Requests, NEW a \in Accounts, ReserveSlot(r, a)
  PROVE  SlotCount' /\ holds[r] = NoAccount /\ HasCapacity(a)
<1>1. holds[r] = NoAccount
  BY DEF ReserveSlot, Reserving, IInv, Place
<1>2. HasCapacity(a)
  BY DEF ReserveSlot, ReserveChoices, FreeCandidates
<1>3. /\ inFlight' = [inFlight EXCEPT ![a] = inFlight[a] + 1]
      /\ holds' = [holds EXCEPT ![r] = a]
  BY DEF ReserveSlot
<1>4. ASSUME NEW b \in Accounts
      PROVE  /\ inFlight'[b] = Cardinality(Holders(b)')
             /\ MaxConc # 0 => inFlight'[b] <= MaxConc
  <2>1. /\ inFlight[b] = Cardinality(Holders(b)) /\ inFlight[b] \in Nat
        /\ MaxConc # 0 => inFlight[b] <= MaxConc
    BY DEF IInv, SlotCount, TypeOK
  <2>2. CASE b = a
    <3>1. Holders(b)' = Holders(b) \cup {r} /\ r \notin Holders(b)
      BY <1>1, <1>3, <2>2, PoolConstants DEF Holders, IInv, TypeOK
    <3>2. Cardinality(Holders(b)') = Cardinality(Holders(b)) + 1
      BY <3>1, HoldersFinite, FS_AddElement
    <3>3. inFlight'[b] = inFlight[b] + 1
      BY <1>3, <2>2 DEF IInv, TypeOK
    <3> QED BY <1>2, <2>1, <2>2, <3>2, <3>3, PoolConstants DEF HasCapacity
  <2>3. CASE b # a
    <3>1. Holders(b)' = Holders(b)
      BY <1>1, <1>3, <2>3, PoolConstants DEF Holders, IInv, TypeOK
    <3>2. inFlight'[b] = inFlight[b]
      BY <1>3, <2>3 DEF IInv, TypeOK
    <3> QED BY <2>1, <3>1, <3>2
  <2> QED BY <2>2, <2>3
<1> QED BY <1>1, <1>2, <1>4 DEF SlotCount

\* Steps that leave the slots alone.
LEMMA SlotsKept ==
  ASSUME IInv, UNCHANGED slotVars
  PROVE  SlotCount'
BY DEF IInv, SlotCount, Holders, slotVars

\* The queue is finite.
LEMMA InQueueFinite == IsFiniteSet(InQueue) /\ Cardinality(InQueue) \in Nat
BY PoolConstants, FS_Subset, FS_CardinalityType DEF InQueue

\* Joining the queue counts the call, below the limit.
LEMMA JoinCounts ==
  ASSUME IInv, NEW r \in Requests, ~inQueue[r], JoinQueue(r)
  PROVE  /\ QueueCount'
         /\ InQueue' = InQueue \cup {r}
         /\ queued < QueueLimit
         /\ inQueue' = [inQueue EXCEPT ![r] = TRUE]
<1>1. /\ queued < QueueLimit
      /\ queued' = queued + 1
      /\ inQueue' = [inQueue EXCEPT ![r] = TRUE]
  BY DEF JoinQueue
<1>2. InQueue' = InQueue \cup {r} /\ r \notin InQueue
  BY <1>1 DEF InQueue, IInv, TypeOK
<1>3. Cardinality(InQueue') = Cardinality(InQueue) + 1
  BY <1>2, InQueueFinite, FS_AddElement
<1>4. queued = Cardinality(InQueue) /\ queued \in Nat /\ QueueLimit \in Nat
  BY PoolConstants DEF IInv, QueueCount, TypeOK
<1> QED BY <1>1, <1>2, <1>3, <1>4 DEF QueueCount

\* The deferred decrement uncounts it.
LEMMA DequeueCounts ==
  ASSUME IInv, NEW r \in Requests, Dequeue(r)
  PROVE  QueueCount' /\ InQueue' = InQueue \ {r} /\ r \in InQueue
<1>1. /\ queued' = queued - 1
      /\ inQueue' = [inQueue EXCEPT ![r] = FALSE]
      /\ inQueue[r]
  BY DEF Dequeue
<1>2. InQueue' = InQueue \ {r} /\ r \in InQueue
  BY <1>1 DEF InQueue, IInv, TypeOK
<1>3. Cardinality(InQueue') = Cardinality(InQueue) - 1
  BY <1>2, InQueueFinite, FS_RemoveElement
<1>4. queued = Cardinality(InQueue) /\ queued \in Nat /\ QueueLimit \in Nat /\ queued <= QueueLimit
  BY PoolConstants DEF IInv, QueueCount, TypeOK
<1> QED BY <1>1, <1>2, <1>3, <1>4 DEF QueueCount

\* Steps that leave the queue alone.
LEMMA QueueKept ==
  ASSUME IInv, UNCHANGED <<queued, inQueue>>
  PROVE  QueueCount' /\ InQueue' = InQueue
BY DEF IInv, QueueCount, InQueue

-------------------------------------------------------------------------------
(* Where each call is                                                        *)

\* A release returns the call's own slot only.
LEMMA ReleaseOwn ==
  ASSUME IInv, NEW r \in Requests, Release(r)
  PROVE  holds' = [holds EXCEPT ![r] = NoAccount]
BY DEF Release, IInv, TypeOK

\* A call that returns without a slot and out of the queue is in its place.
LEMMA FinishPlace ==
  ASSUME IInv, NEW r \in Requests, NEW res, Finish(r, res),
         holds' = [holds EXCEPT ![r] = NoAccount],
         ~inQueue[r], inQueue' = inQueue
  PROVE  \A q \in Requests : Place(q)'
BY DEF Finish, Forget, Place, IInv, TypeOK

\* A call without a slot.
LEMMA NoSlotPlace ==
  ASSUME IInv, NEW r \in Requests, UNCHANGED holds,
         pc[r] \notin {"reserved", "dial", "failed", "streaming", "tearing", "closing"}
  PROVE  holds' = [holds EXCEPT ![r] = NoAccount]
BY DEF Place, IInv, TypeOK

\* The steps of a call keep every call in its place.
LEMMA CallPlace ==
  ASSUME IInv, NEW r \in Requests,
         Arrive(r) \/ Working(r) \/ WakeTimer(r) \/ Cancel(r)
  PROVE  \A q \in Requests : Place(q)'
<1> USE PoolConstants DEF IInv, TypeOK, Place, Goto, accountVars, slotVars, queueVars, callVars
<1>1. CASE Arrive(r)
  <2>1. CASE pool = {}
    BY <1>1, <2>1, NoSlotPlace, FinishPlace DEF Arrive
  <2>2. CASE pool # {}
    <3>1. PICK w \in {"reserve", "lookup"} : pc' = [pc EXCEPT ![r] = w]
      BY <1>1, <2>2 DEF Arrive
    <3>2. UNCHANGED <<holds, acct, failure, inQueue>> /\ pc[r] = "idle"
      BY <1>1, <2>2 DEF Arrive
    <3>3. w = "lookup" => SessionOf[r] # NoSession
      BY <1>1, <2>2, <3>1 DEF Arrive
    <3> QED BY <3>1, <3>2, <3>3
  <2> QED BY <2>1, <2>2
<1>2. CASE Lookup(r)
  BY <1>2 DEF Lookup
<1>3. CASE ReserveCanceled(r)
  BY <1>3 DEF ReserveCanceled
<1>24. CASE ReserveRefused(r)
  BY <1>24 DEF ReserveRefused, Reserving
<1>4. CASE ReserveNone(r)
  BY <1>4 DEF ReserveNone
<1>5. CASE \E a \in Accounts : ReserveSlot(r, a)
  <2>1. PICK a \in Accounts : ReserveSlot(r, a)
    BY <1>5
  <2>2. /\ holds' = [holds EXCEPT ![r] = a]
        /\ acct' = [acct EXCEPT ![r] = a]
        /\ pc' = [pc EXCEPT ![r] = "reserved"]
        /\ UNCHANGED <<failure, inQueue>>
    BY <2>1 DEF ReserveSlot
  <2> QED BY <2>2
<1>6. CASE ReserveWait(r)
  <2>1. inQueue' = [inQueue EXCEPT ![r] = TRUE]
    BY <1>6 DEF ReserveWait, JoinQueue
  <2> QED BY <1>6, <2>1 DEF ReserveWait, Reserving
<1>7. CASE WakeCanceled(r)
  BY <1>7 DEF WakeCanceled, StopWaiting
<1>8. CASE WakeTimer(r)
  BY <1>8 DEF WakeTimer, StopWaiting
<1>9. CASE WakeChanged(r)
  BY <1>9 DEF WakeChanged, StopWaiting
<1>10. CASE Dequeue(r)
  BY <1>10 DEF Dequeue
<1>11. CASE Leave(r)
  BY <1>11, NoSlotPlace, FinishPlace DEF Leave
<1>12. CASE AbortReserved(r)
  BY <1>12, ReleaseOwn, FinishPlace DEF AbortReserved
<1>13. CASE BeginDial(r)
  BY <1>13 DEF BeginDial
<1>14. CASE DialSucceeds(r)
  BY <1>14 DEF DialSucceeds, Forget
<1>15. CASE \E f \in Failures : DialFails(r, f)
  BY <1>15 DEF DialFails
<1>16. CASE ReleaseFailed(r)
  <2>1. holds' = [holds EXCEPT ![r] = NoAccount] /\ ~inQueue[r] /\ inQueue' = inQueue
    BY <1>16, ReleaseOwn DEF ReleaseFailed
  <2>2. CASE failure[r].kind = "local"
    BY <1>16, <2>1, <2>2, FinishPlace DEF ReleaseFailed
  <2>3. CASE failure[r].kind # "local"
    BY <1>16, <2>1, <2>3 DEF ReleaseFailed
  <2> QED BY <2>2, <2>3
<1>17. CASE Unbind(r)
  BY <1>17 DEF Unbind
<1>18. CASE Classify(r)
  <2>1. ~inQueue[r] /\ inQueue' = inQueue /\ UNCHANGED holds
    BY <1>18 DEF Classify
  <2>2. CASE NextAttempt(r)
    BY <1>18, <2>1, <2>2 DEF Classify, NextAttempt
  <2>3. CASE \E c \in {"canceled", "client"} : Finish(r, Result(c))
    BY <1>18, <2>1, <2>3, NoSlotPlace, FinishPlace DEF Classify
  <2> QED BY <1>18, <2>2, <2>3 DEF Classify
<1>19. CASE Exhausted(r)
  BY <1>19, NoSlotPlace, FinishPlace DEF Exhausted
<1>20. CASE StreamEnds(r)
  BY <1>20, ReleaseOwn DEF StreamEnds
<1>21. CASE BeginClose(r)
  BY <1>21 DEF BeginClose
<1>25. CASE CloseUpstream(r)
  BY <1>25 DEF CloseUpstream
<1>22. CASE CloseReleases(r)
  BY <1>22, ReleaseOwn, FinishPlace DEF CloseReleases
<1>23. CASE Cancel(r)
  BY <1>23 DEF Cancel
<1> HIDE DEF IInv, TypeOK, Place, Goto
<1> QED BY <1>1, <1>2, <1>3, <1>4, <1>5, <1>6, <1>7, <1>8, <1>9, <1>10, <1>11,
           <1>12, <1>13, <1>14, <1>15, <1>16, <1>17, <1>18, <1>19, <1>20, <1>21,
           <1>22, <1>23, <1>24, <1>25 DEF Working

\* Every step keeps every call in its place.
LEMMA PlaceStep ==
  ASSUME IInv, [Next]_vars
  PROVE  \A q \in Requests : Place(q)'
<1>1. CASE RequestStep
  BY <1>1, CallPlace, PoolConstants DEF RequestStep
<1>2. CASE UNCHANGED <<holds, acct, failure, pc, inQueue>>
  BY <1>2 DEF IInv, Place
<1>3. CASE \E a \in Accounts : Operate(a)
  BY <1>2, <1>3 DEF Operate, Add, Enable, Disable, ResetCooldown, Reauthenticated,
     OperatorStep, slotVars, callVars
<1>4. CASE (\E s \in Sessions : BindingExpires(s)) \/ Tick \/ UNCHANGED vars
  BY <1>2, <1>4 DEF BindingExpires, Tick, vars, slotVars, callVars, queueVars
<1> QED BY <1>1, <1>3, <1>4 DEF Next

-------------------------------------------------------------------------------
(* Counts                                                                    *)

\* A step does one thing to the slots and the queue: it returns a slot, takes
\* one, leaves the queue, may join it, or none of these.
LEMMA OneMove ==
  ASSUME [Next]_vars
  PROVE  \/ UNCHANGED <<slotVars, queued, inQueue>>
         \/ \E r \in Requests : Release(r) /\ UNCHANGED <<queued, inQueue>>
         \/ \E r \in Requests, a \in Accounts : ReserveSlot(r, a)
         \/ \E r \in Requests : Dequeue(r) \/ ReserveWait(r)
<1> DEFINE Still == UNCHANGED <<slotVars, queued, inQueue>>
           Frees(r) == Release(r) /\ UNCHANGED <<queued, inQueue>>
<1>1. ASSUME NEW r \in Requests, Arrive(r) PROVE Still
  BY <1>1 DEF Arrive, slotVars, queueVars
<1>2. ASSUME NEW r \in Requests, Cancel(r) PROVE Still
  BY <1>2 DEF Cancel, slotVars, queueVars
<1>3. ASSUME NEW r \in Requests, WakeTimer(r) \/ WakeChanged(r) \/ WakeCanceled(r) PROVE Still
  BY <1>3 DEF WakeTimer, WakeChanged, WakeCanceled, StopWaiting, slotVars, queueVars
<1>4. ASSUME NEW r \in Requests,
             ReserveCanceled(r) \/ ReserveNone(r) \/ ReserveRefused(r) \/ Lookup(r) \/ Leave(r)
      PROVE  Still
  BY <1>4 DEF ReserveCanceled, ReserveNone, ReserveRefused, Lookup, Leave, slotVars, queueVars
<1>5. ASSUME NEW r \in Requests,
             BeginDial(r) \/ DialSucceeds(r) \/ BeginClose(r) \/ CloseUpstream(r) \/ Unbind(r)
               \/ Exhausted(r) \/ Classify(r)
      PROVE  Still
  BY <1>5 DEF BeginDial, DialSucceeds, BeginClose, CloseUpstream, Unbind, Exhausted, Classify, slotVars, queueVars
<1>6. ASSUME NEW r \in Requests, \E f \in Failures : DialFails(r, f) PROVE Still
  BY <1>6 DEF DialFails, slotVars, queueVars
<1>7. ASSUME NEW r \in Requests,
             AbortReserved(r) \/ ReleaseFailed(r) \/ StreamEnds(r) \/ CloseReleases(r)
      PROVE  Frees(r)
  BY <1>7 DEF AbortReserved, ReleaseFailed, StreamEnds, CloseReleases
<1>8. ASSUME NEW a \in Accounts, Operate(a) PROVE Still
  BY <1>8 DEF Operate, Add, Enable, Disable, ResetCooldown, Reauthenticated, OperatorStep, slotVars
<1>9. ASSUME (\E s \in Sessions : BindingExpires(s)) \/ Tick \/ UNCHANGED vars PROVE Still
  BY <1>9 DEF BindingExpires, Tick, vars, slotVars, queueVars
<1> HIDE DEF Still, Frees
<1>10. ASSUME NEW r \in Requests, Arrive(r) \/ Working(r) \/ WakeTimer(r) \/ Cancel(r)
       PROVE  \/ Still \/ Frees(r) \/ (\E a \in Accounts : ReserveSlot(r, a))
              \/ Dequeue(r) \/ ReserveWait(r)
  BY <1>1, <1>2, <1>3, <1>4, <1>5, <1>6, <1>7, <1>10 DEF Working
<1>11. RequestStep => \E r \in Requests : Arrive(r) \/ Working(r) \/ WakeTimer(r) \/ Cancel(r)
  BY PoolConstants DEF RequestStep
<1>12. \/ Still
       \/ \E r \in Requests : \/ Frees(r) \/ (\E a \in Accounts : ReserveSlot(r, a))
                              \/ Dequeue(r) \/ ReserveWait(r)
  BY <1>8, <1>9, <1>10, <1>11 DEF Next
<1> QED BY <1>12 DEF Still, Frees

\* The counts are kept by every step.
LEMMA CountStep ==
  ASSUME IInv, [Next]_vars
  PROVE  SlotCount' /\ QueueCount'
<1>1. CASE UNCHANGED <<slotVars, queued, inQueue>>
  BY <1>1, SlotsKept, QueueKept
<1>2. CASE \E r \in Requests : Release(r) /\ UNCHANGED <<queued, inQueue>>
  BY <1>2, ReleaseCounts, QueueKept
<1>3. ASSUME NEW r \in Requests, NEW a \in Accounts, ReserveSlot(r, a)
      PROVE  SlotCount' /\ QueueCount'
  BY <1>3, ReserveCounts, QueueKept DEF ReserveSlot, queueVars
<1>4. ASSUME NEW r \in Requests, Dequeue(r)
      PROVE  SlotCount' /\ QueueCount'
  BY <1>4, DequeueCounts, SlotsKept DEF Dequeue
<1>5. ASSUME NEW r \in Requests, ReserveWait(r)
      PROVE  SlotCount' /\ QueueCount'
  <2>1. CASE inQueue[r]
    BY <1>5, <2>1, SlotsKept, QueueKept DEF ReserveWait
  <2>2. CASE ~inQueue[r]
    BY <1>5, <2>2, SlotsKept, JoinCounts DEF ReserveWait
  <2> QED BY <2>1, <2>2
<1> QED BY <1>1, <1>2, <1>3, <1>4, <1>5, OneMove

-------------------------------------------------------------------------------
(* Cooldowns                                                                 *)

\* Classify lengthens cooldowns and blocks accounts, never the opposite.
LEMMA ClassifyRaises ==
  ASSUME IInv, NEW r \in Requests, Classify(r)
  PROVE  \A a \in Accounts :
           /\ coolLeft'[a] >= coolLeft[a]
           /\ \A m \in Models : modelLeft'[a][m] >= modelLeft[a][m]
           /\ state[a] \in {"disabled", "blocked"} => state'[a] \in {"disabled", "blocked"}
<1>1. acct[r] \in Accounts /\ failure[r] \in Failures /\ ModelOf[r] \in Models
  BY PoolConstants DEF Place, Classify, IInv
<1>2. failure[r].after \in Nat /\ MaxCooldown \in Nat /\ AuthCooldown \in Nat
  BY <1>1, FailureAfter, PoolConstants
<1>3. ASSUME CooldownModel(acct[r], ModelOf[r], failure[r].after)
      PROVE  \A a \in Accounts : \A m \in Models : modelLeft'[a][m] >= modelLeft[a][m]
  BY <1>1, <1>2, <1>3 DEF CooldownModel, Larger, Smaller, IInv, TypeOK
<1> DEFINE Raised(a) ==
             /\ coolLeft'[a] >= coolLeft[a]
             /\ state[a] \in {"disabled", "blocked"} => state'[a] \in {"disabled", "blocked"}
<1>4. ASSUME CooldownAccount(acct[r])
      PROVE  \A a \in Accounts : Raised(a)
  <2> DEFINE d == Smaller(AuthCooldown, MaxCooldown)
  <2>1. d \in Nat
    BY <1>2 DEF Smaller
  <2>2. CASE coolLeft[acct[r]] > d
    BY <1>4, <2>2 DEF CooldownAccount, IInv, TypeOK
  <2>3. CASE ~(coolLeft[acct[r]] > d)
    <3>1. /\ coolLeft' = [coolLeft EXCEPT ![acct[r]] = d]
          /\ state' = [state EXCEPT ![acct[r]] = "blocked"]
      BY <1>4, <2>3 DEF CooldownAccount
    <3> HIDE DEF d
    <3> QED BY <2>1, <2>3, <3>1 DEF IInv, TypeOK, AccountStates
  <2> QED BY <2>2, <2>3
<1>5. /\ UNCHANGED <<state, coolLeft>> \/ CooldownAccount(acct[r])
      /\ UNCHANGED modelLeft \/ CooldownModel(acct[r], ModelOf[r], failure[r].after)
  BY DEF Classify
<1>6. UNCHANGED <<state, coolLeft>> => \A a \in Accounts : Raised(a)
  BY DEF IInv, TypeOK
<1>7. UNCHANGED modelLeft =>
        \A a \in Accounts : \A m \in Models : modelLeft'[a][m] >= modelLeft[a][m]
  BY DEF IInv, TypeOK
<1> QED BY <1>3, <1>4, <1>5, <1>6, <1>7

\* No other step of a call touches the accounts.
LEMMA OnlyClassify ==
  ASSUME NEW r \in Requests,
         Arrive(r) \/ Working(r) \/ WakeTimer(r) \/ Cancel(r)
  PROVE  UNCHANGED accountVars \/ Classify(r)
BY DEF Working, Arrive, Lookup, ReserveCanceled, ReserveRefused, ReserveNone,
   ReserveSlot, ReserveWait, WakeCanceled, WakeTimer, WakeChanged, StopWaiting,
   Dequeue, Leave, AbortReserved, BeginDial, DialSucceeds, DialFails,
   ReleaseFailed, Unbind, Exhausted, StreamEnds, BeginClose, CloseUpstream, CloseReleases,
   Cancel

\* The steps of a call never shorten a cooldown nor unblock an account.
LEMMA CallRaises ==
  ASSUME IInv, NEW r \in Requests,
         Arrive(r) \/ Working(r) \/ WakeTimer(r) \/ Cancel(r)
  PROVE  /\ pool' = pool
         /\ \A a \in Accounts :
           /\ coolLeft'[a] >= coolLeft[a]
           /\ \A m \in Models : modelLeft'[a][m] >= modelLeft[a][m]
           /\ state[a] \in {"disabled", "blocked"} => state'[a] \in {"disabled", "blocked"}
<1>1. CASE UNCHANGED accountVars
  BY <1>1 DEF accountVars, IInv, TypeOK
<1>2. CASE Classify(r)
  BY <1>2, ClassifyRaises DEF Classify
<1> QED BY <1>1, <1>2, OnlyClassify

-------------------------------------------------------------------------------
(* Waiters                                                                   *)

\* q sleeps and nobody has signalled it.
Asleep(q) == pc[q] = "waiting" /\ ~signalled[q]

\* What a sleeper may assume survives a step that neither frees a slot nor
\* repairs an account nor moves its timer.
LEMMA WaitKept ==
  ASSUME IInv, TypeOK', NEW q \in Requests, Asleep(q),
         tried'[q] = tried[q], wakeAt'[q] = wakeAt[q], pool' = pool,
         \A a \in Accounts :
           /\ inFlight'[a] >= inFlight[a]
           /\ coolLeft'[a] >= coolLeft[a]
           /\ \A m \in Models : modelLeft'[a][m] >= modelLeft[a][m]
           /\ state[a] \in {"disabled", "blocked"} => state'[a] \in {"disabled", "blocked"}
  PROVE  \A a \in pool' \ tried'[q] : Out(a, q)'
<1> SUFFICES ASSUME NEW a \in pool \ tried[q] PROVE Out(a, q)'
  OBVIOUS
<1>1. a \in Accounts /\ ModelOf[q] \in Models /\ MaxConc \in Nat
  BY PoolConstants DEF IInv, TypeOK
<1>2. Out(a, q)
  BY DEF IInv, WaitInv, Asleep
<1>3. CASE ~HasCapacity(a)
  <2>1. inFlight[a] \in Nat /\ inFlight'[a] \in Nat /\ inFlight'[a] >= inFlight[a]
    BY <1>1 DEF IInv, TypeOK
  <2> QED BY <1>1, <1>3, <2>1 DEF HasCapacity, Out
<1>4. CASE state[a] \in {"disabled", "blocked"}
  BY <1>1, <1>4 DEF Out
<1>5. CASE ReadyIn(a, ModelOf[q]) >= wakeAt[q]
  <2>1. /\ coolLeft[a] \in Nat /\ coolLeft'[a] \in Nat
        /\ modelLeft[a][ModelOf[q]] \in Nat /\ modelLeft'[a][ModelOf[q]] \in Nat
        /\ wakeAt[q] \in Nat
    BY <1>1 DEF IInv, TypeOK
  <2>2. coolLeft'[a] >= coolLeft[a] /\ modelLeft'[a][ModelOf[q]] >= modelLeft[a][ModelOf[q]]
    BY <1>1
  <2> QED BY <1>5, <2>1, <2>2 DEF Out, ReadyIn, Larger
<1> QED BY <1>2, <1>3, <1>4, <1>5 DEF Out

\* The timer of a call that falls asleep covers every account it could use.
LEMMA FallsAsleep ==
  ASSUME IInv, TypeOK', NEW r \in Requests, ReserveWait(r)
  PROVE  \A a \in pool' \ tried'[r] : Out(a, r)'
<1>1. /\ UNCHANGED <<pool, state, coolLeft, modelLeft, inFlight, tried>>
      /\ ReserveChoices(r) = {}
  BY DEF ReserveWait, accountVars, slotVars, callVars
<1>2. wakeAt'[r] = Earliest(WakeTimes(r, deadline'[r])) /\ deadline'[r] \in Nat
  BY DEF ReserveWait, IInv, TypeOK
<1>3. \A a \in Accounts : ReadyIn(a, ModelOf[r]) \in Nat
  BY PoolConstants DEF ReadyIn, Larger, IInv, TypeOK
<1>4. WakeTimes(r, deadline'[r]) \subseteq Nat /\ WakeTimes(r, deadline'[r]) # {}
  BY <1>2, <1>3 DEF WakeTimes, IInv, TypeOK
<1>5. \A t \in WakeTimes(r, deadline'[r]) : wakeAt'[r] <= t
  BY <1>2, <1>4, EarliestIsLeast
<1> SUFFICES ASSUME NEW a \in pool \ tried[r], HasCapacity(a),
                    state[a] \notin {"disabled", "blocked"}
             PROVE  ReadyIn(a, ModelOf[r]) >= wakeAt'[r]
  BY <1>1 DEF Out, HasCapacity, ReadyIn
<1>6. a \in Accounts /\ ModelOf[r] \in Models
  BY PoolConstants DEF IInv, TypeOK
<1>7. a \notin FreeCandidates(r)
  BY <1>1 DEF ReserveChoices
<1>8. coolLeft[a] # 0 \/ modelLeft[a][ModelOf[r]] # 0
  BY <1>7 DEF FreeCandidates, Candidates, Available
<1>9. ReadyIn(a, ModelOf[r]) > 0
  <2>1. coolLeft[a] \in Nat /\ modelLeft[a][ModelOf[r]] \in Nat
    BY <1>6 DEF IInv, TypeOK
  <2> QED BY <1>8, <2>1 DEF ReadyIn, Larger
<1>10. ReadyIn(a, ModelOf[r]) \in WakeTimes(r, deadline'[r])
  BY <1>9 DEF WakeTimes
<1>11. ReadyIn(a, ModelOf[r]) \in Nat /\ wakeAt'[r] \in Nat
  BY <1>3, <1>6 DEF TypeOK
<1> QED BY <1>5, <1>10, <1>11

\* Releasing a slot signals every sleeper; releasing none changes nothing.
LEMMA ReleaseWakes ==
  ASSUME IInv, NEW r \in Requests, Release(r)
  PROVE  \/ UNCHANGED <<inFlight, signalled>>
         \/ \A q \in Requests : pc[q] = "waiting" => signalled'[q]
BY DEF Release, Notify

\* Only ReserveWait puts a call to sleep, and only releasing frees a slot.
LEMMA CallSleepers ==
  ASSUME IInv, NEW r \in Requests, ~ReserveWait(r),
         Arrive(r) \/ Working(r) \/ WakeTimer(r) \/ Cancel(r),
         NEW q \in Requests, Asleep(q)'
  PROVE  /\ Asleep(q) /\ tried'[q] = tried[q] /\ wakeAt'[q] = wakeAt[q]
         /\ \A a \in Accounts : inFlight'[a] >= inFlight[a]
<1> DEFINE Goal == /\ Asleep(q) /\ tried'[q] = tried[q] /\ wakeAt'[q] = wakeAt[q]
                   /\ \A a \in Accounts : inFlight'[a] >= inFlight[a]
<1> USE DEF IInv, TypeOK, Goto, Asleep, accountVars, slotVars, queueVars, callVars, Finish, Forget
<1>0. ASSUME UNCHANGED inFlight PROVE \A a \in Accounts : inFlight'[a] >= inFlight[a]
  BY <1>0
<1>1. CASE Arrive(r)
  BY <1>0, <1>1 DEF Arrive
<1>2. CASE ReserveCanceled(r) \/ ReserveRefused(r) \/ ReserveNone(r) \/ Lookup(r)
  BY <1>0, <1>2 DEF Lookup, ReserveCanceled, ReserveRefused, ReserveNone
<1>3. CASE \E a \in Accounts : ReserveSlot(r, a)
  <2>1. PICK a \in Accounts : ReserveSlot(r, a)
    BY <1>3
  <2>2. /\ inFlight' = [inFlight EXCEPT ![a] = inFlight[a] + 1]
        /\ pc' = [pc EXCEPT ![r] = "reserved"]
        /\ tried' = [tried EXCEPT ![r] = tried[r] \cup {a}]
        /\ UNCHANGED <<signalled, wakeAt>>
    BY <2>1 DEF ReserveSlot
  <2>3. q # r
    BY <2>2
  <2> QED BY <2>2, <2>3
<1>4. CASE WakeCanceled(r) \/ WakeChanged(r)
  BY <1>0, <1>4 DEF WakeCanceled, WakeChanged, StopWaiting
<1>5. CASE WakeTimer(r)
  <2>1. \E w \in {"leaving", "reserve"} : pc' = [pc EXCEPT ![r] = w]
    BY <1>5 DEF WakeTimer
  <2> QED BY <1>0, <1>5, <2>1 DEF WakeTimer, StopWaiting
<1>6. CASE Dequeue(r) \/ Leave(r)
  BY <1>0, <1>6 DEF Dequeue, Leave
<1>7. CASE BeginDial(r) \/ DialSucceeds(r) \/ BeginClose(r) \/ CloseUpstream(r) \/ Unbind(r) \/ Exhausted(r)
  BY <1>0, <1>7 DEF BeginDial, DialSucceeds, BeginClose, CloseUpstream, Unbind, Exhausted
<1>8. CASE \E f \in Failures : DialFails(r, f)
  BY <1>0, <1>8 DEF DialFails
<1>9. CASE Classify(r)
  BY <1>0, <1>9 DEF Classify, NextAttempt
<1>10. CASE AbortReserved(r) \/ ReleaseFailed(r) \/ StreamEnds(r) \/ CloseReleases(r)
  <2>1. \E w \in PCs \ {"waiting"} : pc' = [pc EXCEPT ![r] = w]
    <3>1. CASE ReleaseFailed(r)
      BY <3>1 DEF ReleaseFailed, PCs
    <3> QED BY <1>10, <3>1 DEF AbortReserved, StreamEnds, CloseReleases, PCs
  <2>2. UNCHANGED wakeAt /\ Release(r) /\ pc[r] # "waiting"
    BY <1>10 DEF AbortReserved, ReleaseFailed, StreamEnds, CloseReleases
  <2>3. q # r /\ pc[q] = "waiting"
    BY <2>1
  <2>4. UNCHANGED <<inFlight, signalled>>
    BY <2>2, <2>3, ReleaseWakes
  <2>5. tried'[q] = tried[q]
    <3>1. tried' = [tried EXCEPT ![r] = {}] \/ UNCHANGED tried
      BY <1>10 DEF AbortReserved, ReleaseFailed, StreamEnds, CloseReleases
    <3> QED BY <2>3, <3>1
  <2> QED BY <1>0, <2>2, <2>3, <2>4, <2>5
<1>11. CASE Cancel(r)
  BY <1>0, <1>11 DEF Cancel
<1> HIDE DEF IInv, TypeOK, Goto, Asleep, Finish, Forget
<1> QED BY <1>1, <1>2, <1>3, <1>4, <1>5, <1>6, <1>7, <1>8, <1>9, <1>10, <1>11 DEF Working

\* A call's step keeps what every sleeper may assume.
LEMMA CallWait ==
  ASSUME IInv, TypeOK', NEW r \in Requests,
         Arrive(r) \/ Working(r) \/ WakeTimer(r) \/ Cancel(r)
  PROVE  WaitInv'
<1> SUFFICES ASSUME NEW q \in Requests, Asleep(q)'
             PROVE  \A a \in pool' \ tried'[q] : Out(a, q)'
  BY DEF WaitInv, Asleep
<1>1. CASE ReserveWait(r) /\ q = r
  BY <1>1, FallsAsleep
<1>2. CASE ReserveWait(r) /\ q # r
  <2>1. Asleep(q) /\ tried'[q] = tried[q] /\ wakeAt'[q] = wakeAt[q]
    BY <1>2 DEF ReserveWait, Goto, Asleep, callVars, IInv, TypeOK
  <2>2. \A a \in Accounts : inFlight'[a] >= inFlight[a]
    BY <1>2 DEF ReserveWait, slotVars, IInv, TypeOK
  <2> QED BY <2>1, <2>2, CallRaises, WaitKept
<1>3. CASE ~ReserveWait(r)
  BY <1>3, CallSleepers, CallRaises, WaitKept
<1> QED BY <1>1, <1>2, <1>3

\* Time passes for cooldowns and timers alike.
LEMMA TickWait ==
  ASSUME IInv, Tick
  PROVE  WaitInv'
<1> SUFFICES ASSUME NEW q \in Requests, Asleep(q)', NEW a \in pool \ tried[q]
             PROVE  Out(a, q)'
  BY DEF WaitInv, Asleep, Tick, callVars
<1>1. a \in Accounts /\ ModelOf[q] \in Models
  BY PoolConstants DEF IInv, TypeOK
<1>2. Out(a, q)
  BY DEF IInv, WaitInv, Asleep, Tick
<1>3. /\ inFlight' = inFlight /\ state' = state
      /\ coolLeft'[a] = Dec(coolLeft[a])
      /\ modelLeft'[a][ModelOf[q]] = Dec(modelLeft[a][ModelOf[q]])
      /\ wakeAt'[q] = Dec(wakeAt[q])
  BY <1>1 DEF Tick, slotVars
<1>4. coolLeft[a] \in Nat /\ modelLeft[a][ModelOf[q]] \in Nat /\ wakeAt[q] \in Nat
  BY <1>1 DEF IInv, TypeOK
<1>5. ReadyIn(a, ModelOf[q]) >= wakeAt[q] => ReadyIn(a, ModelOf[q])' >= wakeAt'[q]
  BY <1>3, <1>4 DEF ReadyIn, Larger, Dec
<1> QED BY <1>2, <1>3, <1>5 DEF Out, HasCapacity

\* What a sleeping waiter may assume is kept by every step.
LEMMA WaitStep ==
  ASSUME IInv, [Next]_vars
  PROVE  WaitInv'
<1>1. CASE RequestStep
  BY <1>1, CallWait, TypeStep, PoolConstants DEF RequestStep
<1>2. CASE \E a \in Accounts : Operate(a)
  <2>1. pc' = pc /\ Notify
    BY <1>2 DEF Operate, Add, Enable, Disable, ResetCooldown, Reauthenticated, OperatorStep
  <2>2. \A q \in Requests : ~Asleep(q)'
    BY <2>1 DEF Notify, Asleep
  <2> QED BY <2>2 DEF WaitInv, Asleep
<1>3. CASE \E s \in Sessions : BindingExpires(s)
  BY <1>3 DEF BindingExpires, accountVars, slotVars, queueVars, callVars, IInv, WaitInv,
     Out, HasCapacity, ReadyIn
<1>4. CASE Tick
  BY <1>4, TickWait
<1>5. CASE UNCHANGED vars
  BY <1>5 DEF vars, IInv, WaitInv, Out, HasCapacity, ReadyIn
<1> QED BY <1>1, <1>2, <1>3, <1>4, <1>5 DEF Next

-------------------------------------------------------------------------------
(* The theorems                                                              *)

\* The pool starts idle.
LEMMA InitInv ==
  ASSUME Init
  PROVE  IInv
<1>1. TypeOK
  BY PoolConstants DEF Init, TypeOK, AccountStates, PCs, Result, ResultCodes
<1>2. SlotCount
  <2>1. \A a \in Accounts : Holders(a) = {}
    BY PoolConstants DEF Init, Holders
  <2>2. \A a \in Accounts : inFlight[a] = 0
    BY DEF Init
  <2>3. Cardinality({}) = 0
    BY FS_EmptySet
  <2> QED BY <2>1, <2>2, <2>3, PoolConstants DEF SlotCount
<1>3. QueueCount
  <2>1. InQueue = {}
    BY DEF Init, InQueue
  <2> QED BY <2>1, FS_EmptySet, PoolConstants DEF Init, QueueCount
<1>4. (\A r \in Requests : Place(r)) /\ WaitInv
  BY DEF Init, Place, WaitInv
<1> QED BY <1>1, <1>2, <1>3, <1>4 DEF IInv

\* IInv holds in every state the pool reaches.
THEOREM PoolInvariant == Spec => []IInv
<1>1. Init => IInv
  BY InitInv
<1>2. IInv /\ [Next]_vars => IInv'
  BY TypeStep, CountStep, PlaceStep, WaitStep DEF IInv
<1> QED BY <1>1, <1>2, PTL DEF Spec

\* Every variable of the pool keeps its type; the counters stay natural numbers.
THEOREM TypeCorrect == Spec => []TypeOK
<1>1. IInv => TypeOK
  BY DEF IInv
<1> QED BY <1>1, PoolInvariant, PTL

\* No path through Pool.Stream leaks a slot, returns one twice or exceeds the
\* limit of an account (pool.go, the release function and slotStream).
THEOREM SlotsAccounted == Spec => []SlotAccounting
<1>1. IInv => SlotAccounting
  BY DEF IInv, SlotAccounting, Place
<1> QED BY <1>1, PoolInvariant, PTL

\* Never more conversations on an account than its limit, those Close is still
\* tearing down included (pool.go, slotStream.Close).
THEOREM UpstreamBounded == Spec => []UpstreamWithinLimit
<1>1. ASSUME IInv PROVE UpstreamWithinLimit
  <2> SUFFICES ASSUME NEW a \in Accounts, MaxConc # 0
               PROVE  Cardinality(Conversing(a)) <= MaxConc
    BY DEF UpstreamWithinLimit
  <2>1. Conversing(a) \subseteq Holders(a)
    BY <1>1 DEF IInv, Place, Holders, Conversing
  <2>2. Cardinality(Conversing(a)) <= Cardinality(Holders(a)) /\ Cardinality(Conversing(a)) \in Nat
    BY <2>1, HoldersFinite, FS_Subset, FS_CardinalityType
  <2>3. Cardinality(Holders(a)) <= MaxConc /\ Cardinality(Holders(a)) \in Nat
    BY <1>1, HoldersFinite DEF IInv, SlotCount
  <2> QED BY <2>2, <2>3, PoolConstants
<1> QED BY <1>1, PoolInvariant, PTL

\* The waiting queue is bounded and counts exactly the calls inside reserve that
\* joined it (queue.go, the deferred decrement).
THEOREM QueueAccounted == Spec => []QueueAccounting
<1>1. IInv => QueueAccounting
  BY DEF IInv, QueueAccounting, Place
<1> QED BY <1>1, PoolInvariant, PTL

\* No wake-up is lost between the broadcast on p.changed and the timer of a
\* waiter (queue.go, notifyLocked and the computation of wakeAt).
THEOREM NoWakeupLost == Spec => []NoLostWakeup
<1>1. ASSUME IInv, NEW r \in Requests, pc[r] = "waiting", ~signalled[r], wakeAt[r] > 0,
             NEW a \in FreeCandidates(r)
      PROVE  FALSE
  <2>1. a \in pool \ tried[r] /\ HasCapacity(a) /\ Available(a, ModelOf[r])
    BY <1>1 DEF FreeCandidates, Candidates
  <2>2. Out(a, r)
    BY <1>1, <2>1 DEF IInv, WaitInv
  <2>3. ReadyIn(a, ModelOf[r]) = 0
    BY <2>1 DEF Available, ReadyIn, Larger
  <2>4. ~(ReadyIn(a, ModelOf[r]) >= wakeAt[r])
    BY <1>1, <2>3 DEF IInv, TypeOK
  <2> QED BY <2>1, <2>2, <2>4 DEF Out, Available
<1>2. IInv => NoLostWakeup
  BY <1>1 DEF NoLostWakeup
<1> QED BY <1>2, PoolInvariant, PTL

\* A failed attempt only ever lengthens cooldowns, whatever was recorded while it
\* was in flight (pool.go, cooldownModel and cooldownAccount).
THEOREM CooldownsOnlyGrow == Spec => CooldownNeverShortened
<1> DEFINE Grown == (\E r \in Requests : Working(r) \/ WakeTimer(r)) =>
                      \A a \in Accounts :
                        /\ coolLeft'[a] >= coolLeft[a]
                        /\ \A m \in Models : modelLeft'[a][m] >= modelLeft[a][m]
<1>1. IInv => Grown
  BY CallRaises
<1>2. IInv /\ [Next]_vars => [Grown]_vars
  BY <1>1
<1> QED BY <1>2, PoolInvariant, PTL DEF Spec, CooldownNeverShortened

\* The ledger counts with the same Cardinality.
LEMMA LedgerCardinality == ASSUME NEW S PROVE Ledger!Cardinality(S) = Cardinality(S)
BY DEF Cardinality, Ledger!Cardinality

\* A step of the pool is a step of the ledger or leaves it alone.
LEMMA LedgerStep ==
  ASSUME IInv, [Next]_vars
  PROVE  [Ledger!LedgerNext]_(Ledger!ledgerVars)
<1> USE DEF Ledger!ledgerVars
<1>1. CASE UNCHANGED <<slotVars, queued, inQueue>>
  BY <1>1 DEF slotVars, InQueue
<1>2. ASSUME NEW r \in Requests, Release(r), UNCHANGED <<queued, inQueue>>
      PROVE  [Ledger!LedgerNext]_(Ledger!ledgerVars)
  <2>1. InQueue' = InQueue
    BY <1>2 DEF InQueue
  <2>2. CASE holds[r] = NoAccount
    BY <1>2, <2>1, <2>2 DEF Release
  <2>3. CASE holds[r] # NoAccount
    <3>1. Ledger!Return(r)
      BY <1>2, <2>1, <2>3 DEF Release, Ledger!Return
    <3> QED BY <3>1 DEF Ledger!LedgerNext
  <2> QED BY <2>2, <2>3
<1>3. ASSUME NEW r \in Requests, NEW a \in Accounts, ReserveSlot(r, a)
      PROVE  [Ledger!LedgerNext]_(Ledger!ledgerVars)
  <2>1. InQueue' = InQueue /\ holds' = [holds EXCEPT ![r] = a]
    BY <1>3 DEF ReserveSlot, queueVars, InQueue
  <2>2. holds[r] = NoAccount /\ HasCapacity(a) /\ inFlight[a] = Cardinality(Holders(a))
    BY <1>3, ReserveCounts DEF IInv, SlotCount
  <2>3. MaxConc # 0 => Cardinality(Ledger!LeaseHolders(a)) < MaxConc
    BY <2>2 DEF HasCapacity, Holders, Ledger!LeaseHolders
  <2>4. Ledger!Acquire(r, a)
    BY <2>1, <2>2, <2>3, LedgerCardinality DEF Ledger!Acquire
  <2> QED BY <2>4 DEF Ledger!LedgerNext
<1>4. ASSUME NEW r \in Requests, Dequeue(r)
      PROVE  [Ledger!LedgerNext]_(Ledger!ledgerVars)
  <2>1. Ledger!Leave(r)
    BY <1>4, DequeueCounts DEF Dequeue, slotVars, Ledger!Leave
  <2> QED BY <2>1 DEF Ledger!LedgerNext
<1>5. ASSUME NEW r \in Requests, ReserveWait(r)
      PROVE  [Ledger!LedgerNext]_(Ledger!ledgerVars)
  <2>1. UNCHANGED holds /\ holds[r] = NoAccount
    BY <1>5 DEF ReserveWait, Reserving, slotVars, IInv, Place
  <2>2. CASE inQueue[r]
    BY <1>5, <2>1, <2>2 DEF ReserveWait, InQueue
  <2>3. CASE ~inQueue[r]
    <3>1. JoinQueue(r)
      BY <1>5, <2>3 DEF ReserveWait
    <3>2. InQueue' = InQueue \cup {r} /\ queued < QueueLimit /\ r \notin InQueue
      BY <2>3, <3>1, JoinCounts DEF InQueue
    <3>3. Ledger!Enqueue(r)
      BY <2>1, <3>2, LedgerCardinality DEF Ledger!Enqueue, IInv, QueueCount
    <3> QED BY <3>3 DEF Ledger!LedgerNext
  <2> QED BY <2>2, <2>3
<1> QED BY <1>1, <1>2, <1>3, <1>4, <1>5, OneMove

\* The pool, with everything but slots and queue places forgotten, implements the
\* ledger: a slot is taken by a call that has none and only below the limit, and
\* the queue is joined only below its own.
THEOREM PoolIsALedger == Spec => LedgerSpec
<1>1. Init => Ledger!LedgerInit
  BY DEF Init, InQueue, Ledger!LedgerInit
<1>2. IInv /\ [Next]_vars => [Ledger!LedgerNext]_(Ledger!ledgerVars)
  BY LedgerStep
<1> QED BY <1>1, <1>2, PoolInvariant, PTL DEF Spec, LedgerSpec, Ledger!LedgerSpec

\* Who clears the binding of session s.
Unbinds(s) ==
  \/ BindingExpires(s)
  \/ \E r \in Requests : SessionOf[r] = s /\
       \/ /\ pc[r] = "lookup"
          /\ affinity[s] \notin pool \/ ~Available(affinity[s], ModelOf[r])
       \/ pc[r] = "unbind" /\ acct[r] = affinity[s]

\* A late failure never drops a newer binding of its session (pool.go, the unbind
\* after a failed attempt).
THEOREM UnbindsOnlyOwn == Spec => UnbindOnlyOwn
<1>1. ASSUME IInv, [Next]_vars, NEW s \in Sessions,
             affinity[s] # NoAccount, affinity'[s] = NoAccount
      PROVE  Unbinds(s)
  <2> USE <1>1
  <2>1. ASSUME NEW r \in Requests, Lookup(r)
        PROVE  Unbinds(s)
    <3>1. SessionOf[r] = s
      BY <2>1 DEF Lookup, IInv, TypeOK
    <3> QED BY <2>1, <3>1 DEF Lookup, Unbinds
  <2>2. ASSUME NEW r \in Requests, Unbind(r)
        PROVE  Unbinds(s)
    <3>1. SessionOf[r] = s /\ affinity[s] = acct[r]
      BY <2>2 DEF Unbind, IInv, TypeOK
    <3> QED BY <2>2, <3>1 DEF Unbind, Unbinds
  <2>3. ASSUME NEW r \in Requests, DialSucceeds(r)
        PROVE  FALSE
    <3>1. acct[r] # NoAccount
      BY <2>3, PoolConstants DEF DialSucceeds, IInv, Place
    <3> QED BY <2>3, <3>1 DEF DialSucceeds, Bind, IInv, TypeOK
  <2>4. ASSUME NEW t \in Sessions, BindingExpires(t)
        PROVE  Unbinds(s)
    <3>1. s = t
      BY <2>4 DEF BindingExpires, IInv, TypeOK
    <3> QED BY <2>4, <3>1 DEF Unbinds
  <2>5. ASSUME NEW r \in Requests, Arrive(r) \/ Working(r) \/ WakeTimer(r) \/ Cancel(r)
        PROVE  UNCHANGED affinity \/ Lookup(r) \/ Unbind(r) \/ DialSucceeds(r)
    BY <2>5 DEF Working, Arrive, ReserveCanceled, ReserveRefused, ReserveNone,
       ReserveSlot, ReserveWait, WakeCanceled, WakeTimer, WakeChanged, StopWaiting,
       Dequeue, Leave, AbortReserved, BeginDial, DialFails, ReleaseFailed, Classify,
       Exhausted, StreamEnds, BeginClose, CloseUpstream, CloseReleases, Cancel
  <2>6. ~UNCHANGED affinity
    OBVIOUS
  <2>7. CASE RequestStep
    <3>1. PICK r \in Requests : Arrive(r) \/ Working(r) \/ WakeTimer(r) \/ Cancel(r)
      BY <2>7, PoolConstants DEF RequestStep
    <3> QED BY <3>1, <2>1, <2>2, <2>3, <2>5, <2>6
  <2>8. CASE (\E a \in Accounts : Operate(a)) \/ Tick \/ UNCHANGED vars
    BY <2>6, <2>8 DEF Operate, Add, Enable, Disable, ResetCooldown, Reauthenticated,
       OperatorStep, Tick, vars
  <2>9. CASE \E t \in Sessions : BindingExpires(t)
    BY <2>4, <2>9
  <2> QED BY <2>7, <2>8, <2>9 DEF Next
<1> DEFINE OwnOnly == \A s \in Sessions :
             affinity[s] # NoAccount /\ affinity'[s] = NoAccount => Unbinds(s)
<1>2. IInv /\ [Next]_vars => [OwnOnly]_vars
  BY <1>1
<1>3. Spec => [][OwnOnly]_vars
  BY <1>2, PoolInvariant, PTL DEF Spec
<1> QED BY <1>3 DEF UnbindOnlyOwn, Unbinds


-------------------------------------------------------------------------------
(* The promise of a time to retry at (PoolRetry). RetryPromise is not        *)
(* inductive: that no account is available now says nothing of when the      *)
(* first one will be. PromiseInv bounds that time from below by what is left *)
(* of the promise, so that both run down together.                           *)


\* An account needs an operator, or is not back before the time.
NotBefore(a, m, time) == state[a] \in {"disabled", "blocked"} \/ ReadyIn(a, m) >= time
PromiseInv ==
  /\ promise \in [Requests -> Nat]
  /\ \A r \in Requests :
       /\ Cooling(r) => result[r].after > 0
       /\ promise[r] > 0 => \A a \in pool : NotBefore(a, ModelOf[r], promise[r])
RetryInv == IInv /\ PromiseInv

-------------------------------------------------------------------------------
\* Cooldowns are times.
LEMMA ReadyInNat ==
  ASSUME IInv, NEW a \in Accounts, NEW r \in Requests
  PROVE  /\ coolLeft[a] \in Nat /\ modelLeft[a][ModelOf[r]] \in Nat
         /\ ReadyIn(a, ModelOf[r]) \in Nat
         /\ Available(a, ModelOf[r]) <=>
              state[a] \notin {"disabled", "blocked"} /\ ReadyIn(a, ModelOf[r]) = 0
<1>1. coolLeft[a] \in Nat /\ modelLeft[a][ModelOf[r]] \in Nat
  BY PoolConstants DEF IInv, TypeOK
<1> QED BY <1>1 DEF ReadyIn, Larger, Available

\* exhaustedFailure states a positive time before which no account of its
\* snapshot is back.
LEMMA ExhaustionPromises ==
  ASSUME IInv, NEW r \in Requests, Exhaustion(r).code = "all_accounts_cooling"
  PROVE  /\ Exhaustion(r).after > 0
         /\ \A a \in pool : NotBefore(a, ModelOf[r], Exhaustion(r).after)
<1> DEFINE m == ModelOf[r]
           enabled == {a \in pool : state[a] # "disabled"}
           open == {a \in enabled : state[a] # "blocked"}
           resets == {ReadyIn(a, m) : a \in {b \in open : ReadyIn(b, m) > 0}}
           answer == [code |-> "all_accounts_cooling",
                      after |-> IF resets = {} THEN 0 ELSE Earliest(resets)]
<1>1. /\ ~ \E a \in enabled : Available(a, m)
      /\ enabled # {} /\ open # {}
      /\ Exhaustion(r) = answer
  BY DEF Exhaustion, Result
<1>2. pool \subseteq Accounts
  BY DEF IInv, TypeOK
<1>3. \A a \in open : ReadyIn(a, m) \in Nat /\ ReadyIn(a, m) > 0
  BY <1>1, <1>2, ReadyInNat
<1>4. \A a \in open : ReadyIn(a, m) \in resets
  BY <1>3
<1>5. resets \subseteq Nat /\ resets # {} /\ \A x \in resets : x > 0
  BY <1>1, <1>2, <1>4, ReadyInNat
<1>6. Earliest(resets) \in resets /\ \A x \in resets : Earliest(resets) <= x
  BY <1>5, EarliestIsLeast
<1>7. Exhaustion(r).after = Earliest(resets)
  BY <1>1, <1>5
<1>8. ASSUME NEW a \in pool PROVE NotBefore(a, m, Exhaustion(r).after)
  <2>1. CASE a \in open
    BY <1>3, <1>4, <1>5, <1>6, <1>7, <2>1 DEF NotBefore
  <2>2. CASE a \notin open
    BY <2>2 DEF NotBefore
  <2> QED BY <2>1, <2>2
<1> HIDE DEF resets
<1> QED BY <1>5, <1>6, <1>7, <1>8

\* A step of a call leaves a result alone, keeps it when it returns, gives one
\* without a time, or is exhaustedFailure's.
LEMMA CallResults ==
  ASSUME IInv, NEW r \in Requests,
         Arrive(r) \/ Working(r) \/ WakeTimer(r) \/ Cancel(r),
         NEW q \in Requests
  PROVE  \/ result'[q] = result[q]
         \/ result'[q].code # "all_accounts_cooling"
         \/ q = r /\ Exhausted(r) /\ result'[q] = Exhaustion(r)
<1> USE DEF Result
<1>1. \A res : result' = [result EXCEPT ![r] = res] =>
        result'[q] = result[q] \/ (q = r /\ result'[q] = res)
  BY DEF IInv, TypeOK
<1>2. CASE Exhausted(r)
  BY <1>1, <1>2 DEF Exhausted, Finish
<1>3. CASE Arrive(r)
  BY <1>1, <1>3 DEF Arrive, Finish
<1>4. CASE WakeTimer(r) \/ WakeCanceled(r) \/ WakeChanged(r)
  BY <1>1, <1>4 DEF WakeTimer, WakeCanceled, WakeChanged
<1>5. CASE Leave(r) \/ CloseReleases(r)
  BY <1>1, <1>5 DEF Leave, CloseReleases, Finish
<1>6. CASE AbortReserved(r) \/ DialSucceeds(r) \/ ReserveCanceled(r) \/ ReserveRefused(r)
  BY <1>1, <1>6 DEF AbortReserved, DialSucceeds, ReserveCanceled, ReserveRefused, Finish
<1>7. CASE Classify(r) \/ ReleaseFailed(r)
  BY <1>1, <1>7 DEF Classify, ReleaseFailed, Finish, NextAttempt
<1>8. CASE \/ Lookup(r) \/ ReserveNone(r) \/ ReserveWait(r) \/ (\E a \in Accounts : ReserveSlot(r, a))
           \/ Dequeue(r) \/ BeginDial(r) \/ (\E f \in Failures : DialFails(r, f))
           \/ Unbind(r) \/ StreamEnds(r) \/ BeginClose(r) \/ CloseUpstream(r) \/ Cancel(r)
  BY <1>8 DEF Lookup, ReserveNone, ReserveWait, ReserveSlot, Dequeue, BeginDial, DialFails,
     Unbind, StreamEnds, BeginClose, CloseUpstream, Cancel
<1> QED BY <1>2, <1>3, <1>4, <1>5, <1>6, <1>7, <1>8 DEF Working

\* Only exhaustedFailure returns a call from "exhausted".
LEMMA OnlyExhausted ==
  ASSUME IInv, NEW r \in Requests,
         Arrive(r) \/ Working(r) \/ WakeTimer(r) \/ Cancel(r),
         NEW q \in Requests, pc[q] = "exhausted", pc'[q] = "idle"
  PROVE  q = r /\ Exhausted(r)
<1>1. pc \in [Requests -> PCs]
  BY DEF IInv, TypeOK
<1>2. pc' = pc \/ \E w : pc' = [pc EXCEPT ![r] = w]
  BY DEF Working, Arrive, Lookup, ReserveCanceled, ReserveRefused, ReserveNone, ReserveSlot, ReserveWait,
     WakeCanceled, WakeTimer, WakeChanged, Dequeue, Leave, AbortReserved, BeginDial, DialSucceeds,
     DialFails, ReleaseFailed, Unbind, Classify, Exhausted, StreamEnds, BeginClose, CloseUpstream,
     CloseReleases, Cancel, Goto, NextAttempt, Finish
<1>3. q = r
  BY <1>1, <1>2
<1> QED
  BY <1>1, <1>3 DEF Working, Arrive, Lookup, ReserveCanceled, ReserveRefused, ReserveNone,
     ReserveSlot, ReserveWait, WakeCanceled, WakeTimer, WakeChanged, Dequeue, Leave,
     AbortReserved, BeginDial, DialSucceeds, DialFails, ReleaseFailed, Unbind, Classify,
     StreamEnds, BeginClose, CloseUpstream, CloseReleases, Cancel, Goto

-------------------------------------------------------------------------------
\* The steps of a call keep the promises, old and new.
LEMMA CallPromises ==
  ASSUME RetryInv, TypeOK', NEW r \in Requests,
         Arrive(r) \/ Working(r) \/ WakeTimer(r) \/ Cancel(r),
         promise' = [q \in Requests |-> Promised(q)]
  PROVE  PromiseInv'
<1>1. IInv /\ PromiseInv
  BY DEF RetryInv
<1>2. ASSUME NEW q \in Requests PROVE Cooling(q)' => result'[q].after > 0
  BY <1>1, CallResults, ExhaustionPromises DEF PromiseInv, Cooling
<1>3. result' \in [Requests -> [code : ResultCodes, after : Nat]]
  BY DEF TypeOK
<1>4. \A q \in Requests : promise'[q] = Promised(q)
  OBVIOUS
<1>5. promise' \in [Requests -> Nat]
  BY <1>1, <1>3 DEF Promised, PromiseInv
<1>6. ASSUME NEW q \in Requests, promise'[q] > 0, NEW a \in pool'
      PROVE  NotBefore(a, ModelOf[q], promise[q])'
  <2>1. a \in pool /\ a \in Accounts /\ ModelOf[q] \in Models
    BY <1>1, CallRaises, PoolConstants DEF IInv, TypeOK
  <2>2. CASE pc[q] = "exhausted" /\ pc'[q] = "idle" /\ result'[q].code = "all_accounts_cooling"
    <3>1. q = r /\ Exhausted(r)
      BY <1>1, <2>2, OnlyExhausted
    <3>2. result'[q] = Exhaustion(q) /\ UNCHANGED accountVars
      BY <1>1, <3>1 DEF Exhausted, Finish, IInv, TypeOK
    <3>3. NotBefore(a, ModelOf[q], Exhaustion(q).after)
      BY <1>1, <2>1, <2>2, <3>2, ExhaustionPromises
    <3>4. promise'[q] = Exhaustion(q).after
      BY <1>4, <2>2, <3>2 DEF Promised
    <3> QED BY <3>2, <3>3, <3>4 DEF NotBefore, ReadyIn, accountVars
  <2>3. CASE ~(pc[q] = "exhausted" /\ pc'[q] = "idle" /\ result'[q].code = "all_accounts_cooling")
    <3>1. promise'[q] = promise[q]
      BY <1>4, <2>3 DEF Promised
    <3>2. NotBefore(a, ModelOf[q], promise[q])
      BY <1>1, <1>6, <2>1, <3>1 DEF PromiseInv
    <3>3. /\ coolLeft'[a] >= coolLeft[a] /\ modelLeft'[a][ModelOf[q]] >= modelLeft[a][ModelOf[q]]
          /\ state[a] \in {"disabled", "blocked"} => state'[a] \in {"disabled", "blocked"}
      BY <1>1, <2>1, CallRaises
    <3>4. /\ coolLeft[a] \in Nat /\ modelLeft[a][ModelOf[q]] \in Nat /\ promise[q] \in Nat
          /\ coolLeft'[a] \in Nat /\ modelLeft'[a][ModelOf[q]] \in Nat
      BY <1>1, <2>1 DEF IInv, TypeOK, PromiseInv
    <3> QED BY <3>1, <3>2, <3>3, <3>4 DEF NotBefore, ReadyIn, Larger
  <2> QED BY <2>2, <2>3
<1> QED BY <1>2, <1>5, <1>6 DEF PromiseInv

\* Time runs for cooldowns and promises alike.
LEMMA TickPromises ==
  ASSUME RetryInv, Tick, promise' = [r \in Requests |-> Dec(promise[r])]
  PROVE  PromiseInv'
<1>1. IInv /\ PromiseInv
  BY DEF RetryInv
<1>2. promise' \in [Requests -> Nat]
  BY <1>1 DEF PromiseInv, Dec
<1>3. \A r \in Requests : Cooling(r)' => result'[r].after > 0
  BY <1>1 DEF PromiseInv, Cooling, Tick
<1>4. ASSUME NEW r \in Requests, promise'[r] > 0, NEW a \in pool'
      PROVE  NotBefore(a, ModelOf[r], promise[r])'
  <2>1. a \in pool /\ a \in Accounts /\ ModelOf[r] \in Models
    BY <1>1, PoolConstants DEF Tick, IInv, TypeOK
  <2>2. promise[r] \in Nat /\ promise'[r] = Dec(promise[r])
    BY <1>1 DEF PromiseInv
  <2>3. NotBefore(a, ModelOf[r], promise[r])
    BY <1>1, <1>4, <2>1, <2>2 DEF PromiseInv, Dec
  <2>4. /\ state' = state /\ coolLeft'[a] = Dec(coolLeft[a])
        /\ modelLeft'[a][ModelOf[r]] = Dec(modelLeft[a][ModelOf[r]])
    BY <2>1 DEF Tick
  <2>5. coolLeft[a] \in Nat /\ modelLeft[a][ModelOf[r]] \in Nat
    BY <1>1, <2>1, ReadyInNat
  <2> QED BY <2>2, <2>3, <2>4, <2>5 DEF NotBefore, ReadyIn, Larger, Dec
<1> QED BY <1>2, <1>3, <1>4 DEF PromiseInv

\* Every step of the pool with promises is a step of the pool.
LEMMA RetryIsPool ==
  ASSUME [RetryNext]_<<vars, promise>>
  PROVE  [Next]_vars
BY DEF RetryNext, Next

LEMMA RetryStep ==
  ASSUME RetryInv, [RetryNext]_<<vars, promise>>
  PROVE  RetryInv'
<1>1. IInv /\ PromiseInv
  BY DEF RetryInv
<1>2. IInv'
  BY <1>1, RetryIsPool, TypeStep, CountStep, PlaceStep, WaitStep DEF IInv
<1>3. ASSUME RequestStep /\ promise' = [r \in Requests |-> Promised(r)] PROVE PromiseInv'
  BY <1>2, <1>3, CallPromises, PoolConstants DEF RequestStep, IInv
<1>4. ASSUME (\E s \in Sessions : BindingExpires(s)) /\ UNCHANGED promise PROVE PromiseInv'
  BY <1>1, <1>4 DEF BindingExpires, accountVars, PromiseInv, Cooling, NotBefore, ReadyIn
<1>5. ASSUME Tick /\ promise' = [r \in Requests |-> Dec(promise[r])] PROVE PromiseInv'
  BY <1>5, TickPromises
<1>6. ASSUME (\E a \in Accounts : Operate(a)) /\ promise' = [r \in Requests |-> 0] PROVE PromiseInv'
  <2>1. result' = result
    BY <1>6 DEF Operate, Add, Enable, Disable, ResetCooldown, Reauthenticated, OperatorStep
  <2> QED BY <1>1, <1>6, <2>1 DEF PromiseInv, Cooling
<1>7. ASSUME UNCHANGED <<vars, promise>> PROVE PromiseInv'
  BY <1>1, <1>7 DEF vars, PromiseInv, Cooling, NotBefore, ReadyIn
<1>8. PromiseInv'
  BY <1>3, <1>4, <1>5, <1>6, <1>7 DEF RetryNext
<1> QED BY <1>2, <1>8 DEF RetryInv

-------------------------------------------------------------------------------
\* The inductive invariant.
THEOREM RetryInvariant == RetrySpec => []RetryInv
<1>1. RetryInit => RetryInv
  BY InitInv DEF RetryInit, RetryInv, PromiseInv, Init, Cooling, Result
<1>2. RetryInv /\ [RetryNext]_<<vars, promise>> => RetryInv'
  BY RetryStep
<1> QED BY <1>1, <1>2, PTL DEF RetrySpec

\* A client that was told every account is cooling was given a time, and none
\* of them can serve its model before that time has passed, unless an operator
\* intervenes (exhaustedFailure, cooldownModel, cooldownAccount).
THEOREM PromisesKept == RetrySpec => []RetryPromise
<1>1. ASSUME RetryInv, NEW r \in Requests, promise[r] > 0, NEW a \in pool
      PROVE  ~Available(a, ModelOf[r])
  <2>1. NotBefore(a, ModelOf[r], promise[r]) /\ promise[r] \in Nat /\ IInv /\ a \in Accounts
    BY <1>1 DEF RetryInv, PromiseInv, IInv, TypeOK
  <2> QED BY <1>1, <2>1, ReadyInNat DEF NotBefore
<1>2. RetryInv => RetryPromise
  BY <1>1 DEF RetryInv, PromiseInv, RetryPromise
<1> QED BY <1>2, RetryInvariant, PTL

-------------------------------------------------------------------------------
(***************************************************************************)
(* How accounts come into the pool (AccountAdmission): OnceAndOwn for any  *)
(* number of accounts, files and logins. It is not inductive: the watcher  *)
(* adds what it loaded some steps before, and a login replaces what it has *)
(* looked for some steps before. What carries it is that a complete        *)
(* credential stays what it is unless it came late (WholeKept), whoever    *)
(* writes, and that one login at a time is in commitCredential.            *)
(***************************************************************************)
AdmissionTypeOK ==
  /\ disk \in [Paths -> Files]
  /\ staged \subseteq Logins /\ login \in [Logins -> LoginStates]
  /\ name \in [Logins -> Paths] /\ user \in [Logins -> PolledAccount]
  /\ left \subseteq Names
(* The pool has each account once, with a file that is its own or was      *)
(* copied late; that counts for the account the watcher is about to add.   *)
OwnOrLate(a) ==
  a.uid \in Uids /\ a.path \in Paths /\ (disk[a.path] = File(a.uid, TRUE) \/ a.path \in late)
PoolOwn == \A a \in members \cup found : OwnOrLate(a)
PoolOnce == \A a, b \in members \cup found : a.uid = b.uid => a = b
(* During a pass the watcher knows the accounts of the pool.               *)
PassInv ==
  /\ phase = "down" => Resting
  /\ ~Resting => known.uids = UidsOf(members)
(* A login has an account once its user has chosen one, and its credential *)
(* is in a temporary file until it is in one of the directory. Those in    *)
(* commitCredential hold the mutex, so there is one; and a file that is    *)
(* there when it is about to rename has come late.                         *)
LoginInv(l) ==
  /\ login[l] \in {"idle", "pending"} => user[l] = NoUid
  /\ login[l] \in Committing => user[l] # NoUid /\ holder = l
  /\ \/ login[l] \in {"obtained", "refused"} \cup Committing
     \/ login[l] = "gone" /\ user[l] # NoUid
     => l \in staged
  /\ login[l] = "renaming" /\ disk[name[l]].there => name[l] \in late
SessionInv == \A l \in Logins : LoginInv(l)
AdmissionInv == AdmissionTypeOK /\ PoolOwn /\ PoolOnce /\ PassInv /\ SessionInv

(* What a step may do to a file.                                           *)
WholeKept == \A p \in Paths : disk[p].whole => disk'[p] = disk[p] \/ p \in late

(* A file, by its parts.                                                   *)
LEMMA FileParts ==
  ASSUME NEW u
  PROVE  /\ File(u, TRUE).uid = u /\ File(u, TRUE).whole /\ File(u, TRUE).there
         /\ File(u, FALSE).uid = u /\ ~File(u, FALSE).whole /\ File(u, FALSE).there
         /\ u \in Uids => File(u, TRUE) \in Files /\ File(u, FALSE) \in Files
<1>1. File(u, TRUE).uid = u /\ File(u, TRUE).whole /\ File(u, TRUE).there
  BY DEF File
<1>2. File(u, FALSE).uid = u /\ ~File(u, FALSE).whole /\ File(u, FALSE).there
  BY DEF File
<1>3. \A x \in Uids, w \in BOOLEAN : File(x, w) \in Files
  BY DEF Files
<1> QED
  BY <1>1, <1>2, <1>3

LEMMA FileShape ==
  ASSUME NEW f \in Files, f.there \/ f.whole
  PROVE  f.uid \in Uids /\ f.there /\ (f.whole => f = File(f.uid, TRUE))
<1>1. ~NoFile.whole /\ ~NoFile.there
  BY DEF NoFile
<1>2. PICK u \in Uids, w \in BOOLEAN : f = File(u, w)
  BY <1>1 DEF Files
<1>3. CASE w = TRUE
  BY <1>2, <1>3, FileParts
<1>4. CASE w = FALSE
  BY <1>2, <1>4, FileParts
<1> QED
  BY <1>3, <1>4

(* An account made of a complete file is an account of that file.          *)
LEMMA AccountShape ==
  ASSUME AdmissionTypeOK, NEW p \in Paths, disk[p].whole
  PROVE  /\ Account(p).uid = disk[p].uid /\ Account(p).path = p
         /\ Account(p).uid \in Uids /\ disk[p] = File(Account(p).uid, TRUE)
  BY FileShape DEF AdmissionTypeOK, Account

LEMMA AdmissionInitInv == AdmissionInit => AdmissionInv
  BY AdmissionAssumption DEF AdmissionInit, AdmissionInv, AdmissionTypeOK, PoolOwn, PoolOnce, PassInv, SessionInv,
     LoginInv, LoginStates, Committing, Resting, Paths, Outside, PolledAccount

(* How a step of commitCredential may end.                                 *)
CommitOutcome(l) ==
  \/ \E p \in Paths : Committed(l, p)
  \/ Refused(l)
  \/ \E p \in Paths, w \in Committing : GoesOn(l, w, p)
LEMMA CommitShape ==
  ASSUME AdmissionInv, NEW l \in Logins,
         CommitToPool(l) \/ FindDuplicate(l) \/ MergeDuplicate(l) \/ StatTarget(l) \/ RenameStaged(l)
  PROVE  /\ CommitOutcome(l)
         /\ UNCHANGED <<phase, boots, drops, user, members, watcher, late>>
         /\ holder = NoUid \/ holder = l
         /\ l \in staged
<1> USE AdmissionAssumption DEF AdmissionInv, AdmissionTypeOK, CommitStep
<1>0. LoginInv(l) /\ name[l] \in Paths /\ Names \subseteq Paths
  BY DEF SessionInv, Paths
<1>1. CASE CommitToPool(l)
  <2>1. \A a \in members : a.path \in Paths
    BY DEF PoolOwn, OwnOrLate
  <2> QED
    BY <1>0, <1>1, <2>1 DEF CommitToPool, CommitOutcome, Committing, LoginInv
<1>2. CASE FindDuplicate(l)
  BY <1>0, <1>2 DEF FindDuplicate, CommitOutcome, Committing, LoginInv
<1>3. CASE MergeDuplicate(l)
  BY <1>0, <1>3 DEF MergeDuplicate, CommitOutcome, Committing, LoginInv
<1>4. CASE StatTarget(l)
  BY <1>0, <1>4 DEF StatTarget, CommitOutcome, Committing, LoginInv
<1>5. CASE RenameStaged(l)
  BY <1>0, <1>5 DEF RenameStaged, CommitOutcome, Committing, LoginInv
<1> QED
  BY <1>1, <1>2, <1>3, <1>4, <1>5

(* A login that writes over a complete credential writes the same one, or  *)
(* over one that was copied late.                                          *)
LEMMA CommitKeeps ==
  ASSUME AdmissionInv, NEW l \in Logins,
         CommitToPool(l) \/ FindDuplicate(l) \/ MergeDuplicate(l) \/ StatTarget(l) \/ RenameStaged(l)
  PROVE  WholeKept /\ disk' \in [Paths -> Files]
<1> USE AdmissionAssumption DEF AdmissionInv, AdmissionTypeOK
<1>1. CASE UNCHANGED disk
  BY <1>1 DEF WholeKept
<1>2. ASSUME NEW p \in Paths, Replaced(l, p), user[l] \in Uids,
             disk[p].whole => disk[p].uid = user[l] \/ p \in late
      PROVE  WholeKept /\ disk' \in [Paths -> Files]
  <2>1. disk' = [disk EXCEPT ![p] = File(user[l], TRUE)]
    BY <1>2 DEF Replaced
  <2>2. File(user[l], TRUE) \in Files
    BY <1>2, FileParts
  <2>3. disk[p] \in Files
    OBVIOUS
  <2>4. disk[p].whole => disk[p] = File(user[l], TRUE) \/ p \in late
    BY <1>2, <2>3, FileShape
  <2> QED
    BY <2>1, <2>2, <2>4 DEF WholeKept
<1>3. ASSUME CommitToPool(l), disk' # disk PROVE WholeKept /\ disk' \in [Paths -> Files]
  <2>1. PICK a \in members : a.uid = user[l] /\ Replaced(l, a.path)
    BY <1>3 DEF CommitToPool, Committed, Refused, GoesOn
  <2>2. a.uid \in Uids /\ a.path \in Paths /\ (disk[a.path].uid = a.uid \/ a.path \in late)
    BY FileParts DEF PoolOwn, OwnOrLate
  <2> QED
    BY <1>2, <2>1, <2>2
<1>4. ASSUME login[l] \in Committing PROVE user[l] \in Uids /\ name[l] \in Paths
  BY <1>4 DEF SessionInv, LoginInv, PolledAccount
<1>5. ASSUME MergeDuplicate(l), disk' # disk PROVE WholeKept /\ disk' \in [Paths -> Files]
  <2>1. Replaced(l, name[l]) /\ disk[name[l]] = File(user[l], TRUE) /\ login[l] \in Committing
    BY <1>5 DEF MergeDuplicate, CommitStep, Committed, Refused, Committing
  <2>2. disk[name[l]].uid = user[l]
    BY <2>1, FileParts
  <2> QED
    BY <1>2, <1>4, <2>1, <2>2
<1>6. ASSUME RenameStaged(l), disk' # disk PROVE WholeKept /\ disk' \in [Paths -> Files]
  <2>1. Replaced(l, name[l]) /\ login[l] = "renaming"
    BY <1>6 DEF RenameStaged, CommitStep, Committed, Refused
  <2>2. user[l] \in Uids /\ name[l] \in Paths
    BY <1>4, <2>1 DEF Committing
  <2>3. disk[name[l]] \in Files
    BY <2>2
  <2>4. disk[name[l]].whole => name[l] \in late
    BY <2>1, <2>3, FileShape DEF SessionInv, LoginInv
  <2> QED
    BY <1>2, <2>1, <2>2, <2>4
<1>7. FindDuplicate(l) \/ StatTarget(l) => UNCHANGED disk
  BY DEF FindDuplicate, StatTarget, GoesOn, Refused
<1> QED
  BY <1>1, <1>3, <1>5, <1>6, <1>7

(* Every step keeps the types, and every complete credential.              *)
LEMMA FilesStep ==
  ASSUME AdmissionInv, AdmissionNext PROVE AdmissionTypeOK' /\ WholeKept
<1> USE AdmissionAssumption DEF AdmissionInv, AdmissionTypeOK
<1>1. ASSUME NEW l \in Logins,
             CommitToPool(l) \/ FindDuplicate(l) \/ MergeDuplicate(l) \/ StatTarget(l) \/ RenameStaged(l)
      PROVE  AdmissionTypeOK' /\ WholeKept
  <2>1. WholeKept /\ disk' \in [Paths -> Files]
    BY <1>1, CommitKeeps
  <2>2. UNCHANGED <<user, left>> /\ CommitOutcome(l)
    BY <1>1, CommitShape DEF watcher
  <2>3. ASSUME NEW p \in Paths, Committed(l, p)
        PROVE  name' \in [Logins -> Paths] /\ staged' \subseteq Logins /\ login' \in [Logins -> LoginStates]
    BY <2>3 DEF Committed, Replaced, LoginStates
  <2>4. ASSUME Refused(l)
        PROVE  name' \in [Logins -> Paths] /\ staged' \subseteq Logins /\ login' \in [Logins -> LoginStates]
    BY <2>4 DEF Refused, LoginStates
  <2>5. ASSUME NEW p \in Paths, NEW w \in Committing, GoesOn(l, w, p)
        PROVE  name' \in [Logins -> Paths] /\ staged' \subseteq Logins /\ login' \in [Logins -> LoginStates]
    BY <2>5 DEF GoesOn, LoginStates
  <2> QED
    BY <2>1, <2>2, <2>3, <2>4, <2>5 DEF CommitOutcome
<1>2. ASSUME NEW n \in Names, NEW u \in Uids, Drop(n, u) PROVE AdmissionTypeOK' /\ WholeKept
  <2>1. ~disk[n].whole /\ n \in Paths
    BY <1>2, FileShape DEF Drop, Paths
  <2>2. File(u, FALSE) \in Files
    BY FileParts
  <2> QED
    BY <1>2, <2>1, <2>2 DEF Drop, WholeKept, sessions, watcher
<1>3. ASSUME NEW n \in Names, Complete(n) PROVE AdmissionTypeOK' /\ WholeKept
  <2>1. n \in Paths /\ disk[n].uid \in Uids
    BY <1>3, FileShape DEF Complete, Paths
  <2>2. File(disk[n].uid, TRUE) \in Files
    BY <2>1, FileParts
  <2> QED
    BY <1>3, <2>1, <2>2 DEF Complete, WholeKept, sessions, watcher
<1>4. CASE Boot \/ Crash
  BY <1>4 DEF Boot, Crash, WholeKept, sessions, watcher, LoginStates
<1>5. CASE Scan
  BY <1>5 DEF Scan, ScanBegins, AddCandidate, Skip, LoadCandidate, WholeKept, sessions, First
<1>6. ASSUME NEW l \in Logins,
             LoginFails(l) \/ (\E n \in Names : Start(l, n)) \/ (\E u \in PolledAccount : Obtain(l, u))
      PROVE  AdmissionTypeOK' /\ WholeKept
  <2>1. CASE LoginFails(l)
    BY <2>1 DEF LoginFails, WholeKept, watcher, LoginStates
  <2>2. ASSUME NEW n \in Names, Start(l, n) PROVE AdmissionTypeOK' /\ WholeKept
    BY <2>2 DEF Start, WholeKept, watcher, LoginStates, Paths
  <2>3. ASSUME NEW u \in PolledAccount, Obtain(l, u) PROVE AdmissionTypeOK' /\ WholeKept
    BY <2>3 DEF Obtain, Stage, WholeKept, watcher, LoginStates
  <2> QED
    BY <1>6, <2>1, <2>2, <2>3
<1> QED
  BY <1>1, <1>2, <1>3, <1>4, <1>5, <1>6 DEF AdmissionNext, Commit

(* What a step of commitCredential leaves as it is.                        *)
LEMMA CommitLate ==
  ASSUME NEW l \in Logins,
         CommitToPool(l) \/ FindDuplicate(l) \/ MergeDuplicate(l) \/ StatTarget(l) \/ RenameStaged(l)
  PROVE  UNCHANGED late
  BY DEF CommitToPool, FindDuplicate, MergeDuplicate, StatTarget, RenameStaged, CommitStep

(* What has come late stays so until the gateway stops.                    *)
LEMMA LateStays ==
  ASSUME AdmissionNext PROVE Crash \/ late \subseteq late'
  BY CommitLate DEF AdmissionNext, Scan, ScanBegins, Skip, LoadCandidate, AddCandidate, Boot, Drop, Complete, Start,
     Obtain, LoginFails, Commit

(* Steps that leave the accounts alone keep them apart and their own.      *)
LEMMA PoolSteady ==
  ASSUME AdmissionInv, WholeKept, late \subseteq late', members' \cup found' \subseteq members \cup found
  PROVE  PoolOwn' /\ PoolOnce'
<1>1. ASSUME NEW a \in members' \cup found' PROVE OwnOrLate(a)'
  <2>1. a \in members \cup found
    OBVIOUS
  <2>2. a.uid \in Uids /\ a.path \in Paths /\ (disk[a.path] = File(a.uid, TRUE) \/ a.path \in late)
    BY <2>1 DEF AdmissionInv, PoolOwn, OwnOrLate
  <2>3. disk'[a.path] = File(a.uid, TRUE) \/ a.path \in late'
    BY <2>2, FileParts DEF WholeKept
  <2> QED
    BY <2>2, <2>3 DEF OwnOrLate
<1>2. PoolOnce'
  BY DEF AdmissionInv, PoolOnce
<1> QED
  BY <1>1, <1>2 DEF PoolOwn

LEMMA PoolStep ==
  ASSUME AdmissionInv, AdmissionNext PROVE PoolOwn' /\ PoolOnce'
<1> USE AdmissionAssumption
<1>1. WholeKept
  BY FilesStep
<1>2. CASE UNCHANGED <<members, found>> /\ ~Crash
  BY <1>1, <1>2, PoolSteady, LateStays
<1>3. CASE Crash
  BY <1>3 DEF Crash, PoolOwn, PoolOnce
<1>4. CASE Boot
  <2> DEFINE loads == {p \in Paths : disk[p].whole}
             same(n) == {m \in loads : disk[m].uid = disk[n].uid}
  <2>1. members' = {Account(p) : p \in {n \in loads : First(n, same(n))}} /\ disk' = disk /\ found' = {}
    BY <1>4 DEF Boot, watcher, AdmissionInv, PassInv, Resting
  <2>2. \A p \in loads : /\ Account(p).uid = disk[p].uid /\ Account(p).path = p
                         /\ Account(p).uid \in Uids /\ disk[p] = File(Account(p).uid, TRUE)
    BY AccountShape DEF AdmissionInv
  <2>3. ASSUME NEW p \in loads, NEW q \in loads, First(p, same(p)), First(q, same(q)), disk[p].uid = disk[q].uid
        PROVE  p = q
    BY <2>3 DEF First, Paths, Outside
  <2>4. PoolOwn'
    <3>1. ASSUME NEW a \in members' PROVE a.uid \in Uids /\ a.path \in Paths /\ disk'[a.path] = File(a.uid, TRUE)
      <4>1. PICK p \in loads : a = Account(p)
        BY <2>1
      <4>2. p \in Paths
        OBVIOUS
      <4> QED
        BY <2>1, <2>2, <4>1, <4>2
    <3> QED
      BY <2>1, <3>1 DEF PoolOwn, OwnOrLate
  <2>5. ASSUME NEW a \in members', NEW b \in members', a.uid = b.uid PROVE a = b
    <3>1. PICK p \in loads : a = Account(p) /\ First(p, same(p))
      BY <2>1
    <3>2. PICK q \in loads : b = Account(q) /\ First(q, same(q))
      BY <2>1
    <3> QED
      BY <2>2, <2>3, <2>5, <3>1, <3>2
  <2> QED
    BY <2>1, <2>4, <2>5 DEF PoolOnce
<1>5. CASE AddCandidate
  BY <1>1, <1>5, PoolSteady DEF AddCandidate
<1>6. ASSUME NEW n \in Names, LoadCandidate(n) PROVE PoolOwn' /\ PoolOnce'
  <2>1. n \in Paths /\ disk[n].whole /\ found = {} /\ UNCHANGED <<disk, members, late>>
    BY <1>6 DEF LoadCandidate, Unfit, sessions, Paths
  <2>2. /\ Account(n).uid = disk[n].uid /\ Account(n).path = n
        /\ Account(n).uid \in Uids /\ disk[n] = File(Account(n).uid, TRUE)
    BY <2>1, AccountShape DEF AdmissionInv
  <2>3. CASE found' = {}
    BY <1>1, <2>1, <2>3, PoolSteady
  <2>4. CASE found' = {Account(n)} /\ disk[n].uid \notin known.uids
    <3>1. known.uids = UidsOf(members)
      BY <1>6 DEF LoadCandidate, First, Resting, AdmissionInv, PassInv
    <3>2. \A a \in members : a.uid # Account(n).uid
      BY <2>2, <2>4, <3>1 DEF UidsOf
    <3>3. PoolOnce'
      BY <2>1, <2>4, <3>2 DEF AdmissionInv, PoolOnce
    <3> PICK b : b = Account(n)
      OBVIOUS
    <3>4. b.uid \in Uids /\ b.path \in Paths /\ disk'[b.path] = File(b.uid, TRUE)
      BY <2>1, <2>2
    <3>5. \A a \in members : OwnOrLate(a)'
      BY <2>1 DEF AdmissionInv, PoolOwn, OwnOrLate
    <3> QED
      <4>1. members' \cup found' = members \cup {b}
        BY <2>1, <2>4
      <4>2. \A a \in members \cup {b} : OwnOrLate(a)'
        BY <3>4, <3>5 DEF OwnOrLate
      <4> QED
        BY <3>3, <4>1, <4>2 DEF PoolOwn
  <2> QED
    BY <1>6, <2>3, <2>4 DEF LoadCandidate
<1>7. ASSUME NEW l \in Logins,
             CommitToPool(l) \/ FindDuplicate(l) \/ MergeDuplicate(l) \/ StatTarget(l) \/ RenameStaged(l)
      PROVE  PoolOwn' /\ PoolOnce'
  <2>1. UNCHANGED <<members, found, late>>
    BY <1>7, CommitShape DEF watcher
  <2> QED
    BY <1>1, <2>1, PoolSteady
<1>8. CASE Crash \/ Boot \/ AddCandidate \/ \E n \in Names : LoadCandidate(n)
  BY <1>3, <1>4, <1>5, <1>6, <1>8
<1>9. CASE ~Crash /\ (ScanBegins \/ (\E n \in Names : Skip(n) \/ Complete(n) \/ \E u \in Uids : Drop(n, u))
                 \/ (\E l \in Logins : \/ LoginFails(l) \/ (\E n \in Names : Start(l, n))
                                       \/ (\E u \in PolledAccount : Obtain(l, u))))
  BY <1>2, <1>9 DEF ScanBegins, Skip, Complete, Drop, LoginFails, Start, Obtain, watcher
<1> QED
  BY <1>3, <1>7, <1>8, <1>9 DEF AdmissionNext, Scan, Commit

(* The watcher: its pass begins with the accounts of the pool, and only it *)
(* adds any before the pass is over.                                       *)
LEMMA PassStep ==
  ASSUME AdmissionInv, AdmissionNext PROVE PassInv'
<1> USE AdmissionAssumption
<1>1. CASE UNCHANGED <<phase, members, known, left, found>>
  BY <1>1 DEF AdmissionInv, PassInv, Resting, UidsOf
<1>2. CASE Boot
  BY <1>2 DEF Boot, AdmissionInv, PassInv, Resting, watcher
<1>3. CASE Crash
  BY <1>3 DEF Crash, PassInv, Resting
<1>4. CASE ScanBegins
  BY <1>4 DEF ScanBegins, PassInv
<1>5. ASSUME NEW n \in Names, Skip(n) \/ LoadCandidate(n) PROVE PassInv'
  <2>1. known.uids = UidsOf(members) /\ UNCHANGED <<phase, members, known>> /\ phase = "up"
    BY <1>5 DEF Skip, LoadCandidate, First, AdmissionInv, PassInv, Resting
  <2> QED
    BY <2>1 DEF PassInv, UidsOf
<1>6. CASE AddCandidate
  <2>1. known.uids = UidsOf(members) /\ members' = members \cup found /\ UNCHANGED phase /\ phase = "up"
    BY <1>6 DEF AddCandidate, AdmissionInv, PassInv, Resting
  <2>2. known'.uids = UidsOf(members) \cup UidsOf(found)
    BY <1>6, <2>1 DEF AddCandidate
  <2>3. UidsOf(members \cup found) = UidsOf(members) \cup UidsOf(found)
    BY DEF UidsOf
  <2>4. known'.uids = UidsOf(members)'
    BY <2>1, <2>2, <2>3 DEF UidsOf
  <2> QED
    BY <2>1, <2>4 DEF PassInv
<1>7. CASE Commit
  <2>1. UNCHANGED <<phase, members, watcher>>
    BY <1>7, CommitShape DEF Commit
  <2> QED
    BY <1>1, <2>1 DEF watcher
<1> QED
  BY <1>1, <1>2, <1>3, <1>4, <1>5, <1>6, <1>7 DEF AdmissionNext, Scan,
     Drop, Complete, Start, Obtain, LoginFails, watcher

(* A step of a login that others need not notice.                          *)
LEMMA OthersKeep ==
  ASSUME AdmissionInv, NEW l \in Logins, NEW k \in Logins, k # l,
         login'[k] = login[k], name'[k] = name[k], user'[k] = user[k],
         k \in staged => k \in staged',
         UNCHANGED late,
         (holder' = holder /\ disk' = disk) \/ holder \in {NoUid, l}
  PROVE  LoginInv(k)'
<1>1. LoginInv(k)
  BY DEF AdmissionInv, SessionInv
<1>2. CASE holder \in {NoUid, l}
  <2>1. login[k] \notin Committing
    BY <1>1, <1>2, AdmissionAssumption DEF LoginInv
  <2> QED
    BY <1>1, <2>1 DEF LoginInv, Committing
<1>3. CASE holder' = holder /\ disk' = disk
  BY <1>1, <1>3 DEF LoginInv
<1> QED
  BY <1>2, <1>3

LEMMA SessionStep ==
  ASSUME AdmissionInv, AdmissionNext PROVE SessionInv'
<1> USE AdmissionAssumption DEF AdmissionTypeOK
<1>0. AdmissionTypeOK /\ \A l \in Logins : LoginInv(l)
  BY DEF AdmissionInv, SessionInv
<1>1. CASE UNCHANGED <<sessions, disk, late>>
  BY <1>0, <1>1 DEF sessions, SessionInv, LoginInv
<1>2. CASE Crash
  <2>1. ASSUME NEW l \in Logins PROVE LoginInv(l)'
    <3>1. /\ UNCHANGED <<user, staged>>
          /\ login'[l] = IF login[l] \in {"pending", "obtained"} \cup Committing THEN "gone" ELSE login[l]
      BY <1>0, <1>2 DEF Crash
    <3> QED
      BY <1>0, <3>1 DEF LoginInv, Committing
  <2> QED
    BY <2>1 DEF SessionInv
<1>3. ASSUME NEW l \in Logins,
             LoginFails(l) \/ (\E n \in Names : Start(l, n)) \/ (\E u \in PolledAccount : Obtain(l, u))
      PROVE  SessionInv'
  <2>1. /\ UNCHANGED <<holder, disk, late>>
        /\ \A k \in Logins \ {l} : login'[k] = login[k] /\ name'[k] = name[k] /\ user'[k] = user[k]
        /\ staged \subseteq staged'
    BY <1>0, <1>3 DEF LoginFails, Start, Obtain, Stage
  <2>2. \A k \in Logins \ {l} : LoginInv(k)'
    BY <2>1, OthersKeep
  <2>3. LoginInv(l)'
    <3>1. login[l] \in {"idle", "pending"} /\ user[l] = NoUid
      BY <1>0, <1>3 DEF LoginFails, Start, Obtain, LoginInv
    <3>2. \/ login'[l] \in {"failed", "pending"} /\ user'[l] = NoUid
          \/ login'[l] = "failed"
          \/ login'[l] = "obtained" /\ l \in staged'
      BY <1>0, <1>3, <3>1 DEF LoginFails, Start, Obtain, Stage
    <3> QED
      BY <3>2 DEF LoginInv, Committing
  <2> QED
    BY <2>2, <2>3 DEF SessionInv
<1>4. ASSUME NEW l \in Logins,
             CommitToPool(l) \/ FindDuplicate(l) \/ MergeDuplicate(l) \/ StatTarget(l) \/ RenameStaged(l)
      PROVE  SessionInv'
  <2>1. /\ CommitOutcome(l) /\ l \in staged /\ holder \in {NoUid, l}
        /\ UNCHANGED <<user, late>>
    BY <1>4, CommitShape
  <2>2. \A k \in Logins \ {l} : login'[k] = login[k] /\ name'[k] = name[k] /\ (k \in staged => k \in staged')
    BY <1>0, <2>1 DEF CommitOutcome, Committed, Replaced, Refused, GoesOn
  <2>3. \A k \in Logins \ {l} : LoginInv(k)'
    BY <2>1, <2>2, OthersKeep
  <2>4. user[l] # NoUid \/ Refused(l)
    BY <1>0, <1>4 DEF CommitToPool, FindDuplicate, MergeDuplicate, StatTarget, RenameStaged, CommitStep, LoginInv,
       Committing
  <2>5. ASSUME NEW p \in Paths, GoesOn(l, "renaming", p) PROVE ~disk'[p].there
    BY <1>0, <1>4, <2>5 DEF CommitToPool, FindDuplicate, MergeDuplicate, StatTarget, RenameStaged, GoesOn, Committed,
       Refused
  <2>6. LoginInv(l)'
    <3>1. CASE Refused(l)
      BY <1>0, <2>1, <3>1 DEF Refused, LoginInv, Committing
    <3>2. ASSUME NEW p \in Paths, Committed(l, p) PROVE LoginInv(l)'
      BY <1>0, <3>2 DEF Committed, LoginInv, Committing
    <3>3. ASSUME NEW p \in Paths, NEW w \in Committing, GoesOn(l, w, p), user[l] # NoUid PROVE LoginInv(l)'
      <4>1. login'[l] = w /\ name'[l] = p /\ holder' = l /\ user'[l] = user[l] /\ l \in staged'
        BY <1>0, <2>1, <3>3 DEF GoesOn
      <4>2. w = "renaming" => ~disk'[p].there
        BY <2>5, <3>3
      <4> QED
        BY <3>3, <4>1, <4>2 DEF LoginInv, Committing
    <3> QED
      BY <2>1, <2>4, <3>1, <3>2, <3>3 DEF CommitOutcome
  <2> QED
    BY <2>3, <2>6 DEF SessionInv
<1>5. ASSUME NEW n \in Names, NEW u \in Uids, Drop(n, u) PROVE SessionInv'
  <2>1. /\ UNCHANGED sessions /\ disk' = [disk EXCEPT ![n] = File(u, FALSE)]
        /\ late \subseteq late'
        /\ \A l \in Logins : login[l] = "renaming" /\ name[l] = n => n \in late'
    BY <1>5 DEF Drop
  <2>2. \A l \in Logins : name[l] # n => disk'[name[l]] = disk[name[l]]
    BY <1>0, <2>1
  <2> QED
    BY <1>0, <2>1, <2>2 DEF sessions, SessionInv, LoginInv
<1>6. ASSUME NEW n \in Names, Complete(n) PROVE SessionInv'
  <2>1. /\ UNCHANGED <<sessions, late>> /\ disk' = [disk EXCEPT ![n] = File(@.uid, TRUE)]
        /\ disk[n].there
    BY <1>6 DEF Complete
  <2>2. \A l \in Logins : name[l] # n => disk'[name[l]] = disk[name[l]]
    BY <1>0, <2>1
  <2> QED
    BY <1>0, <2>1, <2>2 DEF sessions, SessionInv, LoginInv
<1> QED
  BY <1>1, <1>2, <1>3, <1>4, <1>5, <1>6 DEF AdmissionNext, Commit, Scan, Boot, ScanBegins, Skip, LoadCandidate,
     AddCandidate

LEMMA AdmissionStep == AdmissionInv /\ [AdmissionNext]_admissionVars => AdmissionInv'
<1>1. ASSUME AdmissionInv, AdmissionNext PROVE AdmissionInv'
  BY <1>1, FilesStep, PoolStep, PassStep, SessionStep DEF AdmissionInv
<1>2. ASSUME AdmissionInv, UNCHANGED admissionVars PROVE AdmissionInv'
  BY <1>2 DEF admissionVars, AdmissionInv, AdmissionTypeOK, PoolOwn, OwnOrLate, PoolOnce, PassInv, SessionInv,
     LoginInv, Resting, UidsOf
<1> QED
  BY <1>1, <1>2

(* The inductive invariant.                                                *)
THEOREM AdmissionInvariant == AdmissionSpec => []AdmissionInv
  BY AdmissionInitInv, AdmissionStep, PTL DEF AdmissionSpec

(* No account is in the pool twice; each has its own file, unless that was *)
(* copied in between os.Stat and os.Rename of a login; and what a login    *)
(* has staged stays until it is committed, through refusals and crashes    *)
(* (scanAccountDir, buildAdapter, commitCredential).                       *)
THEOREM AccountsOnceAndOwn == AdmissionSpec => []OnceAndOwn
<1>1. AdmissionInv => OnceAndOwn
  BY DEF AdmissionInv, PoolOwn, OwnOrLate, PoolOnce, SessionInv, LoginInv, OnceAndOwn
<1> QED
  BY <1>1, AdmissionInvariant, PTL

(* A complete credential stays what it is, whoever copies, logs in or      *)
(* commits in whatever order, but for one that was copied to the name a    *)
(* login had found free and was about to rename to: the only file of which *)
(* what the watcher and commitCredential have read may be out of date when *)
(* they act on it.                                                         *)
THEOREM CredentialsKeepTheirAccount == AdmissionSpec => [][WholeKept]_admissionVars
<1>1. AdmissionInv /\ [AdmissionNext]_admissionVars => [WholeKept]_admissionVars
  BY FilesStep
<1> QED
  BY <1>1, AdmissionInvariant, PTL DEF AdmissionSpec
===============================================================================
