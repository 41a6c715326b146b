------------------------------ MODULE SlotLedger ------------------------------
(***************************************************************************)
(* What the account pool promises about its resources, with everything     *)
(* else (health, cooldowns, affinity, timers, wake-ups) forgotten: a       *)
(* request holds at most one slot of one account, an account never has     *)
(* more holders than the configured concurrency, and a request that cannot *)
(* be served at once waits in a queue of bounded length.                   *)
(***************************************************************************)
EXTENDS Naturals, FiniteSets

CONSTANTS Accounts,    \* the accounts a pool may contain
          Requests,    \* the client requests served by the pool
          NoAccount,   \* marks a request without a slot
          MaxConc,     \* max_concurrency_per_account; 0 means unlimited
          QueueLimit   \* how many requests may wait at once

VARIABLES lease,       \* lease[r] is the account whose slot r holds
          waiting      \* the requests counted in the waiting queue

ledgerVars == <<lease, waiting>>

LeaseHolders(a) == {r \in Requests : lease[r] = a}

LedgerInit ==
  /\ lease = [r \in Requests |-> NoAccount]
  /\ waiting = {}

Acquire(r, a) ==
  /\ lease[r] = NoAccount
  /\ MaxConc # 0 => Cardinality(LeaseHolders(a)) < MaxConc
  /\ lease' = [lease EXCEPT ![r] = a]
  /\ UNCHANGED waiting

Return(r) ==
  /\ lease[r] # NoAccount
  /\ lease' = [lease EXCEPT ![r] = NoAccount]
  /\ UNCHANGED waiting

Enqueue(r) ==
  /\ lease[r] = NoAccount
  /\ r \notin waiting
  /\ Cardinality(waiting) < QueueLimit
  /\ waiting' = waiting \cup {r}
  /\ UNCHANGED lease

Leave(r) ==
  /\ r \in waiting
  /\ waiting' = waiting \ {r}
  /\ UNCHANGED lease

LedgerNext ==
  \E r \in Requests :
    \/ \E a \in Accounts : Acquire(r, a)
    \/ Return(r)
    \/ Enqueue(r)
    \/ Leave(r)

LedgerSpec == LedgerInit /\ [][LedgerNext]_ledgerVars
===============================================================================
