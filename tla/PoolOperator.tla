----------------------------- MODULE PoolOperator ------------------------------
(***************************************************************************)
(* AccountPool with a history variable: the accounts whose last operator   *)
(* command among enable and disable was "disable".                         *)
(***************************************************************************)
EXTENDS AccountPool

VARIABLE off

OperatorInit == Init /\ off = {}
OperatorNext ==
  \/ (RequestStep \/ Tick \/ \E s \in Sessions : BindingExpires(s)) /\ UNCHANGED off
  \/ \E a \in Accounts :
       \/ "enable" \in Commands /\ Enable(a) /\ off' = off \ {a}
       \/ "disable" \in Commands /\ Disable(a) /\ off' = off \cup {a}
       \/ /\ \/ "add" \in Commands /\ Add(a)
             \/ "reset" \in Commands /\ ResetCooldown(a)
             \/ "reauthenticated" \in Commands /\ Reauthenticated(a)
          /\ UNCHANGED off

OperatorSpec == OperatorInit /\ [][OperatorNext]_<<vars, off>>

\* An account the operator disabled takes no part in scheduling until the
\* operator enables it again (pool.go, stateDisabled and SetAccountEnabled;
\* docs/accounts.md on clearing cooldowns and on logging in again).
DisableSticks ==
  \A a \in off : \A m \in Models : ~Available(a, m)
===============================================================================
