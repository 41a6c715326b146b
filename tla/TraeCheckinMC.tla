----------------------------- MODULE TraeCheckinMC -----------------------------
(* TraeLogin and TraeCheckin for TLC. They share only the process and the  *)
(* credential file, and a login does to that file what CredentialChanges   *)
(* does: a behaviour here is one of logins or one of check-ins, as its     *)
(* first step says. Login sessions are interchangeable.                    *)
EXTENDS TraeCheckin, TLC

CONSTANT u1
ElsewhereOnce == {<<u1, 1>>}
LoginsAlike == Permutations(Logins)

NoLoginYet == exchanged = None /\ grant = None /\ \A l \in Logins : login[l] = "idle"
NoCheckinYet ==
  <<day, state, saved, run, tick, packs, claimed, crashes>>
    = <<1, NoFile, NoFile, NoRun, NoTick, {}, {}, 0>>

Next ==
  \/ NoCheckinYet /\ LoginNext /\ UNCHANGED checkinVars
  \/ NoLoginYet /\ CheckinNext
Spec == CheckinInit /\ [][Next]_vars
===============================================================================
