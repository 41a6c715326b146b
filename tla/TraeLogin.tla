------------------------------- MODULE TraeLogin -------------------------------
(***************************************************************************)
(* The web login of TRAE: one credential file, of one account, and two     *)
(* files from which a login that was cut off goes on (trae/login.go,       *)
(* trae/grant.go, trae/auth.go, startTrae in app/login.go).                *)
(* A file is the account it belongs to. The files expire; a login that     *)
(* finds an expired one fails like one the upstream refuses.               *)
(***************************************************************************)
EXTENDS Naturals

CONSTANTS
  Accounts,     \* accounts of TRAE
  None,         \* no account: no such file
  Logins,       \* login sessions
  LastRemoval   \* bound: how often somebody deletes the credential file

ASSUME LoginAssumption == None \notin Accounts /\ LastRemoval \in Nat

VARIABLES
  up,        \* the gateway runs
  cred,      \* the credential file
  exchanged, \* the pending file: a token whose account is not confirmed yet
  grant,     \* the grant file: an authorization code whose token is not saved yet
  spent,     \* upstream: the code of the grant file has been exchanged
  login,     \* login -> where it is
  held,      \* login -> the account whose code or token it holds in memory
  removals
files == <<cred, exchanged, grant>>
loginVars == <<up, cred, exchanged, grant, spent, login, held, removals>>

InProgress == {"web", "exchanging", "saving", "resolving", "checking", "replacing"}
LoginStates == InProgress \cup {"idle", "success", "failed"}

LoginTypeOK ==
  /\ up \in BOOLEAN /\ spent \in BOOLEAN /\ removals \in Nat
  /\ cred \in Accounts \cup {None} /\ exchanged \in Accounts \cup {None} /\ grant \in Accounts \cup {None}
  /\ login \in [Logins -> LoginStates] /\ held \in [Logins -> Accounts \cup {None}]

LoginInit ==
  /\ up = FALSE /\ spent = FALSE /\ removals = 0
  /\ cred \in Accounts \cup {None} /\ exchanged = None /\ grant = None
  /\ login = [l \in Logins |-> "idle"] /\ held = [l \in Logins |-> None]

----------------------------------------------------------------------------
(* Where a login begins: resumeLogin takes up a pending token, then a      *)
(* saved grant; otherwise the user is sent to the web page.                *)
Begin(l) ==
  \/ /\ exchanged # None
     /\ login' = [login EXCEPT ![l] = "resolving"] /\ held' = [held EXCEPT ![l] = exchanged]
  \/ /\ exchanged = None /\ grant # None
     /\ login' = [login EXCEPT ![l] = "exchanging"] /\ held' = [held EXCEPT ![l] = grant]
  \/ /\ exchanged = None /\ grant = None
     /\ login' = [login EXCEPT ![l] = "web"] /\ UNCHANGED held
(* Variant: every request for a login starts one.                          *)
StartAnother(l) ==
  /\ up /\ login[l] = "idle"
  /\ Begin(l)
  /\ UNCHANGED <<up, files, spent, removals>>
(* startTrae: a request for a login gets the session in progress.          *)
StartTrae(l) ==
  /\ up /\ login[l] = "idle"
  /\ \A k \in Logins : login[k] \notin InProgress
  /\ Begin(l)
  /\ UNCHANGED <<up, files, spent, removals>>

(* The handler of /authorize, which runs once: the code is saved before it *)
(* is used.                                                                *)
Authorize(l, a) ==
  /\ up /\ login[l] = "web"
  /\ grant' = a /\ spent' = FALSE
  /\ login' = [login EXCEPT ![l] = "exchanging"] /\ held' = [held EXCEPT ![l] = a]
  /\ UNCHANGED <<up, cred, exchanged, removals>>
(* exchangeToken: a code can be exchanged once, and its answer may not     *)
(* come.                                                                   *)
Redeem(l) ==
  /\ up /\ login[l] = "exchanging" /\ ~spent
  /\ spent' = TRUE
  /\ \E next \in {"saving", "failed"} : login' = [login EXCEPT ![l] = next]
  /\ UNCHANGED <<up, files, held, removals>>
(* Variant: the token is not saved as pending.                             *)
SkipPending(l) ==
  /\ up /\ login[l] = "saving"
  /\ grant' \in {None, grant}
  /\ \E next \in {"checking", "failed"} : login' = [login EXCEPT ![l] = next]
  /\ UNCHANGED <<up, cred, exchanged, spent, held, removals>>
(* The token is saved as pending, and the code removed if that works. An   *)
(* account that the answer leaves open ends the login; the next one        *)
(* resumes there. (When the save fails, LoginFails: the code stays.)       *)
SavePending(l) ==
  /\ up /\ login[l] = "saving"
  /\ exchanged' = held[l] /\ grant' \in {None, grant}
  /\ \E next \in {"checking", "failed"} : login' = [login EXCEPT ![l] = next]
  /\ UNCHANGED <<up, cred, spent, held, removals>>
(* resolveCredentialIdentity, for a pending token.                         *)
Resolve(l) ==
  /\ up /\ login[l] = "resolving"
  /\ login' = [login EXCEPT ![l] = "checking"]
  /\ UNCHANGED <<up, files, spent, held, removals>>
(* saveCredential: a file of another account is left alone ...             *)
CheckOwner(l) ==
  /\ up /\ login[l] = "checking"
  /\ login' = [login EXCEPT ![l] = IF cred \in {None, held[l]} THEN "replacing" ELSE "failed"]
  /\ UNCHANGED <<up, files, spent, held, removals>>
(* ... the new file is renamed, and the pending one removed if that works. *)
(* The session may have run out of time meanwhile.                         *)
Replace(l) ==
  /\ up /\ login[l] = "replacing"
  /\ cred' = held[l] /\ exchanged' \in {None, exchanged}
  /\ \E end \in {"success", "failed"} : login' = [login EXCEPT ![l] = end]
  /\ UNCHANGED <<up, grant, spent, held, removals>>
(* The upstream refuses or does not answer, a file cannot be written, or   *)
(* the time is up: what was saved stays.                                   *)
LoginFails(l) ==
  /\ up /\ login[l] \in InProgress
  /\ login' = [login EXCEPT ![l] = "failed"]
  /\ UNCHANGED <<up, files, spent, held, removals>>

(* External: the owner of the gateway deletes the credential file, at any  *)
(* time, to use another account.                                           *)
RemoveCredential ==
  /\ cred # None /\ removals < LastRemoval
  /\ cred' = None /\ removals' = removals + 1
  /\ UNCHANGED <<up, exchanged, grant, spent, login, held>>

LoginStep ==
  \/ \E l \in Logins : \/ StartTrae(l) \/ (\E a \in Accounts : Authorize(l, a))
                       \/ Redeem(l) \/ SavePending(l) \/ Resolve(l) \/ CheckOwner(l) \/ Replace(l) \/ LoginFails(l)
  \/ RemoveCredential

(* The process starts, and ends. Sessions are in memory.                   *)
LoginBoot == ~up /\ up' = TRUE /\ UNCHANGED <<files, spent, login, held, removals>>
LoginCrash ==
  /\ up /\ up' = FALSE
  /\ login' = [l \in Logins |-> IF login[l] \in InProgress THEN "failed" ELSE login[l]]
  /\ held' = [l \in Logins |-> None]
  /\ UNCHANGED <<files, spent, removals>>

LoginNext == LoginStep \/ LoginBoot \/ LoginCrash
LoginSpec == LoginInit /\ [][LoginNext]_loginVars

----------------------------------------------------------------------------
(* A login never replaces the credential of another account, and what it   *)
(* has got from the user is on the disk, whatever fails or crashes on the  *)
(* way: the code stays in the grant file until the pending file has its    *)
(* token, no login goes on to the credential file with a token that only   *)
(* its memory holds, and the token stays in the pending file until the     *)
(* credential file has it. Nothing is said of one moment: a crash or a     *)
(* failure between the answer and SavePending loses the token of a code    *)
(* that can be used only once (saveCredential, finishAuthorization,        *)
(* resumeLogin).                                                           *)
LoginFilesSafe ==
  [][ /\ cred # None => cred' \in {cred, None}
      /\ grant # None => grant' = grant \/ exchanged' = grant
      /\ \A l \in Logins : login'[l] \in {"checking", "replacing"} => exchanged' = held'[l]
      /\ exchanged # None => exchanged' = exchanged \/ cred' = exchanged ]_loginVars
===============================================================================
