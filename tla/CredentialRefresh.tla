--------------------------- MODULE CredentialRefresh ---------------------------
(***************************************************************************)
(* The credential of one account: Auth in adapter/workbuddy/auth.go.       *)
(*                                                                         *)
(* Callers (requests, the keep-alive) run refresh; the exchange with the   *)
(* platform is a goroutine of its own, a flight, shared by every caller    *)
(* that arrives while it runs.  A login replaces the credential meanwhile. *)
(* A critical section of a.mu is one action; commitMu, which spans several *)
(* of them and the write of the file, is the variable commit.              *)
(*                                                                         *)
(* A credential is the session it descends from and the number of its      *)
(* rotation modulo Generations: a flight compares its base with the        *)
(* credential in use only, and no two rotations of a session happen while  *)
(* it runs, so the numbers may wrap.  A definition introduced by           *)
(* "Variant:" is no part of the model but a bug the next one could have.   *)
(***************************************************************************)
EXTENDS Naturals, FiniteSets

CONSTANTS
  Callers,        \* the goroutines calling EnsureValid and Refresh
  Impatient,      \* those whose context may be cancelled
  Flights,        \* names for the refreshes that have not finished
  Logins,         \* the logins of this account
  NoFlight, Nobody,
  Generations     \* rotations of a session are told apart modulo this

ASSUME RefreshConstants ==
  /\ IsFiniteSet(Callers) /\ Impatient \subseteq Callers
  /\ NoFlight \notin Flights
  /\ Nobody \notin Flights \cup Logins
  /\ Flights \cap Logins = {}
  /\ Generations \in Nat /\ Generations >= 2

VARIABLES
  cred,        \* a.cred
  life,        \* of cred: valid, soon (within 60 seconds) or expired
  saved,       \* the credential in the file
  saveFailed,  \* history: the last save of a rotation failed
  commit,      \* the holder of commitMu
  refreshing,  \* a.refreshing
  flight,      \* the credentialRefresh records in use
  login,       \* where each login is in replaceCredential
  sessions,    \* how many logins have begun to commit
  pc,          \* where each caller is in refresh
  force,       \* the argument of its call
  at,          \* its local variable call, until call.done is closed
  told,        \* what it reads from call.err once call.done is closed
  gone,        \* its ctx.Err() # nil
  outcome      \* what its last call returned

storeVars  == <<cred, life, saved, saveFailed>>
callerVars == <<pc, force, at, told, gone, outcome>>
authVars == <<cred, life, saved, saveFailed, commit, refreshing, flight, login,
              sessions, pc, force, at, told, gone, outcome>>

Store == INSTANCE CredentialStore WITH memory <- cred, file <- saved

Lives == {"valid", "soon", "expired"}
Errors == {"none", "ok", "canceled", "exchange", "save"}
Causes == {"none", "left", "timeout", "login"}
Stages == {"free", "exchange", "granted", "refused", "saving", "finishing"}

Unused == [stage |-> "free", base |-> Store!FirstCredential, cause |-> "none",
           waiters |-> 0, err |-> "none"]

Cancelled(c) == flight[c].cause # "none"

AuthInit ==
  /\ cred = Store!FirstCredential /\ saved = Store!FirstCredential
  /\ life \in Lives
  /\ saveFailed = FALSE
  /\ commit = Nobody
  /\ refreshing = NoFlight
  /\ flight = [c \in Flights |-> Unused]
  /\ login = [l \in Logins |-> "ready"]
  /\ sessions = 0
  /\ pc = [r \in Callers |-> "idle"]
  /\ force = [r \in Callers |-> FALSE]
  /\ at = [r \in Callers |-> NoFlight]
  /\ told = [r \in Callers |-> "none"]
  /\ gone = [r \in Callers |-> FALSE]
  /\ outcome = [r \in Callers |-> "none"]

-------------------------------------------------------------------------------
(* refresh                                                                   *)

Call(r, f) ==
  /\ pc[r] = "idle"
  /\ pc' = [pc EXCEPT ![r] = "loop"]
  /\ force' = [force EXCEPT ![r] = f]
  /\ outcome' = [outcome EXCEPT ![r] = "none"]
  /\ UNCHANGED <<storeVars, commit, refreshing, flight, login, sessions, at, told, gone>>

Return(r, res) ==
  /\ pc' = [pc EXCEPT ![r] = "idle"]
  /\ force' = [force EXCEPT ![r] = FALSE]
  /\ at' = [at EXCEPT ![r] = NoFlight]
  /\ told' = [told EXCEPT ![r] = "none"]
  /\ outcome' = [outcome EXCEPT ![r] = res]
  /\ UNCHANGED gone

\* ctx.Err() at the head of the loop.
ReturnCanceled(r) ==
  /\ pc[r] = "loop" /\ gone[r]
  /\ Return(r, "canceled")
  /\ UNCHANGED <<storeVars, commit, refreshing, flight, login, sessions>>

\* A token that is not about to expire, or one that is but still valid while
\* somebody refreshes it, is good enough unless the refresh is forced.
GoodEnough(r) ==
  /\ ~force[r]
  /\ life = "valid" \/ (life = "soon" /\ refreshing # NoFlight)

ReturnValid(r) ==
  /\ pc[r] = "loop" /\ ~gone[r] /\ GoodEnough(r)
  /\ Return(r, "ok")
  /\ UNCHANGED <<storeVars, commit, refreshing, flight, login, sessions>>

Attach(r, c, label) ==
  /\ at' = [at EXCEPT ![r] = c]
  /\ pc' = [pc EXCEPT ![r] = label]
  /\ UNCHANGED <<storeVars, commit, login, sessions, force, told, gone, outcome>>

\* The flight was cancelled but may still be rotating the token: wait for its
\* end before another exchange.
AwaitCancelled(r) ==
  /\ pc[r] = "loop" /\ ~gone[r] /\ ~GoodEnough(r)
  /\ refreshing # NoFlight /\ Cancelled(refreshing)
  /\ Attach(r, refreshing, "await")
  /\ UNCHANGED <<refreshing, flight>>

Join(r) ==
  /\ pc[r] = "loop" /\ ~gone[r] /\ ~GoodEnough(r)
  /\ refreshing # NoFlight /\ ~Cancelled(refreshing)
  /\ flight' = [flight EXCEPT ![refreshing].waiters = @ + 1]
  /\ Attach(r, refreshing, "wait")
  /\ UNCHANGED refreshing

\* Variant: a cancelled flight counts as none.
Vacant(c) == c = NoFlight \/ c \in {d \in Flights : Cancelled(d)}

NoneInFlight(c) == c = NoFlight

\* A new credentialRefresh, with its first waiter.
NewFlight ==
  [stage |-> "exchange", base |-> cred, cause |-> "none", waiters |-> 1, err |-> "none"]

\* A new credentialRefresh takes a name no unfinished one has.
FreeFlights == {c \in Flights : flight[c].stage = "free"}

StartFlight(r) ==
  /\ pc[r] = "loop" /\ ~gone[r] /\ ~GoodEnough(r)
  /\ NoneInFlight(refreshing)
  /\ FreeFlights # {}
  /\ LET c == CHOOSE c \in FreeFlights : TRUE IN
       /\ flight' = [flight EXCEPT ![c] = NewFlight]
       /\ refreshing' = c
       /\ Attach(r, c, "wait")

\* call.done is closed when told[r] is known.
AwaitOver(r) ==
  /\ pc[r] = "await"
  /\ \/ gone[r] /\ Return(r, "canceled")
     \/ told[r] = "ok" /\ Return(r, "ok")
     \/ /\ told[r] \notin {"none", "ok"}
        /\ pc' = [pc EXCEPT ![r] = "loop"]
        /\ told' = [told EXCEPT ![r] = "none"]
        /\ UNCHANGED <<force, at, gone, outcome>>
  /\ UNCHANGED <<storeVars, commit, refreshing, flight, login, sessions>>

WaitOver(r) ==
  /\ pc[r] = "wait"
  /\ \/ gone[r] /\ outcome' = [outcome EXCEPT ![r] = "canceled"]
     \/ told[r] # "none" /\ outcome' = [outcome EXCEPT ![r] = told[r]]
  /\ pc' = [pc EXCEPT ![r] = "unwait"]
  /\ UNCHANGED <<storeVars, commit, refreshing, flight, login, sessions, force,
                 at, told, gone>>

\* Variant: whoever leaves cancels.
LeaveCancels(c) ==
  flight' = [flight EXCEPT ![c].waiters = @ - 1, ![c].cause = "left"]

\* The last waiter to leave cancels the flight.
LeaveFlight(c) ==
  flight' = [flight EXCEPT
    ![c].waiters = @ - 1,
    ![c].cause = IF flight[c].waiters = 1 /\ refreshing = c /\ @ = "none" THEN "left" ELSE @]

\* waitRefresh's deferred function.
Unwait(r) ==
  /\ pc[r] = "unwait"
  /\ IF at[r] = NoFlight THEN UNCHANGED flight ELSE LeaveFlight(at[r])
  /\ Return(r, outcome[r])
  /\ UNCHANGED <<storeVars, commit, refreshing, login, sessions>>

-------------------------------------------------------------------------------
(* runRefresh                                                                *)

\* The platform answered, refused, or the exchange failed on the way.  A
\* cancelled exchange may still bring its answer home.
Exchanged(c) ==
  /\ flight[c].stage = "exchange"
  /\ \E answer \in {"granted", "refused"} :
       flight' = [flight EXCEPT ![c].stage = answer]
  /\ UNCHANGED <<storeVars, commit, refreshing, login, sessions, callerVars>>

\* The 20 seconds of the shared context are over.
TimesOut(c) ==
  /\ flight[c].stage = "exchange" /\ ~Cancelled(c)
  /\ flight' = [flight EXCEPT ![c].cause = "timeout"]
  /\ UNCHANGED <<storeVars, commit, refreshing, login, sessions, callerVars>>

Report(c, err) == flight' = [flight EXCEPT ![c].stage = "finishing", ![c].err = err]

\* Variant: the answer is taken whatever happened meanwhile.
LandAlways(c) ==
  /\ flight[c].stage \in {"granted", "refused"} /\ commit = Nobody
  /\ commit' = c
  /\ IF flight[c].stage = "granted"
       THEN /\ cred' = Store!Rotated(flight[c].base)
            /\ life' = "valid"
            /\ flight' = [flight EXCEPT ![c].stage = "saving"]
       ELSE Report(c, "exchange") /\ UNCHANGED <<cred, life>>
  /\ UNCHANGED <<saved, saveFailed, refreshing, login, sessions, callerVars>>

\* Variant: a cancelled flight is refused whatever the platform answered.
LandUnlessCancelled(c) ==
  /\ flight[c].stage \in {"granted", "refused"} /\ commit = Nobody
  /\ commit' = c
  /\ IF cred = flight[c].base /\ ~Cancelled(c) /\ flight[c].stage = "granted"
       THEN /\ cred' = Store!Rotated(flight[c].base)
            /\ life' \in {"valid", life}
            /\ flight' = [flight EXCEPT ![c].stage = "saving"]
       ELSE Report(c, IF cred # flight[c].base THEN "ok" ELSE "canceled")
            /\ UNCHANGED <<cred, life>>
  /\ UNCHANGED <<saved, saveFailed, refreshing, login, sessions, callerVars>>

\* Under commitMu: a login that completed meanwhile supersedes the flight;
\* otherwise a granted rotation is published at once and saved next.  The
\* answer need not state a new expiry.
Land(c) ==
  /\ flight[c].stage \in {"granted", "refused"} /\ commit = Nobody
  /\ commit' = c
  /\ IF cred = flight[c].base /\ refreshing = c /\ flight[c].stage = "granted"
       THEN /\ cred' = Store!Rotated(flight[c].base)
            /\ life' \in {"valid", life}
            /\ flight' = [flight EXCEPT ![c].stage = "saving"]
       ELSE /\ Report(c, IF cred # flight[c].base THEN "ok"
                         ELSE IF refreshing # c THEN "canceled" ELSE "exchange")
            /\ UNCHANGED <<cred, life>>
  /\ UNCHANGED <<saved, saveFailed, refreshing, login, sessions, callerVars>>

SaveRotation(c) ==
  /\ flight[c].stage = "saving"
  /\ \/ /\ saved' = Store!Rotated(flight[c].base)
        /\ saveFailed' = FALSE
        /\ Report(c, "ok")
     \/ /\ saveFailed' = TRUE
        /\ Report(c, "save")
        /\ UNCHANGED saved
  /\ UNCHANGED <<cred, life, commit, refreshing, login, sessions, callerVars>>

\* Variant: the result is not recorded, call.err keeps its zero value.
TellNothing(c) == [r \in Callers |-> IF at[r] = c THEN "ok" ELSE told[r]]

\* Closing call.done publishes call.err to everybody who holds the call.
Tell(c) == [r \in Callers |-> IF at[r] = c THEN flight[c].err ELSE told[r]]

ClearCurrent(c) == IF refreshing = c THEN NoFlight ELSE refreshing

FinishFlight(c) ==
  /\ flight[c].stage = "finishing"
  /\ told' = Tell(c)
  /\ at' = [r \in Callers |-> IF at[r] = c THEN NoFlight ELSE at[r]]
  /\ refreshing' = ClearCurrent(c)
  /\ flight' = [flight EXCEPT ![c] = Unused]
  /\ commit' = Nobody
  /\ UNCHANGED <<storeVars, login, sessions, pc, force, gone, outcome>>

-------------------------------------------------------------------------------
(* replaceCredential                                                         *)

\* Variant: the login does not wait for a save under way.
LoginUnlocked(l) ==
  /\ login[l] = "ready" /\ \A k \in Logins : login[k] \in {"ready", "over"}
  /\ login' = [login EXCEPT ![l] = "saving"]
  /\ sessions' = sessions + 1
  /\ UNCHANGED <<storeVars, commit, refreshing, flight, callerVars>>

\* The new credential names this account; it waits for its turn to commit.
LoginBegins(l) ==
  /\ login[l] = "ready" /\ commit = Nobody
  /\ commit' = l
  /\ login' = [login EXCEPT ![l] = "saving"]
  /\ sessions' = sessions + 1
  /\ UNCHANGED <<storeVars, refreshing, flight, callerVars>>

\* The file is replaced first; if that fails nothing has changed.
LoginSaves(l) ==
  /\ login[l] = "saving"
  /\ \/ /\ saved' = Store!Credential(sessions, 0)
        /\ login' = [login EXCEPT ![l] = "adopting"]
        /\ UNCHANGED commit
     \/ /\ login' = [login EXCEPT ![l] = "over"]
        /\ commit' = Nobody
        /\ UNCHANGED saved
  /\ UNCHANGED <<cred, life, saveFailed, refreshing, flight, sessions, callerVars>>

\* Then memory, and the flight of the old session is cancelled and dropped.
LoginAdopts(l) ==
  /\ login[l] = "adopting"
  /\ cred' = Store!Credential(sessions, 0)
  /\ life' = "valid"
  /\ saveFailed' = FALSE
  /\ refreshing' = NoFlight
  /\ flight' = IF refreshing = NoFlight THEN flight
               ELSE [flight EXCEPT ![refreshing].cause = IF @ = "none" THEN "login" ELSE @]
  /\ login' = [login EXCEPT ![l] = "over"]
  /\ commit' = Nobody
  /\ UNCHANGED <<saved, sessions, callerVars>>

-------------------------------------------------------------------------------
\* Between two calls: the next one has a context of its own, or the same.
NextCall(r) ==
  /\ pc[r] = "idle"
  /\ outcome' = [outcome EXCEPT ![r] = "none"]
  /\ \E g \in {gone[r], FALSE} : gone' = [gone EXCEPT ![r] = g]
  /\ UNCHANGED <<storeVars, commit, refreshing, flight, login, sessions, pc,
                 force, at, told>>

Cancel(r) ==
  /\ ~gone[r]
  /\ gone' = [gone EXCEPT ![r] = TRUE]
  /\ UNCHANGED <<storeVars, commit, refreshing, flight, login, sessions, pc,
                 force, at, told, outcome>>

Age ==
  /\ life # "expired"
  /\ life' = IF life = "valid" THEN "soon" ELSE "expired"
  /\ UNCHANGED <<cred, saved, saveFailed, commit, refreshing, flight, login,
                 sessions, callerVars>>

CallerStep(r) ==
  \/ ReturnCanceled(r) \/ ReturnValid(r)
  \/ AwaitCancelled(r) \/ Join(r) \/ StartFlight(r)
  \/ AwaitOver(r) \/ WaitOver(r) \/ Unwait(r)

FlightStep(c) == Exchanged(c) \/ Land(c) \/ SaveRotation(c) \/ FinishFlight(c)
LoginStep(l) == LoginSaves(l) \/ LoginAdopts(l)

Others ==
  \/ \E c \in Flights : FlightStep(c) \/ TimesOut(c)
  \/ \E l \in Logins : LoginBegins(l) \/ LoginStep(l)
  \/ Age

AuthNext ==
  \/ \E r \in Callers : CallerStep(r) \/ NextCall(r) \/ \E f \in BOOLEAN : Call(r, f)
  \/ \E r \in Impatient : Cancel(r)
  \/ Others

AuthSpec == AuthInit /\ [][AuthNext]_authVars

-------------------------------------------------------------------------------
(* Properties                                                                *)

AuthTypeOK ==
  /\ cred \in Store!Credentials /\ saved \in Store!Credentials
  /\ life \in Lives /\ saveFailed \in BOOLEAN
  /\ commit \in Flights \cup Logins \cup {Nobody}
  /\ refreshing \in Flights \cup {NoFlight}
  /\ flight \in [Flights -> [stage : Stages, base : Store!Credentials, cause : Causes,
                             waiters : Nat, err : Errors]]
  /\ login \in [Logins -> {"ready", "saving", "adopting", "over"}]
  /\ sessions \in Nat
  /\ pc \in [Callers -> {"idle", "loop", "await", "wait", "unwait"}]
  /\ force \in [Callers -> BOOLEAN]
  /\ at \in [Callers -> Flights \cup {NoFlight}]
  /\ told \in [Callers -> Errors]
  /\ gone \in [Callers -> BOOLEAN]
  /\ outcome \in [Callers -> Errors]

\* A refresh token is never in two exchanges at once: the platform rotates it,
\* so the second exchange would be refused and end the session.
OneExchange ==
  \A c, d \in Flights :
    /\ c # d /\ flight[c].stage = "exchange" /\ flight[d].stage = "exchange"
    => flight[c].base # flight[d].base

\* Whenever nobody is committing, the file holds the credential in use, unless
\* the last rotation could not be saved.
FileFollowsMemory == commit = Nobody /\ ~saveFailed => saved = cred

Waiting(c) == {r \in Callers : at[r] = c /\ pc[r] \in {"wait", "unwait"}}

\* A caller that joined a flight is not failed by another one leaving, and an
\* exchange nobody waits for is cancelled.
FlightHasAudience ==
  \A c \in Flights : flight[c].stage # "free" =>
    /\ flight[c].waiters = Cardinality(Waiting(c))
    /\ refreshing = c => (flight[c].cause = "left" => flight[c].waiters = 0)
    /\ refreshing = c => (flight[c].waiters = 0 => Cancelled(c))

\* A rotation the platform granted is adopted, even if everybody who waited for
\* it left meanwhile, unless a login came first: the old token is spent.
GrantedIsKept ==
  [][\A c \in Flights : flight[c].stage = "granted" /\ flight'[c].stage # "granted" =>
       cred # flight[c].base \/ cred' = Store!Rotated(flight[c].base)]_authVars

\* A caller told that the refresh succeeded will not dial with the credential
\* the flight set out to replace.
TruthfulSuccess ==
  [][\A r \in Callers : told[r] = "none" /\ told'[r] = "ok" =>
       cred # flight[at[r]].base]_authVars

\* Memory and file go through sessions like the store: rotations continue the
\* session in use, a login is never undone by what was started before it.
StoreSpec == Store!StoreSpec
===============================================================================
