------------------------ MODULE CredentialRefreshProofs ------------------------
(***************************************************************************)
(* Theorems about CredentialRefresh, for any number of callers, flights    *)
(* and logins, and that UpstreamRetry is one of its environments.          *)
(*                                                                         *)
(* The inductive invariant AInv says who holds commitMu, what credential   *)
(* each flight started from, which of memory and file is ahead, and who    *)
(* waits for what.                                                         *)
(***************************************************************************)
EXTENDS UpstreamRetry, FiniteSetTheorems, TLAPS

Busy(c) == flight[c].stage # "free"

\* commitMu is held by the flight that lands and by the login that commits.
CommitInv ==
  /\ \A c \in Flights : commit = c <=> flight[c].stage \in {"saving", "finishing"}
  /\ \A l \in Logins : commit = l <=> login[l] \in {"saving", "adopting"}

\* The current flight started from the credential in use, every other one from
\* that of an earlier session, and no two from the same session.
FlightInv ==
  /\ refreshing # NoFlight => Busy(refreshing)
  /\ \A c \in Flights : Busy(c) =>
       /\ refreshing = c => flight[c].base.session = cred.session
       /\ refreshing # c => flight[c].base.session < cred.session
       /\ refreshing = c /\ flight[c].stage \in {"exchange", "granted", "refused"}
            => flight[c].base = cred
       /\ flight[c].stage = "saving"
            => refreshing = c /\ cred = Store!Rotated(flight[c].base)
       /\ flight[c].stage = "finishing" =>
            /\ flight[c].err # "none"
            /\ flight[c].err = "ok" => cred # flight[c].base
  /\ \A c, d \in Flights : c # d /\ Busy(c) /\ Busy(d)
       => flight[c].base.session # flight[d].base.session

\* Memory is ahead of the file while a rotation is saved or after that failed,
\* the file is ahead while a login is adopted.
FileInv ==
  /\ cred.session <= sessions
  /\ \A l \in Logins : login[l] \in {"saving", "adopting"} => cred.session < sessions
  /\ \A l \in Logins : login[l] = "adopting" => saved = Store!Credential(sessions, 0)
  /\ (\A l \in Logins : login[l] # "adopting") => saved.session = cred.session
  /\ /\ ~saveFailed
     /\ \A c \in Flights : flight[c].stage # "saving"
     /\ \A l \in Logins : login[l] # "adopting"
     => saved = cred

\* A caller holds a flight only while that runs and only in a select, and knows
\* its end only once it holds none.
CallerInv ==
  \A r \in Callers :
    /\ at[r] # NoFlight => Busy(at[r]) /\ told[r] = "none"
    /\ pc[r] \in {"idle", "loop"} => at[r] = NoFlight /\ told[r] = "none"

AInv ==
  /\ AuthTypeOK
  /\ CommitInv
  /\ FlightInv
  /\ FileInv
  /\ CallerInv
  /\ FlightHasAudience

-------------------------------------------------------------------------------
(* Credentials                                                               *)

\* Numbering modulo Generations tells a credential from its rotation.
LEMMA ModDiffers ==
  ASSUME NEW g \in Nat
  PROVE  (g + 1) % Generations \in Nat /\ (g + 1) % Generations # g
<1> DEFINE m == (g + 1) % Generations  q == (g + 1) \div Generations
<1>1. Generations \in Nat /\ Generations >= 2
  BY RefreshConstants
<1>2. m \in 0 .. Generations - 1 /\ q \in Int /\ g + 1 = Generations * q + m
  BY <1>1
<1>3. m # g
  <2> SUFFICES ASSUME m = g PROVE FALSE OBVIOUS
  <2>1. Generations * q = 1
    BY <1>1, <1>2
  <2> HIDE DEF q
  <2>2. CASE q <= 0
    BY <1>1, <1>2, <2>1, <2>2
  <2>3. CASE q >= 1
    BY <1>1, <1>2, <2>1, <2>3
  <2> QED BY <1>2, <2>2, <2>3
<1> QED BY <1>2, <1>3

LEMMA Rotations ==
  ASSUME NEW c \in Store!Credentials
  PROVE  /\ Store!Rotated(c) \in Store!Credentials
         /\ Store!Rotated(c).session = c.session
         /\ Store!Rotated(c) # c
<1> DEFINE g == (c.generation + 1) % Generations
<1>1. c.session \in Nat /\ c.generation \in Nat
  BY DEF Store!Credentials
<1>2. g \in Nat /\ g # c.generation
  BY <1>1, ModDiffers
<1>3. Store!Rotated(c) = [session |-> c.session, generation |-> g]
  BY DEF Store!Rotated, Store!Credential
<1> HIDE DEF g
<1> QED BY <1>1, <1>2, <1>3 DEF Store!Credentials

-------------------------------------------------------------------------------
(* Frames: what a step that leaves some variables alone cannot disturb       *)

\* A caller's own step.
LEMMA CallerFrame ==
  ASSUME AInv, UNCHANGED <<storeVars, commit, refreshing, login, sessions>>,
         \A c \in Flights : /\ flight'[c].stage = flight[c].stage
                            /\ flight'[c].base = flight[c].base
                            /\ flight'[c].err = flight[c].err
  PROVE  CommitInv' /\ FlightInv' /\ FileInv'
<1>1. CommitInv'
  BY DEF AInv, CommitInv
<1>2. FlightInv'
  BY DEF AInv, AuthTypeOK, FlightInv, Busy, storeVars, Store!Rotated, Store!Credential
<1>3. FileInv'
  BY DEF AInv, FileInv, storeVars, Store!Credential
<1> QED BY <1>1, <1>2, <1>3

\* A step that moves neither callers nor waiters.
LEMMA AudienceFrame ==
  ASSUME AInv, UNCHANGED <<pc, at, told, refreshing>>,
         \A c \in Flights : /\ Busy(c)' <=> Busy(c)
                            /\ flight'[c].waiters = flight[c].waiters
                            /\ flight'[c].cause = flight[c].cause
  PROVE  CallerInv' /\ FlightHasAudience'
<1>1. CallerInv'
  BY DEF AInv, AuthTypeOK, CallerInv
<1>2. \A c \in Flights : Waiting(c)' = Waiting(c)
  BY DEF Waiting
<1>3. FlightHasAudience'
  BY <1>2 DEF AInv, FlightHasAudience, Cancelled, Busy
<1> QED BY <1>1, <1>3

-------------------------------------------------------------------------------
(* Callers                                                                   *)

\* What AuthTypeOK says of the variables of the callers.
CallerTypes ==
  /\ pc \in [Callers -> {"idle", "loop", "await", "wait", "unwait"}]
  /\ force \in [Callers -> BOOLEAN]
  /\ at \in [Callers -> Flights \cup {NoFlight}]
  /\ told \in [Callers -> Errors]
  /\ gone \in [Callers -> BOOLEAN]
  /\ outcome \in [Callers -> Errors]

\* A step of a caller that neither joins a flight nor leaves one.
LEMMA QuietInv ==
  ASSUME AInv, CallerTypes', CallerInv',
         UNCHANGED <<storeVars, commit, refreshing, flight, login, sessions>>,
         \A c \in Flights : Waiting(c)' = Waiting(c)
  PROVE  AInv'
<1>1. CommitInv' /\ FlightInv' /\ FileInv'
  BY CallerFrame
<1>2. FlightHasAudience'
  BY DEF AInv, FlightHasAudience, Cancelled
<1>3. AuthTypeOK'
  BY DEF AInv, AuthTypeOK, CallerTypes, storeVars
<1> QED BY <1>1, <1>2, <1>3 DEF AInv

\* Return leaves a caller that waited for nothing idle.
LEMMA ReturnInv ==
  ASSUME AInv, NEW r \in Callers, NEW res \in Errors, Return(r, res),
         pc[r] \notin {"wait", "unwait"},
         UNCHANGED <<storeVars, commit, refreshing, flight, login, sessions>>
  PROVE  AInv'
<1>1. CallerTypes'
  BY DEF AInv, AuthTypeOK, CallerTypes, Return, Errors
<1>2. CallerInv'
  BY DEF AInv, AuthTypeOK, CallerInv, Return, Busy
<1>3. \A c \in Flights : Waiting(c)' = Waiting(c)
  BY RefreshConstants DEF AInv, AuthTypeOK, Return, Waiting
<1> QED BY <1>1, <1>2, <1>3, QuietInv

LEMMA CallInv ==
  ASSUME AInv, NEW r \in Callers, NEW f \in BOOLEAN, Call(r, f)
  PROVE  AInv'
<1>1. CallerTypes'
  BY DEF AInv, AuthTypeOK, CallerTypes, Call, Errors
<1>2. CallerInv'
  BY DEF AInv, AuthTypeOK, CallerInv, Call, Busy
<1>3. \A c \in Flights : Waiting(c)' = Waiting(c)
  BY DEF AInv, AuthTypeOK, Call, Waiting
<1> QED BY <1>1, <1>2, <1>3, QuietInv DEF Call

LEMMA ReturnsInv ==
  ASSUME AInv, NEW r \in Callers, ReturnCanceled(r) \/ ReturnValid(r)
  PROVE  AInv'
<1>1. \E res \in Errors : Return(r, res)
  BY DEF ReturnCanceled, ReturnValid, Errors
<1> QED BY <1>1, ReturnInv DEF ReturnCanceled, ReturnValid

LEMMA AwaitCancelledInv ==
  ASSUME AInv, NEW r \in Callers, AwaitCancelled(r)
  PROVE  AInv'
<1>1. CallerTypes'
  BY DEF AInv, AuthTypeOK, CallerTypes, AwaitCancelled, Attach
<1>2. CallerInv'
  BY DEF AInv, AuthTypeOK, CallerInv, FlightInv, AwaitCancelled, Attach, Busy
<1>3. \A c \in Flights : Waiting(c)' = Waiting(c)
  <2>1. pc \in [Callers -> {"idle", "loop", "await", "wait", "unwait"}]
    BY DEF AInv, AuthTypeOK
  <2>2. at \in [Callers -> Flights \cup {NoFlight}]
    BY DEF AInv, AuthTypeOK
  <2> QED BY <2>1, <2>2 DEF AwaitCancelled, Attach, Waiting
<1> QED BY <1>1, <1>2, <1>3, QuietInv DEF AwaitCancelled, Attach

LEMMA AwaitOverInv ==
  ASSUME AInv, NEW r \in Callers, AwaitOver(r)
  PROVE  AInv'
<1>1. CASE \E res \in Errors : Return(r, res)
  BY <1>1, ReturnInv DEF AwaitOver
<1>2. CASE /\ told[r] \notin {"none", "ok"}
           /\ pc' = [pc EXCEPT ![r] = "loop"]
           /\ told' = [told EXCEPT ![r] = "none"]
           /\ UNCHANGED <<force, at, gone, outcome>>
  <2>1. CallerTypes'
    BY <1>2 DEF AInv, AuthTypeOK, CallerTypes, Errors
  <2>2. CallerInv'
    BY <1>2 DEF AInv, AuthTypeOK, CallerInv, Busy, AwaitOver
  <2>3. \A c \in Flights : Waiting(c)' = Waiting(c)
    BY <1>2 DEF AInv, AuthTypeOK, Waiting, AwaitOver
  <2> QED BY <2>1, <2>2, <2>3, QuietInv DEF AwaitOver
<1> QED BY <1>1, <1>2 DEF AwaitOver, Errors

LEMMA WaitOverInv ==
  ASSUME AInv, NEW r \in Callers, WaitOver(r)
  PROVE  AInv'
<1>1. CallerTypes'
  BY DEF AInv, AuthTypeOK, CallerTypes, WaitOver, Errors
<1>2. CallerInv'
  BY DEF AInv, AuthTypeOK, CallerInv, WaitOver, Busy
<1>3. \A c \in Flights : Waiting(c)' = Waiting(c)
  BY DEF AInv, AuthTypeOK, WaitOver, Waiting
<1> QED BY <1>1, <1>2, <1>3, QuietInv DEF WaitOver

LEMMA ContextInv ==
  ASSUME AInv, NEW r \in Callers, NextCall(r) \/ Cancel(r)
  PROVE  AInv'
<1>1. CallerTypes'
  <2>1. CallerTypes /\ gone[r] \in BOOLEAN
    BY DEF AInv, AuthTypeOK, CallerTypes
  <2>2. CASE NextCall(r)
    <3>1. PICK g \in BOOLEAN : gone' = [gone EXCEPT ![r] = g]
      BY <2>1, <2>2, Zenon DEF NextCall
    <3>2. gone' \in [Callers -> BOOLEAN]
      BY <2>1, <3>1 DEF CallerTypes
    <3> QED BY <2>1, <2>2, <3>2 DEF CallerTypes, NextCall, Errors
  <2>3. CASE Cancel(r)
    BY <2>1, <2>3 DEF CallerTypes, Cancel
  <2> QED BY <2>2, <2>3
<1>2. CallerInv'
  BY DEF AInv, AuthTypeOK, CallerInv, NextCall, Cancel, Busy
<1>3. \A c \in Flights : Waiting(c)' = Waiting(c)
  BY DEF NextCall, Cancel, Waiting
<1> QED BY <1>1, <1>2, <1>3, QuietInv DEF NextCall, Cancel

-------------------------------------------------------------------------------
(* Joining, starting and leaving a flight                                    *)

\* Callers waiting for a flight can be counted.
LEMMA WaitingFinite ==
  ASSUME NEW c
  PROVE  IsFiniteSet(Waiting(c)) /\ Cardinality(Waiting(c)) \in Nat
BY RefreshConstants, FS_Subset, FS_CardinalityType DEF Waiting

\* A flight in use with its audience, as FlightHasAudience asks.
Audience(c) ==
  Busy(c) =>
    /\ flight[c].waiters = Cardinality(Waiting(c))
    /\ refreshing = c => (flight[c].cause = "left" => flight[c].waiters = 0)
    /\ refreshing = c => (flight[c].waiters = 0 => Cancelled(c))

LEMMA AudienceDef == FlightHasAudience <=> \A c \in Flights : Audience(c)
BY DEF FlightHasAudience, Audience, Busy

LEMMA JoinInv ==
  ASSUME AInv, NEW r \in Callers, Join(r)
  PROVE  AInv'
<1> DEFINE c == refreshing
<1>1. c \in Flights /\ Busy(c) /\ flight[c].cause = "none"
  BY DEF AInv, AuthTypeOK, FlightInv, Join, Cancelled
<1>2. pc[r] = "loop" /\ at[r] = NoFlight /\ told[r] = "none"
  BY DEF AInv, CallerInv, Join
<1>3. AuthTypeOK /\ CallerInv /\ FlightHasAudience
  BY DEF AInv
<1>4. flight' = [flight EXCEPT ![c].waiters = @ + 1]
  BY DEF Join
<1>5. /\ at' = [at EXCEPT ![r] = c] /\ pc' = [pc EXCEPT ![r] = "wait"]
      /\ UNCHANGED <<storeVars, commit, login, sessions, force, told, gone, outcome, refreshing>>
  BY DEF Join, Attach
<1>6. CommitInv' /\ FlightInv' /\ FileInv'
  <2>1. \A d \in Flights : /\ flight'[d].stage = flight[d].stage
                           /\ flight'[d].base = flight[d].base
                           /\ flight'[d].err = flight[d].err
    BY <1>1, <1>3, <1>4 DEF AuthTypeOK
  <2> QED BY <1>5, <2>1, CallerFrame
<1>7. AuthTypeOK'
  BY <1>1, <1>3, <1>4, <1>5 DEF AuthTypeOK, storeVars
<1>8. CallerInv'
  BY <1>1, <1>2, <1>3, <1>4, <1>5 DEF AuthTypeOK, CallerInv, Busy
<1>9. ASSUME NEW d \in Flights PROVE Audience(d)'
  <2>1. Audience(d)
    BY <1>3, AudienceDef
  <2>2. CASE d = c
    <3>1. Waiting(d)' = Waiting(d) \cup {r} /\ r \notin Waiting(d)
      BY <1>2, <1>3, <1>5, <2>2, <1>1, RefreshConstants DEF Waiting, AuthTypeOK
    <3>2. Cardinality(Waiting(d)') = Cardinality(Waiting(d)) + 1
      BY <3>1, WaitingFinite, FS_AddElement
    <3>3. /\ flight'[d].waiters = flight[d].waiters + 1
          /\ flight'[d].cause = "none"
      BY <1>1, <1>3, <1>4, <2>2 DEF AuthTypeOK
    <3>4. flight[d].waiters \in Nat
      BY <1>3 DEF AuthTypeOK
    <3> QED BY <1>1, <2>1, <2>2, <3>2, <3>3, <3>4 DEF Audience
  <2>3. CASE d # c
    <3>1. Waiting(d)' = Waiting(d)
      BY <1>1, <1>2, <1>3, <1>5, <2>3, RefreshConstants DEF Waiting, AuthTypeOK
    <3>2. flight'[d] = flight[d]
      BY <1>3, <1>4, <2>3 DEF AuthTypeOK
    <3> QED BY <1>5, <2>1, <3>1, <3>2 DEF Audience, Busy, Cancelled
  <2> QED BY <2>2, <2>3
<1>10. FlightHasAudience'
  BY <1>9 DEF FlightHasAudience, Audience, Busy
<1> QED BY <1>6, <1>7, <1>8, <1>10 DEF AInv

LEMMA StartFlightInv ==
  ASSUME AInv, NEW r \in Callers, StartFlight(r)
  PROVE  AInv'
<1>1. PICK c \in Flights :
        /\ ~Busy(c)
        /\ flight' = [flight EXCEPT ![c] = NewFlight]
        /\ refreshing' = c
        /\ Attach(r, c, "wait")
  <2>1. FreeFlights # {} BY DEF StartFlight
  <2> DEFINE e == CHOOSE e \in FreeFlights : TRUE
  <2>2. e \in FreeFlights BY <2>1
  <2>3. /\ flight' = [flight EXCEPT ![e] = NewFlight]
        /\ refreshing' = e
        /\ Attach(r, e, "wait")
    BY DEF StartFlight
  <2> HIDE DEF e
  <2> QED BY <2>2, <2>3 DEF FreeFlights, Busy
<1>2. refreshing = NoFlight /\ pc[r] = "loop" /\ at[r] = NoFlight /\ told[r] = "none"
  BY DEF AInv, CallerInv, StartFlight, NoneInFlight
<1>3. AuthTypeOK /\ CommitInv /\ FlightInv /\ FileInv /\ CallerInv /\ FlightHasAudience
  BY DEF AInv
<1>4. /\ at' = [at EXCEPT ![r] = c] /\ pc' = [pc EXCEPT ![r] = "wait"]
      /\ UNCHANGED <<storeVars, commit, login, sessions, force, told, gone, outcome>>
  BY <1>1 DEF Attach
<1>5. /\ flight'[c] = NewFlight
      /\ \A d \in Flights : d # c => flight'[d] = flight[d]
  BY <1>1, <1>3 DEF AuthTypeOK
<1>6. AuthTypeOK'
  <2>1. NewFlight \in [stage : Stages, base : Store!Credentials, cause : Causes,
                       waiters : Nat, err : Errors]
    BY <1>3 DEF NewFlight, AuthTypeOK, Stages, Causes, Errors
  <2>2. flight' \in [Flights -> [stage : Stages, base : Store!Credentials, cause : Causes,
                       waiters : Nat, err : Errors]]
    BY <1>1, <1>3, <2>1 DEF AuthTypeOK
  <2> QED BY <1>1, <1>3, <1>4, <2>2 DEF AuthTypeOK, storeVars
<1>7. CommitInv'
  BY <1>1, <1>3, <1>4, <1>5 DEF CommitInv, NewFlight, Busy
<1>8. FlightInv'
  <2>1. \A d \in Flights : Busy(d) => flight[d].base.session < cred.session
    BY <1>2, <1>3, RefreshConstants DEF FlightInv
  <2>2. cred' = cred BY <1>4 DEF storeVars
  <2>3. \A d \in Flights : d # c => (Busy(d)' <=> Busy(d))
    BY <1>5 DEF Busy
  <2>4. cred.session \in Nat /\ \A d \in Flights : flight[d].base.session \in Nat
    BY <1>3 DEF AuthTypeOK, Store!Credentials
  <2>5. /\ Busy(c)' /\ flight'[c].stage = "exchange" /\ flight'[c].base = cred
    BY <1>5 DEF NewFlight, Busy
  <2>6. \A d \in Flights : d # c => flight'[d].stage # "saving"
    BY <1>2, <1>3, <1>5, RefreshConstants DEF FlightInv, Busy
  <2> QED BY <1>1, <1>3, <1>5, <2>1, <2>2, <2>3, <2>4, <2>5, <2>6 DEF FlightInv
<1>9. FileInv'
  <2>1. \A d \in Flights : flight'[d].stage = "saving" <=> flight[d].stage = "saving"
    BY <1>1, <1>5 DEF NewFlight, Busy
  <2> QED BY <1>3, <1>4, <2>1 DEF FileInv, storeVars, Store!Credential
<1>10. CallerInv'
  BY <1>1, <1>2, <1>3, <1>4, <1>5 DEF AuthTypeOK, CallerInv, Busy, NewFlight
<1>11. ASSUME NEW d \in Flights PROVE Audience(d)'
  <2>1. Audience(d)
    BY <1>3, AudienceDef
  <2>2. CASE d = c
    <3>1. Waiting(d)' = {r}
      BY <1>1, <1>2, <1>3, <1>4, <2>2, RefreshConstants DEF Waiting, AuthTypeOK, CallerInv
    <3> QED BY <1>5, <2>2, <3>1, FS_Singleton DEF Audience, NewFlight
  <2>3. CASE d # c
    <3>1. Waiting(d)' = Waiting(d)
      BY <1>1, <1>2, <1>3, <1>4, <2>3, RefreshConstants DEF Waiting, AuthTypeOK
    <3> QED BY <1>1, <1>5, <2>1, <2>3, <3>1 DEF Audience, Busy, Cancelled
  <2> QED BY <2>2, <2>3
<1>12. FlightHasAudience'
  BY <1>11 DEF FlightHasAudience, Audience, Busy
<1> QED BY <1>6, <1>7, <1>8, <1>9, <1>10, <1>12 DEF AInv

LEMMA UnwaitInv ==
  ASSUME AInv, NEW r \in Callers, Unwait(r)
  PROVE  AInv'
<1>0. PICK c : c = at[r] OBVIOUS
<1>1. AuthTypeOK /\ CallerInv /\ FlightHasAudience
  BY DEF AInv
<1>2. pc[r] = "unwait" /\ outcome[r] \in Errors
  BY <1>1 DEF Unwait, AuthTypeOK
<1>3. /\ pc' = [pc EXCEPT ![r] = "idle"] /\ at' = [at EXCEPT ![r] = NoFlight]
      /\ told' = [told EXCEPT ![r] = "none"]
      /\ UNCHANGED <<storeVars, commit, refreshing, login, sessions>>
  BY DEF Unwait, Return
<1>4. CallerTypes'
  BY <1>1, <1>2 DEF AuthTypeOK, CallerTypes, Unwait, Return, Errors
<1>5. \A d \in Flights : d # c => Waiting(d)' = Waiting(d)
  BY <1>0, <1>1, <1>3, RefreshConstants DEF AuthTypeOK, Waiting
<1>6. CASE c = NoFlight
  <2>1. UNCHANGED flight
    BY <1>0, <1>6 DEF Unwait
  <2>2. CallerInv'
    BY <1>1, <1>3, <2>1 DEF AuthTypeOK, CallerInv, Busy
  <2>3. \A d \in Flights : Waiting(d)' = Waiting(d)
    BY <1>5, <1>6, RefreshConstants
  <2> QED BY <1>3, <1>4, <2>1, <2>2, <2>3, QuietInv
<1>7. CASE c # NoFlight
  <2>1. c \in Flights /\ Busy(c)
    BY <1>0, <1>1, <1>7 DEF AuthTypeOK, CallerInv
  <2>2. r \in Waiting(c) /\ Waiting(c)' = Waiting(c) \ {r}
    BY <1>0, <1>1, <1>2, <1>3, <2>1, RefreshConstants DEF AuthTypeOK, Waiting
  <2>3. Cardinality(Waiting(c)') = Cardinality(Waiting(c)) - 1
    BY <2>2, WaitingFinite, FS_RemoveElement
  <2>4. /\ Audience(c) /\ flight[c].waiters = Cardinality(Waiting(c))
        /\ flight[c].waiters \in Nat /\ flight[c].waiters # 0
    BY <1>1, <2>1, <2>2, WaitingFinite, AudienceDef, FS_EmptySet DEF AuthTypeOK, Audience
  <2>5. LeaveFlight(c)
    BY <1>0, <1>7 DEF Unwait
  <2>6. /\ \A d \in Flights : d # c => flight'[d] = flight[d]
        /\ flight'[c].stage = flight[c].stage
        /\ flight'[c].base = flight[c].base
        /\ flight'[c].err = flight[c].err
        /\ flight'[c].waiters = flight[c].waiters - 1
        /\ flight'[c].cause = IF flight[c].waiters = 1 /\ refreshing = c /\ flight[c].cause = "none"
                                THEN "left" ELSE flight[c].cause
    BY <1>1, <2>1, <2>5 DEF AuthTypeOK, LeaveFlight
  <2>7. CommitInv' /\ FlightInv' /\ FileInv'
    <3>1. \A d \in Flights : /\ flight'[d].stage = flight[d].stage
                             /\ flight'[d].base = flight[d].base
                             /\ flight'[d].err = flight[d].err
      BY <2>6
    <3> QED BY <1>3, <3>1, CallerFrame
  <2>8. AuthTypeOK'
    <3> DEFINE k == IF flight[c].waiters = 1 /\ refreshing = c /\ flight[c].cause = "none"
                      THEN "left" ELSE flight[c].cause
    <3>2. k \in Causes
      BY <1>1, <2>1 DEF AuthTypeOK, Causes
    <3>3. flight' = [flight EXCEPT ![c].waiters = flight[c].waiters - 1, ![c].cause = k]
      BY <2>5 DEF LeaveFlight
    <3>4. flight[c].waiters - 1 \in Nat
      BY <2>4
    <3> DEFINE F == [Flights -> [stage : Stages, base : Store!Credentials, cause : Causes,
                                 waiters : Nat, err : Errors]]
               f == [flight EXCEPT ![c].waiters = flight[c].waiters - 1]
    <3> HIDE DEF k
    <3>5. f \in F
      BY <1>1, <2>1, <3>4 DEF AuthTypeOK
    <3>6. flight' = [f EXCEPT ![c].cause = k]
      BY <1>1, <2>1, <3>3 DEF AuthTypeOK
    <3> HIDE DEF f
    <3>1. flight' \in F
      BY <2>1, <3>2, <3>5, <3>6
    <3> QED BY <1>1, <1>3, <1>4, <3>1 DEF AuthTypeOK, CallerTypes, storeVars
  <2>9. CallerInv'
    <3>1. \A d \in Flights : Busy(d)' <=> Busy(d)
      BY <2>6 DEF Busy
    <3> QED BY <1>1, <1>3, <3>1 DEF AuthTypeOK, CallerInv
  <2>10. ASSUME NEW d \in Flights PROVE Audience(d)'
    <3>1. CASE d = c
      <4>2. flight'[c].waiters = Cardinality(Waiting(c)')
        BY <2>3, <2>4, <2>6
      <4>3. refreshing = c /\ flight'[c].cause = "left" => flight'[c].waiters = 0
        BY <2>1, <2>4, <2>6 DEF Audience
      <4>4. refreshing = c /\ flight'[c].waiters = 0 => flight'[c].cause # "none"
        BY <2>1, <2>4, <2>6 DEF Audience
      <4> QED BY <1>3, <3>1, <4>2, <4>3, <4>4 DEF Audience, Cancelled
    <3>2. CASE d # c
      <4>1. Audience(d)
        BY <1>1, AudienceDef
      <4> QED BY <1>3, <1>5, <2>6, <3>2, <4>1 DEF Audience, Busy, Cancelled
    <3> QED BY <3>1, <3>2
  <2>11. FlightHasAudience'
    BY <2>10 DEF FlightHasAudience, Audience, Busy
  <2> QED BY <2>7, <2>8, <2>9, <2>11 DEF AInv
<1> QED BY <1>6, <1>7

-------------------------------------------------------------------------------
(* Flights                                                                   *)

\* What a flight does while it runs changes no caller's variable.
LEMMA FlightStageTypes ==
  ASSUME AuthTypeOK, NEW c \in Flights, NEW rec,
         rec \in [stage : Stages, base : Store!Credentials, cause : Causes,
                  waiters : Nat, err : Errors]
  PROVE  [flight EXCEPT ![c] = rec] \in
           [Flights -> [stage : Stages, base : Store!Credentials, cause : Causes,
                        waiters : Nat, err : Errors]]
BY DEF AuthTypeOK

LEMMA ExchangedInv ==
  ASSUME AInv, NEW c \in Flights, Exchanged(c)
  PROVE  AInv'
<1>1. AuthTypeOK /\ CommitInv /\ FlightInv /\ FileInv
  BY DEF AInv
<1>2. PICK answer \in {"granted", "refused"} : flight' = [flight EXCEPT ![c].stage = answer]
  BY DEF Exchanged
<1>3. /\ \A d \in Flights : d # c => flight'[d] = flight[d]
      /\ flight'[c].stage = answer /\ flight'[c].base = flight[c].base
      /\ flight'[c].err = flight[c].err /\ flight'[c].cause = flight[c].cause
      /\ flight'[c].waiters = flight[c].waiters
  BY <1>1, <1>2 DEF AuthTypeOK
<1>4. flight[c].stage = "exchange"
  BY DEF Exchanged
<1>5. UNCHANGED <<storeVars, commit, refreshing, login, sessions, callerVars>>
  BY DEF Exchanged
<1>6. AuthTypeOK'
  BY <1>1, <1>2, <1>5 DEF AuthTypeOK, storeVars, callerVars, Stages
<1>7. CommitInv'
  BY <1>1, <1>3, <1>4, <1>5 DEF CommitInv
<1>8. FlightInv'
  BY <1>1, <1>3, <1>4, <1>5 DEF AuthTypeOK, FlightInv, Busy, storeVars, Store!Rotated, Store!Credential
<1>9. FileInv'
  <2>1. \A d \in Flights : flight'[d].stage = "saving" <=> flight[d].stage = "saving"
    BY <1>3, <1>4
  <2> QED BY <1>1, <1>5, <2>1 DEF FileInv, storeVars, Store!Credential
<1>10. CallerInv' /\ FlightHasAudience'
  <2>1. \A d \in Flights : /\ Busy(d)' <=> Busy(d)
                           /\ flight'[d].waiters = flight[d].waiters
                           /\ flight'[d].cause = flight[d].cause
    BY <1>3, <1>4 DEF Busy
  <2> QED BY <1>5, <2>1, AudienceFrame DEF callerVars
<1> QED BY <1>6, <1>7, <1>8, <1>9, <1>10 DEF AInv

LEMMA TimesOutInv ==
  ASSUME AInv, NEW c \in Flights, TimesOut(c)
  PROVE  AInv'
<1>1. AuthTypeOK /\ CommitInv /\ FlightInv /\ FileInv /\ CallerInv /\ FlightHasAudience
  BY DEF AInv
<1>2. /\ flight' = [flight EXCEPT ![c].cause = "timeout"]
      /\ UNCHANGED <<storeVars, commit, refreshing, login, sessions, callerVars>>
  BY DEF TimesOut
<1>3. /\ \A d \in Flights : d # c => flight'[d] = flight[d]
      /\ flight'[c].stage = flight[c].stage /\ flight'[c].base = flight[c].base
      /\ flight'[c].err = flight[c].err /\ flight'[c].cause = "timeout"
      /\ flight'[c].waiters = flight[c].waiters
  BY <1>1, <1>2 DEF AuthTypeOK
<1>4. AuthTypeOK'
  BY <1>1, <1>2 DEF AuthTypeOK, storeVars, callerVars, Causes
<1>5. CommitInv' /\ FlightInv' /\ FileInv'
  <2>1. \A d \in Flights : /\ flight'[d].stage = flight[d].stage
                           /\ flight'[d].base = flight[d].base
                           /\ flight'[d].err = flight[d].err
    BY <1>3
  <2> QED BY <1>2, <2>1, CallerFrame
<1>6. CallerInv'
  BY <1>1, <1>2, <1>3 DEF AuthTypeOK, CallerInv, Busy, callerVars
<1>7. FlightHasAudience'
  <2>1. \A d \in Flights : Waiting(d)' = Waiting(d)
    BY <1>2 DEF Waiting, callerVars
  <2> QED BY <1>1, <1>2, <1>3, <2>1 DEF FlightHasAudience, Cancelled
<1> QED BY <1>4, <1>5, <1>6, <1>7 DEF AInv

\* A flight that reports its end keeps what is known of all the others.
LEMMA ReportInv ==
  ASSUME AInv, NEW c \in Flights, NEW err \in Errors \ {"none"}, Report(c, err), Busy(c),
         UNCHANGED <<cred, refreshing>>,
         err = "ok" => cred # flight[c].base,
         \A d \in Flights : d # c => flight[d].stage # "saving"
  PROVE  /\ \A d \in Flights : d # c => flight'[d] = flight[d]
         /\ flight'[c].stage = "finishing" /\ flight'[c].base = flight[c].base
         /\ flight'[c].cause = flight[c].cause /\ flight'[c].waiters = flight[c].waiters
         /\ flight' \in [Flights -> [stage : Stages, base : Store!Credentials, cause : Causes,
                                     waiters : Nat, err : Errors]]
         /\ FlightInv'
<1> DEFINE F == [Flights -> [stage : Stages, base : Store!Credentials, cause : Causes,
                             waiters : Nat, err : Errors]]
           f == [flight EXCEPT ![c].stage = "finishing"]
<1>1. flight \in F /\ FlightInv
  BY DEF AInv, AuthTypeOK
<1>2. /\ \A d \in Flights : d # c => flight'[d] = flight[d]
      /\ flight'[c].stage = "finishing" /\ flight'[c].base = flight[c].base
      /\ flight'[c].cause = flight[c].cause /\ flight'[c].waiters = flight[c].waiters
      /\ flight'[c].err = err
  BY <1>1 DEF Report
<1>3. flight' \in F
  <2>1. f \in F
    BY <1>1 DEF Stages
  <2>2. flight' = [f EXCEPT ![c].err = err]
    BY <1>1 DEF Report
  <2> HIDE DEF f
  <2> QED BY <2>1, <2>2
<1>4. \A d \in Flights : /\ Busy(d)' <=> Busy(d)
                         /\ flight'[d].base = flight[d].base
                         /\ flight'[d].stage # "saving"
  BY <1>2 DEF Busy
<1>5. (refreshing # NoFlight => Busy(refreshing))'
  <2>1. refreshing # NoFlight => refreshing \in Flights /\ Busy(refreshing)
    BY <1>1 DEF AInv, AuthTypeOK, FlightInv
  <2> QED BY <1>2, <2>1 DEF Busy
<1>6. ASSUME NEW d \in Flights, Busy(d)'
      PROVE  (/\ refreshing = d => flight[d].base.session = cred.session
              /\ refreshing # d => flight[d].base.session < cred.session
              /\ refreshing = d /\ flight[d].stage \in {"exchange", "granted", "refused"}
                   => flight[d].base = cred
              /\ flight[d].stage = "saving"
                   => refreshing = d /\ cred = Store!Rotated(flight[d].base)
              /\ flight[d].stage = "finishing" =>
                   /\ flight[d].err # "none"
                   /\ flight[d].err = "ok" => cred # flight[d].base)'
  <2>1. Busy(d) /\ flight'[d].base = flight[d].base /\ flight'[d].stage # "saving"
    BY <1>4, <1>6
  <2>2. CASE d = c
    BY <1>1, <1>2, <2>1, <2>2 DEF FlightInv
  <2>3. CASE d # c
    BY <1>1, <1>2, <2>1, <2>3 DEF FlightInv
  <2> QED BY <2>2, <2>3
<1>7. FlightInv'
  BY <1>1, <1>4, <1>5, <1>6 DEF FlightInv
<1> QED BY <1>2, <1>3, <1>7

\* A flight lands: its rotation is published, or its end is reported.
LEMMA LandInv ==
  ASSUME AInv, NEW c \in Flights, Land(c)
  PROVE  AInv'
<1>1. AuthTypeOK /\ CommitInv /\ FlightInv /\ FileInv
  BY DEF AInv
<1>2. /\ flight[c].stage \in {"granted", "refused"} /\ commit = Nobody /\ commit' = c
      /\ UNCHANGED <<saved, saveFailed, refreshing, login, sessions, callerVars>>
  BY DEF Land
<1>3. \A d \in Flights : flight[d].stage \notin {"saving", "finishing"}
  BY <1>1, <1>2, RefreshConstants DEF CommitInv
<1>4. \A l \in Logins : login[l] \notin {"saving", "adopting"}
  BY <1>1, <1>2, RefreshConstants DEF CommitInv
<1>5. /\ flight[c].base \in Store!Credentials /\ cred \in Store!Credentials
      /\ cred.session \in Nat /\ \A d \in Flights : flight[d].base.session \in Nat
  BY <1>1 DEF AuthTypeOK, Store!Credentials
<1>6. Busy(c) BY <1>2 DEF Busy
<1>7. SUFFICES ASSUME NEW st \in {"saving", "finishing"},
                      /\ \A d \in Flights : d # c => flight'[d] = flight[d]
                      /\ flight'[c].stage = st
                      /\ flight'[c].base = flight[c].base
                      /\ flight'[c].cause = flight[c].cause
                      /\ flight'[c].waiters = flight[c].waiters,
                      AuthTypeOK', FlightInv', FileInv'
               PROVE  AInv'
  <2>1. CASE cred = flight[c].base /\ refreshing = c /\ flight[c].stage = "granted"
    <3>1. /\ cred' = Store!Rotated(flight[c].base)
          /\ life' \in {"valid", life}
          /\ flight' = [flight EXCEPT ![c].stage = "saving"]
      BY <2>1 DEF Land
    <3>2. /\ cred' \in Store!Credentials /\ cred'.session = cred.session
      BY <1>5, <2>1, <3>1, Rotations
    <3>3. /\ \A d \in Flights : d # c => flight'[d] = flight[d]
          /\ flight'[c].stage = "saving" /\ flight'[c].base = flight[c].base
          /\ flight'[c].cause = flight[c].cause /\ flight'[c].waiters = flight[c].waiters
      BY <1>1, <3>1 DEF AuthTypeOK
    <3>4. AuthTypeOK'
      <4>1. life' \in Lives
        BY <1>1, <3>1 DEF AuthTypeOK, Lives
      <4>2. flight' \in [Flights -> [stage : Stages, base : Store!Credentials, cause : Causes,
                                     waiters : Nat, err : Errors]]
        BY <1>1, <3>1 DEF AuthTypeOK, Stages
      <4> QED BY <1>1, <1>2, <3>2, <4>1, <4>2 DEF AuthTypeOK, callerVars
    <3>5. FlightInv'
      <4>1. \A d \in Flights : Busy(d)' <=> Busy(d)
        BY <1>6, <3>3 DEF Busy
      <4>2. \A d \in Flights : d # c /\ Busy(d) =>
              /\ flight'[d].base.session < cred'.session
              /\ flight'[d].stage \notin {"saving", "finishing"}
        BY <1>1, <1>3, <2>1, <3>2, <3>3 DEF FlightInv
      <4>3. cred' = Store!Rotated(flight[c].base)'
        BY <3>1, <3>3 DEF Store!Rotated, Store!Credential
      <4>4. refreshing' = c /\ refreshing # NoFlight
        BY <1>2, <2>1, RefreshConstants
      <4>5. flight'[c].base.session = cred'.session
        BY <2>1, <3>2, <3>3
      <4>6. \A d, e \in Flights : d # e /\ Busy(d)' /\ Busy(e)' =>
              flight'[d].base.session # flight'[e].base.session
        <5>1. \A d \in Flights : flight'[d].base = flight[d].base
          BY <3>3
        <5> QED BY <1>1, <4>1, <5>1 DEF FlightInv
      <4>7. Busy(c)' BY <1>6, <4>1
      <4>8. \A d \in Flights : d # c /\ Busy(d)' =>
              /\ flight'[d].base.session < cred'.session
              /\ flight'[d].stage \notin {"saving", "finishing"}
        BY <4>1, <4>2
      <4>9. cred' = Store!Rotated(flight'[c].base)
        BY <3>1, <3>3
      <4> QED BY <3>3, <4>4, <4>5, <4>6, <4>7, <4>8, <4>9, RefreshConstants DEF FlightInv
    <3>6. FileInv'
      BY <1>1, <1>2, <1>4, <3>2, <3>3 DEF FileInv
    <3> QED BY <3>3, <3>4, <3>5, <3>6, <1>7
  <2>2. CASE ~(cred = flight[c].base /\ refreshing = c /\ flight[c].stage = "granted")
    <3> DEFINE err == IF cred # flight[c].base THEN "ok"
                      ELSE IF refreshing # c THEN "canceled" ELSE "exchange"
    <3>1. Report(c, err) /\ UNCHANGED <<cred, life>>
      BY <2>2 DEF Land
    <3>2. err \in Errors \ {"none"} /\ (err = "ok" => cred # flight[c].base)
      BY DEF Errors
    <3> HIDE DEF err
    <3>3. /\ \A d \in Flights : d # c => flight'[d] = flight[d]
          /\ flight'[c].stage = "finishing" /\ flight'[c].base = flight[c].base
          /\ flight'[c].cause = flight[c].cause /\ flight'[c].waiters = flight[c].waiters
          /\ flight' \in [Flights -> [stage : Stages, base : Store!Credentials, cause : Causes,
                                      waiters : Nat, err : Errors]]
          /\ FlightInv'
      BY <1>2, <1>3, <1>6, <3>1, <3>2, ReportInv
    <3>4. AuthTypeOK'
      BY <1>1, <1>2, <3>1, <3>3 DEF AuthTypeOK, callerVars
    <3>5. FileInv'
      <4>1. \A d \in Flights : flight'[d].stage # "saving"
        BY <1>3, <3>3
      <4> QED BY <1>1, <1>2, <1>3, <3>1, <4>1 DEF FileInv, Store!Credential
    <3> QED BY <3>3, <3>4, <3>5, <1>7
  <2> QED BY <2>1, <2>2
<1>8. CommitInv'
  BY <1>1, <1>2, <1>3, <1>4, <1>7, RefreshConstants DEF CommitInv
<1>9. CallerInv' /\ FlightHasAudience'
  <2>1. \A d \in Flights : /\ Busy(d)' <=> Busy(d)
                           /\ flight'[d].waiters = flight[d].waiters
                           /\ flight'[d].cause = flight[d].cause
    BY <1>6, <1>7 DEF Busy
  <2> QED BY <1>2, <2>1, AudienceFrame DEF callerVars
<1> QED BY <1>7, <1>8, <1>9 DEF AInv

\* The rotation is saved, or not.
LEMMA SaveRotationInv ==
  ASSUME AInv, NEW c \in Flights, SaveRotation(c)
  PROVE  AInv'
<1>1. AuthTypeOK /\ CommitInv /\ FlightInv /\ FileInv
  BY DEF AInv
<1>2. /\ flight[c].stage = "saving"
      /\ UNCHANGED <<cred, life, commit, refreshing, login, sessions, callerVars>>
  BY DEF SaveRotation
<1>3. PICK err \in {"ok", "save"} :
        /\ Report(c, err)
        /\ IF err = "ok" THEN saved' = Store!Rotated(flight[c].base) /\ saveFailed' = FALSE
                         ELSE saved' = saved /\ saveFailed' = TRUE
  BY DEF SaveRotation
<1>4. Busy(c) /\ refreshing = c /\ cred = Store!Rotated(flight[c].base) /\ commit = c
  BY <1>1, <1>2 DEF FlightInv, CommitInv, Busy
<1>5. flight[c].base \in Store!Credentials /\ cred # flight[c].base
  <2>1. flight[c].base \in Store!Credentials
    BY <1>1 DEF AuthTypeOK
  <2> QED BY <1>4, <2>1, Rotations
<1>6. /\ \A d \in Flights : d # c => flight'[d] = flight[d]
      /\ flight'[c].stage = "finishing" /\ flight'[c].base = flight[c].base
      /\ flight'[c].cause = flight[c].cause /\ flight'[c].waiters = flight[c].waiters
      /\ flight' \in [Flights -> [stage : Stages, base : Store!Credentials, cause : Causes,
                                  waiters : Nat, err : Errors]]
      /\ FlightInv'
  <2>1. \A d \in Flights : d # c => flight[d].stage # "saving"
    BY <1>1, <1>4 DEF CommitInv
  <2>2. err \in Errors \ {"none"}
    BY DEF Errors
  <2> QED BY <1>2, <1>3, <1>4, <1>5, <2>1, <2>2, ReportInv
<1>7. \A d \in Flights : /\ Busy(d)' <=> Busy(d)
                         /\ flight'[d].base = flight[d].base
                         /\ flight'[d].waiters = flight[d].waiters
                         /\ flight'[d].cause = flight[d].cause
                         /\ flight'[d].stage # "saving"
                         /\ d # c => flight[d].stage \notin {"saving", "finishing"}
  BY <1>1, <1>6, <1>4 DEF Busy, CommitInv
<1>8. \A l \in Logins : login[l] \notin {"saving", "adopting"}
  BY <1>1, <1>4, RefreshConstants DEF CommitInv
<1>9. AuthTypeOK'
  <2>2. saved' \in Store!Credentials /\ saveFailed' \in BOOLEAN
    BY <1>1, <1>3, <1>4 DEF AuthTypeOK
  <2> QED BY <1>1, <1>2, <1>6, <2>2 DEF AuthTypeOK, callerVars
<1>10. CommitInv'
  BY <1>1, <1>2, <1>6 DEF CommitInv
<1>11. FileInv'
  BY <1>1, <1>2, <1>3, <1>4, <1>8 DEF FileInv
<1>12. CallerInv' /\ FlightHasAudience'
  BY <1>2, <1>7, AudienceFrame DEF callerVars
<1> QED BY <1>6, <1>9, <1>10, <1>11, <1>12 DEF AInv

\* Everybody who holds the flight is told how it ended.
LEMMA FinishFlightInv ==
  ASSUME AInv, NEW c \in Flights, FinishFlight(c)
  PROVE  AInv'
<1>1. AuthTypeOK /\ CommitInv /\ FlightInv /\ FileInv /\ CallerInv /\ FlightHasAudience
  BY DEF AInv
<1>2. /\ flight[c].stage = "finishing"
      /\ told' = Tell(c)
      /\ at' = [r \in Callers |-> IF at[r] = c THEN NoFlight ELSE at[r]]
      /\ refreshing' = ClearCurrent(c)
      /\ flight' = [flight EXCEPT ![c] = Unused]
      /\ commit' = Nobody
      /\ UNCHANGED <<storeVars, login, sessions, pc, force, gone, outcome>>
  BY DEF FinishFlight
<1>3. commit = c /\ flight[c].err \in Errors
  BY <1>1, <1>2 DEF CommitInv, AuthTypeOK
<1>4. /\ \A d \in Flights : d # c => flight'[d] = flight[d]
      /\ flight'[c].stage = "free"
  BY <1>1, <1>2 DEF AuthTypeOK, Unused
<1>5. /\ \A d \in Flights : flight'[d].stage \notin {"saving", "finishing"}
      /\ \A d \in Flights : flight[d].stage # "saving"
      /\ \A l \in Logins : login[l] \notin {"saving", "adopting"}
  BY <1>1, <1>2, <1>3, <1>4, RefreshConstants DEF CommitInv
<1>6. \A d \in Flights : Busy(d)' => d # c /\ Busy(d)
  BY <1>4 DEF Busy
<1>7. AuthTypeOK'
  <2>1. Unused \in [stage : Stages, base : Store!Credentials, cause : Causes,
                    waiters : Nat, err : Errors]
    BY DEF Unused, Stages, Causes, Errors, Store!FirstCredential, Store!Credential,
           Store!Credentials
  <2>2. flight' \in [Flights -> [stage : Stages, base : Store!Credentials, cause : Causes,
                                 waiters : Nat, err : Errors]]
    BY <1>1, <1>2, <2>1 DEF AuthTypeOK
  <2>3. told' \in [Callers -> Errors]
    BY <1>1, <1>2, <1>3 DEF AuthTypeOK, Tell
  <2>4. at' \in [Callers -> Flights \cup {NoFlight}]
    BY <1>1, <1>2 DEF AuthTypeOK
  <2>5. refreshing' \in Flights \cup {NoFlight}
    BY <1>1, <1>2 DEF AuthTypeOK, ClearCurrent
  <2> QED BY <1>1, <1>2, <2>2, <2>3, <2>4, <2>5 DEF AuthTypeOK, storeVars
<1>8. CommitInv'
  BY <1>2, <1>5, RefreshConstants DEF CommitInv
<1>9. FlightInv'
  <2>1. cred' = cred BY <1>2 DEF storeVars
  <2>2. refreshing' # NoFlight => refreshing' = refreshing /\ refreshing # c
    BY <1>2 DEF ClearCurrent
  <2>3. refreshing' # NoFlight => refreshing' \in Flights /\ Busy(refreshing)
    BY <1>1, <2>2 DEF AuthTypeOK, FlightInv
  <2>5. \A d \in Flights : d # c => (refreshing' = d <=> refreshing = d)
    BY <1>2, RefreshConstants DEF ClearCurrent
  <2>6. (refreshing # NoFlight => Busy(refreshing))'
    BY <2>2, <2>3, <1>4 DEF Busy
  <2> QED BY <1>1, <1>4, <1>5, <1>6, <2>1, <2>5, <2>6 DEF FlightInv
<1>10. FileInv'
  BY <1>1, <1>2, <1>5 DEF FileInv, storeVars
<1>11. CallerInv'
  BY <1>1, <1>2, <1>3, <1>4, RefreshConstants DEF AuthTypeOK, CallerInv, Busy, Tell
<1>12. FlightHasAudience'
  <2>1. ASSUME NEW d \in Flights, Busy(d)' PROVE Audience(d)'
    <3>1. Waiting(d)' = Waiting(d)
      BY <1>2, <1>6, <2>1, RefreshConstants DEF Waiting
    <3>2. flight'[d] = flight[d] /\ (refreshing' = d => refreshing = d) /\ Audience(d) /\ Busy(d)
      BY <1>1, <1>2, <1>4, <1>6, <2>1, AudienceDef, RefreshConstants DEF ClearCurrent
    <3> QED BY <3>1, <3>2 DEF Audience, Cancelled
  <2> QED BY <2>1 DEF FlightHasAudience, Audience, Busy
<1> QED BY <1>7, <1>8, <1>9, <1>10, <1>11, <1>12 DEF AInv

-------------------------------------------------------------------------------
(* Logins and time                                                           *)

LEMMA LoginBeginsInv ==
  ASSUME AInv, NEW l \in Logins, LoginBegins(l)
  PROVE  AInv'
<1>1. AuthTypeOK /\ CommitInv /\ FlightInv /\ FileInv
  BY DEF AInv
<1>2. /\ commit = Nobody /\ commit' = l /\ login[l] = "ready"
      /\ login' = [login EXCEPT ![l] = "saving"]
      /\ sessions' = sessions + 1
      /\ UNCHANGED <<storeVars, refreshing, flight, callerVars>>
  BY DEF LoginBegins
<1>3. \A k \in Logins : login[k] \notin {"saving", "adopting"}
  BY <1>1, <1>2, RefreshConstants DEF CommitInv
<1>4. \A d \in Flights : flight[d].stage \notin {"saving", "finishing"}
  BY <1>1, <1>2, RefreshConstants DEF CommitInv
<1>5. AuthTypeOK'
  BY <1>1, <1>2 DEF AuthTypeOK, storeVars, callerVars
<1>6. CommitInv'
  BY <1>1, <1>2, <1>3, <1>4, RefreshConstants DEF AuthTypeOK, CommitInv
<1>7. FlightInv'
  BY <1>1, <1>2 DEF FlightInv, Busy, storeVars, Store!Rotated, Store!Credential
<1>8. FileInv'
  <2>1. \A k \in Logins : login'[k] # "adopting"
    BY <1>1, <1>2, <1>3 DEF AuthTypeOK
  <2>2. cred' = cred /\ cred.session \in Nat /\ sessions \in Nat
    BY <1>1, <1>2 DEF AuthTypeOK, storeVars, Store!Credentials
  <2> QED BY <1>1, <1>2, <1>3, <2>1, <2>2 DEF FileInv, storeVars
<1>9. CallerInv' /\ FlightHasAudience'
  BY <1>2, AudienceFrame DEF callerVars, Busy
<1> QED BY <1>5, <1>6, <1>7, <1>8, <1>9 DEF AInv

LEMMA LoginSavesInv ==
  ASSUME AInv, NEW l \in Logins, LoginSaves(l)
  PROVE  AInv'
<1>1. AuthTypeOK /\ CommitInv /\ FlightInv /\ FileInv
  BY DEF AInv
<1>2. /\ login[l] = "saving" /\ commit = l
      /\ UNCHANGED <<cred, life, saveFailed, refreshing, flight, sessions, callerVars>>
  BY <1>1 DEF LoginSaves, CommitInv
<1>3. \A k \in Logins : k # l => login[k] \notin {"saving", "adopting"}
  BY <1>1, <1>2 DEF CommitInv
<1>4. \A d \in Flights : flight[d].stage \notin {"saving", "finishing"}
  BY <1>1, <1>2, RefreshConstants DEF CommitInv
<1>5. \/ /\ saved' = Store!Credential(sessions, 0)
         /\ login' = [login EXCEPT ![l] = "adopting"]
         /\ commit' = commit
      \/ /\ saved' = saved
         /\ login' = [login EXCEPT ![l] = "over"]
         /\ commit' = Nobody
  BY DEF LoginSaves
<1>6. AuthTypeOK'
  <2>1. Store!Credential(sessions, 0) \in Store!Credentials
    BY <1>1 DEF AuthTypeOK, Store!Credential, Store!Credentials
  <2> QED BY <1>1, <1>2, <1>5, <2>1 DEF AuthTypeOK, callerVars
<1>7. CommitInv'
  BY <1>1, <1>2, <1>3, <1>4, <1>5, RefreshConstants DEF AuthTypeOK, CommitInv
<1>8. FlightInv'
  BY <1>1, <1>2 DEF FlightInv, Busy, Store!Rotated, Store!Credential
<1>9. FileInv'
  <2>1. \A k \in Logins : k # l => login'[k] \notin {"saving", "adopting"}
    BY <1>1, <1>3, <1>5 DEF AuthTypeOK
  <2>2. CASE saved' = saved /\ login'[l] = "over"
    BY <1>1, <1>2, <1>3, <2>1, <2>2 DEF FileInv
  <2>3. CASE saved' = Store!Credential(sessions, 0) /\ login'[l] = "adopting"
    BY <1>1, <1>2, <2>1, <2>3 DEF FileInv, Store!Credential
  <2> QED BY <1>1, <1>5, <2>2, <2>3 DEF AuthTypeOK
<1>10. CallerInv' /\ FlightHasAudience'
  BY <1>2, AudienceFrame DEF callerVars, Busy
<1> QED BY <1>6, <1>7, <1>8, <1>9, <1>10 DEF AInv

LEMMA LoginAdoptsInv ==
  ASSUME AInv, NEW l \in Logins, LoginAdopts(l)
  PROVE  AInv'
<1>1. AuthTypeOK /\ CommitInv /\ FlightInv /\ FileInv /\ CallerInv /\ FlightHasAudience
  BY DEF AInv
<1>2. /\ login[l] = "adopting" /\ commit = l
      /\ cred' = Store!Credential(sessions, 0)
      /\ life' = "valid" /\ saveFailed' = FALSE /\ refreshing' = NoFlight
      /\ login' = [login EXCEPT ![l] = "over"]
      /\ commit' = Nobody
      /\ UNCHANGED <<saved, sessions, callerVars>>
  BY <1>1 DEF LoginAdopts, CommitInv
<1>3. /\ \A k \in Logins : k # l => login[k] \notin {"saving", "adopting"}
      /\ \A d \in Flights : flight[d].stage \notin {"saving", "finishing"}
  BY <1>1, <1>2, RefreshConstants DEF CommitInv
<1>4. PICK why \in Causes : flight' = IF refreshing = NoFlight THEN flight
                                    ELSE [flight EXCEPT ![refreshing].cause = why]
  <2>1. CASE refreshing = NoFlight
    BY <2>1 DEF LoginAdopts, Causes
  <2>2. CASE refreshing # NoFlight
    <3> DEFINE k == IF flight[refreshing].cause = "none" THEN "login" ELSE flight[refreshing].cause
    <3>1. flight[refreshing].cause \in Causes
      BY <1>1, <2>2 DEF AuthTypeOK
    <3>2. flight' = [flight EXCEPT ![refreshing].cause = k]
      BY <2>2 DEF LoginAdopts
    <3> QED BY <2>2, <3>1, <3>2 DEF Causes
  <2> QED BY <2>1, <2>2
<1>5. \A d \in Flights : /\ flight'[d].stage = flight[d].stage
                         /\ flight'[d].base = flight[d].base
                         /\ flight'[d].err = flight[d].err
                         /\ flight'[d].waiters = flight[d].waiters
  BY <1>1, <1>4 DEF AuthTypeOK
<1>6. /\ cred.session < sessions /\ sessions \in Nat /\ cred.session \in Nat
      /\ saved = cred' /\ cred'.session = sessions /\ cred' \in Store!Credentials
      /\ \A d \in Flights : flight[d].base.session \in Nat
  BY <1>1, <1>2 DEF AuthTypeOK, FileInv, Store!Credential, Store!Credentials
<1>7. AuthTypeOK'
  <2>1. flight' \in [Flights -> [stage : Stages, base : Store!Credentials, cause : Causes,
                                 waiters : Nat, err : Errors]]
    BY <1>1, <1>4 DEF AuthTypeOK
  <2>2. life' \in Lives BY <1>2 DEF Lives
  <2> QED BY <1>1, <1>2, <1>6, <2>1, <2>2 DEF AuthTypeOK, callerVars
<1>8. CommitInv'
  BY <1>1, <1>2, <1>3, <1>5, RefreshConstants DEF AuthTypeOK, CommitInv
<1>9. FlightInv'
  <2>1. \A d \in Flights : Busy(d) => flight[d].base.session < sessions
    BY <1>1, <1>6 DEF FlightInv
  <2>2. \A d \in Flights : Busy(d)' <=> Busy(d)
    BY <1>5 DEF Busy
  <2> QED BY <1>1, <1>2, <1>3, <1>5, <1>6, <2>1, <2>2, RefreshConstants DEF FlightInv
<1>10. FileInv'
  <2>1. \A k \in Logins : login'[k] \notin {"saving", "adopting"}
    BY <1>1, <1>2, <1>3 DEF AuthTypeOK
  <2> QED BY <1>2, <1>6, <2>1 DEF FileInv
<1>11. CallerInv'
  BY <1>1, <1>2, <1>5 DEF AuthTypeOK, CallerInv, Busy, callerVars
<1>12. FlightHasAudience'
  <2>1. \A d \in Flights : Waiting(d)' = Waiting(d)
    BY <1>2 DEF Waiting, callerVars
  <2> QED BY <1>1, <1>2, <1>5, <2>1, RefreshConstants DEF FlightHasAudience
<1> QED BY <1>7, <1>8, <1>9, <1>10, <1>11, <1>12 DEF AInv

LEMMA AgeInv ==
  ASSUME AInv, Age
  PROVE  AInv'
<1>1. AuthTypeOK'
  BY DEF AInv, AuthTypeOK, Age, callerVars, Lives
<1>2. CommitInv' /\ FileInv'
  BY DEF AInv, CommitInv, FileInv, Age, Store!Credential
<1>3. FlightInv'
  BY DEF AInv, FlightInv, Busy, Age, Store!Rotated, Store!Credential
<1>4. CallerInv' /\ FlightHasAudience'
  BY AudienceFrame DEF Age, callerVars, Busy
<1> QED BY <1>1, <1>2, <1>3, <1>4 DEF AInv

-------------------------------------------------------------------------------
(* The invariant                                                             *)

LEMMA AuthInitInv ==
  ASSUME AuthInit
  PROVE  AInv
<1>1. Store!FirstCredential \in Store!Credentials /\ Store!FirstCredential.session = 0
  BY DEF Store!FirstCredential, Store!Credential, Store!Credentials
<1>2. AuthTypeOK
  BY <1>1 DEF AuthInit, AuthTypeOK, Unused, Stages, Causes, Errors, Lives
<1>3. CommitInv
  BY RefreshConstants DEF AuthInit, CommitInv, Unused
<1>4. FlightInv
  BY DEF AuthInit, FlightInv, Busy, Unused
<1>5. FileInv
  BY <1>1 DEF AuthInit, FileInv
<1>6. CallerInv /\ FlightHasAudience
  BY DEF AuthInit, CallerInv, FlightHasAudience, Unused, Busy
<1> QED BY <1>2, <1>3, <1>4, <1>5, <1>6 DEF AInv

LEMMA AuthNextInv ==
  ASSUME AInv, AuthNext
  PROVE  AInv'
<1>1. ASSUME NEW r \in Callers, CallerStep(r) PROVE AInv'
  BY <1>1, ReturnsInv, AwaitCancelledInv, JoinInv, StartFlightInv, AwaitOverInv,
     WaitOverInv, UnwaitInv DEF CallerStep
<1>2. ASSUME NEW r \in Callers, NextCall(r) \/ \E f \in BOOLEAN : Call(r, f) PROVE AInv'
  BY <1>2, ContextInv, CallInv
<1>3. ASSUME NEW r \in Impatient, Cancel(r) PROVE AInv'
  BY <1>3, ContextInv, RefreshConstants
<1>4. ASSUME NEW c \in Flights, FlightStep(c) \/ TimesOut(c) PROVE AInv'
  BY <1>4, ExchangedInv, TimesOutInv, LandInv, SaveRotationInv, FinishFlightInv
     DEF FlightStep
<1>5. ASSUME NEW l \in Logins, LoginBegins(l) \/ LoginStep(l) PROVE AInv'
  BY <1>5, LoginBeginsInv, LoginSavesInv, LoginAdoptsInv DEF LoginStep
<1> QED BY <1>1, <1>2, <1>3, <1>4, <1>5, AgeInv DEF AuthNext, Others

LEMMA AuthStutter ==
  ASSUME AInv, UNCHANGED authVars
  PROVE  AInv'
<1>1. AuthTypeOK'
  BY DEF AInv, AuthTypeOK, authVars
<1>2. CommitInv' /\ FlightInv' /\ FileInv'
  BY CallerFrame DEF authVars, storeVars
<1>3. CallerInv' /\ FlightHasAudience'
  BY AudienceFrame DEF authVars, Busy
<1> QED BY <1>1, <1>2, <1>3 DEF AInv

\* AInv holds in every reachable state of the credential, for any number of
\* callers, logins and overlapping flights.
THEOREM AuthInvariant == AuthSpec => []AInv
<1>1. AuthInit => AInv
  BY AuthInitInv
<1>2. AInv /\ [AuthNext]_authVars => AInv'
  BY AuthNextInv, AuthStutter
<1> QED BY <1>1, <1>2, PTL DEF AuthSpec

-------------------------------------------------------------------------------
(* Safety                                                                    *)

\* Every variable keeps its type: in particular the count of waiters of a
\* credentialRefresh never goes below zero.
THEOREM AuthTypesCorrect == AuthSpec => []AuthTypeOK
<1>1. AInv => AuthTypeOK
  BY DEF AInv
<1> QED BY <1>1, AuthInvariant, PTL

\* No two exchanges with the platform use the same credential.
THEOREM OneExchangeAtATime == AuthSpec => []OneExchange
<1>1. AInv => OneExchange
  BY DEF AInv, FlightInv, Busy, OneExchange
<1> QED BY <1>1, AuthInvariant, PTL

\* The file is the credential in use whenever commitMu is free, unless the last
\* rotation could not be saved.
THEOREM FileFollows == AuthSpec => []FileFollowsMemory
<1>1. ASSUME AInv, commit = Nobody, ~saveFailed PROVE saved = cred
  <2>1. /\ \A c \in Flights : flight[c].stage # "saving"
        /\ \A l \in Logins : login[l] # "adopting"
    BY <1>1, RefreshConstants DEF AInv, CommitInv
  <2> QED BY <1>1, <2>1 DEF AInv, FileInv
<1>2. AInv => FileFollowsMemory
  BY <1>1 DEF FileFollowsMemory
<1> QED BY <1>2, AuthInvariant, PTL

\* waiters counts exactly the callers in waitRefresh, and a flight is cancelled
\* when the last of them leaves but never under one of them.
THEOREM AudienceCounted == AuthSpec => []FlightHasAudience
<1>1. AInv => FlightHasAudience
  BY DEF AInv
<1> QED BY <1>1, AuthInvariant, PTL

\* A step that takes a flight out of "granted" is its landing.
LEMMA GrantedLands ==
  ASSUME AInv, AuthNext, NEW c \in Flights,
         flight[c].stage = "granted", flight'[c].stage # "granted"
  PROVE  Land(c)
<1> USE DEF Busy
<1>1. AuthTypeOK
  BY DEF AInv
<1>2. ASSUME NEW r \in Callers, CallerStep(r) PROVE flight'[c].stage = flight[c].stage
  <2>1. CASE StartFlight(r)
    <3> DEFINE e == CHOOSE e \in FreeFlights : TRUE
    <3>1. e \in FreeFlights /\ flight' = [flight EXCEPT ![e] = NewFlight]
      BY <2>1 DEF StartFlight
    <3> HIDE DEF e
    <3> QED BY <1>1, <3>1 DEF FreeFlights, AuthTypeOK
  <2>2. CASE Join(r)
    BY <1>1, <2>2 DEF Join, AuthTypeOK
  <2>3. CASE Unwait(r)
    BY <1>1, <2>3 DEF Unwait, LeaveFlight, AuthTypeOK
  <2>4. CASE ReturnCanceled(r) \/ ReturnValid(r) \/ AwaitCancelled(r) \/ AwaitOver(r) \/ WaitOver(r)
    BY <2>4 DEF ReturnCanceled, ReturnValid, AwaitCancelled, AwaitOver, WaitOver
  <2> QED BY <1>2, <2>1, <2>2, <2>3, <2>4 DEF CallerStep
<1>3. ASSUME NEW r \in Callers, NextCall(r) \/ Cancel(r) \/ \E f \in BOOLEAN : Call(r, f)
      PROVE  flight' = flight
  BY <1>3 DEF NextCall, Cancel, Call
<1>4. ASSUME NEW d \in Flights, FlightStep(d) \/ TimesOut(d), d # c
      PROVE  flight'[c].stage = flight[c].stage
  BY <1>1, <1>4 DEF FlightStep, TimesOut, Exchanged, Land, SaveRotation, FinishFlight, Report,
     AuthTypeOK
<1>5. ASSUME FlightStep(c) \/ TimesOut(c)
      PROVE  Land(c)
  BY <1>5 DEF FlightStep, TimesOut, Exchanged, SaveRotation, FinishFlight
<1>6. ASSUME NEW l \in Logins, LoginBegins(l) \/ LoginStep(l)
      PROVE  flight'[c].stage = flight[c].stage
  BY <1>1, <1>6 DEF LoginBegins, LoginStep, LoginSaves, LoginAdopts, AuthTypeOK
<1>7. ASSUME Age PROVE flight' = flight
  BY <1>7 DEF Age
<1> QED BY <1>2, <1>3, <1>4, <1>5, <1>6, <1>7, RefreshConstants DEF AuthNext, Others

\* A granted rotation is adopted unless a login replaced its base: a flight that
\* is no longer the current one belongs to an earlier session.
THEOREM GrantsAreKept == AuthSpec => GrantedIsKept
<1> DEFINE Kept == \A c \in Flights :
             flight[c].stage = "granted" /\ flight'[c].stage # "granted" =>
               cred # flight[c].base \/ cred' = Store!Rotated(flight[c].base)
<1>1. ASSUME AInv, AuthNext, NEW c \in Flights,
             flight[c].stage = "granted", flight'[c].stage # "granted",
             cred = flight[c].base
      PROVE  cred' = Store!Rotated(flight[c].base)
  <2>1. Land(c)
    BY <1>1, GrantedLands
  <2>2. refreshing = c
    <3>1. cred.session \in Nat
      BY <1>1 DEF AInv, AuthTypeOK, Store!Credentials
    <3> QED BY <1>1, <3>1 DEF AInv, FlightInv, Busy
  <2> QED BY <1>1, <2>1, <2>2 DEF Land
<1>2. AInv /\ [AuthNext]_authVars => [Kept]_authVars
  BY <1>1
<1> HIDE DEF Kept
<1>3. AuthSpec => [][Kept]_authVars
  BY <1>2, AuthInvariant, PTL DEF AuthSpec
<1> QED BY <1>3 DEF GrantedIsKept, Kept

\* The callers told that the refresh succeeded find a credential in use that is
\* not the one the flight set out to replace.
THEOREM SuccessIsTruthful == AuthSpec => TruthfulSuccess
<1> DEFINE Truthful == \A r \in Callers :
             told[r] = "none" /\ told'[r] = "ok" => cred # flight[at[r]].base
<1>1. ASSUME AInv, AuthNext, NEW r \in Callers, told[r] = "none", told'[r] = "ok"
      PROVE  cred # flight[at[r]].base
  <2>1. AuthTypeOK BY <1>1 DEF AInv
  <2>2. \E c \in Flights : FinishFlight(c)
    <3>1. ASSUME NEW q \in Callers, CallerStep(q) PROVE told'[r] \in {told[r], "none"}
      BY <2>1, <3>1 DEF CallerStep, ReturnCanceled, ReturnValid, AwaitCancelled, Join, StartFlight,
         AwaitOver, WaitOver, Unwait, Return, Attach, AuthTypeOK
    <3>2. ASSUME NEW q \in Callers, NextCall(q) \/ Cancel(q) \/ \E f \in BOOLEAN : Call(q, f)
          PROVE  told' = told
      BY <3>2 DEF NextCall, Cancel, Call
    <3>3. ASSUME NEW c \in Flights, Exchanged(c) \/ Land(c) \/ SaveRotation(c) \/ TimesOut(c)
          PROVE  told' = told
      BY <3>3 DEF Exchanged, Land, SaveRotation, TimesOut, callerVars
    <3>4. ASSUME NEW l \in Logins, LoginBegins(l) \/ LoginStep(l) PROVE told' = told
      BY <3>4 DEF LoginBegins, LoginStep, LoginSaves, LoginAdopts, callerVars
    <3>5. Age => told' = told
      BY DEF Age, callerVars
    <3> QED BY <1>1, <3>1, <3>2, <3>3, <3>4, <3>5, RefreshConstants
            DEF AuthNext, Others, FlightStep
  <2>3. PICK c \in Flights : FinishFlight(c)
    BY <2>2
  <2>4. at[r] = c /\ flight[c].err = "ok" /\ flight[c].stage = "finishing"
    BY <1>1, <2>1, <2>3 DEF FinishFlight, Tell, AuthTypeOK
  <2> QED BY <1>1, <2>4 DEF AInv, FlightInv, Busy
<1>2. AInv /\ [AuthNext]_authVars => [Truthful]_authVars
  BY <1>1
<1> HIDE DEF Truthful
<1>3. AuthSpec => [][Truthful]_authVars
  BY <1>2, AuthInvariant, PTL DEF AuthSpec
<1> QED BY <1>3 DEF TruthfulSuccess, Truthful

-------------------------------------------------------------------------------
(* Refinement                                                                *)

\* Only four kinds of step change the credential or its file, and each is the
\* step of the store of the same purpose.
LEMMA StoreStep ==
  ASSUME AInv, AuthNext
  PROVE  Store!StoreNext \/ UNCHANGED <<cred, saved>>
<1>1. AuthTypeOK /\ CommitInv /\ FlightInv /\ FileInv
  BY DEF AInv
<1>2. ASSUME NEW r \in Callers,
             CallerStep(r) \/ NextCall(r) \/ Cancel(r) \/ \E f \in BOOLEAN : Call(r, f)
      PROVE  UNCHANGED <<cred, saved>>
  BY <1>2 DEF CallerStep, NextCall, Cancel, Call, ReturnCanceled, ReturnValid, AwaitCancelled,
     Join, StartFlight, AwaitOver, WaitOver, Unwait, Attach, storeVars
<1>3. ASSUME NEW c \in Flights, Exchanged(c) \/ TimesOut(c) \/ FinishFlight(c)
      PROVE  UNCHANGED <<cred, saved>>
  BY <1>3 DEF Exchanged, TimesOut, FinishFlight, storeVars
<1>4. ASSUME NEW c \in Flights, Land(c)
      PROVE  Store!Rotate \/ UNCHANGED <<cred, saved>>
  <2>1. \A l \in Logins : login[l] # "adopting"
    BY <1>1, <1>4, RefreshConstants DEF Land, CommitInv
  <2>2. saved.session = cred.session
    BY <1>1, <2>1 DEF FileInv
  <2> QED BY <1>4, <2>2 DEF Land, Store!Rotate
<1>5. ASSUME NEW c \in Flights, SaveRotation(c)
      PROVE  Store!Save \/ UNCHANGED <<cred, saved>>
  <2>1. commit = c /\ cred = Store!Rotated(flight[c].base)
    BY <1>1, <1>5 DEF SaveRotation, CommitInv, FlightInv, Busy
  <2>2. \A l \in Logins : login[l] # "adopting"
    BY <1>1, <2>1, RefreshConstants DEF CommitInv
  <2>3. saved.session = cred.session
    BY <1>1, <2>2 DEF FileInv
  <2> QED BY <1>5, <2>1, <2>3 DEF SaveRotation, Store!Save
<1>6. ASSUME NEW l \in Logins, LoginBegins(l)
      PROVE  UNCHANGED <<cred, saved>>
  BY <1>6 DEF LoginBegins, storeVars
<1>7. ASSUME NEW l \in Logins, LoginSaves(l)
      PROVE  Store!LoginSaved \/ UNCHANGED <<cred, saved>>
  <2>1. login[l] = "saving" /\ commit = l
    BY <1>1, <1>7 DEF LoginSaves, CommitInv
  <2>2. \A k \in Logins : login[k] # "adopting"
    BY <1>1, <2>1 DEF CommitInv
  <2>3. saved.session = cred.session /\ cred.session < sessions
    BY <1>1, <2>1, <2>2 DEF FileInv
  <2>4. CASE saved' = Store!Credential(sessions, 0)
    <3>1. saved' \in Store!Credentials /\ saved'.session = sessions /\ saved'.generation = 0
      BY <1>1, <2>4 DEF AuthTypeOK, Store!Credential, Store!Credentials
    <3>2. cred.session \in Nat /\ sessions \in Nat
      BY <1>1 DEF AuthTypeOK, Store!Credentials
    <3> QED BY <1>7, <2>3, <3>1, <3>2 DEF LoginSaves, Store!LoginSaved
  <2> QED BY <1>7, <2>4 DEF LoginSaves
<1>8. ASSUME NEW l \in Logins, LoginAdopts(l)
      PROVE  Store!LoginAdopted
  <2>1. login[l] = "adopting" /\ saved = Store!Credential(sessions, 0) /\ cred.session < sessions
    BY <1>1, <1>8 DEF LoginAdopts, FileInv
  <2>2. saved.session = sessions /\ cred.session \in Nat /\ sessions \in Nat
    BY <1>1, <2>1 DEF AuthTypeOK, Store!Credential, Store!Credentials
  <2> QED BY <1>8, <2>1, <2>2 DEF LoginAdopts, Store!LoginAdopted
<1>9. Age => UNCHANGED <<cred, saved>>
  BY DEF Age
<1> QED BY <1>2, <1>3, <1>4, <1>5, <1>6, <1>7, <1>8, <1>9, RefreshConstants
        DEF AuthNext, Others, FlightStep, LoginStep, Store!StoreNext

\* The credential of an account implements the store: a rotation continues the
\* session in use and is saved afterwards, a login starts a later one, on disk
\* first, and what was started before a login never undoes it.
THEOREM AuthImplementsStore == AuthSpec => StoreSpec
<1>1. AuthInit => Store!StoreInit
  BY DEF AuthInit, Store!StoreInit
<1>2. AInv /\ [AuthNext]_authVars => [Store!StoreNext]_<<cred, saved>>
  BY StoreStep DEF authVars
<1> QED BY <1>1, <1>2, AuthInvariant, PTL
        DEF AuthSpec, StoreSpec, Store!StoreSpec, Store!storeVars

\* Every step of a request or of the keep-alive is one AuthSpec allows a caller.
LEMMA RetryStep ==
  ASSUME RetryNext
  PROVE  AuthNext \/ UNCHANGED authVars
<1>1. ASSUME NEW r \in Callers, NEW label, Goto(r, label)
      PROVE  NextCall(r)
  BY <1>1 DEF Goto
<1>2. ASSUME NEW r \in Callers, StreamStep(r)
      PROVE  NextCall(r) \/ (\E f \in BOOLEAN : Call(r, f)) \/ UNCHANGED authVars
  <2>1. CASE Begin(r)
    BY <2>1 DEF Begin
  <2>2. CASE Checked(r) \/ Ensured(r) \/ Recovered(r)
    BY <1>1, <2>2 DEF Checked, Ensured, Recovered
  <2>3. CASE BackoffOver(r)
    BY <1>1, <2>3 DEF BackoffOver
  <2>4. CASE DialOpens(r) \/ DialFatal(r) \/ DialRetryable(r)
    BY <1>1, <2>4 DEF DialOpens, DialFatal, DialRetryable
  <2>5. CASE DialUnauthorized(r)
    BY <1>1, <2>5 DEF DialUnauthorized
  <2> QED BY <1>2, <2>1, <2>2, <2>3, <2>4, <2>5 DEF StreamStep
<1>3. ASSUME NEW r \in Callers, Inside(r) PROVE CallerStep(r)
  BY <1>3 DEF Inside
<1>4. ASSUME NEW r \in Impatient, ClientLeaves(r) PROVE Cancel(r)
  BY <1>4 DEF ClientLeaves
<1> QED BY <1>2, <1>3, <1>4 DEF RetryNext, AuthNext

\* The retry loop is an environment of the credential, so that all of the above
\* holds of it: it adds no step of its own to what the credential goes through.
THEOREM RetryUsesAuth == RetrySpec => AuthSpec
<1>1. RetryInit => AuthInit
  BY DEF RetryInit
<1>2. [RetryNext]_rvars => [AuthNext]_authVars
  BY RetryStep DEF rvars
<1> QED BY <1>1, <1>2, PTL DEF RetrySpec, AuthSpec
===============================================================================
