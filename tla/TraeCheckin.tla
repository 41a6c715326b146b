------------------------------ MODULE TraeCheckin ------------------------------
(***************************************************************************)
(* The daily check-in of a TRAE account beside its login: the background   *)
(* timer, the console, the upstream that gives a reward of credits, and    *)
(* the evidence the gateway keeps before it lets a model use that reward   *)
(* (trae/checkin.go, trae/quota.go).                                       *)
(* A pack of credits is <<account, day>> for the reward of a day, and      *)
(* <<account, 0>> for zero-price credits of another source. The reward of  *)
(* a day is one unit; the other source gives another amount. The monthly   *)
(* pack is always there. Rewards outlive the days that are modelled. The   *)
(* hour set for the check-in, and the fifteen minutes after a failure, may *)
(* have passed at any step.                                                *)
(***************************************************************************)
EXTENDS TraeLogin, FiniteSets

CONSTANTS
  MaxAttempts,        \* 6 in the code
  Settings,           \* to what somebody switches the automatic check-in
  Gifted, Elsewhere,  \* accounts that get other credits; <<account, day>> of the official client's check-ins
  LastDay, LastCrash  \* bounds

ASSUME CheckinAssumption ==
  /\ MaxAttempts \in Nat \ {0} /\ LastDay \in Nat \ {0} /\ LastCrash \in Nat
  /\ Gifted \subseteq Accounts /\ Elsewhere \subseteq Accounts \X (1 .. LastDay)

Days == 1 .. LastDay
Gift(a) == <<a, 0>>

VARIABLES
  day,      \* today, in Asia/Shanghai
  state,    \* checkinDisk, in memory
  saved,    \* the state file, or NoFile
  run,      \* the operation in progress (op, busy) and where it is
  tick,     \* what the background timer is about to do, and the day it looked
  claimed,  \* upstream: the days on which an account has checked in
  packs,    \* upstream: packs in the accounts
  crashes,
  mine,     \* history: the claims of this gateway that took effect on the day of their decision
  blind,    \* history: a claim was sent though an earlier one had taken effect
  autos,    \* history: automatic claims per day, since the account last changed
  carried   \* history: <<account, day>> that began with an answer "checked in" on its way
checkinVars == <<day, state, saved, run, tick, claimed, packs, crashes, mine, blind, autos, carried>>
upstream == <<claimed, packs>>
history == <<mine, blind, autos, carried>>
vars == <<loginVars, checkinVars>>

NoPending == [day |-> 0, before |-> {}]
(* What a controller starts with, and after the account has changed.       *)
Fresh(account, enabled) ==
  [account |-> account, enabled |-> enabled, day |-> 0, checked |-> FALSE, result |-> "pending",
   attempts |-> 0, tried |-> 0, rewards |-> {}, pending |-> NoPending]
NoFile == Fresh(None, TRUE)
NoRun == [at |-> "rest", claim |-> FALSE, auto |-> FALSE, day |-> 0, account |-> None, checked |-> FALSE, there |-> {}]
NoTick == [do |-> "rest", day |-> 0]

CheckinInit ==
  /\ LoginInit
  /\ day = 1 /\ crashes = 0
  /\ state = NoFile /\ saved = NoFile /\ run = NoRun /\ tick = NoTick
  /\ claimed = {} /\ packs = {} /\ mine = {} /\ blind = FALSE /\ autos = [d \in Days |-> 0]
  /\ carried = {}

----------------------------------------------------------------------------
(* saveLocked fails without a change of the file. What is on the disk is   *)
(* read after a crash only: no save fails when the last one has been.      *)
SaveOrNot(s) == saved' = s \/ (crashes < LastCrash /\ saved' = saved)

(* resetAccountLocked: nothing of another account is kept.                 *)
Reset(s, account) == IF s.account = account THEN s ELSE Fresh(account, s.enabled)

(* updateStatus, with what the upstream says of the account.               *)
Updated(s, today, checked) ==
  [s EXCEPT !.day = today, !.checked = checked,
            !.attempts = IF s.day = today THEN @ ELSE 0]

(* verifyFreeQuotaApproved: the monthly pack and approved rewards only.    *)
Free(account, there, s) == there \subseteq (IF s.account = account THEN s.rewards ELSE {})
PacksOf(account) == {p \in packs : p[1] = account}

(* Variant: only the operation that made a claim looks for its reward.     *)
AwaitedByClaim(s) == s.pending # NoPending /\ run.at = "reward"
(* reconcileReward: a claim is on record, and its day is confirmed.        *)
Awaited(s) == s.pending # NoPending /\ s.checked /\ s.day = s.pending.day
Arrived(s, there) == there \ s.pending.before
Approve(s, there) == [s EXCEPT !.rewards = (@ \cup Arrived(s, there)) \cap there, !.pending = NoPending]
(* What came since is one pack of the amount that was promised, and        *)
(* everything else in the account is free.                                 *)
Confirms(s, there) ==
  /\ \E p \in Arrived(s, there) : Arrived(s, there) = {p} /\ p # Gift(s.account)
  /\ Free(s.account, there, Approve(s, there))

----------------------------------------------------------------------------
(* The end of run, deferred: the state is saved, whatever happened; when   *)
(* that fails, so has the operation.                                       *)
Ended(s) ==
  /\ SaveOrNot(s) /\ run' = NoRun
  /\ state' = IF saved' = s THEN s ELSE [s EXCEPT !.result = "failed"]
Failed(s) == Ended([s EXCEPT !.result = "failed"])
GoOn(step) == run' = [run EXCEPT !.at = step]
Rest == UNCHANGED <<loginVars, day, tick, crashes>>

(* run: one operation at a time, with the day at which it was decided.     *)
Run(claim, auto, today) ==
  /\ run = NoRun
  /\ run' = [NoRun EXCEPT !.at = "load", !.claim = claim, !.auto = auto, !.day = today]
(* ClaimCheckin: only after a failure of today.                            *)
ClaimCheckin ==
  /\ up /\ state.day = day /\ state.result = "failed" /\ ~state.checked /\ state.tried = day
  /\ Run(TRUE, FALSE, day)
  /\ UNCHANGED <<state, saved, upstream, history>> /\ Rest
RefreshCheckin ==
  /\ up /\ Run(FALSE, FALSE, day)
  /\ UNCHANGED <<state, saved, upstream, history>> /\ Rest

(* History of a change of account: what was kept of it is forgotten.       *)
Forget(account) ==
  /\ mine' = IF state.account = account THEN mine ELSE {p \in mine : p[1] # account}
  /\ UNCHANGED <<blind, carried>>
Count(account, counts) ==
  autos' = [d \in Days |-> (IF state.account = account THEN autos[d] ELSE 0) + (IF counts /\ d = run.day THEN 1 ELSE 0)]

(* Variant: a new day does not clear the answer of the last one.           *)
KeepAnswer(s, today) ==
  IF s.day = today THEN s ELSE [s EXCEPT !.day = today, !.attempts = 0]
BeginDay(s, today) ==
  IF s.day = today THEN s ELSE [s EXCEPT !.day = today, !.checked = FALSE, !.attempts = 0]
(* The counter is only compared with the limit, where it stops here.       *)
Attempted(s, today) ==
  [BeginDay(s, today) EXCEPT !.attempts = IF @ < MaxAttempts THEN @ + 1 ELSE @, !.tried = today]
(* The credential is read; an attempt is on record before it is made.      *)
Load ==
  /\ up /\ run.at = "load"
  /\ \/ Failed(state) /\ UNCHANGED history
     \/ LET s == Reset(state, cred)
            t == IF run.claim THEN Attempted(s, run.day) ELSE s
        IN /\ cred # None /\ Forget(cred)
           /\ \/ /\ state' = t /\ saved' = IF run.claim THEN t ELSE saved
                 /\ run' = [run EXCEPT !.at = "status", !.account = cred]
                 /\ Count(cred, run.claim /\ run.auto)
              \/ run.claim /\ Failed(t) /\ Count(cred, FALSE)
  /\ UNCHANGED upstream /\ Rest

(* checkinRequest: the status of the account, dated by the operation.      *)
Status ==
  /\ up /\ run.at = "status"
  /\ \/ Failed(state)
     \/ LET checked == <<run.account, day>> \in claimed
        IN /\ state' = Updated(state, run.day, checked)
           /\ run' = [run EXCEPT !.at = "balance", !.checked = checked]
           /\ UNCHANGED saved
  /\ UNCHANGED <<upstream, history>> /\ Rest

(* readBalance: a reward that is confirmed is saved before it counts. It   *)
(* fails at the upstream, in the comparison or in the save.                *)
ReadBalance(from, to) ==
  /\ up /\ run.at = from
  /\ LET there == PacksOf(run.account)
         read == [run EXCEPT !.at = to, !.there = there]
     IN \/ ~Awaited(state) /\ run' = read /\ UNCHANGED <<state, saved>>
        \/ /\ Awaited(state) /\ Confirms(state, there)
           /\ run' = read /\ state' = Approve(state, there) /\ saved' = Approve(state, there)
        \/ Failed(state)
  /\ UNCHANGED <<upstream, history>> /\ Rest

(* The packs that are there before a claim are recorded: they tell the     *)
(* reward. Variant: the record is left to the save at the end.             *)
RecordLater(s) == state' = s /\ UNCHANGED saved
Record(s) == state' = s /\ saved' = s
Recorded(s) == [s EXCEPT !.pending = [day |-> s.day, before |-> run.there]]
(* What follows from the status and the balance. The activity may be       *)
(* closed, its reward unknown, or the record not be saved.                 *)
Decide ==
  /\ up /\ run.at = "decide"
  /\ \/ run.checked /\ Ended([state EXCEPT !.result = "already_checked"])
     \/ ~run.checked /\ ~run.claim /\ Ended(state)
     \/ /\ ~run.checked /\ run.claim /\ Free(run.account, run.there, state)
        /\ (Record(Recorded(state)) /\ GoOn("claim")) \/ Failed(Recorded(state))
     \/ ~run.checked /\ run.claim /\ Failed(state)
  /\ UNCHANGED <<upstream, history>> /\ Rest

(* The claim takes effect or not; its answer decides nothing.              *)
Claim ==
  /\ up /\ run.at = "claim"
  /\ LET here == <<run.account, day>>
     IN /\ \/ claimed' = claimed \cup {here} /\ mine' = IF here \in claimed \/ run.day # day THEN mine ELSE mine \cup {here}
           \/ UNCHANGED <<claimed, mine>>
        /\ blind' = (blind \/ here \in mine)
  /\ GoOn("confirm")
  /\ UNCHANGED <<state, saved, packs, autos, carried>> /\ Rest
(* The status again: only it makes a success. The upstream answers for the *)
(* day it is, ...                                                          *)
Confirm ==
  /\ up /\ run.at = "confirm"
  /\ \/ Failed(state)
     \/ run' = [run EXCEPT !.at = "date", !.checked = <<run.account, day>> \in claimed] /\ UNCHANGED <<state, saved>>
  /\ UNCHANGED <<upstream, history>> /\ Rest
(* ... and the answer is dated when it has come (observedAt): to the next  *)
(* day when midnight passes in between.                                    *)
DateAnswer ==
  /\ up /\ run.at = "date"
  /\ LET s == Updated(state, day, run.checked)
     IN \/ ~run.checked /\ Failed(s)
        \/ run.checked /\ state' = s /\ GoOn("reward") /\ UNCHANGED saved
  /\ UNCHANGED <<upstream, history>> /\ Rest
Succeed ==
  /\ up /\ run.at = "succeed"
  /\ Ended([state EXCEPT !.result = "success"])
  /\ UNCHANGED <<upstream, history>> /\ Rest

Operation ==
  \/ Load \/ Status \/ ReadBalance("balance", "decide") \/ Decide
  \/ Claim \/ Confirm \/ DateAnswer \/ ReadBalance("reward", "succeed") \/ Succeed

----------------------------------------------------------------------------
(* snapshot: whether the automatic check-in is due.                        *)
Due(s) ==
  /\ s.enabled
  /\ ~(s.day = day /\ s.checked)
  /\ ~(s.day = day /\ s.attempts >= MaxAttempts)
(* tick: what is due is decided before the operation begins, and a status  *)
(* that is fifteen minutes old is asked for again.                         *)
Tick ==
  /\ up /\ tick = NoTick /\ ~run.auto
  /\ LET s == IF run = NoRun /\ cred # None THEN Reset(state, cred) ELSE state
     IN /\ state' = s
        /\ \/ Due(s) /\ run = NoRun /\ tick' = [do |-> "claim", day |-> day]
           \/ tick' = [do |-> "status", day |-> day]
        /\ Forget(s.account) /\ Count(s.account, FALSE)
  /\ UNCHANGED <<loginVars, day, saved, run, upstream, crashes>>
(* The operation of the timer begins; one in progress makes it pass.       *)
TickRuns ==
  /\ up /\ tick # NoTick
  /\ tick' = NoTick
  /\ Run(tick.do = "claim", TRUE, tick.day) \/ (run # NoRun /\ UNCHANGED run)
  /\ UNCHANGED <<loginVars, day, state, saved, upstream, crashes, history>>

(* ConfigureCheckin: the switch is changed and saved,                      *)
(* with whatever an operation in progress has reached, or not at all.      *)
ConfigureCheckin(enabled) ==
  /\ up /\ state.enabled # enabled
  /\ state' = [state EXCEPT !.enabled = enabled] /\ saved' = state'
  /\ UNCHANGED <<loginVars, day, run, tick, upstream, crashes, history>>

----------------------------------------------------------------------------
(* newCheckinController.                                                   *)
Boot ==
  /\ LoginBoot
  /\ state' = saved
  /\ UNCHANGED <<day, saved, run, tick, upstream, crashes, history>>
Crash ==
  /\ crashes < LastCrash /\ crashes' = crashes + 1
  /\ LoginCrash
  /\ state' = NoFile /\ run' = NoRun /\ tick' = NoTick
  /\ UNCHANGED <<day, saved, upstream, history>>

(* A reward is in the account before its day ends.                         *)
Midnight ==
  /\ day < LastDay /\ claimed \subseteq packs
  /\ day' = day + 1
  /\ carried' = IF run.at = "date" /\ run.checked THEN carried \cup {<<run.account, day'>>} ELSE carried
  /\ UNCHANGED <<loginVars, state, saved, run, tick, upstream, crashes, mine, blind, autos>>

(* External: the reward arrives, credits of another source, and a check-in *)
(* with the official client.                                               *)
External ==
  /\ \/ \E p \in claimed \ packs : packs' = packs \cup {p} /\ UNCHANGED claimed
     \/ \E a \in Gifted : Gift(a) \notin packs /\ packs' = packs \cup {Gift(a)} /\ UNCHANGED claimed
     \/ \E p \in Elsewhere \ claimed : p[2] = day /\ claimed' = claimed \cup {p} /\ UNCHANGED packs
  /\ UNCHANGED <<loginVars, day, state, saved, run, tick, crashes, history>>

(* What a login does to the credential file, whatever it does in between:  *)
(* LoginFilesSafe.                                                         *)
LoggedIn(a) == cred = None /\ cred' = a /\ UNCHANGED <<up, exchanged, grant, spent, login, held, removals>>
CredentialChanges == (RemoveCredential \/ \E a \in Accounts : LoggedIn(a)) /\ UNCHANGED checkinVars

CheckinNext ==
  \/ CredentialChanges \/ Operation \/ ClaimCheckin \/ RefreshCheckin \/ Tick \/ TickRuns
  \/ (\E enabled \in Settings : ConfigureCheckin(enabled))
  \/ Boot \/ Crash \/ Midnight \/ External

CheckinSpec == CheckinInit /\ [][CheckinNext]_vars

----------------------------------------------------------------------------
(* What the gateway says of a check-in, and what it does to get it: today  *)
(* counts as checked only when the upstream said so of this account today  *)
(* -- or, the one exception, when it said so of the day before in the      *)
(* answer that confirms a claim and midnight passed while that answer was  *)
(* on its way --, no claim is sent once one of this gateway took effect,   *)
(* and a day has no more automatic claims than the limit, over restarts,   *)
(* midnight and the console's own operations (run, snapshot, updateStatus).*)
ClaimsAsPromised ==
  /\ state.checked /\ state.day = day => <<state.account, day>> \in claimed \cup carried
  /\ ~blind
  /\ \A d \in Days : autos[d] <= MaxAttempts

(* A reward does not stay refused because the operation that claimed it    *)
(* was cut off -- by a crash, or a confirmation that failed: an operation  *)
(* of the same day, a refresh as well, that gets past the balance with the *)
(* reward in it has approved it, from the record and the status it has     *)
(* read. (readBalance, reconcileReward; on a later day nothing is, because *)
(* only the record's own day is compared.)                                 *)
RefreshRecovers ==
  run.at = "decide" /\ run.day = day /\ <<run.account, day>> \in mine \cap run.there =>
    <<run.account, day>> \in state.rewards

(* The evidence for a reward: what is approved is the account's own reward *)
(* of a day, and never credits of another source; and the reward of a      *)
(* claim of today is approved, or told by the record, on the disk, so that *)
(* a restart finds it; and whoever finds it approves it (reconcileReward,  *)
(* run).                                                                   *)
RewardsAccountedFor ==
  /\ \A s \in {state, saved} : \A p \in s.rewards : p \in claimed /\ p[1] = s.account
  /\ \A r \in mine :
       r = <<saved.account, day>> =>
         r \in saved.rewards \/ (saved.pending # NoPending /\ r \notin saved.pending.before)
  /\ RefreshRecovers
===============================================================================
