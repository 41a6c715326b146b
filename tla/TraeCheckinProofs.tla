--------------------------- MODULE TraeCheckinProofs ----------------------------
(***************************************************************************)
(* ClaimsAsPromised and RewardsAccountedFor for any accounts, any number   *)
(* of days, attempts and restarts. Neither is inductive: what a step       *)
(* writes rests on what the same operation was told some steps before,     *)
(* perhaps on the day before, and what a restart reads on what was saved.  *)
(* At the end, LoginFilesSafe of the web login, for any logins.            *)
(***************************************************************************)
EXTENDS TraeCheckin, TLAPS

Fields == {"account", "enabled", "day", "checked", "result", "attempts", "tried", "rewards", "pending"}
HasFields(s) == s = [f \in Fields |-> s[f]]
(* What may be relied on in a state, in memory or on the disk, when the    *)
(* upstream has the claims cl and the packs pk, this gateway made the      *)
(* claims mn, and answers of an earlier day were dated to ca: it is of     *)
(* today at the latest, it says "checked" of today only when that is so or *)
(* such an answer said it, what it approves is there, the record of a      *)
(* claim names all that was there before, and it covers today's claim.     *)
Evidence(s, today, cl, pk, mn, ca) ==
  /\ HasFields(s) /\ s.day \in Nat /\ s.day <= today /\ s.attempts \in Nat
  /\ s.checked /\ s.day = today => <<s.account, today>> \in cl \cup ca
  /\ \A p \in s.rewards : p \in cl /\ p \in pk /\ p[1] = s.account
  /\ s.pending # NoPending =>
       /\ s.pending.day \in Nat /\ s.pending.day <= today /\ s.pending.before \subseteq pk
       /\ \A p \in cl : p[1] = s.account /\ p[2] < s.pending.day => p \in s.pending.before
  /\ <<s.account, today>> \in mn =>
       \/ <<s.account, today>> \in s.rewards
       \/ s.pending.day = today /\ <<s.account, today>> \notin s.pending.before
(* The attempts on record are at least the automatic ones.                 *)
Counted(s, today, counts) == counts[today] <= IF s.day = today THEN s.attempts ELSE 0

(* The upstream and the history.                                           *)
WorldInv ==
  /\ day \in Days /\ cred \in Accounts \cup {None}
  /\ claimed \subseteq Accounts \X Days
  /\ \A p \in claimed : p[2] <= day /\ (p[2] < day => p \in packs)
  /\ packs \subseteq claimed \cup {Gift(a) : a \in Accounts}
  /\ mine \subseteq claimed /\ blind = FALSE
  /\ autos \in [Days -> Nat]
  /\ \A d \in Days : autos[d] <= MaxAttempts /\ (d > day => autos[d] = 0)

(* What the operation in progress knows, by the step it has come to.       *)
RunFields == {"at", "claim", "auto", "day", "account", "checked", "there"}
Steps == {"load", "status", "balance", "decide", "claim", "confirm", "date", "reward", "succeed"}
Doing ==
  /\ up /\ run = [f \in RunFields |-> run[f]] /\ run.at \in Steps /\ run.auto \in BOOLEAN
  /\ run.at = "date" /\ run.checked => <<run.account, day>> \in claimed \cup carried
  /\ run.day \in Days /\ run.day <= day /\ (run.day < day => autos[day] = 0)
  /\ run.at = "load" /\ run.claim /\ run.auto => autos[run.day] < MaxAttempts
  /\ run.at # "load" => run.account \in Accounts /\ run.account = state.account
  /\ run.at \in {"balance", "decide"} => state.day = run.day
  /\ run.at \in {"balance", "decide"} /\ ~run.checked => <<run.account, day>> \notin mine
  /\ run.at = "balance" => (state.checked <=> run.checked)
  /\ run.at = "claim" => <<run.account, day>> \notin mine /\ saved = state /\ state.pending.day = run.day
  /\ run.at = "decide" =>
       /\ run.there \subseteq packs
       /\ \A p \in claimed : p[1] = run.account /\ p[2] < run.day => p \in run.there
       /\ run.day = day /\ <<run.account, day>> \in mine \cap run.there => <<run.account, day>> \in state.rewards
RunInv == run = NoRun \/ Doing
(* What the timer is about to begin was due when it looked.                *)
TickInv ==
  tick = NoTick \/ /\ tick.day \in Days /\ tick.day <= day /\ (tick.day < day => autos[day] = 0)
                   /\ run.auto = FALSE
                   /\ tick.do = "claim" => autos[tick.day] < MaxAttempts

CheckinInv ==
  /\ WorldInv
  /\ Evidence(state, day, claimed, packs, mine, carried) /\ Evidence(saved, day, claimed, packs, mine, carried)
  /\ Counted(saved, day, autos) /\ (up => Counted(state, day, autos))
  /\ RunInv /\ TickInv

-------------------------------------------------------------------------------
(* What the operators on a state do to its parts.                          *)
LEMMA FreshParts ==
  ASSUME NEW a, NEW e
  PROVE  /\ HasFields(Fresh(a, e)) /\ Fresh(a, e).account = a /\ Fresh(a, e).day = 0 /\ ~Fresh(a, e).checked
         /\ Fresh(a, e).attempts = 0 /\ Fresh(a, e).rewards = {} /\ Fresh(a, e).pending = NoPending
  BY DEF HasFields, Fresh, Fields

LEMMA UpdatedParts ==
  ASSUME NEW s, HasFields(s), NEW today, NEW p, NEW cl
  PROVE  LET t == Updated(s, today, p \in cl)
         IN /\ HasFields(t) /\ t.account = s.account /\ t.day = today /\ (t.checked <=> p \in cl)
            /\ t.attempts = IF s.day = today THEN s.attempts ELSE 0
            /\ t.rewards = s.rewards /\ t.pending = s.pending
  BY DEF HasFields, Updated, Fields
LEMMA DatedParts ==
  ASSUME NEW s, HasFields(s), NEW today, NEW c
  PROVE  LET t == Updated(s, today, c)
         IN /\ HasFields(t) /\ t.account = s.account /\ t.day = today /\ t.checked = c
            /\ t.attempts = IF s.day = today THEN s.attempts ELSE 0
            /\ t.rewards = s.rewards /\ t.pending = s.pending
  BY DEF HasFields, Updated, Fields

LEMMA AttemptedParts ==
  ASSUME NEW s, HasFields(s), s.attempts \in Nat, NEW today
  PROVE  LET t == Attempted(s, today)
         IN /\ HasFields(t) /\ t.account = s.account /\ t.day = today
            /\ t.checked => s.checked /\ s.day = today
            /\ t.attempts = (LET n == IF s.day = today THEN s.attempts ELSE 0
                             IN IF n < MaxAttempts THEN n + 1 ELSE n)
            /\ t.rewards = s.rewards /\ t.pending = s.pending
<1>1. CASE s.day = today
  BY <1>1 DEF HasFields, Attempted, BeginDay, Fields
<1>2. CASE s.day # today
  BY <1>2 DEF HasFields, Attempted, BeginDay, Fields
<1> QED
  BY <1>1, <1>2

(* Another result or switch.                                               *)
LEMMA SettingParts ==
  ASSUME NEW s, HasFields(s), NEW x,
         NEW t, t = [s EXCEPT !.result = x] \/ t = [s EXCEPT !.enabled = x]
  PROVE  /\ HasFields(t) /\ t.account = s.account /\ t.day = s.day /\ (t.checked <=> s.checked)
         /\ t.attempts = s.attempts /\ t.rewards = s.rewards /\ t.pending = s.pending
  BY DEF HasFields, Fields

-------------------------------------------------------------------------------
(* Evidence is kept by what does not touch rewards and the record ...      *)
LEMMA EvidenceFrom ==
  ASSUME NEW s, NEW today, NEW cl, NEW pk, NEW mn, NEW ca, Evidence(s, today, cl, pk, mn, ca),
         NEW t, HasFields(t), t.account = s.account, t.rewards = s.rewards, t.pending = s.pending,
         t.day \in Nat, t.day <= today, t.attempts \in Nat,
         t.checked /\ t.day = today => <<t.account, today>> \in cl \cup ca
  PROVE  Evidence(t, today, cl, pk, mn, ca)
  BY DEF Evidence

LEMMA EvidenceFresh ==
  ASSUME NEW a, NEW e, NEW today \in Nat, NEW cl, NEW pk, NEW mn, NEW ca, <<a, today>> \notin mn
  PROVE  Evidence(Fresh(a, e), today, cl, pk, mn, ca)
  BY FreshParts DEF Evidence

(* ... when the upstream goes on ...                                       *)
LEMMA EvidenceGrows ==
  ASSUME NEW s, NEW today, NEW cl, NEW pk, NEW mn, NEW ca, Evidence(s, today, cl, pk, mn, ca), today \in Nat,
         NEW cl2, NEW pk2, NEW mn2, NEW ca2, cl \subseteq cl2, pk \subseteq pk2, mn2 \subseteq mn, ca \subseteq ca2,
         \A p \in cl2 : p \in cl \/ p[2] = today
  PROVE  Evidence(s, today, cl2, pk2, mn2, ca2)
  BY DEF Evidence

(* ... on the next day ...                                                 *)
LEMMA EvidenceDawn ==
  ASSUME NEW s, NEW today, NEW cl, NEW pk, NEW mn, NEW ca, Evidence(s, today, cl, pk, mn, ca), today \in Nat,
         \A p \in mn : p[2] # today + 1, NEW ca2, ca \subseteq ca2
  PROVE  Evidence(s, today + 1, cl, pk, mn, ca2)
  BY DEF Evidence

(* ... when the packs before a claim are recorded, and none was made ...   *)
LEMMA EvidenceRecorded ==
  ASSUME NEW s, NEW today, NEW cl, NEW pk, NEW mn, NEW ca, Evidence(s, today, cl, pk, mn, ca), today \in Nat,
         NEW before, before \subseteq pk, <<s.account, today>> \notin mn,
         \A p \in cl : p[1] = s.account /\ p[2] < s.day => p \in before,
         NEW t, t = [s EXCEPT !.pending = [day |-> s.day, before |-> before]]
  PROVE  /\ Evidence(t, today, cl, pk, mn, ca)
         /\ t.account = s.account /\ t.day = s.day /\ t.attempts = s.attempts /\ t.pending.day = s.day
<1>1. /\ HasFields(t) /\ t.account = s.account /\ t.day = s.day /\ (t.checked <=> s.checked)
      /\ t.attempts = s.attempts /\ t.rewards = s.rewards
      /\ t.pending = [day |-> s.day, before |-> before]
  BY DEF Evidence, HasFields, Fields
<1> QED
  BY <1>1 DEF Evidence

(* ... and when the one pack that came since is approved.                  *)
LEMMA EvidenceApproved ==
  ASSUME NEW s, NEW today, NEW cl, NEW pk, NEW mn, NEW ca, Evidence(s, today, cl, pk, mn, ca), today \in Nat,
         mn \subseteq cl, cl \subseteq Accounts \X Days, \A p \in cl : p[2] <= today,
         pk \subseteq cl \cup {Gift(a) : a \in Accounts},
         NEW there, there = {p \in pk : p[1] = s.account},
         s.pending # NoPending,
         \E q \in Arrived(s, there) : Arrived(s, there) = {q} /\ q # Gift(s.account),
         NEW t, t = Approve(s, there)
  PROVE  /\ Evidence(t, today, cl, pk, mn, ca)
         /\ t.account = s.account /\ t.day = s.day /\ t.attempts = s.attempts
<1>0. PICK q \in Arrived(s, there) : Arrived(s, there) = {q} /\ q # Gift(s.account)
  OBVIOUS
<1>1. /\ HasFields(t) /\ t.account = s.account /\ t.day = s.day /\ (t.checked <=> s.checked)
      /\ t.attempts = s.attempts /\ t.rewards = (s.rewards \cup Arrived(s, there)) \cap there
      /\ t.pending = NoPending
  BY DEF Evidence, HasFields, Fields, Approve
<1>2. q \in pk /\ q[1] = s.account /\ q \notin s.pending.before
  BY <1>0 DEF Arrived
<1>3. q \in cl
  BY <1>0, <1>2 DEF Gift
<1>4. \A p \in t.rewards : p \in cl /\ p \in pk /\ p[1] = s.account
  BY <1>0, <1>1, <1>2, <1>3 DEF Evidence
<1>5. ASSUME <<s.account, today>> \in mn PROVE <<s.account, today>> \in t.rewards
  <2>1. CASE <<s.account, today>> \in s.rewards
    BY <1>1, <2>1 DEF Evidence
  <2>2. CASE s.pending.day = today
    <3>1. q[2] \in Nat /\ q[2] <= today /\ ~(q[2] < today)
      BY <1>2, <1>3, <2>2 DEF Evidence, Days
    <3>2. q = <<s.account, today>>
      BY <1>2, <1>3, <3>1
    <3> QED
      BY <1>0, <1>1, <1>2, <3>2
  <2> QED
    BY <1>5, <2>1, <2>2 DEF Evidence
<1> QED
  BY <1>1, <1>4, <1>5 DEF Evidence

-------------------------------------------------------------------------------
Ev(s) == Evidence(s, day, claimed, packs, mine, carried)

LEMMA CheckinInitInv == CheckinInit => CheckinInv
<1> SUFFICES ASSUME CheckinInit PROVE CheckinInv
  OBVIOUS
<1>1. WorldInv
  BY CheckinAssumption DEF CheckinInit, LoginInit, WorldInv, Days
<1>2. Evidence(NoFile, day, claimed, packs, mine, carried)
  BY <1>1, EvidenceFresh DEF CheckinInit, NoFile, WorldInv, Days
<1>3. Counted(NoFile, day, autos)
  <2>1. autos[day] = 0 /\ NoFile.attempts = 0
    BY <1>1 DEF CheckinInit, NoFile, Fresh, WorldInv
  <2> QED
    BY <2>1 DEF Counted
<1> QED
  BY <1>1, <1>2, <1>3 DEF CheckinInit, CheckinInv, RunInv, TickInv

(* The steps of an operation that leave the upstream alone: what is to be  *)
(* shown of them is the new state, and where the operation goes.           *)
Quiet == UNCHANGED <<up, cred, day, tick, claimed, packs, mine, blind, autos, carried>>
LEMMA QuietStep ==
  ASSUME CheckinInv, Quiet, up, Ev(state)', Counted(state, day, autos)', saved' = saved \/ saved' = state',
         RunInv', run'.auto = FALSE \/ run'.auto = run.auto
  PROVE  CheckinInv'
  BY DEF CheckinInv, Quiet, WorldInv, TickInv, Ev

(* An operation that ends leaves NoRun.                                    *)
LEMMA EndedStep ==
  ASSUME CheckinInv, Quiet, up, Ev(state)', Counted(state, day, autos)', saved' = saved \/ saved' = state',
         run' = NoRun
  PROVE  CheckinInv'
<1>1. RunInv' /\ run'.auto = FALSE
  BY DEF RunInv, NoRun
<1> QED
  BY <1>1, QuietStep

LEMMA EndedParts ==
  ASSUME NEW s, HasFields(s), Ended(s)
  PROVE  /\ saved' = saved \/ saved' = state'
         /\ run' = NoRun
         /\ HasFields(state') /\ state'.account = s.account /\ state'.day = s.day
         /\ state'.checked <=> s.checked
         /\ state'.attempts = s.attempts /\ state'.rewards = s.rewards /\ state'.pending = s.pending
<1>1. \/ state' = s /\ saved' = s
      \/ state' = [s EXCEPT !.result = "failed"] /\ saved' = saved
  BY DEF Ended, SaveOrNot
<1> QED
  BY <1>1, SettingParts DEF Ended

LEMMA EndedState ==
  ASSUME CheckinInv, Quiet, up, NEW s, Ended(s), Ev(s), Counted(s, day, autos)
  PROVE  CheckinInv'
<1>1. HasFields(s)
  BY DEF Ev, Evidence
<1>2. /\ saved' = saved \/ saved' = state'
      /\ run' = NoRun
      /\ HasFields(state') /\ state'.account = s.account /\ state'.day = s.day
      /\ state'.checked <=> s.checked
      /\ state'.attempts = s.attempts /\ state'.rewards = s.rewards /\ state'.pending = s.pending
  BY <1>1, EndedParts
<1>3. Evidence(state', day, claimed, packs, mine, carried)
  BY <1>2, EvidenceFrom DEF Ev, Evidence
<1>4. Ev(state)' /\ Counted(state, day, autos)'
  BY <1>2, <1>3 DEF Quiet, Ev, Counted
<1> QED
  BY <1>2, <1>4, EndedStep

LEMMA FailedStep ==
  ASSUME CheckinInv, Quiet, up, NEW s, Failed(s), Ev(s), Counted(s, day, autos)
  PROVE  CheckinInv'
<1> DEFINE t == [s EXCEPT !.result = "failed"]
<1>1. Ended(t)
  BY DEF Failed
<1>2. /\ HasFields(t) /\ t.account = s.account /\ t.day = s.day /\ (t.checked <=> s.checked)
      /\ t.attempts = s.attempts /\ t.rewards = s.rewards /\ t.pending = s.pending
  BY SettingParts DEF Ev, Evidence
<1> HIDE DEF t
<1>3. Ev(t) /\ Counted(t, day, autos)
  BY <1>2, EvidenceFrom DEF Ev, Evidence, Counted
<1> QED
  BY <1>1, <1>3, EndedState

(* An operation at a step knows what RunInv says of it.                    *)
LEMMA AtStep ==
  ASSUME CheckinInv, run.at \in Steps
  PROVE  Doing /\ HasFields(state) /\ day \in Nat /\ day \in Days /\ run.day \in Nat
<1>1. NoRun.at = "rest"
  BY DEF NoRun
<1> QED
  BY <1>1 DEF CheckinInv, RunInv, Doing, Steps, Evidence, WorldInv, Days

LEMMA StatusStep ==
  ASSUME CheckinInv, Status PROVE CheckinInv'
<1>1. Quiet /\ up /\ run.at = "status" /\ Ev(state) /\ Counted(state, day, autos) /\ Counted(saved, day, autos)
  BY DEF Status, Rest, Quiet, upstream, history, loginVars, CheckinInv, Ev
<1>2. CASE Failed(state)
  BY <1>1, <1>2, FailedStep
<1>3. CASE ~Failed(state)
  <2> DEFINE here == <<run.account, day>>
             t == Updated(state, run.day, here \in claimed)
  <2>1. state' = t /\ saved' = saved /\ run' = [run EXCEPT !.at = "balance", !.checked = here \in claimed]
    BY <1>3 DEF Status
  <2>2. Doing /\ HasFields(state) /\ day \in Nat /\ run.day \in Nat /\ run.day <= day /\ run.account = state.account
    BY <1>1, AtStep DEF Steps, Doing
  <2>3. /\ HasFields(t) /\ t.account = state.account /\ t.day = run.day /\ (t.checked <=> here \in claimed)
        /\ t.attempts = IF state.day = run.day THEN state.attempts ELSE 0
        /\ t.rewards = state.rewards /\ t.pending = state.pending
    BY <2>2, UpdatedParts
  <2>4. /\ run' = [f \in RunFields |-> run'[f]] /\ run'.at = "balance" /\ (run'.checked <=> here \in claimed)
        /\ run'.claim = run.claim /\ run'.auto = run.auto /\ run'.day = run.day /\ run'.account = run.account
    BY <2>1, <2>2 DEF RunFields, Doing
  <2> HIDE DEF t
  <2>5. Evidence(t, day, claimed, packs, mine, carried)
    BY <1>1, <2>2, <2>3, EvidenceFrom DEF Ev, Evidence
  <2>6. Counted(t, day, autos)
    BY <1>1, <2>2, <2>3 DEF Counted, Doing, Ev, Evidence
  <2>7. Doing'
    <3>1. ~run'.checked => <<run.account, day>> \notin mine
      BY <2>4 DEF CheckinInv, WorldInv
    <3>2. state'.account = state.account /\ state'.day = run.day /\ (state'.checked <=> run'.checked)
      BY <2>1, <2>3, <2>4
    <3> QED
      BY <1>1, <2>2, <2>4, <3>1, <3>2 DEF Quiet, Doing, Steps
  <2> QED
    BY <1>1, <2>1, <2>4, <2>5, <2>6, <2>7, QuietStep DEF Quiet, Ev, RunInv, Counted
<1> QED
  BY <1>2, <1>3

LEMMA BalanceStep ==
  ASSUME CheckinInv, NEW from, NEW to,
         (from = "balance" /\ to = "decide") \/ (from = "reward" /\ to = "succeed"),
         ReadBalance(from, to)
  PROVE  CheckinInv'
<1> DEFINE there == PacksOf(run.account)
<1>1. Quiet /\ up /\ run.at = from /\ Ev(state) /\ Counted(state, day, autos)
  BY DEF ReadBalance, Rest, Quiet, upstream, history, loginVars, CheckinInv, Ev
<1>2. CASE Failed(state)
  BY <1>1, <1>2, FailedStep
<1>3. CASE ~Failed(state)
  <2>1. /\ run' = [run EXCEPT !.at = to, !.there = there]
        /\ \/ ~Awaited(state) /\ state' = state /\ saved' = saved
           \/ Awaited(state) /\ Confirms(state, there) /\ state' = Approve(state, there) /\ saved' = state'
    BY <1>3 DEF ReadBalance
  <2>2. Doing /\ HasFields(state) /\ day \in Nat /\ run.day \in Nat /\ run.day <= day /\ run.account = state.account
    BY <1>1, AtStep DEF Steps, Doing
  <2>3. /\ run' = [f \in RunFields |-> run'[f]] /\ run'.at = to /\ run'.there = there
        /\ run'.claim = run.claim /\ run'.auto = run.auto /\ run'.day = run.day /\ run'.account = run.account
        /\ run'.checked = run.checked
    BY <2>1, <2>2 DEF RunFields, Doing
  <2>4. Ev(state)' /\ Counted(state, day, autos)' /\ state'.account = state.account /\ state'.day = state.day
    <3>1. CASE state' = state
      BY <1>1, <3>1 DEF Quiet, Ev, Counted
    <3>2. CASE Awaited(state) /\ Confirms(state, there) /\ state' = Approve(state, there)
      <4>1. \E q \in Arrived(state, there) : Arrived(state, there) = {q} /\ q # Gift(state.account)
        BY <3>2 DEF Confirms
      <4>2. there = {p \in packs : p[1] = state.account} /\ state.pending # NoPending
        BY <2>2, <3>2 DEF PacksOf, Awaited
      <4>3. /\ mine \subseteq claimed /\ claimed \subseteq Accounts \X Days
            /\ \A p \in claimed : p[2] <= day
            /\ packs \subseteq claimed \cup {Gift(a) : a \in Accounts}
            /\ Evidence(state, day, claimed, packs, mine, carried)
        BY <1>1 DEF CheckinInv, WorldInv, Ev
      <4>4. state' = Approve(state, there)
        BY <3>2
      <4> HIDE DEF there
      <4>5. /\ Evidence(state', day, claimed, packs, mine, carried)
            /\ state'.account = state.account /\ state'.day = state.day /\ state'.attempts = state.attempts
        BY ONLY <2>2, <4>1, <4>2, <4>3, <4>4, EvidenceApproved
      <4> QED
        BY <1>1, <4>5 DEF Quiet, Ev, Counted
    <3> QED
      BY <2>1, <3>1, <3>2
  <2>5. there \subseteq packs /\ \A p \in claimed : p[1] = run.account /\ p[2] < run.day => p \in there
    BY <2>2 DEF PacksOf, CheckinInv, WorldInv, Days
  <2> DEFINE here == <<run.account, day>>
  <2>6. ASSUME to = "decide", run.day = day, here \in mine \cap there PROVE here \in state'.rewards
    <3>1. /\ state.day = day /\ run.account = state.account /\ day \in Nat \ {0}
          /\ state.checked /\ HasFields(state) /\ Evidence(state, day, claimed, packs, mine, carried)
      BY <1>1, <2>2, <2>6 DEF Doing, CheckinInv, WorldInv, Days, Ev
    <3>2. CASE here \in state.rewards
      BY <2>1, <2>6, <3>1, <3>2 DEF Approve, HasFields, Fields
    <3>3. CASE here \notin state.rewards
      <4>1. state.pending.day = day /\ here \notin state.pending.before
        BY <2>6, <3>1, <3>3 DEF Evidence
      <4>2. Awaited(state)
        BY <3>1, <4>1 DEF Awaited, NoPending
      <4>3. here \in Arrived(state, there)
        BY <2>6, <4>1 DEF Arrived
      <4> QED
        BY <2>1, <2>6, <3>1, <4>2, <4>3 DEF Approve, HasFields, Fields
    <3> QED
      BY <3>2, <3>3
  <2> HIDE DEF there
  <2>7. Doing'
    BY <1>1, <2>2, <2>3, <2>4, <2>5, <2>6 DEF Quiet, Doing, Steps
  <2> QED
    BY <1>1, <2>1, <2>3, <2>4, <2>7, QuietStep DEF RunInv
<1> QED
  BY <1>2, <1>3

LEMMA DecideStep ==
  ASSUME CheckinInv, Decide PROVE CheckinInv'
<1>1. /\ Quiet /\ up /\ run.at = "decide" /\ Ev(state) /\ Counted(state, day, autos)
      /\ state.day \in Nat
  BY DEF Decide, Rest, Quiet, upstream, history, loginVars, CheckinInv, Ev, Evidence
<1>2. Doing /\ HasFields(state) /\ day \in Nat /\ run.day \in Nat /\ run.account = state.account /\ state.day = run.day
  BY <1>1, AtStep DEF Steps, Doing
<1>3. CASE Failed(state)
  BY <1>1, <1>3, FailedStep
<1>4. ASSUME NEW t, t = state \/ t = [state EXCEPT !.result = "already_checked"], Ended(t) PROVE CheckinInv'
  <2>1. /\ HasFields(t) /\ t.account = state.account /\ t.day = state.day /\ (t.checked <=> state.checked)
        /\ t.attempts = state.attempts /\ t.rewards = state.rewards /\ t.pending = state.pending
    BY <1>2, <1>4, SettingParts
  <2>2. Evidence(t, day, claimed, packs, mine, carried) /\ Counted(t, day, autos)
    BY <1>1, <2>1, EvidenceFrom DEF Ev, Evidence, Counted
  <2> QED
    BY <1>1, <1>4, <2>2, EndedState DEF Ev
<1>5. ASSUME ~run.checked, (Record(Recorded(state)) /\ GoOn("claim")) \/ Failed(Recorded(state)) PROVE CheckinInv'
  <2> DEFINE t == Recorded(state)
  <2>1. t = [state EXCEPT !.pending = [day |-> state.day, before |-> run.there]]
    BY DEF Recorded
  <2>2. /\ run.there \subseteq packs /\ <<state.account, day>> \notin mine
        /\ \A p \in claimed : p[1] = state.account /\ p[2] < state.day => p \in run.there
        /\ Evidence(state, day, claimed, packs, mine, carried)
    BY <1>1, <1>2, <1>5 DEF Doing, Ev
  <2> HIDE DEF t
  <2>3. /\ Evidence(t, day, claimed, packs, mine, carried)
        /\ t.account = state.account /\ t.day = state.day /\ t.attempts = state.attempts /\ t.pending.day = state.day
    BY ONLY <1>2, <2>1, <2>2, EvidenceRecorded, SMTT(60)
  <2>4. Ev(t) /\ Counted(t, day, autos)
    BY <1>1, <2>3 DEF Ev, Counted
  <2>5. CASE Failed(t)
    BY <1>1, <2>4, <2>5, FailedStep
  <2>6. CASE Record(t) /\ GoOn("claim")
    <3>1. state' = t /\ saved' = t /\ run' = [run EXCEPT !.at = "claim"]
      BY <2>6 DEF Record, GoOn
    <3>2. /\ run' = [f \in RunFields |-> run'[f]] /\ run'.at = "claim"
          /\ run'.claim = run.claim /\ run'.auto = run.auto /\ run'.day = run.day /\ run'.account = run.account
      BY <1>2, <3>1 DEF RunFields, Doing
    <3>3. Doing'
      BY <1>1, <1>2, <2>2, <2>3, <3>1, <3>2 DEF Quiet, Doing, Steps
    <3>4. Ev(state)' /\ Counted(state, day, autos)'
      BY <1>1, <2>4, <3>1 DEF Quiet, Ev, Counted
    <3> QED
      BY <1>1, <3>1, <3>2, <3>3, <3>4, QuietStep DEF RunInv
  <2> QED
    BY <1>5, <2>5, <2>6 DEF t
<1> QED
  BY <1>3, <1>4, <1>5 DEF Decide

(* The answer is of the day on which it was given ...                      *)
LEMMA ConfirmStep ==
  ASSUME CheckinInv, Confirm PROVE CheckinInv'
<1> DEFINE c == <<run.account, day>> \in claimed
<1>1. Quiet /\ up /\ run.at = "confirm" /\ Ev(state) /\ Counted(state, day, autos)
  BY DEF Confirm, Rest, Quiet, upstream, history, loginVars, CheckinInv, Ev
<1>2. Doing /\ day \in Nat /\ run.account = state.account
  BY <1>1, AtStep DEF Steps, Doing
<1>3. CASE Failed(state)
  BY <1>1, <1>3, FailedStep
<1>4. CASE run' = [run EXCEPT !.at = "date", !.checked = c] /\ UNCHANGED <<state, saved>>
  <2>0. state' = state /\ saved' = saved
    BY <1>4
  <2>1. /\ run' = [f \in RunFields |-> run'[f]] /\ run'.at = "date" /\ (run'.checked <=> c)
        /\ run'.claim = run.claim /\ run'.auto = run.auto /\ run'.day = run.day /\ run'.account = run.account
    BY <1>2, <1>4 DEF RunFields, Doing
  <2>2. Doing'
    <3>1. run'.checked => <<run'.account, day'>> \in claimed' \cup carried'
      BY <1>1, <2>1 DEF Quiet
    <3>2. run'.at \in Steps
      BY <2>1 DEF Steps
    <3> QED
      BY <1>1, <1>2, <2>0, <2>1, <3>1, <3>2 DEF Quiet, Doing
  <2>3. Ev(state)' /\ Counted(state, day, autos)'
    BY <1>1, <1>4 DEF Quiet, Ev, Counted
  <2> QED
    BY <1>1, <1>4, <2>1, <2>2, <2>3, QuietStep DEF RunInv
<1> QED
  BY <1>3, <1>4 DEF Confirm

(* ... and may be dated to a later one.                                    *)
LEMMA DateStep ==
  ASSUME CheckinInv, DateAnswer PROVE CheckinInv'
<1> DEFINE here == <<run.account, day>>
           t == Updated(state, day, run.checked)
<1>1. /\ Quiet /\ up /\ run.at = "date" /\ Ev(state) /\ Counted(state, day, autos)
      /\ state.day \in Nat /\ state.attempts \in Nat
  BY DEF DateAnswer, Rest, Quiet, upstream, history, loginVars, CheckinInv, Ev, Evidence
<1>2. /\ Doing /\ HasFields(state) /\ day \in Nat /\ run.account = state.account
      /\ run.checked => here \in claimed \cup carried
  BY <1>1, AtStep DEF Steps, Doing
<1>3. /\ HasFields(t) /\ t.account = state.account /\ t.day = day /\ t.checked = run.checked
      /\ t.attempts = IF state.day = day THEN state.attempts ELSE 0
      /\ t.rewards = state.rewards /\ t.pending = state.pending
  BY <1>2, DatedParts
<1>4. \/ Failed(t)
      \/ state' = t /\ saved' = saved /\ run' = [run EXCEPT !.at = "reward"]
  BY DEF DateAnswer, GoOn
<1> HIDE DEF t
<1>5. Evidence(t, day, claimed, packs, mine, carried) /\ Counted(t, day, autos)
  BY <1>1, <1>2, <1>3, EvidenceFrom DEF Ev, Evidence, Counted
<1>6. CASE state' = t /\ saved' = saved /\ run' = [run EXCEPT !.at = "reward"]
  <2>1. /\ run' = [f \in RunFields |-> run'[f]] /\ run'.at = "reward"
        /\ run'.claim = run.claim /\ run'.auto = run.auto /\ run'.day = run.day /\ run'.account = run.account
    BY <1>2, <1>6 DEF RunFields, Doing
  <2>2. state'.account = state.account
    BY <1>3, <1>6
  <2>3. Doing'
    BY <1>1, <1>2, <2>1, <2>2 DEF Quiet, Doing, Steps
  <2>4. Ev(state)' /\ Counted(state, day, autos)'
    BY <1>1, <1>5, <1>6 DEF Quiet, Ev, Counted
  <2> QED
    BY <1>1, <1>6, <2>1, <2>3, <2>4, QuietStep DEF RunInv
<1> QED
  BY <1>1, <1>4, <1>5, <1>6, FailedStep DEF Ev

LEMMA SucceedStep ==
  ASSUME CheckinInv, Succeed PROVE CheckinInv'
<1> DEFINE t == [state EXCEPT !.result = "success"]
<1>1. Quiet /\ up /\ HasFields(state) /\ Ev(state) /\ Counted(state, day, autos)
  BY DEF Succeed, Rest, Quiet, upstream, history, loginVars, CheckinInv, Ev, Evidence
<1>2. Ended(t)
  BY DEF Succeed
<1>3. /\ HasFields(t) /\ t.account = state.account /\ t.day = state.day /\ (t.checked <=> state.checked)
      /\ t.attempts = state.attempts /\ t.rewards = state.rewards /\ t.pending = state.pending
  BY <1>1, SettingParts
<1> HIDE DEF t
<1>4. Ev(t) /\ Counted(t, day, autos)
  BY <1>1, <1>3, EvidenceFrom DEF Ev, Evidence, Counted
<1> QED
  BY <1>1, <1>2, <1>4, EndedState

(* A claim that takes effect is on record already.                         *)
LEMMA ClaimStep ==
  ASSUME CheckinInv, Claim PROVE CheckinInv'
<1> DEFINE here == <<run.account, day>>
<1>1. /\ UNCHANGED <<up, cred, day, tick, state, saved, packs, autos, carried>>
      /\ run' = [run EXCEPT !.at = "confirm"] /\ run.at = "claim"
      /\ blind' = (blind \/ here \in mine)
      /\ \/ claimed' = claimed /\ mine' = mine
         \/ claimed' = claimed \cup {here} /\ mine' = mine
         \/ claimed' = claimed \cup {here} /\ mine' = mine \cup {here} /\ here \notin claimed /\ run.day = day
  BY DEF Claim, Rest, loginVars, GoOn
<1>2. /\ Doing /\ day \in Nat /\ day \in Days /\ run.account \in Accounts /\ run.account = state.account
      /\ here \notin mine /\ saved = state /\ state.pending.day = run.day
  BY <1>1, AtStep DEF Steps, Doing
<1>3. /\ run' = [f \in RunFields |-> run'[f]] /\ run'.at = "confirm"
      /\ run'.claim = run.claim /\ run'.auto = run.auto /\ run'.day = run.day /\ run'.account = run.account
  BY <1>1, <1>2 DEF RunFields, Doing
<1>4. WorldInv'
  <2>1. blind' = FALSE
    BY <1>1, <1>2, Zenon DEF CheckinInv, WorldInv
  <2> QED
    BY <1>1, <1>2, <2>1 DEF CheckinInv, WorldInv
<1>5. Ev(state)'
  <2>1. Evidence(state, day, claimed', packs, mine, carried)
    BY <1>1, <1>2, EvidenceGrows DEF CheckinInv
  <2>2. CASE mine' = mine
    BY <1>1, <2>1, <2>2 DEF Ev
  <2>3. CASE mine' = mine \cup {here} /\ here \notin claimed /\ run.day = day
    <3>1. here \notin packs
      BY <1>2, <2>3 DEF CheckinInv, WorldInv, Gift, Days
    <3>2. state.pending # NoPending
      BY <1>2, <2>3 DEF NoPending, Days
    <3>3. here \notin state.pending.before
      BY <2>1, <3>1, <3>2 DEF Evidence
    <3> QED
      BY <1>1, <1>2, <2>1, <2>3, <3>3 DEF Ev, Evidence
  <2> QED
    BY <1>1, <2>2, <2>3
<1>6. Doing'
  BY <1>1, <1>2, <1>3 DEF Doing, Steps
<1>7. Counted(saved, day, autos)' /\ (up' => Counted(state, day, autos)')
  BY <1>1 DEF CheckinInv, Counted
<1>8. TickInv'
  BY <1>1, <1>3 DEF CheckinInv, TickInv
<1> QED
  BY <1>1, <1>2, <1>4, <1>5, <1>6, <1>7, <1>8 DEF CheckinInv, RunInv, Ev

(* Another account: nothing of it is on record, nor in the history.        *)
Kept(c) == [d \in Days |-> IF state.account = c THEN autos[d] ELSE 0]
LEMMA ResetStep ==
  ASSUME CheckinInv, NEW c, NEW s, s = Reset(state, c), Forget(c)
  PROVE  /\ s.account = c /\ HasFields(s) /\ s.attempts \in Nat /\ s.day \in Nat
         /\ Evidence(s, day, claimed, packs, mine', carried) /\ Evidence(saved, day, claimed, packs, mine', carried)
         /\ mine' \subseteq mine /\ blind' = FALSE /\ carried' = carried
         /\ Kept(c) \in [Days -> Nat] /\ \A d \in Days : Kept(c)[d] <= autos[d]
         /\ Counted(saved, day, Kept(c)) /\ (up => Counted(s, day, Kept(c)))
<1>1. /\ day \in Nat /\ day \in Days /\ autos \in [Days -> Nat] /\ blind = FALSE
      /\ saved.attempts \in Nat /\ Counted(saved, day, autos) /\ HasFields(state)
      /\ Evidence(state, day, claimed, packs, mine, carried) /\ Evidence(saved, day, claimed, packs, mine, carried)
  BY DEF CheckinInv, WorldInv, Evidence, Days
<1>2. mine' \subseteq mine /\ blind' = FALSE /\ carried' = carried /\ carried \subseteq carried
  BY <1>1 DEF Forget
<1>3. Kept(c) \in [Days -> Nat] /\ \A d \in Days : Kept(c)[d] <= autos[d]
  BY <1>1 DEF Kept
<1>4. Evidence(saved, day, claimed, packs, mine', carried)
  BY <1>1, <1>2, EvidenceGrows
<1>5. Counted(saved, day, Kept(c))
  BY <1>1, <1>3 DEF Counted
<1>6. CASE state.account = c
  <2>1. s = state /\ mine' = mine /\ Kept(c)[day] = autos[day]
    BY <1>1, <1>6 DEF Reset, Forget, Kept
  <2> QED
    BY <1>1, <1>2, <1>3, <1>4, <1>5, <1>6, <2>1 DEF Counted, CheckinInv, Evidence
<1>7. CASE state.account # c
  <2>1. s = Fresh(c, state.enabled) /\ Kept(c)[day] = 0 /\ <<c, day>> \notin mine'
    BY <1>1, <1>7 DEF Reset, Forget, Kept
  <2>2. Evidence(s, day, claimed, packs, mine', carried)
    BY <1>1, <2>1, EvidenceFresh
  <2>3. s.account = c /\ HasFields(s) /\ s.day = 0 /\ s.attempts = 0
    BY <2>1, FreshParts
  <2>4. Counted(s, day, Kept(c))
    BY <2>1, <2>3 DEF Counted
  <2> QED
    BY <1>2, <1>3, <1>4, <1>5, <2>2, <2>3, <2>4
<1> QED
  BY <1>6, <1>7

LEMMA WorldKept ==
  ASSUME CheckinInv, UNCHANGED <<day, cred, claimed, packs>>, mine' \subseteq mine, blind' = FALSE,
         autos' \in [Days -> Nat], \A d \in Days : autos'[d] <= autos[d]
  PROVE  WorldInv' /\ (tick' = tick /\ run'.auto = FALSE => TickInv')
<1>1. /\ day \in Days /\ day \in Nat /\ MaxAttempts \in Nat /\ autos \in [Days -> Nat]
      /\ \A d \in Days : d \in Nat /\ autos[d] \in Nat /\ autos'[d] \in Nat
  BY CheckinAssumption DEF CheckinInv, WorldInv, Days
<1>2. \A d \in Days : autos'[d] <= MaxAttempts /\ (d > day => autos'[d] = 0)
  BY <1>1 DEF CheckinInv, WorldInv
<1>3. WorldInv'
  BY <1>2 DEF CheckinInv, WorldInv
<1>4. ASSUME tick' = tick, run'.auto = FALSE PROVE TickInv'
  <2>1. CASE tick = NoTick
    BY <1>4, <2>1 DEF TickInv
  <2>2. CASE tick # NoTick
    <3>1. /\ tick.day \in Days /\ tick.day <= day /\ (tick.day < day => autos[day] = 0)
          /\ tick.do = "claim" => autos[tick.day] < MaxAttempts
      BY <2>2, Zenon DEF CheckinInv, TickInv
    <3>2. tick.day < day => autos'[day] = 0
      <4>1. autos'[day] <= autos[day] /\ autos'[day] \in Nat
        BY <1>1
      <4> QED
        BY <3>1, <4>1
    <3>3. tick.do = "claim" => autos'[tick.day] < MaxAttempts
      <4>1. autos'[tick.day] <= autos[tick.day] /\ autos[tick.day] \in Nat /\ autos'[tick.day] \in Nat
        BY <1>1, <3>1
      <4> QED
        BY <1>1, <3>1, <4>1
    <3> QED
      BY <1>4, <3>1, <3>2, <3>3 DEF TickInv
  <2> QED
    BY <2>1, <2>2
<1> QED
  BY <1>3, <1>4

LEMMA LoadStep ==
  ASSUME CheckinInv, Load PROVE CheckinInv'
<1>1. up /\ run.at = "load" /\ UNCHANGED <<up, cred, day, tick, claimed, packs>>
  BY DEF Load, Rest, upstream, loginVars
<1>2. /\ Doing /\ day \in Nat /\ day \in Days /\ run.day \in Nat /\ run.day \in Days /\ run.day <= day
      /\ run.day < day => autos[day] = 0
      /\ run.claim /\ run.auto => autos[run.day] < MaxAttempts
  BY <1>1, AtStep DEF Steps, Doing
<1>3. CASE Failed(state) /\ UNCHANGED history
  BY <1>1, <1>3, FailedStep DEF history, Quiet, CheckinInv, Ev
<1>4. CASE ~(Failed(state) /\ UNCHANGED history)
  <2> DEFINE s == Reset(state, cred)
             t == IF run.claim THEN Attempted(s, run.day) ELSE s
             goes == state' = t /\ saved' = (IF run.claim THEN t ELSE saved)
  <2>1. /\ cred \in Accounts /\ Forget(cred)
        /\ \/ /\ goes /\ run' = [run EXCEPT !.at = "status", !.account = cred]
              /\ Count(cred, run.claim /\ run.auto)
           \/ run.claim /\ Failed(t) /\ Count(cred, FALSE)
    BY <1>1, <1>4 DEF Load, CheckinInv, WorldInv
  <2> HIDE DEF s
  <2>2. /\ s.account = cred /\ HasFields(s) /\ s.attempts \in Nat /\ s.day \in Nat
        /\ Evidence(s, day, claimed, packs, mine', carried) /\ Evidence(saved, day, claimed, packs, mine', carried)
        /\ mine' \subseteq mine /\ blind' = FALSE /\ carried' = carried
        /\ Kept(cred) \in [Days -> Nat] /\ \A d \in Days : Kept(cred)[d] <= autos[d]
        /\ Counted(saved, day, Kept(cred)) /\ Counted(s, day, Kept(cred))
    BY <1>1, <2>1, ResetStep DEF s
  <2>3. /\ t.account = cred /\ HasFields(t) /\ t.attempts \in Nat /\ t.day \in Nat /\ t.day <= day
        /\ t.rewards = s.rewards /\ t.pending = s.pending
        /\ t.checked => s.checked /\ s.day = t.day
        /\ ~run.claim => t = s
        /\ run.claim => /\ t.day = run.day
                        /\ t.attempts = (LET n == IF s.day = run.day THEN s.attempts ELSE 0
                                         IN IF n < MaxAttempts THEN n + 1 ELSE n)
    <3>1. CASE run.claim
      BY <1>2, <2>2, <3>1, AttemptedParts, CheckinAssumption
    <3>2. CASE ~run.claim
      BY <2>2, <3>2 DEF Evidence
    <3> QED
      BY <3>1, <3>2
  <2> HIDE DEF t
  <2>4. Evidence(t, day, claimed, packs, mine', carried)
    BY <2>2, <2>3, EvidenceFrom DEF Evidence
  <2>5. Counted(t, day, Kept(cred))
    BY <1>2, <2>2, <2>3, CheckinAssumption DEF Counted
  <2>6. CASE run.claim /\ Failed(t) /\ Count(cred, FALSE)
    <3>1. autos' = Kept(cred)
      BY <2>2, <2>6 DEF Count, Kept
    <3> DEFINE u == [t EXCEPT !.result = "failed"]
    <3>2. Ended(u)
      BY <2>6 DEF Failed
    <3>3. /\ HasFields(u) /\ u.account = t.account /\ u.day = t.day /\ (u.checked <=> t.checked)
          /\ u.attempts = t.attempts /\ u.rewards = t.rewards /\ u.pending = t.pending
      BY <2>3, SettingParts
    <3> HIDE DEF u
    <3>4. /\ saved' = saved \/ saved' = state'
          /\ run' = NoRun
          /\ HasFields(state') /\ state'.account = t.account /\ state'.day = t.day
          /\ state'.checked <=> t.checked
          /\ state'.attempts = t.attempts /\ state'.rewards = t.rewards /\ state'.pending = t.pending
      BY <3>2, <3>3, EndedParts
    <3>5. Evidence(state', day, claimed, packs, mine', carried) /\ Counted(state', day, Kept(cred))
      BY <2>3, <2>4, <2>5, <3>4, EvidenceFrom DEF Evidence, Counted
    <3>6. WorldInv' /\ TickInv' /\ RunInv'
      BY <1>1, <2>2, <3>1, <3>4, WorldKept DEF RunInv, NoRun
    <3> QED
      BY <1>1, <2>2, <3>1, <3>4, <3>5, <3>6 DEF CheckinInv
  <2>7. CASE /\ goes /\ run' = [run EXCEPT !.at = "status", !.account = cred]
             /\ Count(cred, run.claim /\ run.auto)
    <3>0. state' = t /\ (~run.claim => saved' = saved) /\ (run.claim => saved' = t)
      BY <2>7
    <3>1. /\ autos' \in [Days -> Nat]
          /\ \A d \in Days : autos'[d] = Kept(cred)[d] + (IF run.claim /\ run.auto /\ d = run.day THEN 1 ELSE 0)
      BY <2>2, <2>7 DEF Count, Kept
    <3>2. /\ run' = [f \in RunFields |-> run'[f]] /\ run'.at = "status" /\ run'.account = cred
          /\ run'.claim = run.claim /\ run'.auto = run.auto /\ run'.day = run.day
      BY <1>2, <2>7 DEF RunFields, Doing
    <3>3. Counted(state', day, autos') /\ Counted(saved', day, autos')
      <4>1. /\ autos'[day] \in Nat /\ Kept(cred)[day] \in Nat /\ Kept(cred)[day] <= autos[day]
            /\ ~(run.claim /\ run.auto /\ day = run.day) => autos'[day] = Kept(cred)[day]
            /\ run.claim /\ run.auto /\ day = run.day => autos'[day] = Kept(cred)[day] + 1
        BY <1>2, <2>2, <3>1
      <4>2. CASE ~(run.claim /\ run.auto /\ day = run.day)
        BY <2>2, <2>5, <3>0, <4>1, <4>2 DEF Counted
      <4>3. CASE run.claim /\ run.auto /\ day = run.day
        <5>1. Kept(cred)[day] < MaxAttempts /\ MaxAttempts \in Nat
          BY <1>2, <2>2, <4>1, <4>3, CheckinAssumption DEF CheckinInv, WorldInv
        <5>2. Kept(cred)[day] <= IF s.day = day THEN s.attempts ELSE 0
          BY <2>2 DEF Counted
        <5>3. t.day = day /\ autos'[day] <= t.attempts
          BY <1>2, <2>2, <2>3, <4>1, <4>3, <5>1, <5>2
        <5> QED
          BY <3>0, <4>3, <5>3 DEF Counted
      <4> QED
        BY <4>2, <4>3
    <3>4. WorldInv'
      <4>1. /\ MaxAttempts \in Nat
            /\ \A d \in Days : /\ d \in Nat /\ autos[d] \in Nat /\ autos'[d] \in Nat /\ Kept(cred)[d] \in Nat
                               /\ autos[d] <= MaxAttempts /\ (d > day => autos[d] = 0)
        BY <2>2, <3>1, CheckinAssumption DEF CheckinInv, WorldInv, Days
      <4>2. \A d \in Days : autos'[d] <= MaxAttempts /\ (d > day => autos'[d] = 0)
        BY <1>2, <2>2, <3>1, <4>1
      <4> QED
        BY <1>1, <2>2, <3>1, <4>2 DEF CheckinInv, WorldInv
    <3>5. TickInv'
      <4>1. CASE tick = NoTick
        BY <1>1, <4>1 DEF TickInv
      <4>2. CASE tick # NoTick
        <5>1. run.auto = FALSE /\ run'.auto = FALSE
          BY <3>2, <4>2 DEF CheckinInv, TickInv
        <5>2. \A d \in Days : autos'[d] = Kept(cred)[d]
          BY <2>2, <3>1, <5>1
        <5> QED
          BY <1>1, <2>2, <3>1, <5>1, <5>2, WorldKept
      <4> QED
        BY <4>1, <4>2
    <3>6. Doing'
      <4>1. run.day < day => autos'[day] = 0
        BY <1>2, <2>2, <3>1
      <4>2. state'.account = cred
        BY <2>3, <3>0
      <4> QED
        BY <1>1, <1>2, <2>1, <3>2, <4>1, <4>2 DEF Doing, Steps
    <3>7. Evidence(state', day, claimed, packs, mine', carried) /\ Evidence(saved', day, claimed, packs, mine', carried)
      BY <2>2, <2>4, <3>0
    <3> QED
      BY <1>1, <2>2, <3>3, <3>4, <3>5, <3>6, <3>7 DEF CheckinInv, RunInv
  <2> QED
    BY <2>1, <2>6, <2>7
<1> QED
  BY <1>3, <1>4

LEMMA OperationStep ==
  ASSUME CheckinInv, Operation PROVE CheckinInv'
BY LoadStep, StatusStep, BalanceStep, DecideStep, ClaimStep, ConfirmStep, DateStep, SucceedStep DEF Operation

-------------------------------------------------------------------------------
(* An operation begins, for what is known of the day of its decision.      *)
LEMMA BeginStep ==
  ASSUME CheckinInv, up, UNCHANGED <<up, cred, day, state, saved, claimed, packs, mine, blind, autos, carried>>,
         NEW claim, NEW auto \in BOOLEAN, NEW today \in Days, Run(claim, auto, today),
         today <= day, today < day => autos[day] = 0, claim /\ auto => autos[today] < MaxAttempts,
         tick' = NoTick \/ (tick' = tick /\ auto = FALSE)
  PROVE  CheckinInv'
<1>1. /\ run' = [f \in RunFields |-> run'[f]] /\ run'.at = "load" /\ (run'.claim <=> claim)
      /\ run'.auto = auto /\ run'.day = today
  BY DEF Run, NoRun, RunFields
<1>2. Doing'
  BY <1>1 DEF Doing, Steps
<1>3. TickInv'
  BY <1>1 DEF CheckinInv, TickInv
<1> QED
  BY <1>2, <1>3 DEF CheckinInv, WorldInv, RunInv, Counted

LEMMA ConsoleStep ==
  ASSUME CheckinInv, ClaimCheckin \/ RefreshCheckin PROVE CheckinInv'
<1>1. /\ up /\ UNCHANGED <<up, cred, day, state, saved, claimed, packs, mine, blind, autos, carried>> /\ tick' = tick
      /\ \E claim \in BOOLEAN : Run(claim, FALSE, day)
  BY DEF ClaimCheckin, RefreshCheckin, Rest, loginVars, upstream, history
<1>2. PICK claim \in BOOLEAN : Run(claim, FALSE, day)
  BY <1>1
<1>3. day \in Days /\ day \in Nat
  BY DEF CheckinInv, WorldInv, Days
<1>4. day <= day /\ ~(day < day) /\ FALSE \in BOOLEAN
  BY <1>3
<1> QED
  BY <1>1, <1>2, <1>3, <1>4, BeginStep, Zenon

LEMMA TickRunsStep ==
  ASSUME CheckinInv, TickRuns PROVE CheckinInv'
<1>1. /\ up /\ UNCHANGED <<up, cred, day, state, saved, claimed, packs, mine, blind, autos, carried>>
      /\ tick # NoTick /\ tick' = NoTick
      /\ Run(tick.do = "claim", TRUE, tick.day) \/ run' = run
  BY DEF TickRuns, loginVars, upstream, history
<1>2. CASE run' = run
  BY <1>1, <1>2 DEF CheckinInv, WorldInv, RunInv, Doing, TickInv, Counted
<1>3. CASE Run(tick.do = "claim", TRUE, tick.day)
  <2>1. /\ tick.day \in Days /\ tick.day <= day /\ (tick.day < day => autos[day] = 0)
        /\ tick.do = "claim" => autos[tick.day] < MaxAttempts
    BY <1>1 DEF CheckinInv, TickInv
  <2> QED
    BY <1>1, <1>3, <2>1, BeginStep
<1> QED
  BY <1>1, <1>2, <1>3

(* The timer looks: what is due has not been tried too often.              *)
LEMMA TickStep ==
  ASSUME CheckinInv, Tick PROVE CheckinInv'
<1> DEFINE s == IF run = NoRun /\ cred # None THEN Reset(state, cred) ELSE state
           c == s.account
<1>1. /\ up /\ UNCHANGED <<up, cred, day, run, saved, claimed, packs>> /\ ~run.auto
      /\ state' = s /\ Forget(c) /\ Count(c, FALSE)
      /\ tick' = [do |-> "status", day |-> day] \/ (Due(s) /\ tick' = [do |-> "claim", day |-> day])
  BY DEF Tick, loginVars, upstream
<1>2. s = Reset(state, c) /\ (run # NoRun => s = state)
  <2>1. CASE run = NoRun /\ cred # None
    BY <2>1, FreshParts DEF Reset
  <2>2. CASE ~(run = NoRun /\ cred # None)
    BY <2>2 DEF Reset
  <2> QED
    BY <2>1, <2>2
<1> HIDE DEF s
<1>3. /\ HasFields(s) /\ s.attempts \in Nat /\ s.day \in Nat
      /\ Evidence(s, day, claimed, packs, mine', carried) /\ Evidence(saved, day, claimed, packs, mine', carried)
      /\ mine' \subseteq mine /\ blind' = FALSE /\ carried' = carried
      /\ Kept(c) \in [Days -> Nat] /\ \A d \in Days : Kept(c)[d] <= autos[d]
      /\ Counted(saved, day, Kept(c)) /\ Counted(s, day, Kept(c))
  BY <1>1, <1>2, ResetStep
<1>4. autos' = Kept(c)
  BY <1>1, <1>3 DEF Count, Kept
<1>5. run.auto = FALSE /\ day \in Days /\ day \in Nat
  BY <1>1 DEF CheckinInv, RunInv, Doing, NoRun, WorldInv, Days
<1>6. WorldInv'
  BY <1>1, <1>3, <1>4, WorldKept
<1>7. RunInv'
  <2>1. CASE run = NoRun
    BY <1>1, <2>1 DEF RunInv
  <2>2. CASE run # NoRun
    <3>1. state' = state /\ Doing /\ autos'[day] \in Nat /\ autos'[day] <= autos[day]
      BY <1>1, <1>2, <1>3, <1>4, <1>5, <2>2 DEF CheckinInv, RunInv
    <3>2. run.day < day => autos'[day] = 0
      BY <3>1 DEF Doing
    <3> QED
      BY <1>1, <1>3, <1>5, <3>1, <3>2 DEF RunInv, Doing
  <2> QED
    BY <2>1, <2>2
<1>8. TickInv'
  <2>1. CASE tick' = [do |-> "status", day |-> day]
    BY <1>1, <1>5, <2>1 DEF TickInv
  <2>2. CASE Due(s) /\ tick' = [do |-> "claim", day |-> day]
    <3>1. autos'[day] < MaxAttempts
      BY <1>3, <1>4, <1>5, <2>2, CheckinAssumption DEF Due, Counted
    <3>2. tick'.do = "claim" /\ tick'.day = day /\ run'.auto = FALSE
      BY <1>1, <1>5, <2>2
    <3> QED
      BY <1>1, <1>5, <3>1, <3>2 DEF TickInv
  <2> QED
    BY <1>1, <2>1, <2>2
<1> QED
  BY <1>1, <1>3, <1>4, <1>6, <1>7, <1>8 DEF CheckinInv

LEMMA ConfigureStep ==
  ASSUME CheckinInv, NEW enabled, ConfigureCheckin(enabled) PROVE CheckinInv'
<1> DEFINE t == [state EXCEPT !.enabled = enabled]
<1>1. /\ up /\ UNCHANGED <<up, cred, day, run, tick, claimed, packs, mine, blind, autos, carried>>
      /\ state' = t /\ saved' = t
      /\ HasFields(state) /\ Ev(state) /\ Counted(state, day, autos)
  BY DEF ConfigureCheckin, loginVars, upstream, history, CheckinInv, Ev, Evidence
<1>2. /\ HasFields(t) /\ t.account = state.account /\ t.day = state.day /\ (t.checked <=> state.checked)
      /\ t.attempts = state.attempts /\ t.rewards = state.rewards /\ t.pending = state.pending
  BY <1>1, SettingParts
<1> HIDE DEF t
<1>3. Evidence(t, day, claimed, packs, mine, carried) /\ Counted(t, day, autos)
  BY <1>1, <1>2, EvidenceFrom DEF Ev, Evidence, Counted
<1>4. WorldInv' /\ TickInv'
  BY <1>1 DEF CheckinInv, WorldInv, TickInv
<1>5. RunInv'
  BY <1>1, <1>2 DEF CheckinInv, RunInv, Doing
<1> QED
  BY <1>1, <1>3, <1>4, <1>5 DEF CheckinInv

-------------------------------------------------------------------------------
LEMMA BootStep ==
  ASSUME CheckinInv, Boot PROVE CheckinInv'
<1>1. /\ ~up /\ state' = saved
      /\ UNCHANGED <<cred, day, saved, run, tick, claimed, packs, mine, blind, autos, carried>>
  BY DEF Boot, LoginBoot, files, upstream, history
<1>2. run = NoRun
  BY <1>1 DEF CheckinInv, RunInv, Doing
<1> QED
  BY <1>1, <1>2 DEF CheckinInv, WorldInv, RunInv, TickInv, Counted

LEMMA CrashStep ==
  ASSUME CheckinInv, Crash PROVE CheckinInv'
<1>1. /\ ~up' /\ state' = NoFile /\ run' = NoRun /\ tick' = NoTick
      /\ UNCHANGED <<cred, day, saved, claimed, packs, mine, blind, autos, carried>>
  BY DEF Crash, LoginCrash, files, upstream, history
<1>2. Evidence(NoFile, day, claimed, packs, mine, carried)
  <2>1. <<None, day>> \notin mine /\ day \in Nat
    BY LoginAssumption DEF CheckinInv, WorldInv, Days
  <2> QED
    BY <2>1, EvidenceFresh DEF NoFile
<1> QED
  BY <1>1, <1>2 DEF CheckinInv, WorldInv, RunInv, TickInv, Counted

LEMMA MidnightStep ==
  ASSUME CheckinInv, Midnight PROVE CheckinInv'
<1>1. /\ day < LastDay /\ claimed \subseteq packs /\ day' = day + 1
      /\ UNCHANGED <<up, cred, state, saved, run, tick, claimed, packs, mine, blind, autos>>
      /\ carried \subseteq carried'
      /\ run.at = "date" /\ run.checked => <<run.account, day + 1>> \in carried'
  BY DEF Midnight, loginVars, upstream, history
<1>2. day \in Nat /\ day \in Days /\ day + 1 \in Days /\ LastDay \in Nat
  BY <1>1, CheckinAssumption DEF CheckinInv, WorldInv, Days
<1>3. \A p \in claimed : p[2] \in Nat /\ p[2] <= day
  BY DEF CheckinInv, WorldInv, Days
<1>4. autos[day + 1] = 0 /\ \A p \in mine : p[2] # day + 1
  BY <1>2, <1>3 DEF CheckinInv, WorldInv
<1>5. ASSUME NEW s, Evidence(s, day, claimed, packs, mine, carried)
      PROVE  Evidence(s, day + 1, claimed, packs, mine, carried') /\ Counted(s, day + 1, autos)
  BY <1>1, <1>2, <1>4, <1>5, EvidenceDawn DEF Evidence, Counted
<1>6. WorldInv'
  BY <1>1, <1>2, <1>3 DEF CheckinInv, WorldInv, Days
<1>7. RunInv'
  <2>1. CASE run = NoRun
    BY <1>1, <2>1 DEF RunInv
  <2>2. CASE Doing
    <3>1. run.day \in Nat /\ run.day <= day + 1
      BY <1>2, <2>2 DEF Doing, Days
    <3>2. <<run.account, day + 1>> \notin mine
      BY <1>4
    <3> QED
      BY <1>1, <1>4, <2>2, <3>1, <3>2 DEF RunInv, Doing
  <2> QED
    BY <2>1, <2>2 DEF CheckinInv, RunInv
<1>8. TickInv'
  BY <1>1, <1>2, <1>4 DEF CheckinInv, TickInv, Days
<1> QED
  BY <1>1, <1>5, <1>6, <1>7, <1>8 DEF CheckinInv

LEMMA ExternalStep ==
  ASSUME CheckinInv, External PROVE CheckinInv'
<1>1. /\ UNCHANGED <<up, cred, day, state, saved, run, tick, mine, blind, autos, carried>>
      /\ \/ \E p \in claimed : packs' = packs \cup {p} /\ claimed' = claimed
         \/ \E a \in Accounts : packs' = packs \cup {Gift(a)} /\ claimed' = claimed
         \/ \E p \in Accounts \X Days : p[2] = day /\ claimed' = claimed \cup {p} /\ packs' = packs
  BY CheckinAssumption DEF External, loginVars, history, Days
<1>2. day \in Nat /\ \A d \in Days : d \in Nat
  BY DEF CheckinInv, WorldInv, Days
<1>3. /\ claimed \subseteq claimed' /\ packs \subseteq packs'
      /\ \A p \in claimed' : p \in claimed \/ p[2] = day
  BY <1>1
<1>4. Evidence(state, day, claimed', packs', mine, carried) /\ Evidence(saved, day, claimed', packs', mine, carried)
  BY <1>2, <1>3, EvidenceGrows DEF CheckinInv
<1>5. WorldInv'
  BY <1>1, <1>2 DEF CheckinInv, WorldInv
<1>6. RunInv'
  <2>1. CASE run = NoRun
    BY <1>1, <2>1 DEF RunInv
  <2>2. CASE Doing
    <3>1. \A p \in claimed' : p[2] < run.day => p \in claimed
      BY <1>2, <1>3, <2>2 DEF Doing
    <3> QED
      BY <1>1, <1>3, <2>2, <3>1 DEF RunInv, Doing
  <2> QED
    BY <2>1, <2>2 DEF CheckinInv, RunInv
<1>7. TickInv'
  BY <1>1 DEF CheckinInv, TickInv
<1> QED
  BY <1>1, <1>4, <1>5, <1>6, <1>7 DEF CheckinInv, Counted

LEMMA CredentialStep ==
  ASSUME CheckinInv, CredentialChanges \/ UNCHANGED vars PROVE CheckinInv'
<1>1. /\ UNCHANGED <<up, day, state, saved, run, tick, claimed, packs, mine, blind, autos, carried>>
      /\ cred' = cred \/ cred' = None \/ \E a \in Accounts : cred' = a
  BY DEF CredentialChanges, RemoveCredential, LoggedIn, vars, loginVars, checkinVars
<1> QED
  BY <1>1 DEF CheckinInv, WorldInv, RunInv, Doing, TickInv, Counted

-------------------------------------------------------------------------------
(* The evidence in memory and on the disk, what the operation in progress  *)
(* knows and what the timer has decided hold in every state of check-ins   *)
(* beside logins, restarts and midnights (checkin.go, quota.go).           *)
THEOREM CheckinInvariant == CheckinSpec => []CheckinInv
<1>1. CheckinInv /\ [CheckinNext]_vars => CheckinInv'
  BY OperationStep, ConsoleStep, TickStep, TickRunsStep, ConfigureStep, BootStep, CrashStep, MidnightStep,
     ExternalStep, CredentialStep DEF CheckinNext
<1> QED
  BY <1>1, CheckinInitInv, PTL DEF CheckinSpec

(* Today counts as checked only when it is, or when midnight passed with   *)
(* the answer that confirms yesterday's claim on its way; no claim follows *)
(* one that took effect, and no day has more automatic claims than the     *)
(* limit (run, updateStatus, snapshot).                                    *)
THEOREM ClaimsKept == CheckinSpec => []ClaimsAsPromised
<1>1. CheckinInv => ClaimsAsPromised
  BY DEF CheckinInv, Evidence, WorldInv, ClaimsAsPromised
<1> QED
  BY <1>1, CheckinInvariant, PTL

(* Only the account's own rewards are approved, and that of today's claim  *)
(* is approved or on record on the disk; an operation of today that finds  *)
(* it in the balance has approved it when it decides what to do next,      *)
(* whatever became of the one that claimed it (reconcileReward, run).      *)
THEOREM RewardsKept == CheckinSpec => []RewardsAccountedFor
<1>1. ASSUME CheckinInv PROVE RewardsAccountedFor
  <2>1. \A s \in {state, saved} : \A p \in s.rewards : p \in claimed /\ p[1] = s.account
    BY <1>1 DEF CheckinInv, Evidence
  <2>2. ASSUME NEW r \in mine, r = <<saved.account, day>>, r \notin saved.rewards
        PROVE  saved.pending # NoPending /\ r \notin saved.pending.before
    <3>1. saved.pending.day = day /\ r \notin saved.pending.before /\ day \in Days
      BY <1>1, <2>2 DEF CheckinInv, Evidence, WorldInv
    <3> QED
      BY <3>1 DEF NoPending, Days
  <2>3. RefreshRecovers
    BY <1>1 DEF CheckinInv, RunInv, Doing, NoRun, RefreshRecovers
  <2> QED
    BY <2>1, <2>2, <2>3 DEF RewardsAccountedFor
<1> QED
  BY <1>1, CheckinInvariant, PTL

-------------------------------------------------------------------------------
(* The web login (TraeLogin). LoginFilesSafe is not inductive: that a      *)
(* login may replace the credential file rests on what an earlier step of  *)
(* it has read there, and that the pending token is the one in its memory  *)
(* rests on no other login being in progress.                              *)
(* startTrae hands out the session in progress: there is one at most.      *)
OneInProgress ==
  \A k, l \in Logins : login[k] \in InProgress /\ login[l] \in InProgress => k = l
(* A login that is sent to the web page found neither a pending token nor  *)
(* a code, and one that has a code has it in the grant file.               *)
BeforeToken ==
  \A l \in Logins :
    /\ login[l] \in {"web", "exchanging", "saving"} => exchanged = None
    /\ login[l] = "web" => grant = None
    /\ login[l] \in {"exchanging", "saving"} => held[l] \in Accounts /\ grant = held[l]
(* One that has a token has it in the pending file too ...                 *)
TokenPending ==
  \A l \in Logins :
    login[l] \in {"resolving", "checking", "replacing"} => held[l] \in Accounts /\ exchanged = held[l]
(* ... and before it replaces the credential it has found no other one.    *)
OwnerChecked ==
  \A l \in Logins : login[l] = "replacing" => cred \in {None, held[l]}
LoginInv == LoginTypeOK /\ OneInProgress /\ BeforeToken /\ TokenPending /\ OwnerChecked

LEMMA LoginInvInit == LoginInit => LoginInv
<1> SUFFICES ASSUME LoginInit PROVE LoginInv
  OBVIOUS
<1>1. up \in BOOLEAN
  BY Zenon DEF LoginInit
<1>2. LoginTypeOK
  BY <1>1 DEF LoginInit, LoginTypeOK, LoginStates
<1> QED
  BY <1>2 DEF LoginInit, LoginInv, OneInProgress, BeforeToken, TokenPending, OwnerChecked, InProgress

(* A login begins while no other is in progress, with what it finds.       *)
LEMMA LoginInvStart ==
  ASSUME LoginInv, NEW l \in Logins, StartTrae(l) PROVE LoginInv'
<1> USE LoginAssumption DEF LoginInv, LoginTypeOK, StartTrae, Begin, files, LoginStates, InProgress
<1>1. LoginTypeOK'
  OBVIOUS
<1>2. OneInProgress'
  BY DEF OneInProgress
<1>3. BeforeToken'
  BY DEF BeforeToken
<1>4. TokenPending'
  BY DEF TokenPending
<1>5. OwnerChecked'
  BY DEF OwnerChecked
<1> QED
  BY <1>1, <1>2, <1>3, <1>4, <1>5

(* Of a login in progress only one thing is new: its code, its token, what *)
(* it found in the credential file, or its end.                            *)
LEMMA LoginInvGoesOn ==
  ASSUME LoginInv, NEW l \in Logins,
         \/ \E a \in Accounts : Authorize(l, a)
         \/ Redeem(l) \/ SavePending(l) \/ Resolve(l) \/ CheckOwner(l) \/ Replace(l) \/ LoginFails(l)
  PROVE  LoginInv'
<1> USE LoginAssumption DEF LoginInv, LoginTypeOK, files, LoginStates, InProgress
<1>1. ASSUME NEW a \in Accounts, Authorize(l, a) PROVE LoginInv'
  <2>1. LoginTypeOK' /\ OneInProgress'
    BY <1>1 DEF Authorize, OneInProgress
  <2>2. BeforeToken'
    BY <1>1 DEF Authorize, OneInProgress, BeforeToken
  <2>3. TokenPending' /\ OwnerChecked'
    BY <1>1 DEF Authorize, TokenPending, OwnerChecked
  <2> QED
    BY <2>1, <2>2, <2>3
<1>2. CASE Redeem(l)
  BY <1>2 DEF Redeem, OneInProgress, BeforeToken, TokenPending, OwnerChecked
<1>7. CASE SavePending(l)
  BY <1>7 DEF SavePending, OneInProgress, BeforeToken, TokenPending, OwnerChecked
<1>3. CASE Resolve(l)
  BY <1>3 DEF Resolve, OneInProgress, BeforeToken, TokenPending, OwnerChecked
<1>4. CASE CheckOwner(l)
  BY <1>4 DEF CheckOwner, OneInProgress, BeforeToken, TokenPending, OwnerChecked
<1>5. CASE Replace(l)
  BY <1>5 DEF Replace, OneInProgress, BeforeToken, TokenPending, OwnerChecked
<1>6. CASE LoginFails(l)
  BY <1>6 DEF LoginFails, OneInProgress, BeforeToken, TokenPending, OwnerChecked
<1> QED
  BY <1>1, <1>2, <1>3, <1>4, <1>5, <1>6, <1>7

(* The process and the owner of the gateway.                               *)
LEMMA LoginInvAround ==
  ASSUME LoginInv, RemoveCredential \/ LoginBoot \/ LoginCrash \/ UNCHANGED loginVars
  PROVE  LoginInv'
<1> USE LoginAssumption DEF LoginInv, LoginTypeOK, files, LoginStates, InProgress
<1>1. CASE RemoveCredential
  BY <1>1 DEF RemoveCredential, OneInProgress, BeforeToken, TokenPending, OwnerChecked
<1>2. CASE LoginBoot
  <2>1. up' \in BOOLEAN
    BY <1>2, Zenon DEF LoginBoot
  <2> QED
    BY <1>2, <2>1 DEF LoginBoot, OneInProgress, BeforeToken, TokenPending, OwnerChecked
<1>3. CASE LoginCrash
  <2>1. up' \in BOOLEAN
    BY <1>3, Zenon DEF LoginCrash
  <2>2. \A l \in Logins : login'[l] \in LoginStates \ InProgress
    BY <1>3 DEF LoginCrash
  <2> QED
    BY <1>3, <2>1, <2>2 DEF LoginCrash, OneInProgress, BeforeToken, TokenPending, OwnerChecked
<1>4. CASE UNCHANGED loginVars
  BY <1>4 DEF loginVars, OneInProgress, BeforeToken, TokenPending, OwnerChecked
<1> QED
  BY <1>1, <1>2, <1>3, <1>4

LEMMA LoginInvStep == LoginInv /\ [LoginNext]_loginVars => LoginInv'
  BY LoginInvStart, LoginInvGoesOn, LoginInvAround DEF LoginNext, LoginStep

(* The inductive invariant of the login.                                   *)
THEOREM LoginInvariant == LoginSpec => []LoginInv
  BY LoginInvInit, LoginInvStep, PTL DEF LoginSpec

(* A login never replaces the credential of another account, the code is   *)
(* on the disk until its token is, no login goes on with a token that only *)
(* its memory holds, and the token stays pending until the credential file *)
(* holds it (saveCredential, finishAuthorization, resumeLogin).            *)
THEOREM FilesSafe == LoginSpec => LoginFilesSafe
<1> DEFINE OnDisk == /\ cred # None => cred' \in {cred, None}
                     /\ grant # None => grant' = grant \/ exchanged' = grant
                     /\ exchanged # None => exchanged' = exchanged \/ cred' = exchanged
           Safe == /\ cred # None => cred' \in {cred, None}
                   /\ grant # None => grant' = grant \/ exchanged' = grant
                   /\ \A l \in Logins : login'[l] \in {"checking", "replacing"} => exchanged' = held'[l]
                   /\ exchanged # None => exchanged' = exchanged \/ cred' = exchanged
<1>1. ASSUME LoginInv, LoginNext PROVE OnDisk
  <2>1. ASSUME NEW l \in Logins, Replace(l) PROVE OnDisk
    BY <1>1, <2>1 DEF LoginInv, TokenPending, OwnerChecked, Replace
  <2>2. ASSUME NEW l \in Logins, SavePending(l) PROVE OnDisk
    BY <1>1, <2>2 DEF LoginInv, BeforeToken, SavePending
  <2>3. ASSUME NEW l \in Logins, NEW a \in Accounts, Authorize(l, a) PROVE OnDisk
    BY <1>1, <2>3 DEF LoginInv, BeforeToken, Authorize
  <2>4. CASE \/ RemoveCredential \/ LoginBoot \/ LoginCrash
             \/ \E l \in Logins : StartTrae(l) \/ Redeem(l) \/ Resolve(l) \/ CheckOwner(l) \/ LoginFails(l)
    BY <2>4 DEF RemoveCredential, LoginBoot, LoginCrash, StartTrae, Redeem, Resolve, CheckOwner,
       LoginFails, files
  <2> QED
    BY <1>1, <2>1, <2>2, <2>3, <2>4 DEF LoginNext, LoginStep
<1>2. LoginInv /\ [LoginNext]_loginVars => [Safe]_loginVars
  BY <1>1, LoginInvStep DEF LoginInv, TokenPending
<1> QED
  BY <1>2, LoginInvariant, PTL DEF LoginSpec, LoginFilesSafe

(* All that a login does to the credential file is to put an account where *)
(* none is: the check-in, which is beside the login, is modelled with that *)
(* (CredentialChanges in TraeCheckin).                                     *)
THEOREM LoginOnlyAdds ==
  LoginSpec => [][cred' # cred => (cred = None /\ cred' \in Accounts) \/ RemoveCredential]_loginVars
<1> DEFINE Adds == cred' # cred => (cred = None /\ cred' \in Accounts) \/ RemoveCredential
<1>1. ASSUME LoginInv, LoginNext PROVE Adds
  <2>1. ASSUME NEW l \in Logins, Replace(l) PROVE Adds
    BY <1>1, <2>1 DEF LoginInv, TokenPending, OwnerChecked, Replace
  <2>2. CASE \/ RemoveCredential \/ LoginBoot \/ LoginCrash
             \/ \E l \in Logins : \/ StartTrae(l) \/ (\E a \in Accounts : Authorize(l, a))
                                  \/ Redeem(l) \/ SavePending(l) \/ Resolve(l) \/ CheckOwner(l) \/ LoginFails(l)
    BY <2>2 DEF LoginBoot, LoginCrash, StartTrae, Authorize, Redeem, SavePending, Resolve, CheckOwner,
       LoginFails, files
  <2> QED
    BY <1>1, <2>1, <2>2 DEF LoginNext, LoginStep
<1>2. LoginInv /\ [LoginNext]_loginVars => [Adds]_loginVars
  BY <1>1
<1> QED
  BY <1>2, LoginInvariant, PTL DEF LoginSpec
===============================================================================
