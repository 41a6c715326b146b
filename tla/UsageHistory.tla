----------------------------- MODULE UsageHistory ------------------------------
(***************************************************************************)
(* What the metrics keep of finished requests (obs): the minutes of the    *)
(* last day and the calendar history, how a saved snapshot is loaded, and  *)
(* how the history is filled from archives of former gateways. A count is  *)
(* kept as the requests it counts: counted[r] says how often r is in the   *)
(* row of its day and model. The retention of 366 days is not modelled.    *)
(***************************************************************************)
EXTENDS Integers, Sequences, FiniteSets, FiniteSetsExt, SequencesExt

CONSTANTS
  Live,        \* requests this gateway may serve
  Past,        \* requests of former gateways
  SeriesCap,   \* minutes kept
  Today        \* the day all of it happens on

ASSUME HistoryAssumption == Live \cap Past = {} /\ SeriesCap \in Nat \ {0} /\ Today \in Nat

All == Live \cup Past

(* A snapshot or log as the gateway finds it. A legacy snapshot has only   *)
(* its recent requests; a log has lines without identity and tokens.       *)
Archive(kind, counted, recent, since) ==
  [kind |-> kind, counted |-> [r \in All |-> IF r \in counted THEN 1 ELSE 0], recent |-> recent,
   since |-> since]

Empty(now) ==
  [counted |-> [r \in All |-> 0], recent |-> {}, rows |-> {}, unknown |-> {}, ids |-> {},
   sources |-> {}, since |-> now, series |-> <<>>]

RowOf(at, r) == <<at[r].day, at[r].key>>

(* Requests into the rows of their days and models, rows made as needed.   *)
RecordHistory(m, rs, at) ==
  [m EXCEPT !.counted = [r \in All |-> @[r] + (IF r \in rs THEN 1 ELSE 0)],
            !.rows = @ \cup {RowOf(at, r) : r \in rs}]

(* Variant: the request goes to the last bucket or opens a new one.        *)
AppendMinute(s, minute) ==
  LET all == IF s # <<>> /\ Last(s).minute = minute
             THEN [s EXCEPT ![Len(s)].total = @ + 1]
             ELSE Append(s, [minute |-> minute, total |-> 1])
  IN SubSeq(all, Max({1, Len(all) - SeriesCap + 1}), Len(all))
(* The bucket of the minute, found in the ordered list by search: requests *)
(* may end out of order.                                                   *)
AddMinute(s, minute) ==
  LET i == Min({n \in DOMAIN s : s[n].minute >= minute} \cup {Len(s) + 1})
      all == IF i <= Len(s) /\ s[i].minute = minute THEN [s EXCEPT ![i].total = @ + 1]
             ELSE InsertAt(s, i, [minute |-> minute, total |-> 1])
  IN SubSeq(all, Max({1, Len(all) - SeriesCap + 1}), Len(all))

(* Metrics.Record: one finished request, all of it under the lock.         *)
Record(m, r, at) ==
  [RecordHistory(m, {r}, at) EXCEPT !.recent = @ \cup {r},
                                    !.series = AddMinute(@, at[r].minute)]

(* A snapshot without a history gives its recent requests, and keeps their *)
(* identities so that no later import counts them again.                   *)
LoadLegacy(a, at, now) ==
  [RecordHistory(Empty(now), a.recent, at) EXCEPT !.recent = a.recent,
                                                  !.ids = {<<"id", r>> : r \in a.recent}]

(* The lines of a log, but for days on which some row is exact.            *)
ImportLog(m, a, at) ==
  LET exact == {at[r].day : r \in {q \in All : m.counted[q] > (IF q \in m.unknown THEN 1 ELSE 0)}}
      lines == {r \in a.recent : /\ at[r].time < m.since
                                 /\ at[r].day \notin exact
                                 /\ <<"log", r>> \notin m.ids}
  IN [RecordHistory(m, lines, at) EXCEPT !.unknown = @ \cup lines,
                                         !.ids = @ \cup {<<"log", r>> : r \in lines}]

(* Whole days before this one fill the rows that are missing. A recent     *)
(* request is counted alone when none of the archive's rows covers it.     *)
ImportSnapshot(m, a, at) ==
  LET whole == {r \in All : a.counted[r] > 0 /\ at[r].day < Today}
      filled == RecordHistory(m, {r \in whole : RowOf(at, r) \notin m.rows}, at)
      before == {r \in a.recent : at[r].time < m.since}
      covered == {r \in before : RowOf(at, r) \in {RowOf(at, w) : w \in whole}}
      alone == {r \in before \ covered : <<"id", r>> \notin m.ids}
  IN [RecordHistory(filled, alone, at) EXCEPT !.ids = @ \cup {<<"id", r>> : r \in covered \cup alone}]

(* ImportHistory: each source once, known by its content.                  *)
ImportHistory(m, a, at) ==
  IF a \in m.sources THEN m
  ELSE [(IF a.kind = "log" THEN ImportLog(m, a, at) ELSE ImportSnapshot(m, a, at))
        EXCEPT !.sources = @ \cup {a}]
===============================================================================
