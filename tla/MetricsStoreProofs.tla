--------------------------- MODULE MetricsStoreProofs ---------------------------
(***************************************************************************)
(* FilesKept, FinalSave and CountedOnce for any requests, any archives of  *)
(* former gateways, any number of starts, and files damaged at any time.   *)
(* None is inductive: that a save takes nothing from a file rests on what  *)
(* was loaded, recovered and imported at the start, that the last one has  *)
(* every request on the drain and on which of two savers comes last, and   *)
(* that nothing is counted twice on what each file was made from.          *)
(***************************************************************************)
EXTENDS MetricsStore, SequenceTheorems, InductionLemmas, TLAPS

(* A snapshot of the metrics with the minutes s.                           *)
Records(s) ==
  [counted : [All -> Nat], recent : SUBSET All, rows : SUBSET (Int \X Keys), unknown : SUBSET All,
   ids : SUBSET ({"id", "log"} \X All), sources : SUBSET Archives, since : Int, series : {s}]
IsRecord(m) == m \in Records(m.series)
(* It counts no request of this gateway twice, and none that has not ended. *)
Counts(m) ==
  \A r \in Live : m.counted[r] \in {0, 1} /\ (served[r] \in {"idle", "sent", "active", "refused"} => m.counted[r] = 0)
AtLeast(m, n) == \A r \in All : m.counted[r] >= n.counted[r]
Snapshots == {mem, copy} \cup {file[f].m : f \in Files}

TypeInv ==
  /\ phase \in {"down", "up", "shutdown", "cleanup", "persist"}
  /\ boots \in 0 .. LastBoot /\ damages \in Nat
  /\ file = [f \in Files |-> file[f]] /\ \A f \in Files : file[f].is \in {"absent", "saved", "damaged"}
  /\ archive \in Alternate /\ imports \in Imports /\ path \in Files
  /\ served \in [Live -> {"idle", "sent", "active", "counted", "over", "refused", "lost"}]
  /\ at \in [All -> Times]
  /\ writer \in {"none", "ticker", "exit"}
SnapshotInv == \A m \in Snapshots : IsRecord(m) /\ Counts(m)
(* What the drain says of a request of this process.                       *)
DrainInv ==
  /\ \A r \in Live : at[r].time <= boots
  /\ phase # "down" => \A r \in Live : at[r].time = boots =>
       /\ served[r] \in {"active", "counted", "over"}
       /\ served[r] # "active" => mem.counted[r] = 1
  /\ phase \in {"cleanup", "persist"} => stopping
  /\ phase = "persist" /\ last # "other" => \A r \in Live : served[r] \notin {"active", "counted"}
  /\ writer = "exit" => /\ phase = "persist"
                        /\ last # "other" => \A r \in Live : at[r].time = boots => copy.counted[r] = 1
(* A spare is made by one start and has its number; the file this process  *)
(* saves to is not a damaged one, and memory has all it counts.            *)
FileInv ==
  /\ \A n \in 1 .. LastBoot : n > boots => file[10 + n].is = "absent"
  /\ path \in {Main, RecoveryFile} \cup {10 + n : n \in 1 .. boots}
  /\ phase = "down" => writer = "none"
  /\ phase # "down" => /\ file[path].is # "damaged"
                       /\ file[path].is = "saved" => AtLeast(mem, file[path].m)
  /\ writer # "none" => /\ AtLeast(mem, copy)
                        /\ file[path].is = "saved" => AtLeast(copy, file[path].m)
MetricsInv == TypeInv /\ SnapshotInv /\ DrainInv /\ FileInv /\ FinalSave
-------------------------------------------------------------------------------
(* Snapshots, and what the archives add to them                              *)

(* The fields of a snapshot.                                               *)
LEMMA RecordFields ==
  ASSUME NEW m
  PROVE  IsRecord(m) <=>
           /\ m = [counted |-> m.counted, recent |-> m.recent, rows |-> m.rows, unknown |-> m.unknown,
                   ids |-> m.ids, sources |-> m.sources, since |-> m.since, series |-> m.series]
           /\ m.counted \in [All -> Nat] /\ m.recent \subseteq All /\ m.rows \subseteq Int \X Keys
           /\ m.unknown \subseteq All /\ m.ids \subseteq {"id", "log"} \X All
           /\ m.sources \subseteq Archives /\ m.since \in Int
BY DEF IsRecord, Records

LEMMA EmptyIsRecord ==
  ASSUME NEW n \in Int
  PROVE  IsRecord(Empty(n)) /\ Empty(n).series = <<>> /\ \A r \in All : Empty(n).counted[r] = 0
BY DEF IsRecord, Records, Empty

(* What an import may do: add requests of former gateways.                 *)
Grown(x, m) ==
  /\ IsRecord(x) /\ x.series = m.series
  /\ \A r \in All : x.counted[r] >= m.counted[r] /\ (r \in Live => x.counted[r] = m.counted[r])

LEMMA GrownTwice ==
  ASSUME NEW x, NEW y, NEW z, IsRecord(x), Grown(y, x), Grown(z, y) PROVE Grown(z, x)
<1>1. /\ x.counted \in [All -> Nat] /\ y.counted \in [All -> Nat] /\ z.counted \in [All -> Nat]
  BY RecordFields DEF Grown
<1> QED
  BY <1>1 DEF Grown

(* Requests are recorded in the rows of their days and models.             *)
LEMMA RecordHistoryIs ==
  ASSUME NEW m, IsRecord(m), NEW rs, rs \subseteq All, NEW times, \A r \in rs : RowOf(times, r) \in Int \X Keys
  PROVE  /\ IsRecord(RecordHistory(m, rs, times))
         /\ RecordHistory(m, rs, times).series = m.series
         /\ RecordHistory(m, rs, times).ids = m.ids
         /\ \A r \in All : RecordHistory(m, rs, times).counted[r] = m.counted[r] + (IF r \in rs THEN 1 ELSE 0)
<1>1. PICK rows : rows = m.rows \cup {RowOf(times, r) : r \in rs}
  OBVIOUS
<1>2. PICK counted : counted = [r \in All |-> m.counted[r] + (IF r \in rs THEN 1 ELSE 0)]
  OBVIOUS
<1>3. RecordHistory(m, rs, times) = [m EXCEPT !.counted = counted, !.rows = rows]
  BY <1>1, <1>2 DEF RecordHistory
<1>4. rows \subseteq Int \X Keys
  BY <1>1, RecordFields
<1>5. counted \in [All -> Nat]
  BY <1>2, RecordFields
<1>6. PICK x : x = [counted |-> counted, recent |-> m.recent, rows |-> rows, unknown |-> m.unknown,
                    ids |-> m.ids, sources |-> m.sources, since |-> m.since, series |-> m.series]
  OBVIOUS
<1>7. RecordHistory(m, rs, times) = x
  BY <1>3, <1>6, RecordFields
<1>8. IsRecord(x) /\ x.series = m.series /\ x.ids = m.ids /\ x.counted = counted
  BY <1>4, <1>5, <1>6, RecordFields
<1> QED
  BY <1>2, <1>7, <1>8

(* ... and, when they are those of former gateways, only add to it.        *)
LEMMA RecordHistoryGrows ==
  ASSUME NEW m, IsRecord(m), NEW rs, rs \subseteq Past, NEW times, \A r \in rs : RowOf(times, r) \in Int \X Keys
  PROVE  Grown(RecordHistory(m, rs, times), m) /\ RecordHistory(m, rs, times).ids = m.ids
<1>1. rs \subseteq All /\ \A r \in Live : r \notin rs
  BY HistoryAssumption DEF All
<1>2. PICK x : x = RecordHistory(m, rs, times)
  OBVIOUS
<1>3. IsRecord(x) /\ x.series = m.series /\ x.ids = m.ids
      /\ \A r \in All : x.counted[r] = m.counted[r] + (IF r \in rs THEN 1 ELSE 0)
  BY <1>1, <1>2, RecordHistoryIs
<1>4. m.counted \in [All -> Nat]
  BY RecordFields
<1> QED
  BY <1>1, <1>2, <1>3, <1>4 DEF Grown

(* The marks by which later imports know what is already there.            *)
LEMMA MarksGrow ==
  ASSUME NEW m, IsRecord(m), NEW u, u \subseteq All, NEW i, i \subseteq {"id", "log"} \X All
  PROVE  /\ Grown([m EXCEPT !.unknown = u, !.ids = i], m)
         /\ Grown([m EXCEPT !.ids = i], m)
<1>1. PICK x : x = [counted |-> m.counted, recent |-> m.recent, rows |-> m.rows, unknown |-> u,
                    ids |-> i, sources |-> m.sources, since |-> m.since, series |-> m.series]
  OBVIOUS
<1>2. PICK y : y = [counted |-> m.counted, recent |-> m.recent, rows |-> m.rows, unknown |-> m.unknown,
                    ids |-> i, sources |-> m.sources, since |-> m.since, series |-> m.series]
  OBVIOUS
<1>3. [m EXCEPT !.unknown = u, !.ids = i] = x /\ [m EXCEPT !.ids = i] = y
  <2>1. m = [counted |-> m.counted, recent |-> m.recent, rows |-> m.rows, unknown |-> m.unknown,
             ids |-> m.ids, sources |-> m.sources, since |-> m.since, series |-> m.series]
    BY RecordFields
  <2>2. [m EXCEPT !.ids = i] = y
    BY <1>2, <2>1
  <2>3. PICK z : z = [m EXCEPT !.unknown = u]
    OBVIOUS
  <2>4. z = [counted |-> m.counted, recent |-> m.recent, rows |-> m.rows, unknown |-> u,
             ids |-> m.ids, sources |-> m.sources, since |-> m.since, series |-> m.series]
    BY <2>1, <2>3
  <2>5. [z EXCEPT !.ids = i] = x
    BY ONLY <1>1, <2>4
  <2> QED
    BY <2>2, <2>3, <2>5
<1>4. Grown(x, m) /\ Grown(y, m)
  <2>1. IsRecord(x) /\ IsRecord(y)
    BY <1>1, <1>2, RecordFields
  <2>2. m.counted \in [All -> Nat]
    BY RecordFields
  <2> QED
    BY <1>1, <1>2, <2>1, <2>2 DEF Grown
<1> QED
  BY <1>3, <1>4
LEMMA SourcesGrow ==
  ASSUME NEW m, IsRecord(m), NEW s, s \subseteq Archives
  PROVE  Grown([m EXCEPT !.sources = s], m)
<1>1. PICK x : x = [counted |-> m.counted, recent |-> m.recent, rows |-> m.rows, unknown |-> m.unknown,
                    ids |-> m.ids, sources |-> s, since |-> m.since, series |-> m.series]
  OBVIOUS
<1>2. [m EXCEPT !.sources = s] = x
  BY <1>1, RecordFields
<1>3. IsRecord(x) /\ m.counted \in [All -> Nat]
  BY <1>1, RecordFields
<1> QED
  BY <1>1, <1>2, <1>3 DEF Grown

(* The lines of a log are added, with their marks.                         *)
LEMMA ImportLogGrows ==
  ASSUME NEW m, IsRecord(m), NEW a \in Archives, NEW times, \A r \in Past : RowOf(times, r) \in Int \X Keys
  PROVE  Grown(ImportLog(m, a, times), m)
<1> DEFINE exact == {times[r].day : r \in {q \in All : m.counted[q] > (IF q \in m.unknown THEN 1 ELSE 0)}}
           added == {r \in a.recent : times[r].time < m.since /\ times[r].day \notin exact /\ <<"log", r>> \notin m.ids}
<1>1. PICK lines : lines = added
  OBVIOUS
<1>2. lines \subseteq Past /\ lines \subseteq All
  BY <1>1 DEF Archives, All
<1>3. PICK x : x = RecordHistory(m, lines, times)
  OBVIOUS
<1>4. Grown(x, m) /\ IsRecord(x)
  BY <1>2, <1>3, RecordHistoryGrows DEF Grown
<1>5. ImportLog(m, a, times) = [x EXCEPT !.unknown = x.unknown \cup lines, !.ids = x.ids \cup {<<"log", r>> : r \in lines}]
  BY <1>1, <1>3 DEF ImportLog
<1>6. PICK marks : marks = {<<"log", r>> : r \in lines}
  OBVIOUS
<1>7. PICK u : u = x.unknown \cup lines
  OBVIOUS
<1>8. PICK i : i = x.ids \cup marks
  OBVIOUS
<1>9. u \subseteq All /\ i \subseteq {"id", "log"} \X All
  <2>1. x.unknown \subseteq All /\ x.ids \subseteq {"id", "log"} \X All
    BY <1>4, RecordFields
  <2>2. marks \subseteq {"id", "log"} \X All
    BY <1>2, <1>6
  <2> QED
    BY <1>2, <1>7, <1>8, <2>1, <2>2
<1>10. PICK y : y = [x EXCEPT !.unknown = u, !.ids = i]
  OBVIOUS
<1>11. ImportLog(m, a, times) = y
  BY <1>5, <1>6, <1>7, <1>8, <1>10
<1>12. Grown(y, x)
  <2>1. Grown([x EXCEPT !.unknown = u, !.ids = i], x)
    BY <1>4, <1>9, MarksGrow, Zenon
  <2> QED
    BY <1>10, <2>1
<1> HIDE DEF exact, added
<1> QED
  BY <1>4, <1>11, <1>12, GrownTwice

(* Whole days of a snapshot and what they do not cover are added.          *)
LEMMA ImportSnapshotGrows ==
  ASSUME NEW m, IsRecord(m), NEW a \in Archives, NEW times, \A r \in Past : RowOf(times, r) \in Int \X Keys
  PROVE  Grown(ImportSnapshot(m, a, times), m)
<1>1. PICK whole : whole = {r \in All : a.counted[r] > 0 /\ times[r].day < Today}
  OBVIOUS
<1>2. PICK missing : missing = {r \in whole : RowOf(times, r) \notin m.rows}
  OBVIOUS
<1>3. PICK x : x = RecordHistory(m, missing, times)
  OBVIOUS
<1>4. PICK before : before = {r \in a.recent : times[r].time < m.since}
  OBVIOUS
<1>5. PICK covered : covered = {r \in before : RowOf(times, r) \in {RowOf(times, w) : w \in whole}}
  OBVIOUS
<1>6. PICK alone : alone = {r \in before \ covered : <<"id", r>> \notin m.ids}
  OBVIOUS
<1>7. PICK y : y = RecordHistory(x, alone, times)
  OBVIOUS
<1>8. PICK i : i = y.ids \cup {<<"id", r>> : r \in covered \cup alone}
  OBVIOUS
<1>9. PICK z : z = [y EXCEPT !.ids = i]
  OBVIOUS
<1>10. ImportSnapshot(m, a, times) = z
  BY <1>1, <1>2, <1>3, <1>4, <1>5, <1>6, <1>7, <1>8, <1>9 DEF ImportSnapshot
<1>11. whole \subseteq Past /\ missing \subseteq Past
  BY <1>1, <1>2 DEF Archives, All
<1>12. covered \subseteq Past /\ alone \subseteq Past
  BY <1>4, <1>5, <1>6 DEF Archives
<1>13. Grown(x, m) /\ IsRecord(x)
  <2>1. Grown(x, m)
    BY <1>3, <1>11, RecordHistoryGrows
  <2> QED
    BY <2>1 DEF Grown
<1>14. Grown(y, x) /\ IsRecord(y)
  <2>1. Grown(y, x)
    BY <1>7, <1>12, <1>13, RecordHistoryGrows
  <2> QED
    BY <2>1 DEF Grown
<1>15. i \subseteq {"id", "log"} \X All
  <2>1. y.ids \subseteq {"id", "log"} \X All
    BY <1>14, RecordFields
  <2> QED
    BY <1>8, <1>12, <2>1 DEF All
<1>16. Grown(z, y)
  <2>1. PICK u : u = {}
    OBVIOUS
  <2>2. u \subseteq All
    BY <2>1
  <2>3. Grown([y EXCEPT !.ids = i], y)
    BY <1>14, <1>15, <2>2, MarksGrow, Zenon
  <2> QED
    BY <1>9, <2>3
<1>17. Grown(y, m)
  BY <1>13, <1>14, GrownTwice
<1> QED
  BY <1>10, <1>16, <1>17, GrownTwice

(* An import adds requests of former gateways only, and takes none away.   *)
LEMMA ImportGrows ==
  ASSUME NEW m, IsRecord(m), NEW a \in Archives, NEW times, \A r \in Past : RowOf(times, r) \in Int \X Keys
  PROVE  Grown(ImportHistory(m, a, times), m)
<1>1. CASE a \in m.sources
  <2>1. m.counted \in [All -> Nat]
    BY RecordFields
  <2> QED
    BY <1>1, <2>1 DEF ImportHistory, Grown
<1>2. CASE a \notin m.sources
  <2>1. PICK x : x = IF a.kind = "log" THEN ImportLog(m, a, times) ELSE ImportSnapshot(m, a, times)
    OBVIOUS
  <2>2. Grown(x, m) /\ IsRecord(x)
    BY <2>1, ImportLogGrows, ImportSnapshotGrows DEF Grown
  <2>3. PICK s : s = x.sources \cup {a}
    OBVIOUS
  <2>4. PICK y : y = [x EXCEPT !.sources = s]
    OBVIOUS
  <2>5. ImportHistory(m, a, times) = y
    BY <1>2, <2>1, <2>3, <2>4 DEF ImportHistory
  <2>6. s \subseteq Archives
    BY <2>2, <2>3, RecordFields
  <2>7. Grown(y, x)
    BY <2>2, <2>4, <2>6, SourcesGrow
  <2> QED
    BY <2>2, <2>5, <2>7, GrownTwice
<1> QED
  BY <1>1, <1>2

(* What an archive alone gives counts no request of this gateway.          *)
Foreign(m) == IsRecord(m) /\ m.series = <<>> /\ \A r \in Live : m.counted[r] = 0
LEMMA FromArchiveIs ==
  ASSUME NEW a \in Archives, NEW n \in Int PROVE Foreign(FromArchive(a, n))
<1>1. \A r \in Past : RowOf(PastAt, r) \in Int \X Keys
  BY StoreAssumption DEF Times, RowOf
<1>2. a.recent \subseteq Past /\ a.counted \in [All -> {0, 1}] /\ a.since \in Int /\ \A r \in Live : a.counted[r] = 0
  BY DEF Archives
<1>3. CASE a.kind = "legacy"
  <2>1. PICK e : e = Empty(n)
    OBVIOUS
  <2>2. IsRecord(e) /\ e.series = <<>> /\ \A r \in All : e.counted[r] = 0
    BY <2>1, EmptyIsRecord
  <2>3. PICK x : x = RecordHistory(e, a.recent, PastAt)
    OBVIOUS
  <2>4. Grown(x, e) /\ IsRecord(x)
    <3>1. IsRecord(e) /\ a.recent \subseteq Past /\ \A r \in a.recent : RowOf(PastAt, r) \in Int \X Keys
      BY <1>1, <1>2, <2>2
    <3>2. Grown(x, e)
      BY ONLY <2>3, <3>1, RecordHistoryGrows
    <3> QED
      BY <3>2 DEF Grown
  <2>5. PICK i : i = {<<"id", r>> : r \in a.recent}
    OBVIOUS
  <2>6. PICK y : y = [counted |-> x.counted, recent |-> a.recent, rows |-> x.rows, unknown |-> x.unknown,
                      ids |-> i, sources |-> x.sources, since |-> x.since, series |-> x.series]
    OBVIOUS
  <2>7. LoadLegacy(a, PastAt, n) = y
    <3>1. x = [counted |-> x.counted, recent |-> x.recent, rows |-> x.rows, unknown |-> x.unknown,
               ids |-> x.ids, sources |-> x.sources, since |-> x.since, series |-> x.series]
      BY <2>4, RecordFields
    <3>2. PICK z : z = [x EXCEPT !.recent = a.recent]
      OBVIOUS
    <3>3. z = [counted |-> x.counted, recent |-> a.recent, rows |-> x.rows, unknown |-> x.unknown,
               ids |-> x.ids, sources |-> x.sources, since |-> x.since, series |-> x.series]
      BY <3>1, <3>2
    <3>4. [z EXCEPT !.ids = i] = y
      BY ONLY <2>6, <3>3
    <3> QED
      BY <2>1, <2>3, <2>5, <3>2, <3>4 DEF LoadLegacy
  <2>8. a.recent \subseteq All /\ i \subseteq {"id", "log"} \X All
    BY <1>2, <2>5 DEF All
  <2>9. IsRecord(y)
    BY <2>4, <2>6, <2>8, RecordFields
  <2>10. y.series = <<>> /\ \A r \in Live : y.counted[r] = 0
    BY <2>2, <2>4, <2>6 DEF Grown, All
  <2> QED
    BY <1>3, <2>7, <2>9, <2>10 DEF FromArchive, Foreign
<1>4. CASE a.kind # "legacy"
  <2>1. PICK own : own = {RowOf(PastAt, r) : r \in {q \in All : a.counted[q] > 0}}
    OBVIOUS
  <2>2. \A q \in All : a.counted[q] > 0 => q \in Past
    BY <1>2 DEF All
  <2>3. own \subseteq Int \X Keys
    BY <1>1, <2>1, <2>2
  <2>4. PICK y : y = [counted |-> a.counted, recent |-> a.recent, rows |-> own, unknown |-> {}, ids |-> {},
                      sources |-> {}, since |-> a.since, series |-> <<>>]
    OBVIOUS
  <2>5. FromArchive(a, n) = y
    <3>1. PICK e : e = Empty(a.since)
      OBVIOUS
    <3>2. PICK none : none = [r \in All |-> 0]
      OBVIOUS
    <3>3. PICK c : c = a.counted
      OBVIOUS
    <3>4. PICK k : k = a.recent
      OBVIOUS
    <3>5. PICK t : t = a.since
      OBVIOUS
    <3>6. e = [counted |-> none, recent |-> {}, rows |-> {}, unknown |-> {}, ids |-> {},
               sources |-> {}, since |-> t, series |-> <<>>]
      BY <3>1, <3>2, <3>5 DEF Empty
    <3>7. PICK z : z = [e EXCEPT !.counted = c]
      OBVIOUS
    <3>8. z = [counted |-> c, recent |-> {}, rows |-> {}, unknown |-> {}, ids |-> {},
               sources |-> {}, since |-> t, series |-> <<>>]
      BY ONLY <3>6, <3>7
    <3>9. PICK w : w = [z EXCEPT !.recent = k]
      OBVIOUS
    <3>10. w = [counted |-> c, recent |-> k, rows |-> {}, unknown |-> {}, ids |-> {},
                sources |-> {}, since |-> t, series |-> <<>>]
      BY ONLY <3>8, <3>9
    <3>11. y = [counted |-> c, recent |-> k, rows |-> own, unknown |-> {}, ids |-> {},
                sources |-> {}, since |-> t, series |-> <<>>]
      BY <2>4, <3>3, <3>4, <3>5
    <3>12. [w EXCEPT !.rows = own] = y
      <4>1. PICK r1, r2, r3, r4, r5 : r1 = {} /\ r2 = {} /\ r3 = {} /\ r4 = {} /\ r5 = <<>>
        OBVIOUS
      <4>2. w = [counted |-> c, recent |-> k, rows |-> r1, unknown |-> r2, ids |-> r3,
                 sources |-> r4, since |-> t, series |-> r5]
        BY ONLY <3>10, <4>1
      <4>3. y = [counted |-> c, recent |-> k, rows |-> own, unknown |-> r2, ids |-> r3,
                 sources |-> r4, since |-> t, series |-> r5]
        BY ONLY <3>11, <4>1
      <4> QED
        BY ONLY <4>2, <4>3
    <3> QED
      BY <1>4, <2>1, <3>1, <3>3, <3>4, <3>7, <3>9, <3>12 DEF FromArchive
  <2>6. a.counted \in [All -> Nat] /\ a.recent \subseteq All
    BY <1>2 DEF All
  <2>7. IsRecord(y)
    BY <1>2, <2>3, <2>4, <2>6 DEF IsRecord, Records
  <2> QED
    BY <1>2, <2>4, <2>5, <2>7 DEF Foreign
<1> QED
  BY <1>3, <1>4

(* The fold over the archives, as the function it is a value of.           *)
ImportsFrom(m, list, times, g) ==
  g = [s \in SUBSET DOMAIN list |-> IF s = {} THEN m ELSE ImportHistory(g[s \ {Max(s)}], list[Max(s)], times)]
LEMMA ImportAllIsFold ==
  ASSUME NEW m, IsRecord(m), NEW list \in Seq(Archives), NEW times, \A r \in Past : RowOf(times, r) \in Int \X Keys
  PROVE  \E g : ImportsFrom(m, list, times, g) /\ ImportAll(m, list, times) = g[DOMAIN list]
<1> DEFINE T == {x \in Records(m.series) : Grown(x, m)}
           F == [p \in T \X (1 .. Len(list)) |-> ImportHistory(p[1], list[p[2]], times)]
<1>1. \A x : x \in T <=> Grown(x, m)
  BY DEF Grown, IsRecord
<1>2. m \in T
  <2>1. m.counted \in [All -> Nat]
    BY RecordFields
  <2>2. Grown(m, m)
    BY <2>1 DEF Grown
  <2> QED
    BY <1>1, <2>2
<1>3. ASSUME NEW x \in T, NEW i \in 1 .. Len(list)
      PROVE  F[<<x, i>>] = ImportHistory(x, list[i], times) /\ F[<<x, i>>] \in T
  <2>1. F[<<x, i>>] = ImportHistory(x, list[i], times)
    OBVIOUS
  <2>2. Grown(x, m)
    BY <1>1
  <2>3. IsRecord(x) /\ list[i] \in Archives
    BY <2>2, ElementOfSeq DEF Grown
  <2>4. Grown(ImportHistory(x, list[i], times), x)
    BY <2>3, ImportGrows
  <2>5. Grown(ImportHistory(x, list[i], times), m)
    BY <2>2, <2>4, GrownTwice
  <2> QED
    BY <1>1, <2>1, <2>5
<1> HIDE DEF F, T
<1>4. Len(list) \in Nat /\ DOMAIN list = 1 .. Len(list)
  BY LenProperties
<1>5. PICK g : FoldFun(g, T, m, F, Len(list))
  BY <1>2, <1>3, <1>4, FoldExists
<1>6. ASSUME NEW s \in SUBSET DOMAIN list
      PROVE  g[s] = IF s = {} THEN m ELSE ImportHistory(g[s \ {Max(s)}], list[Max(s)], times)
  <2>1. CASE s = {}
    BY <1>4, <1>5, <2>1 DEF FoldFun
  <2>2. CASE s # {}
    <3>1. Max(s) \in 1 .. Len(list)
      <4>1. s \subseteq 0 .. Len(list)
        BY <1>4
      <4> QED
        BY <1>4, <2>2, <4>1, MaxIsGreatest
    <3>2. g[s \ {Max(s)}] \in T /\ g[s] = F[<<g[s \ {Max(s)}], Max(s)>>]
      <4>1. s \ {Max(s)} \in SUBSET (1 .. Len(list))
        <5>1. PICK k : k = Max(s)
          OBVIOUS
        <5>2. s \ {k} \in SUBSET (1 .. Len(list))
          BY <1>4
        <5> QED
          BY <5>1, <5>2
      <4> QED
        BY <1>4, <1>5, <2>2, <4>1 DEF FoldFun
    <3> QED
      BY <1>3, <2>2, <3>1, <3>2
  <2> QED
    BY <2>1, <2>2
<1>7. ImportsFrom(m, list, times, g)
  BY <1>4, <1>5, <1>6 DEF ImportsFrom, FoldFun
<1>8. ImportAll(m, list, times) = (CHOOSE h : ImportsFrom(m, list, times, h))[DOMAIN list]
  BY DEF ImportAll, ImportsFrom, FoldLeft, MapThenFoldSet
<1> QED
  BY <1>7, <1>8

(* So do all the configured archives, in whatever order.                   *)
LEMMA ImportAllGrows ==
  ASSUME NEW m, IsRecord(m), NEW list \in Seq(Archives), NEW times, \A r \in Past : RowOf(times, r) \in Int \X Keys
  PROVE  Grown(ImportAll(m, list, times), m)
<1>1. PICK g : ImportsFrom(m, list, times, g) /\ ImportAll(m, list, times) = g[DOMAIN list]
  BY ImportAllIsFold
<1>2. Len(list) \in Nat /\ DOMAIN list = 1 .. Len(list)
  BY LenProperties
<1>3. \A s \in SUBSET DOMAIN list : g[s] = IF s = {} THEN m ELSE ImportHistory(g[s \ {Max(s)}], list[Max(s)], times)
  BY <1>1 DEF ImportsFrom
<1> DEFINE Good(k) == Grown(g[1 .. k], m)
           S == {k \in Nat : k <= Len(list) => Good(k)}
<1>4. 0 \in S
  <2>1. 1 .. 0 = {}
    OBVIOUS
  <2>2. g[1 .. 0] = m
    BY <1>3, <2>1
  <2>3. m.counted \in [All -> Nat]
    BY RecordFields
  <2>4. Grown(m, m)
    BY <2>3 DEF Grown
  <2>5. Good(0)
    BY <2>2, <2>4
  <2> HIDE DEF Good
  <2> QED
    BY <2>5
<1>5. ASSUME NEW k \in Nat, k \in S PROVE k + 1 \in S
  <2>1. SUFFICES ASSUME k + 1 <= Len(list) PROVE Good(k + 1)
    <3> HIDE DEF Good
    <3> QED
      OBVIOUS
  <2>2. Max(1 .. k + 1) = k + 1 /\ (1 .. k + 1) \ {k + 1} = 1 .. k
    BY MaxOfPrefix
  <2>3. 1 .. k + 1 \in SUBSET DOMAIN list /\ 1 .. k + 1 # {} /\ k + 1 \in DOMAIN list
    <3>1. k + 1 \in 1 .. k + 1 /\ k + 1 \in 1 .. Len(list)
      BY <1>2, <2>1
    <3>2. \A j \in 1 .. k + 1 : j \in 1 .. Len(list)
      BY <1>2, <2>1
    <3> QED
      BY ONLY <1>2, <3>1, <3>2
  <2>4. g[1 .. k + 1] = ImportHistory(g[1 .. k], list[k + 1], times)
    BY <1>3, <2>2, <2>3
  <2>5. PICK x : x = g[1 .. k]
    OBVIOUS
  <2>6. Grown(x, m)
    <3>1. k <= Len(list)
      BY <1>2, <2>1
    <3>2. Good(k)
      <4> HIDE DEF Good
      <4> QED
        BY <1>5, <3>1
    <3> QED
      BY <2>5, <3>2
  <2>7. IsRecord(x) /\ list[k + 1] \in Archives
    BY <2>3, <2>6, <1>2, ElementOfSeq DEF Grown
  <2>8. Grown(ImportHistory(x, list[k + 1], times), x)
    BY <2>7, ImportGrows
  <2>9. Grown(ImportHistory(x, list[k + 1], times), m)
    BY <2>6, <2>8, GrownTwice
  <2> QED
    BY <2>4, <2>5, <2>9
<1> HIDE DEF S
<1>6. Nat \subseteq S
  BY <1>4, <1>5, NumberInduction
<1>7. Good(Len(list))
  <2> HIDE DEF Good
  <2> QED
    BY <1>2, <1>6 DEF S
<1> QED
  BY <1>1, <1>2, <1>7

-------------------------------------------------------------------------------
(* The start                                                                 *)

LEMMA CountsFrom ==
  ASSUME NEW m, NEW x
  PROVE  /\ Foreign(x) => Counts(x)
         /\ Grown(x, m) /\ Counts(m) => Counts(x)
         /\ Grown(x, m) => AtLeast(x, m)
BY DEF Foreign, Grown, Counts, AtLeast, All

LEMMA EmptyIsForeign == ASSUME NEW n \in Int PROVE Foreign(Empty(n))
BY EmptyIsRecord DEF Foreign, All

LEMMA SameAtLeast == ASSUME NEW m, IsRecord(m) PROVE AtLeast(m, m)
<1>1. m.counted \in [All -> Nat]
  BY RecordFields
<1> QED
  BY <1>1 DEF AtLeast

(* What a start has loaded from the file it goes on with.                  *)
Starts(f, m) ==
  /\ f \in {Main, RecoveryFile} \cup {10 + k : k \in 1 .. boots + 1}
  /\ IsRecord(m) /\ Counts(m)
  /\ file[f].is # "damaged"
  /\ file[f].is = "saved" => AtLeast(m, file[f].m)

LEMMA SavedFileStarts ==
  ASSUME MetricsInv, NEW f \in Files, file[f].is = "saved",
         f \in {Main, RecoveryFile} \cup {10 + k : k \in 1 .. boots + 1}
  PROVE  Starts(f, file[f].m)
<1>1. IsRecord(file[f].m) /\ Counts(file[f].m)
  BY DEF MetricsInv, SnapshotInv, Snapshots
<1> QED
  BY <1>1, SameAtLeast DEF Starts

(* The recovery file, the newest spare, or a file that is not there yet:   *)
(* a spare with the number of this start has not been made.                *)
LEMMA RecoveryStarts ==
  ASSUME MetricsInv, boots < LastBoot PROVE Starts(Recovery(boots + 1)[1], Recovery(boots + 1)[2])
<1> DEFINE valid == {f \in Spares : file[f].is = "saved"}
<1>1. boots \in 0 .. LastBoot /\ LastBoot \in Nat /\ boots + 1 \in 1 .. LastBoot /\ boots + 1 \in Int
  BY StoreAssumption DEF MetricsInv, TypeInv
<1>2. \A n \in 1 .. LastBoot : n > boots => file[10 + n].is = "absent"
  BY DEF MetricsInv, FileInv
<1>3. CASE file[RecoveryFile].is = "saved"
  <2>1. Recovery(boots + 1) = <<RecoveryFile, file[RecoveryFile].m>>
    BY <1>3 DEF Recovery
  <2>2. Starts(RecoveryFile, file[RecoveryFile].m)
    BY <1>3, SavedFileStarts DEF Files
  <2> QED
    BY <2>1, <2>2
<1>4. CASE file[RecoveryFile].is # "saved" /\ valid # {}
  <2>1. \A f \in valid : f \in {10 + k : k \in 1 .. boots}
    BY <1>1, <1>2 DEF Spares
  <2>2. PICK newest : newest = Max(valid)
    OBVIOUS
  <2>3. newest \in valid
    <3>1. valid \subseteq 0 .. 10 + LastBoot /\ 10 + LastBoot \in Nat
      BY <1>1 DEF Spares
    <3> HIDE DEF valid
    <3> QED
      BY <1>4, <2>2, <3>1, MaxIsGreatest
  <2>4. Recovery(boots + 1) = <<newest, file[newest].m>>
    BY <1>4, <2>2 DEF Recovery
  <2>5. newest \in Files /\ file[newest].is = "saved" /\ newest \in {10 + k : k \in 1 .. boots + 1}
    BY <1>1, <2>1, <2>3 DEF Files
  <2>6. Starts(newest, file[newest].m)
    BY <2>5, SavedFileStarts
  <2> QED
    BY <2>4, <2>6
<1>5. CASE file[RecoveryFile].is # "saved" /\ valid = {}
  <2>1. PICK e : e = Empty(boots + 1)
    OBVIOUS
  <2>2. IsRecord(e) /\ Counts(e)
    BY <1>1, <2>1, EmptyIsForeign, CountsFrom DEF Foreign
  <2>3. CASE file[RecoveryFile].is = "absent"
    <3>1. Recovery(boots + 1) = <<RecoveryFile, e>>
      BY <1>5, <2>1, <2>3 DEF Recovery
    <3>2. Starts(RecoveryFile, e)
      BY <2>2, <2>3 DEF Starts
    <3> QED
      BY <3>1, <3>2
  <2>4. CASE file[RecoveryFile].is # "absent"
    <3>1. Recovery(boots + 1) = <<10 + (boots + 1), e>>
      BY <1>5, <2>1, <2>4 DEF Recovery
    <3>2. file[10 + (boots + 1)].is = "absent"
      BY <1>1, <1>2
    <3>3. Starts(10 + (boots + 1), e)
      BY <1>1, <2>2, <3>2 DEF Starts
    <3> QED
      BY <3>1, <3>3
  <2> QED
    BY <2>3, <2>4
<1> QED
  BY <1>3, <1>4, <1>5

LEMMA LoadedStarts ==
  ASSUME MetricsInv, boots < LastBoot PROVE Starts(Loaded(boots + 1)[1], Loaded(boots + 1)[2])
<1>1. boots + 1 \in Int /\ archive \in Archives /\ \A r \in Past : RowOf(at, r) \in Int \X Keys
  BY StoreAssumption DEF MetricsInv, TypeInv, Times, RowOf, All
<1>2. Main \in Files
  BY DEF Files
<1>3. CASE file[Main].is = "saved"
  <2>1. Starts(Main, file[Main].m)
    BY <1>2, <1>3, SavedFileStarts
  <2>2. PICK m : m = file[Main].m
    OBVIOUS
  <2>3. PICK x : x = ImportHistory(m, archive, at)
    OBVIOUS
  <2>4. IsRecord(m) /\ Counts(m)
    BY <2>1, <2>2 DEF Starts
  <2>5. Grown(x, m)
    BY <1>1, <2>3, <2>4, ImportGrows
  <2>6. IsRecord(x)
    BY <2>5 DEF Grown
  <2>7. Counts(x) /\ AtLeast(x, m)
    BY <2>4, <2>5, CountsFrom
  <2>8. Starts(Main, x)
    BY <1>3, <2>2, <2>6, <2>7 DEF Starts
  <2>9. Loaded(boots + 1) = <<Main, x>> \/ Loaded(boots + 1) = <<Main, m>>
    BY <1>3, <2>2, <2>3 DEF Loaded
  <2> QED
    BY <2>1, <2>2, <2>8, <2>9
<1>4. CASE file[Main].is = "absent" /\ archive.kind = "absent"
  <2>1. PICK e : e = Empty(boots + 1)
    OBVIOUS
  <2>2. IsRecord(e) /\ Counts(e)
    BY <1>1, <2>1, EmptyIsForeign, CountsFrom DEF Foreign
  <2>3. Loaded(boots + 1) = <<Main, e>>
    BY <1>4, <2>1 DEF Loaded
  <2>4. Starts(Main, e)
    BY <1>4, <2>2 DEF Starts
  <2> QED
    BY <2>3, <2>4
<1>5. CASE file[Main].is = "absent" /\ archive.kind \notin {"absent", "damaged"}
  <2>1. PICK e : e = FromArchive(archive, boots + 1)
    OBVIOUS
  <2>2. IsRecord(e) /\ Counts(e)
    BY <1>1, <2>1, FromArchiveIs, CountsFrom DEF Foreign
  <2>3. Loaded(boots + 1) = <<Main, e>>
    BY <1>5, <2>1 DEF Loaded
  <2>4. Starts(Main, e)
    BY <1>5, <2>2 DEF Starts
  <2> QED
    BY <2>3, <2>4
<1>6. CASE file[Main].is # "saved" /\ (file[Main].is = "absent" => archive.kind = "damaged")
  <2>1. Loaded(boots + 1) = Recovery(boots + 1)
    BY <1>6 DEF Loaded
  <2> QED
    BY <2>1, RecoveryStarts
<1> QED
  BY <1>3, <1>4, <1>5, <1>6

LEMMA BootStep == ASSUME MetricsInv, Boot PROVE MetricsInv'
<1>1. boots \in 0 .. LastBoot /\ LastBoot \in Nat /\ boots < LastBoot /\ boots' = boots + 1 /\ boots' \in 0 .. LastBoot
  BY StoreAssumption DEF MetricsInv, TypeInv, Boot
<1>2. PICK f, m : f = Loaded(boots + 1)[1] /\ m = Loaded(boots + 1)[2]
  OBVIOUS
<1>3. Starts(f, m)
  BY <1>1, <1>2, LoadedStarts
<1>4. path' = f /\ mem' = ImportAll(m, imports, at)
  BY <1>2 DEF Boot
<1>5. imports \in Seq(Archives) /\ \A r \in Past : RowOf(at, r) \in Int \X Keys
  BY StoreAssumption DEF MetricsInv, TypeInv, Times, RowOf, All
<1>6. IsRecord(m) /\ Counts(m) /\ f \in {Main, RecoveryFile} \cup {10 + k : k \in 1 .. boots + 1}
      /\ file[f].is # "damaged" /\ (file[f].is = "saved" => AtLeast(m, file[f].m))
  BY <1>3 DEF Starts
<1>7. PICK x : x = ImportAll(m, imports, at)
  OBVIOUS
<1>8. Grown(x, m)
  BY <1>5, <1>6, <1>7, ImportAllGrows
<1>9. mem' = x /\ IsRecord(x) /\ Counts(x) /\ AtLeast(x, m)
  BY <1>4, <1>6, <1>7, <1>8, CountsFrom DEF Grown
<1>10. /\ phase = "down" /\ phase' = "up" /\ stopping' = FALSE /\ last' = "none"
       /\ UNCHANGED <<damages, file, archive, imports, served, at, writer, copy>>
  BY DEF Boot, disk
<1>11. TypeInv'
  <2>1. f \in Files
    <3>1. \A k \in 1 .. boots + 1 : k \in 1 .. LastBoot
      BY <1>1
    <3>2. f \in {Main, RecoveryFile} \cup {10 + k : k \in 1 .. boots + 1}
      BY <1>6
    <3> QED
      BY ONLY <3>1, <3>2 DEF Files, Spares
  <2> QED
    BY <1>1, <1>4, <1>10, <2>1 DEF MetricsInv, TypeInv
<1>12. SnapshotInv'
  <2>1. ASSUME NEW y \in Snapshots' PROVE IsRecord(y) /\ Counts(y)
    <3>1. y = x \/ y \in Snapshots
      BY <1>9, <1>10 DEF Snapshots
    <3> QED
      BY <1>9, <3>1 DEF MetricsInv, SnapshotInv
  <2>2. served' = served
    BY <1>10
  <2> QED
    BY <2>1, <2>2 DEF SnapshotInv, Counts
<1>13. DrainInv'
  <2>1. writer = "none" /\ \A r \in Live : at[r].time <= boots /\ at[r].time \in Int
    BY <1>10 DEF MetricsInv, FileInv, DrainInv, TypeInv, Times, All
  <2>2. \A r \in Live : at[r].time <= boots + 1 /\ at[r].time # boots + 1
    BY <1>1, <2>1
  <2> QED
    BY <1>1, <1>10, <2>1, <2>2 DEF DrainInv
<1>14. FileInv'
  <2>1. ASSUME file[f].is = "saved" PROVE AtLeast(x, file[f].m)
    <3>1. x.counted \in [All -> Nat] /\ m.counted \in [All -> Nat] /\ file[f].m.counted \in [All -> Nat]
      <4>1. file[f].m \in Snapshots
        BY <1>4, <1>10, <1>11 DEF TypeInv, Snapshots
      <4>2. IsRecord(file[f].m)
        BY <4>1 DEF MetricsInv, SnapshotInv
      <4> QED
        BY <1>6, <1>9, <4>2, RecordFields
    <3>2. AtLeast(m, file[f].m)
      BY <1>6, <2>1
    <3> QED
      BY <1>9, <3>1, <3>2 DEF AtLeast
  <2>2. \A n \in 1 .. LastBoot : n > boots + 1 => file[10 + n].is = "absent"
    BY <1>1 DEF MetricsInv, FileInv
  <2>3. writer = "none"
    BY <1>10 DEF MetricsInv, FileInv
  <2>4. AtLeast(mem, file[path].m)' <=> AtLeast(x, file[f].m)
    BY <1>4, <1>9, <1>10 DEF AtLeast
  <2> QED
    BY <1>1, <1>4, <1>6, <1>9, <1>10, <2>1, <2>2, <2>3, <2>4 DEF FileInv
<1>15. FinalSave'
  BY <1>10 DEF FinalSave
<1> QED
  BY <1>11, <1>12, <1>13, <1>14, <1>15 DEF MetricsInv

-------------------------------------------------------------------------------
(* The steps of a process                                                    *)

(* Damage and deletion happen while no process runs.                       *)
LEMMA HarmStep ==
  ASSUME MetricsInv, NEW f \in Files, NEW result \in {Damaged, NoFile}, Harm(f, result) PROVE MetricsInv'
<1>1. /\ file = [g \in Files |-> file[g]] /\ file' = [file EXCEPT ![f] = result]
      /\ file[f].is = "saved" /\ last' = "other" /\ phase = "down" /\ damages \in Nat /\ damages' = damages + 1
      /\ UNCHANGED <<phase, path, mem, stopping, ticker, writer, copy, boots, archive, imports, served, at>>
  BY DEF Harm, MetricsInv, TypeInv
<1>2. \A g \in Files : file'[g] = IF g = f THEN result ELSE file[g]
  BY <1>1
<1>3. result.is \in {"absent", "damaged"} /\ IsRecord(result.m) /\ Counts(result.m)
  <2>1. Foreign(Empty(0))
    BY EmptyIsForeign
  <2>2. IsRecord(Empty(0)) /\ Counts(Empty(0))
    BY <2>1, CountsFrom DEF Foreign
  <2> HIDE DEF Empty
  <2> QED
    BY <2>2 DEF Damaged, NoFile
<1>4. TypeInv'
  BY <1>1, <1>2, <1>3 DEF MetricsInv, TypeInv
<1>5. SnapshotInv'
  <2>1. ASSUME NEW y \in Snapshots' PROVE IsRecord(y) /\ Counts(y)
    <3>1. y = result.m \/ y \in Snapshots
      BY <1>1, <1>2 DEF Snapshots
    <3> QED
      BY <1>3, <3>1 DEF MetricsInv, SnapshotInv
  <2> QED
    BY <1>1, <2>1 DEF SnapshotInv, Counts
<1>6. DrainInv'
  BY <1>1 DEF MetricsInv, DrainInv, FileInv
<1>7. FileInv'
  <2>1. ASSUME NEW n \in 1 .. LastBoot, n > boots PROVE file'[10 + n].is = "absent"
    <3>1. file[10 + n].is = "absent"
      BY <2>1 DEF MetricsInv, FileInv
    <3>2. 10 + n \in Files
      BY DEF Files, Spares
    <3> QED
      BY <1>1, <1>2, <3>1, <3>2
  <2> QED
    BY <1>1, <2>1 DEF MetricsInv, FileInv
<1>8. FinalSave'
  BY <1>1 DEF FinalSave
<1> QED
  BY <1>4, <1>5, <1>6, <1>7, <1>8 DEF MetricsInv

(* The phases of the process and its workers, with the metrics, the files  *)
(* and the requests as they are.                                           *)
LEMMA PhaseStep ==
  ASSUME MetricsInv, TickDue \/ Signal \/ ShutdownReturns \/ ShutdownTimesOut \/ CleanupDone \/ CleanupTimesOut
  PROVE  MetricsInv'
<1>1. UNCHANGED <<boots, damages, file, archive, imports, path, mem, served, at, writer, copy>>
  BY DEF TickDue, Signal, ShutdownReturns, ShutdownTimesOut, CleanupDone, CleanupTimesOut, disk
<1>2. phase # "down" /\ phase' \in {"up", "shutdown", "cleanup", "persist"}
  BY DEF TickDue, Signal, ShutdownReturns, ShutdownTimesOut, CleanupDone, CleanupTimesOut
<1>3. TypeInv'
  BY <1>1, <1>2 DEF MetricsInv, TypeInv
<1>4. SnapshotInv'
  <2>1. Snapshots' = Snapshots
    BY <1>1 DEF Snapshots
  <2> QED
    BY <1>1, <2>1 DEF MetricsInv, SnapshotInv, Counts
<1>5. DrainInv'
  <2>1. phase' \in {"cleanup", "persist"} => stopping'
    BY DEF TickDue, Signal, ShutdownReturns, ShutdownTimesOut, CleanupDone, CleanupTimesOut, MetricsInv, DrainInv
  <2>2. phase' = "persist" /\ last' # "other" => \A r \in Live : served[r] \notin {"active", "counted"}
    BY DEF TickDue, Signal, ShutdownReturns, ShutdownTimesOut, CleanupDone, CleanupTimesOut
  <2>3. phase # "persist"
    BY DEF TickDue, Signal, ShutdownReturns, ShutdownTimesOut, CleanupDone, CleanupTimesOut
  <2> QED
    BY <1>1, <1>2, <2>1, <2>2, <2>3 DEF MetricsInv, DrainInv
<1>6. FileInv'
  BY <1>1, <1>2 DEF MetricsInv, FileInv, AtLeast
<1>7. FinalSave'
  BY <1>2 DEF FinalSave
<1> QED
  BY <1>3, <1>4, <1>5, <1>6, <1>7 DEF MetricsInv

(* A request that is sent, or whose handler has returned, changes nothing  *)
(* that is counted.                                                        *)
LEMMA PassStep == ASSUME MetricsInv, NEW r \in Live, Send(r) \/ Leave(r) PROVE MetricsInv'
<1>1. UNCHANGED <<phase, boots, damages, file, archive, imports, path, mem, at, stopping, ticker, writer, copy, last>>
  BY DEF Send, Leave, process, disk
<1>2. /\ served \in [Live -> {"idle", "sent", "active", "counted", "over", "refused", "lost"}]
      /\ \/ served[r] = "idle" /\ served' = [served EXCEPT ![r] = "sent"]
         \/ served[r] = "counted" /\ served' = [served EXCEPT ![r] = "over"]
  BY DEF Send, Leave, MetricsInv, TypeInv
<1>3. TypeInv'
  BY <1>1, <1>2 DEF MetricsInv, TypeInv
<1>4. SnapshotInv'
  <2>1. Snapshots' = Snapshots
    BY <1>1 DEF Snapshots
  <2>2. ASSUME NEW q \in Live, served'[q] \in {"idle", "sent", "active", "refused"}
        PROVE  served[q] \in {"idle", "sent", "active", "refused"}
    BY <1>2, <2>2
  <2> QED
    BY <2>1, <2>2 DEF MetricsInv, SnapshotInv, Counts
<1>5. DrainInv'
  BY <1>1, <1>2 DEF MetricsInv, DrainInv
<1>6. FileInv'
  BY <1>1 DEF MetricsInv, FileInv, AtLeast
<1>7. FinalSave'
  BY <1>1 DEF MetricsInv, FinalSave
<1> QED
  BY <1>3, <1>4, <1>5, <1>6, <1>7 DEF MetricsInv

(* The drain lets a request in or refuses it.                              *)
LEMMA ArriveStep == ASSUME MetricsInv, NEW r \in Live, Arrive(r) PROVE MetricsInv'
<1>1. UNCHANGED <<phase, boots, damages, file, archive, imports, path, mem, stopping, ticker, writer, copy, last>>
  BY DEF Arrive, process, disk
<1>2. /\ served \in [Live -> {"idle", "sent", "active", "counted", "over", "refused", "lost"}]
      /\ phase # "down" /\ served[r] = "sent" /\ at \in [All -> Times] /\ r \in All
  BY DEF Arrive, MetricsInv, TypeInv, All
<1>3. /\ \A q \in Live \ {r} : served'[q] = served[q]
      /\ served'[r] \in {"active", "refused"} /\ (served'[r] = "active" <=> ~stopping)
      /\ served' \in [Live -> {"idle", "sent", "active", "counted", "over", "refused", "lost"}]
  BY <1>2 DEF Arrive
<1>4. /\ at' \in [All -> Times] /\ \A q \in All \ {r} : at'[q] = at[q]
      /\ at'[r] = at[r] \/ (at'[r].time = boots /\ ~stopping)
  <2>1. CASE stopping
    BY <1>2, <2>1 DEF Arrive
  <2>2. CASE ~stopping
    <3>1. PICK n \in 1 .. LastMinute : at' = [at EXCEPT ![r].minute = n, ![r].time = boots]
      BY <2>2 DEF Arrive
    <3>2. PICK b : b = [at EXCEPT ![r].minute = n]
      OBVIOUS
    <3>3. n \in Nat /\ boots \in Int
      BY StoreAssumption DEF MetricsInv, TypeInv
    <3>4. b \in [All -> Times] /\ \A q \in All \ {r} : b[q] = at[q]
      BY <1>2, <3>2, <3>3 DEF Times
    <3>5. at' = [b EXCEPT ![r].time = boots]
      BY <3>1, <3>2
    <3>6. at' \in [All -> Times] /\ \A q \in All \ {r} : at'[q] = b[q]
      BY <1>2, <3>3, <3>4, <3>5 DEF Times
    <3>7. at'[r].time = boots
      BY <1>2, <3>4, <3>5 DEF Times
    <3> QED
      BY <2>2, <3>4, <3>6, <3>7
  <2> QED
    BY <2>1, <2>2
<1>5. TypeInv'
  BY <1>1, <1>3, <1>4 DEF MetricsInv, TypeInv
<1>6. SnapshotInv'
  <2>1. Snapshots' = Snapshots
    BY <1>1 DEF Snapshots
  <2>2. ASSUME NEW q \in Live, served'[q] \in {"idle", "sent", "active", "refused"}
        PROVE  served[q] \in {"idle", "sent", "active", "refused"}
    BY <1>2, <1>3, <2>2
  <2> QED
    BY <2>1, <2>2 DEF MetricsInv, SnapshotInv, Counts
<1>7. DrainInv'
  <2>1. \A q \in Live : at'[q].time <= boots
    <3>1. \A q \in Live : at[q].time <= boots /\ q \in All
      BY DEF MetricsInv, DrainInv, All
    <3>2. boots <= boots
      BY DEF MetricsInv, TypeInv
    <3> QED
      BY <1>4, <3>1, <3>2
  <2>2. at[r].time # boots
    BY <1>2 DEF MetricsInv, DrainInv
  <2>3. ASSUME NEW q \in Live, at'[q].time = boots
        PROVE  served'[q] \in {"active", "counted", "over"} /\ (served'[q] # "active" => mem.counted[q] = 1)
    <3>1. CASE q = r
      BY <1>3, <1>4, <2>2, <2>3, <3>1
    <3>2. CASE q # r
      BY <1>2, <1>3, <1>4, <2>3, <3>2 DEF MetricsInv, DrainInv, All
    <3> QED
      BY <3>1, <3>2
  <2>4. CASE phase \in {"cleanup", "persist"}
    <3>1. stopping
      BY <2>4 DEF MetricsInv, DrainInv
    <3>2. \A q \in All : at'[q] = at[q]
      BY <1>4, <3>1
    <3>3. \A q \in Live : served'[q] \in {"active", "counted"} => served[q] \in {"active", "counted"}
      BY <1>3, <3>1
    <3>4. Live \subseteq All
      BY DEF All
    <3> QED
      BY <1>1, <2>1, <2>3, <3>1, <3>2, <3>3, <3>4 DEF MetricsInv, DrainInv
  <2>5. CASE phase \notin {"cleanup", "persist"}
    BY <1>1, <2>1, <2>3, <2>5 DEF MetricsInv, DrainInv
  <2> QED
    BY <2>4, <2>5
<1>8. FileInv'
  BY <1>1 DEF MetricsInv, FileInv, AtLeast
<1>9. FinalSave'
  BY <1>1, <1>2 DEF FinalSave
<1> QED
  BY <1>5, <1>6, <1>7, <1>8, <1>9 DEF MetricsInv

(* A finished request is counted once more than before, the others as      *)
(* they were.                                                              *)
LEMMA RecordIs ==
  ASSUME NEW m, IsRecord(m), NEW r \in All, NEW times \in [All -> Times]
  PROVE  /\ IsRecord(Record(m, r, times))
         /\ Record(m, r, times).series = AddMinute(m.series, times[r].minute)
         /\ \A q \in All : Record(m, r, times).counted[q] = m.counted[q] + (IF q = r THEN 1 ELSE 0)
<1>1. PICK x : x = RecordHistory(m, {r}, times)
  OBVIOUS
<1>2. \A q \in {r} : RowOf(times, q) \in Int \X Keys
  BY DEF RowOf, Times
<1>3. IsRecord(x) /\ x.series = m.series
      /\ \A q \in All : x.counted[q] = m.counted[q] + (IF q \in {r} THEN 1 ELSE 0)
  <2>1. IsRecord(m) /\ {r} \subseteq All
    OBVIOUS
  <2> QED
    BY ONLY <1>1, <1>2, <2>1, RecordHistoryIs
<1>4. PICK s, k : s = AddMinute(x.series, times[r].minute) /\ k = x.recent \cup {r}
  OBVIOUS
<1>5. PICK z : z = [x EXCEPT !.recent = k]
  OBVIOUS
<1>6. PICK y : y = [z EXCEPT !.series = s]
  OBVIOUS
<1>7. Record(m, r, times) = y
  BY <1>1, <1>4, <1>5, <1>6 DEF Record
<1>8. x = [counted |-> x.counted, recent |-> x.recent, rows |-> x.rows, unknown |-> x.unknown,
           ids |-> x.ids, sources |-> x.sources, since |-> x.since, series |-> x.series]
  BY <1>3, RecordFields
<1>9. z = [counted |-> x.counted, recent |-> k, rows |-> x.rows, unknown |-> x.unknown,
           ids |-> x.ids, sources |-> x.sources, since |-> x.since, series |-> x.series]
  BY <1>5, <1>8
<1>10. y = [counted |-> x.counted, recent |-> k, rows |-> x.rows, unknown |-> x.unknown,
            ids |-> x.ids, sources |-> x.sources, since |-> x.since, series |-> s]
  BY ONLY <1>6, <1>9
<1>11. k \subseteq All
  BY <1>3, <1>4, RecordFields
<1>12. IsRecord(y) /\ y.counted = x.counted /\ y.series = s
  BY <1>3, <1>10, <1>11, RecordFields
<1> QED
  BY <1>3, <1>4, <1>7, <1>12

LEMMA CountStep == ASSUME MetricsInv, NEW r \in Live, CountRequest(r) PROVE MetricsInv'
<1>1. UNCHANGED <<phase, boots, damages, file, archive, imports, path, at, stopping, ticker, writer, copy, last>>
  BY DEF CountRequest, disk
<1>2. /\ phase # "down" /\ served[r] = "active" /\ served' = [served EXCEPT ![r] = "counted"]
      /\ served \in [Live -> {"idle", "sent", "active", "counted", "over", "refused", "lost"}]
      /\ mem' = Record(mem, r, at) /\ at \in [All -> Times] /\ r \in All /\ Live \subseteq All
  BY DEF CountRequest, MetricsInv, TypeInv, All
<1>3. IsRecord(mem) /\ Counts(mem)
  BY DEF MetricsInv, SnapshotInv, Snapshots
<1>4. IsRecord(mem') /\ \A q \in All : mem'.counted[q] = mem.counted[q] + (IF q = r THEN 1 ELSE 0)
  BY <1>2, <1>3, RecordIs
<1>5. mem.counted \in [All -> Nat] /\ mem.counted[r] = 0
  BY <1>2, <1>3, RecordFields DEF Counts
<1>6. TypeInv'
  BY <1>1, <1>2 DEF MetricsInv, TypeInv
<1>7. SnapshotInv'
  <2>1. ASSUME NEW q \in Live, served'[q] \in {"idle", "sent", "active", "refused"}
        PROVE  q # r /\ served[q] \in {"idle", "sent", "active", "refused"}
    BY <1>2, <2>1
  <2>2. ASSUME NEW q \in Live
        PROVE  /\ mem'.counted[q] \in {0, 1}
               /\ served'[q] \in {"idle", "sent", "active", "refused"} => mem'.counted[q] = 0
    BY <1>2, <1>3, <1>4, <1>5, <2>1 DEF Counts
  <2>3. ASSUME NEW y \in Snapshots', NEW q \in Live
        PROVE  /\ IsRecord(y) /\ y.counted[q] \in {0, 1}
               /\ served'[q] \in {"idle", "sent", "active", "refused"} => y.counted[q] = 0
    <3>1. y = mem' \/ y \in Snapshots
      BY <1>1 DEF Snapshots
    <3>2. CASE y = mem'
      BY <1>4, <2>2, <3>2
    <3>3. CASE y \in Snapshots
      BY <2>1, <3>3 DEF MetricsInv, SnapshotInv, Counts
    <3> QED
      BY <3>1, <3>2, <3>3
  <2>4. ASSUME NEW y \in Snapshots' PROVE IsRecord(y)
    <3>1. y = mem' \/ y \in Snapshots
      BY <1>1 DEF Snapshots
    <3> QED
      BY <1>4, <3>1 DEF MetricsInv, SnapshotInv
  <2> QED
    BY <2>3, <2>4 DEF SnapshotInv, Counts
<1>8. DrainInv'
  <2>1. ASSUME NEW q \in Live, at[q].time = boots
        PROVE  served'[q] \in {"active", "counted", "over"} /\ (served'[q] # "active" => mem'.counted[q] = 1)
    <3>1. served[q] \in {"active", "counted", "over"} /\ (served[q] # "active" => mem.counted[q] = 1)
      BY <1>2, <2>1 DEF MetricsInv, DrainInv
    <3> QED
      BY <1>2, <1>4, <1>5, <3>1
  <2>2. ~(phase = "persist" /\ last # "other")
    BY <1>2 DEF MetricsInv, DrainInv
  <2> QED
    BY <1>1, <2>1, <2>2 DEF MetricsInv, DrainInv
<1>9. FileInv'
  <2>1. ASSUME NEW x, x.counted \in [All -> Nat], AtLeast(mem, x) PROVE \A q \in All : mem'.counted[q] >= x.counted[q]
    BY <1>4, <1>5, <2>1 DEF AtLeast
  <2>2. copy.counted \in [All -> Nat] /\ file[path].m.counted \in [All -> Nat]
    <3>1. copy \in Snapshots /\ file[path].m \in Snapshots
      BY DEF Snapshots, MetricsInv, TypeInv
    <3> QED
      BY <3>1, RecordFields DEF MetricsInv, SnapshotInv
  <2> QED
    BY <1>1, <2>1, <2>2 DEF MetricsInv, FileInv, AtLeast
<1>10. FinalSave'
  BY <1>1, <1>2 DEF FinalSave
<1> QED
  BY <1>6, <1>7, <1>8, <1>9, <1>10 DEF MetricsInv

-------------------------------------------------------------------------------
(* Saves and the end                                                         *)

LEMMA SaveBeginsStep == ASSUME MetricsInv, NEW who \in {"ticker", "exit"}, SaveBegins(who) PROVE MetricsInv'
<1>1. UNCHANGED <<boots, damages, file, archive, imports, phase, path, mem, served, at, stopping, ticker, last>>
  BY DEF SaveBegins, disk
<1>2. writer' = who /\ copy' = mem /\ phase # "down" /\ (who = "exit" => phase = "persist")
  BY DEF SaveBegins
<1>3. TypeInv'
  BY <1>1, <1>2 DEF MetricsInv, TypeInv
<1>4. SnapshotInv'
  <2>1. \A y \in Snapshots' : y \in Snapshots
    BY <1>1, <1>2 DEF Snapshots
  <2> QED
    BY <1>1, <2>1 DEF MetricsInv, SnapshotInv, Counts
<1>5. DrainInv'
  <2>1. ASSUME phase = "persist", last # "other", NEW r \in Live, at[r].time = boots PROVE mem.counted[r] = 1
    BY <2>1, <1>2 DEF MetricsInv, DrainInv
  <2> QED
    BY <1>1, <1>2, <2>1 DEF MetricsInv, DrainInv
<1>6. FileInv'
  <2>1. AtLeast(mem, mem)
    <3>1. IsRecord(mem)
      BY DEF MetricsInv, SnapshotInv, Snapshots
    <3> QED
      BY <3>1, SameAtLeast
  <2> QED
    BY <1>1, <1>2, <2>1 DEF MetricsInv, FileInv, AtLeast
<1>7. FinalSave'
  BY <1>1, <1>2 DEF FinalSave
<1> QED
  BY <1>3, <1>4, <1>5, <1>6, <1>7 DEF MetricsInv

(* The snapshot of a save is at least what it replaces.                    *)
LEMMA WrittenIs ==
  ASSUME MetricsInv, NEW saved \in BOOLEAN, SaveEnds(saved)
  PROVE  /\ phase # "down" /\ path \in Files
         /\ \A f \in Files : file'[f] = IF saved /\ f = path THEN Holds(copy) ELSE file[f]
         /\ file' = [f \in Files |-> file'[f]]
         /\ file[path].is # "damaged" /\ (file[path].is = "saved" => AtLeast(copy, file[path].m))
         /\ AtLeast(mem, copy)
<1>1. file = [f \in Files |-> file[f]] /\ path \in Files
  BY DEF MetricsInv, TypeInv
<1>2. writer # "none" /\ phase # "down"
  BY DEF SaveEnds, MetricsInv, FileInv
<1>3. file' = IF saved THEN [file EXCEPT ![path] = Holds(copy)] ELSE file
  BY DEF SaveEnds
<1>4. /\ \A f \in Files : file'[f] = IF saved /\ f = path THEN Holds(copy) ELSE file[f]
      /\ file' = [f \in Files |-> file'[f]]
  <2>1. PICK h : h = Holds(copy)
    OBVIOUS
  <2>2. CASE saved
    BY <1>1, <1>3, <2>1, <2>2
  <2>3. CASE ~saved
    BY <1>1, <1>3, <2>3
  <2> QED
    BY <2>2, <2>3
<1> QED
  BY <1>1, <1>2, <1>4 DEF MetricsInv, FileInv

(* What is on the disk after a step that writes at most this snapshot.     *)
LEMMA WrittenSnapshots ==
  ASSUME MetricsInv, NEW saved \in BOOLEAN, SaveEnds(saved),
         NEW y \in {file'[f].m : f \in Files}
  PROVE  IsRecord(y) /\ Counts(y)
<1>1. y \in Snapshots
  BY WrittenIs DEF Snapshots, Holds
<1> QED
  BY <1>1 DEF MetricsInv, SnapshotInv

LEMMA SpareAbsent ==
  ASSUME MetricsInv, NEW saved \in BOOLEAN, SaveEnds(saved), NEW n \in 1 .. LastBoot, n > boots
  PROVE  file'[10 + n].is = "absent"
<1>1. file[10 + n].is = "absent" /\ path # 10 + n
  <2>1. boots \in Nat
    BY StoreAssumption DEF MetricsInv, TypeInv
  <2>2. path \in {0, 1} \cup {10 + k : k \in 1 .. boots}
    BY DEF MetricsInv, FileInv, Main, RecoveryFile
  <2> QED
    BY <2>1, <2>2 DEF MetricsInv, FileInv
<1>2. 10 + n \in Files
  BY DEF Files, Spares
<1> QED
  BY <1>1, <1>2, WrittenIs

(* The ticker's save ends and the process goes on.                         *)
LEMMA TickerSaveStep ==
  ASSUME MetricsInv, NEW saved \in BOOLEAN, SaveEnds(saved), writer # "exit" PROVE MetricsInv'
<1>1. /\ UNCHANGED <<phase, path, mem, served, stopping, last, boots, damages, archive, imports, at>>
      /\ writer' = "none" /\ copy' = Empty(0)
  BY DEF SaveEnds
<1>2. /\ phase # "down" /\ path \in Files
      /\ \A f \in Files : file'[f] = IF saved /\ f = path THEN Holds(copy) ELSE file[f]
      /\ file' = [f \in Files |-> file'[f]]
      /\ file[path].is # "damaged" /\ (file[path].is = "saved" => AtLeast(copy, file[path].m))
      /\ AtLeast(mem, copy)
  BY WrittenIs
<1>3. TypeInv'
  BY <1>1, <1>2 DEF MetricsInv, TypeInv, Holds
<1>4. SnapshotInv'
  <2>1. IsRecord(mem) /\ Counts(mem)
    BY DEF MetricsInv, SnapshotInv, Snapshots
  <2>2. PICK e : e = Empty(0)
    OBVIOUS
  <2>3. IsRecord(e) /\ Counts(e)
    <3>1. Foreign(e)
      BY ONLY <2>2, EmptyIsForeign
    <3> QED
      BY ONLY <3>1, CountsFrom DEF Foreign
  <2>4. ASSUME NEW y \in Snapshots' PROVE IsRecord(y) /\ Counts(y)
    <3>1. y = mem \/ y = e \/ y \in {file'[f].m : f \in Files}
      BY <1>1, <2>2 DEF Snapshots
    <3> QED
      BY <2>1, <2>3, <3>1, WrittenSnapshots
  <2> QED
    BY <1>1, <2>4 DEF SnapshotInv, Counts
<1>5. DrainInv'
  BY <1>1 DEF MetricsInv, DrainInv
<1>6. FileInv'
  <2>1. file'[path].is # "damaged" /\ (file'[path].is = "saved" => AtLeast(mem, file'[path].m))
    <3>1. CASE saved
      BY <1>2, <3>1 DEF Holds
    <3>2. CASE ~saved
      BY <1>2, <3>2 DEF MetricsInv, FileInv
    <3> QED
      BY <3>1, <3>2
  <2>2. \A n \in 1 .. LastBoot : n > boots => file'[10 + n].is = "absent"
    BY SpareAbsent
  <2> QED
    BY <1>1, <1>2, <2>1, <2>2 DEF MetricsInv, FileInv, AtLeast
<1>7. FinalSave'
  BY <1>1, <1>2 DEF FinalSave
<1> QED
  BY <1>3, <1>4, <1>5, <1>6, <1>7 DEF MetricsInv

(* The end of the process: what was on the way is lost, and the counts of  *)
(* the files stay those of requests that were counted.                     *)
LEMMA EndedParts ==
  ASSUME MetricsInv, NEW how \in {"clean", "other"}, Ended(how), UNCHANGED <<boots, damages, archive, imports, at>>,
         file' = [f \in Files |-> file'[f]],
         \A f \in Files : file'[f].is \in {"absent", "saved", "damaged"},
         \A f \in Files : IsRecord(file'[f].m) /\ Counts(file'[f].m),
         \A n \in 1 .. LastBoot : n > boots => file'[10 + n].is = "absent"
  PROVE  TypeInv' /\ SnapshotInv' /\ DrainInv' /\ FileInv'
<1>1. /\ phase' = "down" /\ last' = how /\ writer' = "none" /\ mem' = Empty(0) /\ copy' = Empty(0)
      /\ UNCHANGED <<path, stopping>>
      /\ served' = [r \in Live |-> IF served[r] \in {"sent", "active", "counted"} THEN "lost" ELSE served[r]]
  BY DEF Ended
<1>2. served \in [Live -> {"idle", "sent", "active", "counted", "over", "refused", "lost"}]
  BY DEF MetricsInv, TypeInv
<1>3. TypeInv'
  BY <1>1, <1>2 DEF MetricsInv, TypeInv
<1>4. SnapshotInv'
  <2>1. PICK e : e = Empty(0)
    OBVIOUS
  <2>2. IsRecord(e) /\ Counts(e)
    <3>1. Foreign(e)
      BY ONLY <2>1, EmptyIsForeign
    <3> QED
      BY ONLY <3>1, CountsFrom DEF Foreign
  <2>3. ASSUME NEW y \in Snapshots' PROVE IsRecord(y) /\ Counts(y)
    <3>1. y = e \/ \E f \in Files : y = file'[f].m
      BY <1>1, <2>1 DEF Snapshots
    <3> QED
      BY <2>2, <3>1
  <2>4. \A r \in Live : served'[r] \in {"idle", "sent", "active", "refused"} => served[r] \in {"idle", "sent", "active", "refused"}
    BY <1>1, <1>2
  <2> QED
    BY <2>3, <2>4 DEF SnapshotInv, Counts
<1>5. DrainInv'
  BY <1>1 DEF MetricsInv, DrainInv
<1>6. FileInv'
  BY <1>1 DEF MetricsInv, FileInv
<1> QED
  BY <1>3, <1>4, <1>5, <1>6

(* The save of the exit is the last step of the process; when it succeeds  *)
(* and the wait was not given up, it has every request that was let in.    *)
LEMMA ExitSaveStep ==
  ASSUME MetricsInv, NEW saved \in BOOLEAN, SaveEnds(saved), writer = "exit" PROVE MetricsInv'
<1>1. PICK how : how = IF saved /\ last # "other" THEN "clean" ELSE "other"
  OBVIOUS
<1>2. Ended(how) /\ UNCHANGED <<boots, damages, archive, imports, at>> /\ how \in {"clean", "other"}
  BY <1>1 DEF SaveEnds
<1>3. /\ path \in Files
      /\ \A f \in Files : file'[f] = IF saved /\ f = path THEN Holds(copy) ELSE file[f]
      /\ file' = [f \in Files |-> file'[f]]
  BY WrittenIs
<1>4. \A f \in Files : file'[f].is \in {"absent", "saved", "damaged"}
  BY <1>3 DEF MetricsInv, TypeInv, Holds
<1>5. \A f \in Files : IsRecord(file'[f].m) /\ Counts(file'[f].m)
  BY WrittenSnapshots
<1>6. \A n \in 1 .. LastBoot : n > boots => file'[10 + n].is = "absent"
  BY SpareAbsent
<1>7. TypeInv' /\ SnapshotInv' /\ DrainInv' /\ FileInv'
  BY <1>2, <1>3, <1>4, <1>5, <1>6, EndedParts
<1>8. FinalSave'
  <2>1. path' = path /\ last' = how
    BY <1>2 DEF Ended
  <2>2. SUFFICES ASSUME how = "clean", NEW r \in Live, at[r].time = boots PROVE file'[path].m.counted[r] = 1
    BY <1>2, <2>1 DEF FinalSave
  <2>3. saved /\ last # "other"
    BY <1>1, <2>2
  <2>4. file'[path] = Holds(copy)
    BY <1>3, <2>3
  <2>5. copy.counted[r] = 1
    BY <2>2, <2>3 DEF MetricsInv, DrainInv
  <2> QED
    BY <2>4, <2>5 DEF Holds
<1> QED
  BY <1>7, <1>8 DEF MetricsInv

LEMMA CrashStep == ASSUME MetricsInv, Crash PROVE MetricsInv'
<1>1. PICK how : how = "other"
  OBVIOUS
<1>2. Ended(how) /\ UNCHANGED <<boots, damages, archive, imports, at>> /\ how \in {"clean", "other"} /\ file' = file
  BY <1>1 DEF Crash, disk
<1>3. /\ file = [f \in Files |-> file[f]]
      /\ \A f \in Files : file[f].is \in {"absent", "saved", "damaged"}
      /\ \A f \in Files : IsRecord(file[f].m) /\ Counts(file[f].m)
      /\ \A n \in 1 .. LastBoot : n > boots => file[10 + n].is = "absent"
  BY DEF MetricsInv, TypeInv, SnapshotInv, Snapshots, FileInv
<1>4. TypeInv' /\ SnapshotInv' /\ DrainInv' /\ FileInv'
  BY <1>2, <1>3, EndedParts
<1>5. FinalSave'
  BY <1>1, <1>2 DEF FinalSave, Ended
<1> QED
  BY <1>4, <1>5 DEF MetricsInv

LEMMA StutterStep == ASSUME MetricsInv, UNCHANGED vars PROVE MetricsInv'
<1>1. UNCHANGED <<phase, boots, damages, file, archive, imports, path, mem, served, at, stopping, ticker, writer, copy, last>>
  BY DEF vars
<1>2. TypeInv'
  BY <1>1 DEF MetricsInv, TypeInv
<1>3. SnapshotInv'
  <2>1. Snapshots' = Snapshots
    BY <1>1 DEF Snapshots
  <2> QED
    BY <1>1, <2>1 DEF MetricsInv, SnapshotInv, Counts
<1>4. DrainInv'
  BY <1>1 DEF MetricsInv, DrainInv
<1>5. FileInv'
  BY <1>1 DEF MetricsInv, FileInv, AtLeast
<1>6. FinalSave'
  BY <1>1 DEF MetricsInv, FinalSave
<1> QED
  BY <1>2, <1>3, <1>4, <1>5, <1>6 DEF MetricsInv

LEMMA InitMetrics == ASSUME Init PROVE MetricsInv
<1>1. PICK first \in FirstMain :
        file = [f \in Files |-> IF f = Main /\ first.kind # "absent" THEN Holds(FromArchive(first, 1)) ELSE NoFile]
  BY DEF Init
<1>2. PICK held, e : held = FromArchive(first, 1) /\ e = Empty(0)
  OBVIOUS
<1>3. Foreign(held) /\ Foreign(e)
  <2>1. first \in Archives
    BY StoreAssumption
  <2> QED
    BY <1>2, <2>1, FromArchiveIs, EmptyIsForeign
<1>4. \A f \in Files : (file[f] = [is |-> "saved", m |-> held] /\ f = Main) \/ file[f] = [is |-> "absent", m |-> e]
  BY <1>1, <1>2 DEF Holds, NoFile
<1>5. /\ phase = "down" /\ boots = 0 /\ damages = 0 /\ archive \in Alternate /\ imports \in Imports /\ path = Main
      /\ mem = e /\ copy = e /\ writer = "none" /\ last = "none" /\ served = [r \in Live |-> "idle"]
      /\ at = [r \in All |-> IF r \in Past THEN PastAt[r]
                             ELSE [day |-> Today, key |-> "live", time |-> 0, minute |-> 0]]
  BY <1>2 DEF Init
<1>6. at \in [All -> Times] /\ \A r \in Live : at[r].time = 0
  <2>1. \A r \in Past : PastAt[r] \in Times
    BY StoreAssumption
  <2>2. PICK key : key = "live"
    OBVIOUS
  <2>3. key \in Keys
    BY ONLY <2>2 DEF Keys
  <2>4. PICK new : new = [day |-> Today, key |-> key, time |-> 0, minute |-> 0]
    OBVIOUS
  <2>5. new \in Times /\ new.time = 0
    BY ONLY HistoryAssumption, <2>3, <2>4 DEF Times
  <2>6. at = [r \in All |-> IF r \in Past THEN PastAt[r] ELSE new]
    BY <1>5, <2>2, <2>4
  <2> QED
    BY <2>1, <2>5, <2>6, HistoryAssumption DEF All
<1>7. TypeInv
  <2>1. file = [f \in Files |-> file[f]]
    BY <1>1
  <2>2. \A f \in Files : file[f].is \in {"absent", "saved", "damaged"}
    BY <1>4
  <2>3. boots \in 0 .. LastBoot /\ damages \in Nat /\ path \in Files
    BY <1>5, StoreAssumption DEF Files
  <2>4. imports \in Imports /\ served \in [Live -> {"idle", "sent", "active", "counted", "over", "refused", "lost"}]
    BY <1>5 DEF Init
  <2> QED
    BY <1>5, <1>6, <2>1, <2>2, <2>3, <2>4 DEF TypeInv
<1>8. SnapshotInv
  <2>1. \A m \in Snapshots : m = held \/ m = e
    BY <1>4, <1>5 DEF Snapshots
  <2> QED
    BY <1>3, <2>1, CountsFrom DEF SnapshotInv, Foreign
<1>9. DrainInv
  BY <1>5, <1>6 DEF DrainInv
<1>10. FileInv
  <2>1. \A n \in 1 .. LastBoot : 10 + n \in Files /\ 10 + n # Main
    BY DEF Files, Spares, Main
  <2> QED
    BY <1>4, <1>5, <2>1 DEF FileInv
<1>11. FinalSave
  BY <1>5 DEF FinalSave
<1> QED
  BY <1>7, <1>8, <1>9, <1>10, <1>11 DEF MetricsInv

LEMMA MetricsStep == MetricsInv /\ [Next]_vars => MetricsInv'
<1>1. ASSUME MetricsInv, NEW f \in Files, Damage(f) \/ Delete(f) PROVE MetricsInv'
  BY <1>1, HarmStep DEF Damage, Delete
<1>2. ASSUME MetricsInv, NEW saved \in BOOLEAN, SaveEnds(saved) PROVE MetricsInv'
  BY <1>2, TickerSaveStep, ExitSaveStep
<1> QED
  BY <1>1, <1>2, BootStep, PhaseStep, PassStep, ArriveStep, CountStep, SaveBeginsStep, CrashStep, StutterStep DEF Next

-------------------------------------------------------------------------------
(* What the snapshots in memory, in the hands of a saver and on the disk   *)
(* count, what the drain says of the requests, and what the file of this   *)
(* process holds, over any number of starts (metrics_storage.go, run.go).  *)
THEOREM MetricsInvariant == Spec => []MetricsInv
<1> QED
  BY InitMetrics, MetricsStep, PTL DEF Spec

(* A process that was told to stop, and neither gave up the wait for its   *)
(* requests nor failed to write, has saved every request it admitted       *)
(* (shutdownAndPersist).                                                   *)
THEOREM LastSaveComplete == Spec => []FinalSave
<1>1. MetricsInv => FinalSave
  BY DEF MetricsInv
<1> QED
  BY <1>1, MetricsInvariant, PTL

(* Whatever was saved, lost, loaded and imported on the way, no request    *)
(* that this gateway served is counted twice (Record, ImportHistory, Load). *)
ServedOnce == \A r \in Live : mem.counted[r] <= 1
THEOREM ServedCountedOnce == Spec => []ServedOnce
<1>1. MetricsInv => ServedOnce
  BY DEF MetricsInv, SnapshotInv, Snapshots, Counts, ServedOnce
<1> QED
  BY <1>1, MetricsInvariant, PTL

(* The program never writes over a damaged file, and never replaces a      *)
(* saved file by one that has fewer of its counts: not by a save that      *)
(* overtakes another, nor after a failed load (loadMetricsStorage).        *)
THEOREM NothingOverwritten == Spec => FilesKept
<1> DEFINE Kept(f) == /\ file[f].is = "damaged" => file'[f] = file[f]
                      /\ file[f].is = "saved" => /\ file'[f].is = "saved"
                                                 /\ \A r \in All : file'[f].m.counted[r] >= file[f].m.counted[r]
<1>1. ASSUME MetricsInv, [Next]_vars, damages' = damages, NEW f \in Files PROVE Kept(f)
  <2>1. ASSUME file' = file PROVE Kept(f)
    <3>1. IsRecord(file[f].m)
      BY <1>1 DEF MetricsInv, SnapshotInv, Snapshots
    <3>2. AtLeast(file[f].m, file[f].m)
      BY <3>1, SameAtLeast
    <3> QED
      BY <2>1, <3>2 DEF AtLeast
  <2>2. CASE \E saved \in BOOLEAN : SaveEnds(saved)
    <3>1. PICK saved \in BOOLEAN : SaveEnds(saved)
      BY <2>2
    <3>2. CASE saved /\ f = path
      <4>1. file'[f] = Holds(copy) /\ file[f].is # "damaged" /\ (file[f].is = "saved" => AtLeast(copy, file[f].m))
        BY <1>1, <3>1, <3>2, WrittenIs
      <4> QED
        BY <4>1 DEF Holds, AtLeast
    <3>3. CASE ~(saved /\ f = path)
      <4>1. file'[f] = file[f]
        BY <1>1, <3>1, <3>3, WrittenIs
      <4>2. AtLeast(file[f].m, file[f].m)
        <5>1. IsRecord(file[f].m)
          BY <1>1 DEF MetricsInv, SnapshotInv, Snapshots
        <5> QED
          BY <5>1, SameAtLeast
      <4> QED
        BY <4>1, <4>2 DEF AtLeast
    <3> QED
      BY <3>2, <3>3
  <2>3. CASE ~ \E saved \in BOOLEAN : SaveEnds(saved)
    <3>1. \A g \in Files : ~Damage(g) /\ ~Delete(g)
      <4>1. damages \in Nat
        BY <1>1 DEF MetricsInv, TypeInv
      <4> QED
        BY <1>1, <4>1 DEF Damage, Delete, Harm
    <3>2. \/ Boot \/ TickDue \/ Signal \/ ShutdownReturns \/ ShutdownTimesOut \/ CleanupDone
          \/ CleanupTimesOut \/ Crash \/ UNCHANGED vars
          \/ \E r \in Live : Send(r) \/ Arrive(r) \/ CountRequest(r) \/ Leave(r)
          \/ \E who \in {"ticker", "exit"} : SaveBegins(who)
      BY <1>1, <2>3, <3>1 DEF Next
    <3>3. file' = file
      BY <3>2 DEF Boot, TickDue, Signal, ShutdownReturns, ShutdownTimesOut, CleanupDone, CleanupTimesOut, Crash,
                  Send, Arrive, CountRequest, Leave, SaveBegins, vars, disk
    <3> QED
      BY <2>1, <3>3
  <2> QED
    BY <2>2, <2>3
<1>2. MetricsInv /\ [Next]_vars => [damages' = damages => \A f \in Files : Kept(f)]_vars
  BY <1>1
<1> QED
  BY <1>2, MetricsInvariant, PTL DEF Spec, FilesKept

-------------------------------------------------------------------------------
(* The minutes                                                               *)

Buckets == [minute : Nat, total : Nat]
(* The requests of a minute that counted has, and what MinutesAgree says of *)
(* the minutes s and these counts.                                         *)
CountedIn(counted, times, n) == {r \in Live : counted[r] > 0 /\ times[r].minute = n}
Ordered(s) == \A i, j \in DOMAIN s : i < j => s[i].minute < s[j].minute
Right(s, counted, times) ==
  \A i \in DOMAIN s : /\ CountedIn(counted, times, s[i].minute) # {}
                      /\ s[i].total = Cardinality(CountedIn(counted, times, s[i].minute))
Latest(s, counted, times, cap) ==
  \A r \in Live : counted[r] > 0 /\ (\A i \in DOMAIN s : s[i].minute # times[r].minute) =>
    Len(s) = cap /\ \A i \in DOMAIN s : times[r].minute < s[i].minute
Agrees(s, counted, times) ==
  /\ s \in Seq(Buckets) /\ IsFiniteSet({r \in Live : counted[r] > 0})
  /\ Ordered(s) /\ Right(s, counted, times) /\ Len(s) <= SeriesCap /\ Latest(s, counted, times, SeriesCap)

(* Where the search finds a minute, or where it belongs.                   *)
Place(s, minute) == Min({n \in DOMAIN s : s[n].minute >= minute} \cup {Len(s) + 1})
Placed(s, minute) ==
  IF Place(s, minute) <= Len(s) /\ s[Place(s, minute)].minute = minute
  THEN [s EXCEPT ![Place(s, minute)].total = @ + 1]
  ELSE InsertAt(s, Place(s, minute), [minute |-> minute, total |-> 1])
LEMMA AddMinuteIs ==
  ASSUME NEW s, NEW minute
  PROVE  AddMinute(s, minute) =
           SubSeq(Placed(s, minute), Max({1, Len(Placed(s, minute)) - SeriesCap + 1}), Len(Placed(s, minute)))
BY DEF AddMinute, Placed, Place

LEMMA PlaceIs ==
  ASSUME NEW s \in Seq(Buckets), Ordered(s), NEW minute \in Nat
  PROVE  /\ Place(s, minute) \in 1 .. Len(s) + 1
         /\ \A n \in DOMAIN s : n < Place(s, minute) <=> s[n].minute < minute
<1> DEFINE later == {n \in DOMAIN s : s[n].minute >= minute} \cup {Len(s) + 1}
<1>1. Len(s) \in Nat /\ DOMAIN s = 1 .. Len(s)
  BY LenProperties
<1>2. \A n \in DOMAIN s : s[n] \in Buckets /\ s[n].minute \in Nat
  <2>1. \A n \in DOMAIN s : s[n] \in Buckets
    BY <1>1, ElementOfSeq
  <2> QED
    BY <2>1 DEF Buckets
<1>3. PICK k \in later : \A n \in later : k <= n
  <2>1. later \subseteq Nat /\ later # {}
    BY <1>1
  <2> QED
    BY <2>1, NatMin
<1>4. later \subseteq Int
  BY <1>1
<1>5. Place(s, minute) = k
  <2>1. \A n \in later : (\A x \in later : n <= x) => n = k
    BY <1>3, <1>4
  <2> QED
    BY <1>3, <2>1 DEF Place, Min
<1>6. ASSUME NEW n \in DOMAIN s, n < k PROVE s[n].minute < minute
  <2>1. n \notin later
    BY <1>1, <1>3, <1>4, <1>6
  <2> QED
    BY <1>2, <2>1
<1>7. ASSUME NEW n \in DOMAIN s, ~(n < k) PROVE ~(s[n].minute < minute)
  <2>1. k \in DOMAIN s /\ s[k].minute >= minute
    BY <1>1, <1>3, <1>7
  <2>2. n = k \/ s[k].minute < s[n].minute
    BY <1>1, <1>7, <2>1 DEF Ordered
  <2> QED
    BY <1>2, <2>1, <2>2
<1> QED
  BY <1>1, <1>3, <1>5, <1>6, <1>7

(* A request of a minute there is: its bucket counts one more.             *)
LEMMA FoundMinute ==
  ASSUME NEW s \in Seq(Buckets), Ordered(s), NEW minute \in Nat, NEW k \in DOMAIN s, s[k].minute = minute
  PROVE  /\ Placed(s, minute) \in Seq(Buckets) /\ Len(Placed(s, minute)) = Len(s)
         /\ \A n \in DOMAIN s : Placed(s, minute)[n] = IF n = k THEN [minute |-> minute, total |-> s[n].total + 1] ELSE s[n]
<1>1. Len(s) \in Nat /\ DOMAIN s = 1 .. Len(s)
  BY LenProperties
<1>2. \A n \in DOMAIN s : s[n] \in Buckets
  BY <1>1, ElementOfSeq
<1>3. PICK p : p = Place(s, minute)
  OBVIOUS
<1>4. p \in 1 .. Len(s) + 1 /\ \A n \in DOMAIN s : n < p <=> s[n].minute < minute
  BY <1>3, PlaceIs
<1>5. p = k
  <2>1. ~(k < p)
    BY <1>4
  <2>2. p \in DOMAIN s
    BY <1>1, <1>4, <2>1
  <2>3. ~(s[p].minute < minute)
    BY <1>1, <1>4, <2>2
  <2> QED
    BY <1>1, <2>1, <2>2, <2>3 DEF Ordered
<1>6. PICK b : b = [minute |-> minute, total |-> s[k].total + 1]
  OBVIOUS
<1>7. b \in Buckets /\ [s[k] EXCEPT !.total = @ + 1] = b
  <2>1. s[k] \in Buckets
    BY <1>2
  <2>2. PICK x : x = s[k]
    OBVIOUS
  <2>3. x \in Buckets /\ x.minute = minute /\ b = [minute |-> minute, total |-> x.total + 1]
    BY <1>6, <2>1, <2>2
  <2>4. x = [minute |-> x.minute, total |-> x.total] /\ x.minute \in Nat /\ x.total \in Nat
    BY ONLY <2>3 DEF Buckets
  <2>5. b \in Buckets
    BY ONLY <2>3, <2>4 DEF Buckets
  <2>6. [x EXCEPT !.total = @ + 1] = b
    BY ONLY <2>3, <2>4
  <2> QED
    BY <2>2, <2>5, <2>6
<1>8. Placed(s, minute) = [s EXCEPT ![k] = b]
  <2>1. Placed(s, minute) = [s EXCEPT ![k].total = @ + 1]
    BY <1>1, <1>3, <1>5 DEF Placed
  <2> QED
    BY <1>7, <2>1
<1>9. [s EXCEPT ![k] = b] \in Seq(Buckets) /\ Len([s EXCEPT ![k] = b]) = Len(s)
      /\ \A n \in DOMAIN s : [s EXCEPT ![k] = b][n] = IF n = k THEN b ELSE s[n]
  BY <1>1, <1>2, <1>7
<1> QED
  BY <1>6, <1>8, <1>9

(* A request of another minute: a new bucket, in order.                    *)
LEMMA NewMinute ==
  ASSUME NEW s \in Seq(Buckets), Ordered(s), NEW minute \in Nat, \A n \in DOMAIN s : s[n].minute # minute,
         NEW p, p = Place(s, minute)
  PROVE  /\ Placed(s, minute) \in Seq(Buckets) /\ Len(Placed(s, minute)) = Len(s) + 1
         /\ \A n \in 1 .. Len(s) + 1 :
              Placed(s, minute)[n] = IF n < p THEN s[n] ELSE IF n = p THEN [minute |-> minute, total |-> 1] ELSE s[n - 1]
<1>1. Len(s) \in Nat /\ DOMAIN s = 1 .. Len(s)
  BY LenProperties
<1>2. p \in 1 .. Len(s) + 1
  BY PlaceIs
<1>3. PICK b : b = [minute |-> minute, total |-> 1]
  OBVIOUS
<1>4. b \in Buckets
  BY <1>3 DEF Buckets
<1>5. PICK u, v : u = SubSeq(s, 1, p - 1) /\ v = SubSeq(s, p, Len(s))
  OBVIOUS
<1>6. u \in Seq(Buckets) /\ Len(u) = p - 1 /\ \A n \in 1 .. p - 1 : u[n] = s[n]
  <2>1. \A n \in 1 .. p - 1 : s[n] \in Buckets
    BY <1>1, <1>2, ElementOfSeq
  <2> QED
    BY <1>1, <1>2, <1>5, <2>1, SubSeqProperties
<1>7. v \in Seq(Buckets) /\ Len(v) = Len(s) - p + 1 /\ \A n \in 1 .. Len(s) - p + 1 : v[n] = s[p + n - 1]
  <2>1. \A n \in p .. Len(s) : s[n] \in Buckets
    BY <1>1, <1>2, ElementOfSeq
  <2> QED
    BY <1>1, <1>2, <1>5, <2>1, SubSeqProperties
<1>8. Placed(s, minute) = (u \o <<b>>) \o v
  <2>1. ~(p <= Len(s) /\ s[p].minute = minute)
    BY <1>1, <1>2
  <2>2. Placed(s, minute) = InsertAt(s, p, b)
    BY <1>3, <2>1 DEF Placed
  <2> QED
    BY <1>5, <2>2 DEF InsertAt
<1>9. PICK w : w = u \o <<b>>
  OBVIOUS
<1>10. w \in Seq(Buckets) /\ Len(w) = p /\ \A n \in 1 .. p : w[n] = IF n < p THEN s[n] ELSE b
  <2>1. <<b>> \in Seq(Buckets) /\ Len(<<b>>) = 1 /\ <<b>>[1] = b
    BY <1>4
  <2> QED
    BY <1>2, <1>6, <1>9, <2>1, ConcatProperties
<1>11. /\ w \o v \in Seq(Buckets) /\ Len(w \o v) = Len(s) + 1
       /\ \A n \in 1 .. Len(s) + 1 : (w \o v)[n] = IF n <= p THEN w[n] ELSE v[n - p]
  BY <1>1, <1>2, <1>7, <1>10, ConcatProperties
<1>12. ASSUME NEW n \in 1 .. Len(s) + 1
       PROVE  (w \o v)[n] = IF n < p THEN s[n] ELSE IF n = p THEN b ELSE s[n - 1]
  <2>1. CASE n <= p
    BY <1>2, <1>10, <1>11, <2>1
  <2>2. CASE n > p
    <3>1. n - p \in 1 .. Len(s) - p + 1 /\ p + (n - p) - 1 = n - 1
      BY <1>1, <1>2, <2>2
    <3>2. (w \o v)[n] = v[n - p] /\ ~(n < p) /\ n # p
      BY <1>2, <1>11, <2>2
    <3>3. v[n - p] = s[p + (n - p) - 1]
      BY <1>7, <3>1
    <3> QED
      BY <3>1, <3>2, <3>3
  <2> QED
    <3>1. n <= p \/ n > p
      BY <1>1, <1>2
    <3> QED
      BY <2>1, <2>2, <3>1, Zenon
<1> QED
  BY <1>3, <1>8, <1>9, <1>11, <1>12

(* Of more minutes than are kept, the oldest one is left out.              *)
WithoutOldest(t, x) == /\ Len(t) <= SeriesCap => x = t
                       /\ Len(t) > SeriesCap => /\ x \in Seq(Buckets) /\ Len(x) = SeriesCap
                                                /\ \A n \in 1 .. SeriesCap : x[n] = t[n + 1]
LEMMA CutMinutes ==
  ASSUME NEW t \in Seq(Buckets), Len(t) <= SeriesCap + 1, Len(t) # 0,
         NEW x, x = SubSeq(t, Max({1, Len(t) - SeriesCap + 1}), Len(t))
  PROVE  WithoutOldest(t, x)
<1>1. Len(t) \in Nat /\ SeriesCap \in Nat \ {0}
  BY LenProperties, HistoryAssumption
<1>2. PICK k : k = Max({1, Len(t) - SeriesCap + 1})
  OBVIOUS
<1>3. k = IF Len(t) > SeriesCap THEN 2 ELSE 1
  BY <1>1, <1>2 DEF Max
<1>4. x = SubSeq(t, k, Len(t))
  BY <1>2, Zenon
<1>5. CASE Len(t) <= SeriesCap
  <2>1. k = 1
    BY <1>1, <1>3, <1>5
  <2>2. x = t
    BY <1>4, <2>1, SubSeqFull
  <2> QED
    BY ONLY <1>1, <1>5, <2>2 DEF WithoutOldest
<1>6. CASE Len(t) > SeriesCap
  <2>1. k = 2 /\ Len(t) = SeriesCap + 1
    <3>1. Len(t) <= SeriesCap + 1
      OBVIOUS
    <3> QED
      BY ONLY <1>1, <1>3, <1>6, <3>1
  <2>2. \A n \in 2 .. Len(t) : t[n] \in Buckets
    BY <1>1, LenProperties, ElementOfSeq
  <2>3. /\ x \in Seq(Buckets) /\ Len(x) = Len(t) - 2 + 1
        /\ \A n \in 1 .. Len(t) - 2 + 1 : x[n] = t[2 + n - 1]
    <3>1. 2 <= Len(t) /\ 2 \in Int /\ Len(t) \in Int
      BY <1>1, <1>6
    <3> QED
      BY ONLY <1>4, <2>1, <2>2, <3>1, SubSeqProperties
  <2> QED
    BY <1>1, <2>1, <2>3 DEF WithoutOldest
<1> QED
  BY <1>1, <1>5, <1>6 DEF WithoutOldest

(* One more request is counted.                                            *)
OneMore(c, d, times, r) ==
  /\ IsFiniteSet({q \in Live : d[q] > 0})
  /\ \A q \in Live : d[q] > 0 <=> c[q] > 0 \/ q = r
  /\ \A n : n # times[r].minute => CountedIn(d, times, n) = CountedIn(c, times, n)
  /\ CountedIn(d, times, times[r].minute) # {}
  /\ Cardinality(CountedIn(c, times, times[r].minute)) \in Nat
  /\ Cardinality(CountedIn(d, times, times[r].minute)) = Cardinality(CountedIn(c, times, times[r].minute)) + 1
LEMMA OneMoreCounted ==
  ASSUME NEW c \in [All -> Nat], NEW d \in [All -> Nat], NEW times, NEW r \in Live, c[r] = 0,
         \A q \in All : d[q] = c[q] + (IF q = r THEN 1 ELSE 0), IsFiniteSet({q \in Live : c[q] > 0})
  PROVE  OneMore(c, d, times, r)
<1>1. \A q \in Live : q \in All /\ d[q] \in Nat /\ c[q] \in Nat
  BY DEF All
<1>2. \A q \in Live : d[q] > 0 <=> c[q] > 0 \/ q = r
  BY <1>1
<1>3. {q \in Live : d[q] > 0} = {q \in Live : c[q] > 0} \cup {r}
  BY <1>2
<1>4. IsFiniteSet({q \in Live : d[q] > 0})
  <2>1. PICK x, y : x = {q \in Live : c[q] > 0} /\ y = {q \in Live : d[q] > 0}
    OBVIOUS
  <2>2. y = x \cup {r} /\ IsFiniteSet(x)
    BY <1>3, <2>1
  <2>3. IsFiniteSet(y)
    BY <2>2, FS_AddElement
  <2> QED
    BY <2>1, <2>3
<1>5. \A n : n # times[r].minute => CountedIn(d, times, n) = CountedIn(c, times, n)
  BY <1>2 DEF CountedIn
<1>6. PICK u, v : u = CountedIn(c, times, times[r].minute) /\ v = CountedIn(d, times, times[r].minute)
  OBVIOUS
<1>7. v = u \cup {r} /\ r \notin u /\ u \subseteq {q \in Live : c[q] > 0}
  BY <1>2, <1>6 DEF CountedIn
<1>8. IsFiniteSet(u)
  BY <1>7, FS_Subset
<1>9. Cardinality(u) \in Nat /\ Cardinality(v) = Cardinality(u) + 1
  BY <1>7, <1>8, FS_AddElement, FS_CardinalityType
<1> QED
  BY <1>2, <1>4, <1>5, <1>6, <1>7, <1>9 DEF OneMore

(* Its minute has a bucket.                                                *)
LEMMA AddToBucket ==
  ASSUME NEW c \in [All -> Nat], NEW d \in [All -> Nat], NEW times \in [All -> Times], NEW r \in Live, c[r] = 0,
         \A q \in All : d[q] = c[q] + (IF q = r THEN 1 ELSE 0),
         NEW s, Agrees(s, c, times), NEW k \in DOMAIN s, s[k].minute = times[r].minute
  PROVE  Agrees(AddMinute(s, times[r].minute), d, times)
<1> DEFINE minute == times[r].minute
<1>1. minute \in Nat
  BY DEF All, Times
<1>2. PICK t : t = Placed(s, minute)
  OBVIOUS
<1>3. s \in Seq(Buckets) /\ Ordered(s) /\ s[k].minute = minute
  BY DEF Agrees
<1>4. /\ t \in Seq(Buckets) /\ Len(t) = Len(s)
      /\ \A n \in DOMAIN s : t[n] = IF n = k THEN [minute |-> minute, total |-> s[n].total + 1] ELSE s[n]
  BY <1>1, <1>2, <1>3, FoundMinute
<1>5. Len(s) \in Nat /\ SeriesCap \in Nat \ {0} /\ Len(s) <= SeriesCap /\ Len(s) # 0
  BY <1>3, LenProperties, HistoryAssumption DEF Agrees
<1>6. DOMAIN t = DOMAIN s
  BY <1>3, <1>4, LenProperties
<1>7. AddMinute(s, minute) = t
  <2>1. PICK x : x = SubSeq(t, Max({1, Len(t) - SeriesCap + 1}), Len(t))
    OBVIOUS
  <2>2. Len(t) <= SeriesCap + 1 /\ Len(t) # 0 /\ Len(t) <= SeriesCap
    BY ONLY <1>4, <1>5
  <2>3. WithoutOldest(t, x)
    BY ONLY <1>4, <2>1, <2>2, CutMinutes
  <2>4. x = t
    BY <2>2, <2>3 DEF WithoutOldest
  <2> QED
    BY <1>2, <2>1, <2>4, AddMinuteIs
<1>8. \A n \in DOMAIN t : t[n].minute = s[n].minute
  BY <1>3, <1>4, <1>6
<1>9. Ordered(t)
  BY <1>3, <1>6, <1>8 DEF Ordered
<1>10. /\ IsFiniteSet({q \in Live : d[q] > 0})
       /\ \A q \in Live : d[q] > 0 <=> c[q] > 0 \/ q = r
       /\ \A n : n # minute => CountedIn(d, times, n) = CountedIn(c, times, n)
       /\ CountedIn(d, times, minute) # {}
       /\ Cardinality(CountedIn(d, times, minute)) = Cardinality(CountedIn(c, times, minute)) + 1
  <2>1. IsFiniteSet({q \in Live : c[q] > 0})
    BY DEF Agrees
  <2>2. OneMore(c, d, times, r)
    BY <2>1, OneMoreCounted
  <2> QED
    BY <2>2 DEF OneMore
<1>11. Right(t, d, times)
  <2>1. ASSUME NEW n \in DOMAIN t
        PROVE  /\ CountedIn(d, times, t[n].minute) # {}
               /\ t[n].total = Cardinality(CountedIn(d, times, t[n].minute))
    <3>1. CountedIn(c, times, s[n].minute) # {} /\ s[n].total = Cardinality(CountedIn(c, times, s[n].minute))
      BY <1>6 DEF Agrees, Right
    <3>2. CASE n = k
      BY <1>3, <1>4, <1>6, <1>10, <3>1, <3>2
    <3>3. CASE n # k
      <4>1. s[n].minute # minute
        <5>1. n \in Int /\ k \in Int /\ s[n].minute \in Int
          <6>1. s[n] \in Buckets /\ DOMAIN s = 1 .. Len(s) /\ Len(s) \in Nat
            BY <1>3, <1>6, LenProperties, ElementOfSeq
          <6> QED
            BY <1>6, <6>1 DEF Buckets
        <5> QED
          <6>1. \A i, j \in DOMAIN s : i < j => s[i].minute < s[j].minute
            BY <1>3 DEF Ordered
          <6>2. n < k \/ k < n
            BY <3>3, <5>1
          <6>3. s[n].minute < s[k].minute \/ s[k].minute < s[n].minute
            BY <1>6, <6>1, <6>2
          <6> QED
            BY ONLY <1>3, <5>1, <6>3
      <4> QED
        BY <1>4, <1>6, <1>10, <3>1, <3>3, <4>1
    <3> QED
      BY <3>2, <3>3
  <2> QED
    BY <2>1 DEF Right
<1>12. Latest(t, d, times, SeriesCap)
  <2>1. ASSUME NEW q \in Live, d[q] > 0, \A i \in DOMAIN t : t[i].minute # times[q].minute
        PROVE  Len(t) = SeriesCap /\ \A i \in DOMAIN t : times[q].minute < t[i].minute
    <3>1. q # r
      BY <1>3, <1>6, <1>8, <2>1
    <3>2. c[q] > 0 /\ \A i \in DOMAIN s : s[i].minute # times[q].minute
      BY <1>6, <1>8, <1>10, <2>1, <3>1
    <3>3. Len(s) = SeriesCap /\ \A i \in DOMAIN s : times[q].minute < s[i].minute
      BY <3>2 DEF Agrees, Latest
    <3> QED
      BY <1>4, <1>6, <1>8, <3>3
  <2> QED
    BY <2>1 DEF Latest
<1>13. Agrees(t, d, times)
  BY <1>4, <1>5, <1>9, <1>10, <1>11, <1>12 DEF Agrees
<1> QED
  BY <1>7, <1>13

(* A new minute before any is left out: what is true of the buckets that   *)
(* are kept, all of them or all but the first.                             *)
KeptMinutes(s, t) == {i \in DOMAIN t : Len(s) = SeriesCap => i >= 2}
RightKept(s, t, counted, times) ==
  \A i \in KeptMinutes(s, t) : /\ CountedIn(counted, times, t[i].minute) # {}
                        /\ t[i].total = Cardinality(CountedIn(counted, times, t[i].minute))
Older(s, t, counted, times) ==
  \A q \in Live : counted[q] > 0 /\ (\A i \in DOMAIN t : t[i].minute # times[q].minute) =>
    Len(s) = SeriesCap /\ \A i \in KeptMinutes(s, t) : times[q].minute < t[i].minute
WithBucket(s, t, d, times) ==
  /\ t \in Seq(Buckets) /\ Len(t) = Len(s) + 1 /\ IsFiniteSet({q \in Live : d[q] > 0})
  /\ Ordered(t) /\ RightKept(s, t, d, times) /\ Older(s, t, d, times)
LEMMA NewBucket ==
  ASSUME NEW c \in [All -> Nat], NEW d \in [All -> Nat], NEW times \in [All -> Times], NEW r \in Live, c[r] = 0,
         \A q \in All : d[q] = c[q] + (IF q = r THEN 1 ELSE 0),
         NEW s, Agrees(s, c, times), \A n \in DOMAIN s : s[n].minute # times[r].minute,
         NEW t, t = Placed(s, times[r].minute)
  PROVE  WithBucket(s, t, d, times)
<1> DEFINE minute == times[r].minute
<1>1. minute \in Nat /\ \A q \in Live : times[q].minute \in Nat
  BY DEF All, Times
<1>2. PICK p : p = Place(s, minute)
  OBVIOUS
<1>3. s \in Seq(Buckets) /\ Ordered(s)
  BY DEF Agrees
<1>4. /\ t \in Seq(Buckets) /\ Len(t) = Len(s) + 1
      /\ \A n \in 1 .. Len(s) + 1 :
           t[n] = IF n < p THEN s[n] ELSE IF n = p THEN [minute |-> minute, total |-> 1] ELSE s[n - 1]
  BY <1>1, <1>2, <1>3, NewMinute
<1>5. p \in 1 .. Len(s) + 1 /\ \A n \in DOMAIN s : n < p <=> s[n].minute < minute
  BY <1>1, <1>2, <1>3, PlaceIs
<1>6. DOMAIN s = 1 .. Len(s) /\ Len(s) \in Nat /\ DOMAIN t = 1 .. Len(s) + 1
  BY <1>3, <1>4, LenProperties
<1>7. \A n \in DOMAIN s : s[n].minute \in Nat
  <2>1. \A n \in DOMAIN s : s[n] \in Buckets
    BY <1>3, <1>6, ElementOfSeq
  <2> QED
    BY <2>1 DEF Buckets
<1>8. \A n \in DOMAIN t : \/ n < p /\ n \in DOMAIN s /\ t[n] = s[n]
                          \/ n = p /\ t[n] = [minute |-> minute, total |-> 1]
                          \/ n > p /\ n - 1 \in DOMAIN s /\ t[n] = s[n - 1]
  BY <1>4, <1>5, <1>6
<1>9. t[p] = [minute |-> minute, total |-> 1] /\ p \in DOMAIN t /\ t[p].minute = minute
  BY <1>4, <1>5, <1>6
<1>10. \A n \in DOMAIN t : t[n].minute \in Nat /\ (n < p => t[n].minute < minute) /\ (n > p => minute < t[n].minute)
  <2>1. \A n \in DOMAIN s : s[n].minute # minute
    OBVIOUS
  <2>2. ASSUME NEW n \in DOMAIN t, n < p PROVE t[n].minute \in Nat /\ t[n].minute < minute
    BY <1>5, <1>6, <1>7, <1>8, <2>2
  <2>3. ASSUME NEW n \in DOMAIN t, n > p PROVE t[n].minute \in Nat /\ minute < t[n].minute
    <3>1. n - 1 \in DOMAIN s /\ t[n] = s[n - 1] /\ ~(n - 1 < p)
      BY <1>5, <1>6, <1>8, <2>3
    <3>2. s[n - 1].minute \in Nat /\ ~(s[n - 1].minute < minute) /\ s[n - 1].minute # minute
      BY <1>5, <1>7, <2>1, <3>1
    <3> QED
      BY <1>1, <3>1, <3>2
  <2> QED
    BY <1>1, <1>5, <1>6, <1>9, <2>2, <2>3
<1>11. Ordered(t)
  <2>1. ASSUME NEW i \in DOMAIN t, NEW j \in DOMAIN t, i < j PROVE t[i].minute < t[j].minute
    <3>1. CASE j < p
      <4>1. i < p /\ i \in DOMAIN s /\ j \in DOMAIN s /\ t[i] = s[i] /\ t[j] = s[j]
        BY <1>5, <1>6, <1>8, <2>1, <3>1
      <4> QED
        BY <1>3, <2>1, <4>1 DEF Ordered
    <3>2. CASE i > p
      <4>1. j > p /\ i - 1 \in DOMAIN s /\ j - 1 \in DOMAIN s /\ t[i] = s[i - 1] /\ t[j] = s[j - 1] /\ i - 1 < j - 1
        <5>1. i \in Int /\ j \in Int /\ p \in Int
          BY <1>5, <1>6
        <5>2. i > p /\ j > p /\ i # p /\ j # p /\ ~(i < p) /\ ~(j < p) /\ i - 1 < j - 1
          BY <2>1, <3>2, <5>1
        <5> QED
          BY <1>8, <5>2
      <4> QED
        BY <1>3, <4>1 DEF Ordered
    <3>3. CASE i <= p /\ j >= p
      <4>1. (i < p /\ j = p) \/ (i = p /\ j > p) \/ (i < p /\ j > p)
        <5>1. i \in Int /\ j \in Int /\ p \in Int
          BY <1>5, <1>6
        <5> QED
          BY ONLY <2>1, <3>3, <5>1
      <4> QED
        BY <1>1, <1>9, <1>10, <4>1
    <3> QED
      BY <1>5, <1>6, <3>1, <3>2, <3>3
  <2> QED
    BY <2>1 DEF Ordered
<1>12. /\ IsFiniteSet({q \in Live : d[q] > 0})
       /\ \A q \in Live : d[q] > 0 <=> c[q] > 0 \/ q = r
       /\ \A n : n # minute => CountedIn(d, times, n) = CountedIn(c, times, n)
       /\ CountedIn(d, times, minute) # {}
       /\ Cardinality(CountedIn(c, times, minute)) \in Nat
       /\ Cardinality(CountedIn(d, times, minute)) = Cardinality(CountedIn(c, times, minute)) + 1
  <2>1. IsFiniteSet({q \in Live : c[q] > 0})
    BY DEF Agrees
  <2>2. OneMore(c, d, times, r)
    BY <2>1, OneMoreCounted
  <2> QED
    BY <2>2 DEF OneMore
<1>13. Len(s) \in Nat /\ SeriesCap \in Nat \ {0} /\ Len(s) <= SeriesCap
  BY <1>6, HistoryAssumption DEF Agrees
(* Requests of the new minute that were counted before are too old.        *)
<1>14. CountedIn(c, times, minute) # {} => Len(s) = SeriesCap /\ p = 1
  <2>1. SUFFICES ASSUME NEW q \in CountedIn(c, times, minute) PROVE Len(s) = SeriesCap /\ p = 1
    OBVIOUS
  <2>2. q \in Live /\ c[q] > 0 /\ times[q].minute = minute
    BY <2>1 DEF CountedIn
  <2>3. \A i \in DOMAIN s : s[i].minute # times[q].minute
    BY <2>2
  <2>4. Len(s) = SeriesCap /\ \A i \in DOMAIN s : minute < s[i].minute
    BY <2>2, <2>3 DEF Agrees, Latest
  <2>5. 1 \in DOMAIN s
    BY <1>6, <1>13, <2>4
  <2>6. ~(s[1].minute < minute)
    BY <1>1, <1>7, <2>4, <2>5
  <2>7. ~(1 < p)
    BY <1>5, <2>5, <2>6
  <2> QED
    BY <1>5, <1>6, <2>4, <2>7
<1>15. RightKept(s, t, d, times)
  <2>1. ASSUME NEW i \in KeptMinutes(s, t)
        PROVE  /\ CountedIn(d, times, t[i].minute) # {}
               /\ t[i].total = Cardinality(CountedIn(d, times, t[i].minute))
    <3>1. i \in DOMAIN t /\ (Len(s) = SeriesCap => i >= 2)
      BY DEF KeptMinutes
    <3>2. CASE i = p
      <4>1. CountedIn(c, times, minute) = {}
        BY <1>14, <3>1, <3>2
      <4>2. Cardinality(CountedIn(d, times, minute)) = 1
        <5>1. IsFiniteSet(CountedIn(c, times, minute)) /\ Cardinality(CountedIn(c, times, minute)) = 0
          BY <4>1, FS_EmptySet
        <5> QED
          BY <1>12, <5>1
      <4> QED
        BY <1>9, <1>12, <3>2, <4>2
    <3>3. CASE i # p
      <4>1. PICK k \in DOMAIN s : t[i] = s[k]
        BY <1>8, <3>1, <3>3
      <4>2. CountedIn(c, times, s[k].minute) # {} /\ s[k].total = Cardinality(CountedIn(c, times, s[k].minute))
        BY DEF Agrees, Right
      <4>3. s[k].minute # minute
        OBVIOUS
      <4> QED
        BY <1>12, <4>1, <4>2, <4>3
    <3> QED
      BY <3>2, <3>3
  <2> QED
    BY <2>1 DEF RightKept
<1>16. Older(s, t, d, times)
  <2>1. ASSUME NEW q \in Live, d[q] > 0, \A i \in DOMAIN t : t[i].minute # times[q].minute
        PROVE  Len(s) = SeriesCap /\ \A i \in KeptMinutes(s, t) : times[q].minute < t[i].minute
    <3>1. q # r
      BY <1>9, <2>1
    <3>2. c[q] > 0
      BY <1>12, <2>1, <3>1
    <3>3. \A i \in DOMAIN s : s[i].minute # times[q].minute
      <4>1. ASSUME NEW i \in DOMAIN s PROVE \E n \in DOMAIN t : t[n] = s[i]
        <5>1. CASE i < p
          <6>1. i \in 1 .. Len(s) + 1 /\ i \in DOMAIN t
            BY <1>6
          <6>2. t[i] = s[i]
            BY <1>4, <5>1, <6>1
          <6> QED
            BY <6>1, <6>2
        <5>2. CASE ~(i < p)
          <6>1. i + 1 \in 1 .. Len(s) + 1 /\ ~(i + 1 < p) /\ i + 1 # p /\ (i + 1) - 1 = i
            BY <1>5, <1>6, <5>2
          <6>2. t[i + 1] = s[(i + 1) - 1]
            BY <1>4, <6>1
          <6>3. i + 1 \in DOMAIN t
            BY ONLY <1>6, <6>1
          <6> QED
            BY <6>1, <6>2, <6>3
        <5> QED
          BY <5>1, <5>2
      <4> QED
        BY <2>1, <4>1
    <3>4. Len(s) = SeriesCap /\ \A i \in DOMAIN s : times[q].minute < s[i].minute
      BY <3>2, <3>3 DEF Agrees, Latest
    <3>5. ASSUME NEW i \in KeptMinutes(s, t) PROVE times[q].minute < t[i].minute
      <4>1. i \in DOMAIN t /\ i >= 2
        BY <3>4 DEF KeptMinutes
      <4>2. CASE i # p
        BY <1>8, <3>4, <4>1, <4>2
      <4>3. CASE i = p
        <5>1. 1 \in DOMAIN s /\ 1 < p
          BY <1>5, <1>6, <1>13, <3>4, <4>1, <4>3
        <5>2. s[1].minute < minute /\ times[q].minute < s[1].minute
          BY <1>5, <3>4, <5>1
        <5> QED
          BY <1>1, <1>7, <1>9, <4>3, <5>1, <5>2
      <4> QED
        BY <4>2, <4>3
    <3> QED
      BY <3>4, <3>5
  <2> QED
    BY <2>1 DEF Older
<1> QED
  BY <1>4, <1>11, <1>12, <1>15, <1>16 DEF WithBucket

(* Its minute has none.                                                    *)
LEMMA AddNewMinute ==
  ASSUME NEW c \in [All -> Nat], NEW d \in [All -> Nat], NEW times \in [All -> Times], NEW r \in Live, c[r] = 0,
         \A q \in All : d[q] = c[q] + (IF q = r THEN 1 ELSE 0),
         NEW s, Agrees(s, c, times), \A n \in DOMAIN s : s[n].minute # times[r].minute
  PROVE  Agrees(AddMinute(s, times[r].minute), d, times)
<1>1. PICK t : t = Placed(s, times[r].minute)
  OBVIOUS
<1>2. /\ t \in Seq(Buckets) /\ Len(t) = Len(s) + 1
      /\ IsFiniteSet({q \in Live : d[q] > 0}) /\ Ordered(t) /\ RightKept(s, t, d, times) /\ Older(s, t, d, times)
  <2>1. WithBucket(s, t, d, times)
    BY <1>1, NewBucket
  <2> QED
    BY <2>1 DEF WithBucket
<1>3. Len(s) \in Nat /\ SeriesCap \in Nat \ {0} /\ Len(s) <= SeriesCap
  <2>1. s \in Seq(Buckets) /\ Len(s) <= SeriesCap
    BY DEF Agrees
  <2> QED
    BY <2>1, LenProperties, HistoryAssumption
<1>4. PICK x : x = SubSeq(t, Max({1, Len(t) - SeriesCap + 1}), Len(t))
  OBVIOUS
<1>5. AddMinute(s, times[r].minute) = x
  BY <1>1, <1>4, AddMinuteIs
<1>6. /\ Len(t) <= SeriesCap => x = t
      /\ Len(t) > SeriesCap => /\ x \in Seq(Buckets) /\ Len(x) = SeriesCap
                               /\ \A n \in 1 .. SeriesCap : x[n] = t[n + 1]
  <2>1. Len(t) <= SeriesCap + 1 /\ Len(t) # 0
    BY ONLY <1>2, <1>3
  <2>2. t \in Seq(Buckets)
    BY <1>2
  <2>3. WithoutOldest(t, x)
    BY ONLY <1>4, <2>1, <2>2, CutMinutes
  <2> QED
    BY <2>3 DEF WithoutOldest
<1>7. CASE Len(s) # SeriesCap
  <2>1. Len(t) <= SeriesCap
    BY ONLY <1>2, <1>3, <1>7
  <2>2. x = t
    BY <1>6, <2>1
  <2>3. KeptMinutes(s, t) = DOMAIN t
    BY <1>7 DEF KeptMinutes
  <2>4. Right(t, d, times)
    BY <1>2, <2>3 DEF RightKept, Right
  <2>5. Latest(t, d, times, SeriesCap)
    BY <1>2, <1>7 DEF Older, Latest
  <2>6. Agrees(t, d, times)
    BY <1>2, <2>1, <2>4, <2>5 DEF Agrees
  <2> QED
    BY <1>5, <2>2, <2>6
<1>8. CASE Len(s) = SeriesCap
  <2>1. Len(t) > SeriesCap /\ Len(t) = SeriesCap + 1
    BY ONLY <1>2, <1>3, <1>8
  <2>2. x \in Seq(Buckets) /\ Len(x) = SeriesCap /\ \A n \in 1 .. SeriesCap : x[n] = t[n + 1]
    BY <1>6, <2>1
  <2>3. DOMAIN x = 1 .. SeriesCap /\ DOMAIN t = 1 .. SeriesCap + 1
    BY <1>2, <2>1, <2>2, LenProperties
  <2>4. KeptMinutes(s, t) = {i \in 1 .. SeriesCap + 1 : i >= 2}
    BY <1>8, <2>3 DEF KeptMinutes
  <2>5. \A n \in DOMAIN x : n + 1 \in KeptMinutes(s, t) /\ n + 1 \in DOMAIN t /\ x[n] = t[n + 1]
    BY <1>3, <2>2, <2>3, <2>4
  <2>6. Ordered(x)
    <3>1. \A i, j \in DOMAIN t : i < j => t[i].minute < t[j].minute
      BY <1>2 DEF Ordered
    <3>2. ASSUME NEW i \in DOMAIN x, NEW j \in DOMAIN x, i < j PROVE x[i].minute < x[j].minute
      <4>1. i + 1 < j + 1
        BY <1>3, <2>3, <3>2
      <4> QED
        BY <2>5, <3>1, <4>1
    <3> QED
      BY <3>2 DEF Ordered
  <2>7. Right(x, d, times)
    BY <1>2, <2>5 DEF RightKept, Right
  <2>8. Latest(x, d, times, SeriesCap)
    <3>1. ASSUME NEW q \in Live, d[q] > 0, \A i \in DOMAIN x : x[i].minute # times[q].minute
          PROVE  \A i \in DOMAIN x : times[q].minute < x[i].minute
      <4>1. CASE t[1].minute = times[q].minute
        <5>1. ASSUME NEW i \in DOMAIN x PROVE t[1].minute < x[i].minute
          <6>1. 1 \in DOMAIN t /\ 1 < i + 1
            BY <1>3, <2>3
          <6> QED
            BY <1>2, <2>5, <6>1 DEF Ordered
        <5> QED
          BY <4>1, <5>1
      <4>2. CASE t[1].minute # times[q].minute
        <5>1. ASSUME NEW i \in DOMAIN t PROVE t[i].minute # times[q].minute
          <6>1. CASE i = 1
            BY <4>2, <6>1
          <6>2. CASE i # 1
            <7>1. i - 1 \in DOMAIN x /\ (i - 1) + 1 = i
              BY <1>3, <2>3, <6>2
            <7>2. x[i - 1] = t[i]
              BY <2>5, <7>1
            <7> QED
              BY <3>1, <7>1, <7>2
          <6> QED
            BY <6>1, <6>2
        <5> QED
          BY <1>2, <2>5, <3>1, <5>1 DEF Older
      <4> QED
        BY <4>1, <4>2
    <3> QED
      BY <2>2, <3>1 DEF Latest
  <2>9. Len(x) <= SeriesCap
    BY <1>3, <2>2
  <2>10. Agrees(x, d, times)
    BY <1>2, <2>2, <2>6, <2>7, <2>8, <2>9 DEF Agrees
  <2> QED
    BY <1>5, <2>10
<1> QED
  BY <1>7, <1>8

(* So a finished request leaves minutes that agree with the counts.        *)
LEMMA AddMinuteAgrees ==
  ASSUME NEW c \in [All -> Nat], NEW d \in [All -> Nat], NEW times \in [All -> Times], NEW r \in Live, c[r] = 0,
         \A q \in All : d[q] = c[q] + (IF q = r THEN 1 ELSE 0), NEW s, Agrees(s, c, times)
  PROVE  Agrees(AddMinute(s, times[r].minute), d, times)
<1>1. CASE \E k \in DOMAIN s : s[k].minute = times[r].minute
  BY <1>1, AddToBucket
<1>2. CASE \A k \in DOMAIN s : s[k].minute # times[r].minute
  BY <1>2, AddNewMinute
<1> QED
  BY <1>1, <1>2

(* Minutes are the same of the same counts, and none of no counts.         *)
LEMMA SameCountsAgree ==
  ASSUME NEW c, NEW d, NEW times, NEW s, Agrees(s, c, times), \A r \in Live : d[r] = c[r] PROVE Agrees(s, d, times)
<1>1. \A n : CountedIn(d, times, n) = CountedIn(c, times, n)
  BY DEF CountedIn
<1>2. {r \in Live : d[r] > 0} = {r \in Live : c[r] > 0}
  OBVIOUS
<1> QED
  BY <1>1, <1>2 DEF Agrees, Right, Latest
LEMMA ForeignAgrees == ASSUME NEW m, Foreign(m), NEW times PROVE Agrees(m.series, m.counted, times)
<1>1. PICK s : s = <<>>
  OBVIOUS
<1>2. m.series = s /\ \A r \in Live : ~(m.counted[r] > 0)
  BY <1>1 DEF Foreign
<1>3. s \in Seq(Buckets) /\ Len(s) = 0 /\ DOMAIN s = {}
  BY <1>1
<1>4. {r \in Live : m.counted[r] > 0} = {}
  BY <1>2
<1>5. IsFiniteSet({r \in Live : m.counted[r] > 0})
  BY <1>4, FS_EmptySet
<1>6. Ordered(s) /\ Right(s, m.counted, times) /\ Latest(s, m.counted, times, SeriesCap) /\ Len(s) <= SeriesCap
  BY <1>2, <1>3, HistoryAssumption DEF Ordered, Right, Latest
<1> QED
  BY <1>2, <1>3, <1>5, <1>6 DEF Agrees

(* What is loaded was saved or comes from archives.                        *)
LEMMA LoadedFrom ==
  ASSUME MetricsInv, boots < LastBoot
  PROVE  \E x : (x \in Snapshots \/ Foreign(x)) /\ Grown(Loaded(boots + 1)[2], x)
<1>1. boots + 1 \in Int /\ archive \in Archives /\ \A r \in Past : RowOf(at, r) \in Int \X Keys
  BY StoreAssumption DEF MetricsInv, TypeInv, Times, RowOf, All
<1>2. ASSUME NEW x, IsRecord(x) PROVE Grown(x, x)
  <2>1. x.counted \in [All -> Nat]
    BY <1>2, RecordFields
  <2> QED
    BY <1>2, <2>1 DEF Grown
<1>3. \A f \in Files : file[f].m \in Snapshots /\ IsRecord(file[f].m)
  BY DEF MetricsInv, SnapshotInv, Snapshots
<1>4. PICK e, a : e = Empty(boots + 1) /\ a = FromArchive(archive, boots + 1)
  OBVIOUS
<1>5. Foreign(e) /\ Foreign(a)
  BY <1>1, <1>4, EmptyIsForeign, FromArchiveIs
<1>6. /\ \A f \in Files : Grown(ImportHistory(file[f].m, archive, at), file[f].m)
      /\ \A f \in Files : Grown(file[f].m, file[f].m)
      /\ Grown(e, e) /\ Grown(a, a)
  BY <1>1, <1>2, <1>3, <1>5, ImportGrows DEF Foreign
<1>7. PICK loaded : loaded = Loaded(boots + 1)[2]
  OBVIOUS
<1>8. \/ \E f \in Files : loaded = ImportHistory(file[f].m, archive, at) \/ loaded = file[f].m
      \/ loaded = e \/ loaded = a
  <2>1. Main \in Files /\ RecoveryFile \in Files /\ Spares \subseteq Files
    BY DEF Files
  <2>2. \/ Recovery(boots + 1)[2] = file[RecoveryFile].m
        \/ Recovery(boots + 1)[2] = e
        \/ \E f \in Files : Recovery(boots + 1)[2] = file[f].m
    <3> DEFINE valid == {f \in Spares : file[f].is = "saved"}
    <3>1. CASE file[RecoveryFile].is # "saved" /\ valid # {}
      <4>1. PICK newest : newest = Max(valid)
        OBVIOUS
      <4>2. newest \in valid
        <5>1. valid \subseteq 0 .. 10 + LastBoot /\ 10 + LastBoot \in Nat
          BY StoreAssumption DEF Spares
        <5> HIDE DEF valid
        <5> QED
          BY <3>1, <4>1, <5>1, MaxIsGreatest
      <4>3. Recovery(boots + 1) = <<newest, file[newest].m>>
        BY <3>1, <4>1 DEF Recovery
      <4> QED
        BY <2>1, <4>2, <4>3
    <3>2. CASE file[RecoveryFile].is = "saved"
      BY <3>2 DEF Recovery
    <3>3. CASE file[RecoveryFile].is # "saved" /\ valid = {}
      BY <1>4, <3>3 DEF Recovery
    <3> QED
      BY <3>1, <3>2, <3>3
  <2>3. CASE file[Main].is = "saved"
    <3>1. loaded = ImportHistory(file[Main].m, archive, at) \/ loaded = file[Main].m
      BY <1>7, <2>3 DEF Loaded
    <3> QED
      BY <2>1, <3>1
  <2>4. CASE file[Main].is = "absent" /\ archive.kind # "damaged"
    BY <1>4, <1>7, <2>4 DEF Loaded
  <2>5. CASE file[Main].is # "saved" /\ (file[Main].is = "absent" => archive.kind = "damaged")
    <3>1. loaded = Recovery(boots + 1)[2]
      BY <1>7, <2>5 DEF Loaded
    <3> QED
      BY <2>1, <2>2, <3>1
  <2> QED
    BY <2>3, <2>4, <2>5
<1> QED
  BY <1>3, <1>5, <1>6, <1>7, <1>8

(* Where a snapshot comes from that a step has made.                       *)
LEMMA MadeBy ==
  ASSUME MetricsInv, [Next]_vars, NEW m \in Snapshots'
  PROVE  \/ m \in Snapshots
         \/ \E x : (x \in Snapshots \/ Foreign(x)) /\ Grown(m, x)
         \/ \E r \in Live : CountRequest(r) /\ m = Record(mem, r, at)
<1>1. m = mem' \/ m = copy' \/ \E f \in Files : m = file'[f].m
  BY DEF Snapshots
<1>2. PICK e : e = Empty(0)
  OBVIOUS
<1>3. Foreign(e) /\ Grown(e, e)
  <2>1. Foreign(e)
    BY ONLY <1>2, EmptyIsForeign
  <2>2. e.counted \in [All -> Nat]
    BY <2>1, RecordFields DEF Foreign
  <2> QED
    BY <2>1, <2>2 DEF Foreign, Grown
<1>4. (m = e \/ m \in Snapshots) => (m \in Snapshots \/ \E x : (x \in Snapshots \/ Foreign(x)) /\ Grown(m, x))
  BY <1>3
<1>5. CASE Boot
  <2>1. boots < LastBoot /\ mem' = ImportAll(Loaded(boots + 1)[2], imports, at) /\ UNCHANGED <<copy, file>>
    BY <1>5 DEF Boot, disk
  <2>2. PICK loaded : loaded = Loaded(boots + 1)[2]
    OBVIOUS
  <2>3. PICK x : (x \in Snapshots \/ Foreign(x)) /\ Grown(loaded, x)
    BY <2>1, <2>2, LoadedFrom
  <2>4. IsRecord(loaded) /\ IsRecord(x)
    BY <2>3 DEF Grown, Foreign, MetricsInv, SnapshotInv
  <2>5. imports \in Seq(Archives) /\ \A r \in Past : RowOf(at, r) \in Int \X Keys
    BY StoreAssumption DEF MetricsInv, TypeInv, Times, RowOf, All
  <2>6. Grown(mem', loaded)
    BY <2>1, <2>2, <2>4, <2>5, ImportAllGrows
  <2>7. Grown(mem', x)
    BY <2>3, <2>4, <2>6, GrownTwice
  <2>8. m = mem' \/ m \in Snapshots
    BY <1>1, <2>1 DEF Snapshots
  <2> QED
    BY <2>3, <2>7, <2>8
<1>6. CASE \E f \in Files : Damage(f) \/ Delete(f)
  <2>1. PICK f \in Files, result \in {Damaged, NoFile} : Harm(f, result)
    BY <1>6 DEF Damage, Delete
  <2>2. file' = [file EXCEPT ![f] = result] /\ file = [g \in Files |-> file[g]] /\ UNCHANGED <<mem, copy>>
    BY <2>1 DEF Harm, MetricsInv, TypeInv
  <2>3. result.m = e
    BY <1>2 DEF Damaged, NoFile
  <2>4. m = e \/ m \in Snapshots
    BY <1>1, <2>2, <2>3 DEF Snapshots
  <2> QED
    BY <1>4, <2>4
<1>7. CASE \E r \in Live : CountRequest(r)
  <2>1. PICK r \in Live : CountRequest(r)
    BY <1>7
  <2>2. mem' = Record(mem, r, at) /\ UNCHANGED <<copy, file>>
    BY <2>1 DEF CountRequest, disk
  <2>3. m = Record(mem, r, at) \/ m \in Snapshots
    BY <1>1, <2>2 DEF Snapshots
  <2> QED
    BY <2>1, <2>3
<1>8. CASE \E saved \in BOOLEAN : SaveEnds(saved)
  <2>1. PICK saved \in BOOLEAN : SaveEnds(saved)
    BY <1>8
  <2>2. \A f \in Files : file'[f] = IF saved /\ f = path THEN Holds(copy) ELSE file[f]
    BY <2>1, WrittenIs
  <2>3. copy' = e /\ (mem' = e \/ mem' = mem)
    BY <1>2, <2>1 DEF SaveEnds, Ended
  <2>4. m = e \/ m \in Snapshots
    BY <1>1, <2>2, <2>3 DEF Snapshots, Holds
  <2> QED
    BY <1>4, <2>4
<1>9. CASE Crash
  <2>1. mem' = e /\ copy' = e /\ file' = file
    BY <1>2, <1>9 DEF Crash, Ended, disk
  <2>2. m = e \/ m \in Snapshots
    BY <1>1, <2>1 DEF Snapshots
  <2> QED
    BY <1>4, <2>2
<1>10. CASE \E who \in {"ticker", "exit"} : SaveBegins(who)
  <2>1. copy' = mem /\ mem' = mem /\ file' = file
    BY <1>10 DEF SaveBegins, disk
  <2> QED
    BY <1>1, <2>1 DEF Snapshots
<1>11. CASE \/ TickDue \/ Signal \/ ShutdownReturns \/ ShutdownTimesOut \/ CleanupDone \/ CleanupTimesOut
            \/ UNCHANGED vars \/ \E r \in Live : Send(r) \/ Arrive(r) \/ Leave(r)
  <2>1. UNCHANGED <<mem, copy, file>>
    BY <1>11 DEF TickDue, Signal, ShutdownReturns, ShutdownTimesOut, CleanupDone, CleanupTimesOut, Send, Arrive,
                 Leave, vars, disk, process
  <2> QED
    BY <1>1, <2>1 DEF Snapshots
<1> QED
  BY <1>5, <1>6, <1>7, <1>8, <1>9, <1>10, <1>11 DEF Next

(* The minutes of every snapshot agree with its counts.                    *)
SeriesInv == \A m \in Snapshots : Agrees(m.series, m.counted, at)

LEMMA InitSeries == ASSUME Init PROVE SeriesInv
<1>1. PICK first \in FirstMain :
        file = [f \in Files |-> IF f = Main /\ first.kind # "absent" THEN Holds(FromArchive(first, 1)) ELSE NoFile]
  BY DEF Init
<1>2. PICK held, e : held = FromArchive(first, 1) /\ e = Empty(0)
  OBVIOUS
<1>3. Foreign(held) /\ Foreign(e)
  <2>1. first \in Archives
    BY StoreAssumption
  <2> QED
    BY <1>2, <2>1, FromArchiveIs, EmptyIsForeign
<1>4. mem = e /\ copy = e /\ \A f \in Files : file[f].m = held \/ file[f].m = e
  BY <1>1, <1>2 DEF Init, Holds, NoFile
<1>5. \A m \in Snapshots : m = held \/ m = e
  BY <1>4 DEF Snapshots
<1> QED
  BY <1>3, <1>5, ForeignAgrees DEF SeriesInv

LEMMA SeriesStep == MetricsInv /\ SeriesInv /\ [Next]_vars => SeriesInv'
<1> SUFFICES ASSUME MetricsInv, SeriesInv, [Next]_vars, NEW m \in Snapshots' PROVE Agrees(m.series, m.counted, at')
  BY DEF SeriesInv
<1>1. \A x \in Snapshots : IsRecord(x) /\ Counts(x) /\ x.counted \in [All -> Nat] /\ Agrees(x.series, x.counted, at)
  BY RecordFields DEF MetricsInv, SnapshotInv, SeriesInv
<1>2. at \in [All -> Times] /\ Live \subseteq All
  BY DEF MetricsInv, TypeInv, All
<1>3. CASE \E r \in Live : Arrive(r)
  <2>1. PICK r \in Live : Arrive(r)
    BY <1>3
  <2>2. UNCHANGED <<mem, copy, file>> /\ served[r] = "sent"
    BY <2>1 DEF Arrive, process, disk
  <2>3. m \in Snapshots
    BY <2>2 DEF Snapshots
  <2>4. m.counted[r] = 0
    BY <1>1, <2>2, <2>3 DEF Counts
  <2>5. \A q \in Live : q # r => at'[q] = at[q]
    BY <1>2, <2>1 DEF Arrive
  <2>6. \A q \in Live : m.counted[q] > 0 => at'[q] = at[q]
    BY <2>4, <2>5
  <2>7. \A n : CountedIn(m.counted, at', n) = CountedIn(m.counted, at, n)
    BY <2>6 DEF CountedIn
  <2>8. Agrees(m.series, m.counted, at)
    BY <1>1, <2>3
  <2> QED
    BY <2>6, <2>7, <2>8 DEF Agrees, Right, Latest
<1>4. CASE ~ \E r \in Live : Arrive(r)
  <2>1. at' = at
    BY <1>4 DEF Next, Boot, TickDue, Signal, ShutdownReturns, ShutdownTimesOut, CleanupDone, CleanupTimesOut, Crash,
                Damage, Delete, Harm, Send, CountRequest, Leave, SaveBegins, SaveEnds, vars, disk
  <2>2. CASE m \in Snapshots
    BY <1>1, <2>1, <2>2
  <2>3. CASE \E x : (x \in Snapshots \/ Foreign(x)) /\ Grown(m, x)
    <3>1. PICK x : (x \in Snapshots \/ Foreign(x)) /\ Grown(m, x)
      BY <2>3
    <3>2. Agrees(x.series, x.counted, at)
      BY <1>1, <3>1, ForeignAgrees
    <3>3. m.series = x.series /\ \A r \in Live : m.counted[r] = x.counted[r]
      BY <1>2, <3>1 DEF Grown
    <3> QED
      BY <2>1, <3>2, <3>3, SameCountsAgree
  <2>4. CASE \E r \in Live : CountRequest(r) /\ m = Record(mem, r, at)
    <3>1. PICK r \in Live : CountRequest(r) /\ m = Record(mem, r, at)
      BY <2>4
    <3>2. mem \in Snapshots /\ r \in All /\ served[r] = "active"
      BY <1>2, <3>1 DEF Snapshots, CountRequest
    <3>3. mem.counted[r] = 0
      BY <1>1, <3>2 DEF Counts
    <3>4. PICK c, d : c = mem.counted /\ d = m.counted
      OBVIOUS
    <3>5. /\ c \in [All -> Nat] /\ d \in [All -> Nat] /\ m.series = AddMinute(mem.series, at[r].minute)
          /\ \A q \in All : d[q] = c[q] + (IF q = r THEN 1 ELSE 0)
      <4>1. IsRecord(m) /\ m.series = AddMinute(mem.series, at[r].minute)
            /\ \A q \in All : m.counted[q] = mem.counted[q] + (IF q = r THEN 1 ELSE 0)
        BY <1>1, <1>2, <3>1, <3>2, RecordIs
      <4> QED
        BY <1>1, <3>2, <3>4, <4>1, RecordFields
    <3>6. PICK s : s = mem.series
      OBVIOUS
    <3>7. Agrees(s, c, at) /\ c[r] = 0
      BY <1>1, <3>2, <3>3, <3>4, <3>6
    <3>8. Agrees(AddMinute(s, at[r].minute), d, at)
      BY <1>2, <3>5, <3>7, AddMinuteAgrees
    <3> QED
      BY <2>1, <3>4, <3>5, <3>6, <3>8
  <2> QED
    BY <2>2, <2>3, <2>4, MadeBy
<1> QED
  BY <1>3, <1>4

(* The minutes are in order, the latest ones, and agree with the history:  *)
(* for requests that end in any order (Record).                            *)
THEOREM MinutesInOrder == Spec => []MinutesAgree(mem)
<1>1. SeriesInv => MinutesAgree(mem)
  <2>1. SUFFICES ASSUME Agrees(mem.series, mem.counted, at) PROVE MinutesAgree(mem)
    BY DEF SeriesInv, Snapshots
  <2> QED
    BY <2>1 DEF Agrees, Ordered, Right, Latest, CountedIn, MinutesAgree
<1> QED
  BY <1>1, InitSeries, SeriesStep, MetricsInvariant, PTL DEF Spec

-------------------------------------------------------------------------------
(* The requests of former gateways                                           *)

(* The requests rs are in the rows of their days, once more each.          *)
Added(x, m, rs, times) ==
  /\ IsRecord(x) /\ x.unknown = m.unknown /\ x.ids = m.ids /\ x.sources = m.sources /\ x.since = m.since
  /\ x.rows = m.rows \cup {RowOf(times, r) : r \in rs}
  /\ \A r \in All : x.counted[r] = m.counted[r] + (IF r \in rs THEN 1 ELSE 0)
LEMMA RecordHistoryAdds ==
  ASSUME NEW m, IsRecord(m), NEW rs, rs \subseteq All, NEW times, \A r \in rs : RowOf(times, r) \in Int \X Keys
  PROVE  Added(RecordHistory(m, rs, times), m, rs, times)
<1>1. PICK rows : rows = m.rows \cup {RowOf(times, r) : r \in rs}
  OBVIOUS
<1>2. PICK counted : counted = [r \in All |-> m.counted[r] + (IF r \in rs THEN 1 ELSE 0)]
  OBVIOUS
<1>3. RecordHistory(m, rs, times) = [m EXCEPT !.counted = counted, !.rows = rows]
  BY <1>1, <1>2 DEF RecordHistory
<1>4. PICK x : x = [counted |-> counted, recent |-> m.recent, rows |-> rows, unknown |-> m.unknown,
                    ids |-> m.ids, sources |-> m.sources, since |-> m.since, series |-> m.series]
  OBVIOUS
<1>5. RecordHistory(m, rs, times) = x
  BY <1>3, <1>4, RecordFields
<1>6. IsRecord(x)
  <2>1. IsRecord(m) /\ rs \subseteq All /\ \A r \in rs : RowOf(times, r) \in Int \X Keys
    OBVIOUS
  <2>2. IsRecord(RecordHistory(m, rs, times))
    BY ONLY <2>1, RecordHistoryIs
  <2> QED
    BY <1>5, <2>2
<1>7. x.counted = counted /\ x.rows = rows /\ x.unknown = m.unknown /\ x.ids = m.ids /\ x.sources = m.sources
      /\ x.since = m.since
  BY <1>4
<1>8. Added(x, m, rs, times)
  BY <1>1, <1>2, <1>6, <1>7 DEF Added
<1> QED
  BY <1>5, <1>8

(* What one archive adds: the lines of a log, with their marks ...         *)
LinesAdded(y, m, a, times, lines) ==
  /\ \A r \in lines : /\ r \in a.recent /\ times[r].time < m.since /\ <<"log", r>> \notin m.ids
                      /\ \A q \in All : m.counted[q] > (IF q \in m.unknown THEN 1 ELSE 0) => times[q].day # times[r].day
  /\ IsRecord(y) /\ y.sources = m.sources /\ y.since = m.since
  /\ y.rows = m.rows \cup {RowOf(times, r) : r \in lines}
  /\ \A r \in All : y.counted[r] = m.counted[r] + (IF r \in lines THEN 1 ELSE 0)
  /\ y.unknown = m.unknown \cup lines /\ y.ids = m.ids \cup {<<"log", r>> : r \in lines}
LogAdded(y, m, a, times) == \E lines : LinesAdded(y, m, a, times, lines)
LEMMA ImportLogAdds ==
  ASSUME NEW m, IsRecord(m), NEW a \in Archives, NEW times, \A r \in Past : RowOf(times, r) \in Int \X Keys
  PROVE  LogAdded(ImportLog(m, a, times), m, a, times)
<1> DEFINE exact == {times[r].day : r \in {q \in All : m.counted[q] > (IF q \in m.unknown THEN 1 ELSE 0)}}
           added == {r \in a.recent : times[r].time < m.since /\ times[r].day \notin exact /\ <<"log", r>> \notin m.ids}
<1>1. PICK lines : lines = added
  OBVIOUS
<1>2. lines \subseteq Past /\ lines \subseteq All
  BY <1>1 DEF Archives, All
<1>3. \A r \in lines : /\ r \in a.recent /\ times[r].time < m.since /\ <<"log", r>> \notin m.ids
                       /\ \A q \in All : m.counted[q] > (IF q \in m.unknown THEN 1 ELSE 0) => times[q].day # times[r].day
  <2>1. ASSUME NEW r \in lines
        PROVE  r \in a.recent /\ times[r].time < m.since /\ <<"log", r>> \notin m.ids /\ times[r].day \notin exact
    BY <1>1
  <2>2. \A q \in All : m.counted[q] > (IF q \in m.unknown THEN 1 ELSE 0) => times[q].day \in exact
    OBVIOUS
  <2> HIDE DEF exact
  <2>3. ASSUME NEW r \in lines, NEW q \in All, m.counted[q] > (IF q \in m.unknown THEN 1 ELSE 0)
        PROVE  times[q].day # times[r].day
    BY <2>1, <2>2, <2>3
  <2> QED
    BY <2>1, <2>3, Zenon
<1>4. PICK x : x = RecordHistory(m, lines, times)
  OBVIOUS
<1>5. ImportLog(m, a, times) = [x EXCEPT !.unknown = x.unknown \cup lines, !.ids = x.ids \cup {<<"log", r>> : r \in lines}]
  BY <1>1, <1>4 DEF ImportLog
<1> HIDE DEF exact, added
<1>6. Added(x, m, lines, times)
  BY <1>2, <1>4, RecordHistoryAdds
<1>7. PICK u, i : u = m.unknown \cup lines /\ i = m.ids \cup {<<"log", r>> : r \in lines}
  OBVIOUS
<1>8. PICK y : y = [counted |-> x.counted, recent |-> x.recent, rows |-> x.rows, unknown |-> u,
                    ids |-> i, sources |-> x.sources, since |-> x.since, series |-> x.series]
  OBVIOUS
<1>9. ImportLog(m, a, times) = y
  <2>1. x = [counted |-> x.counted, recent |-> x.recent, rows |-> x.rows, unknown |-> x.unknown,
             ids |-> x.ids, sources |-> x.sources, since |-> x.since, series |-> x.series]
    BY <1>6, RecordFields DEF Added
  <2>2. ImportLog(m, a, times) = [x EXCEPT !.unknown = u, !.ids = i]
    BY <1>5, <1>6, <1>7 DEF Added
  <2>3. PICK z : z = [x EXCEPT !.unknown = u]
    OBVIOUS
  <2>4. z = [counted |-> x.counted, recent |-> x.recent, rows |-> x.rows, unknown |-> u,
             ids |-> x.ids, sources |-> x.sources, since |-> x.since, series |-> x.series]
    BY <2>1, <2>3
  <2>5. [z EXCEPT !.ids = i] = y
    BY ONLY <1>8, <2>4
  <2> QED
    BY <2>2, <2>3, <2>5
<1>10. IsRecord(y)
  <2>1. IsRecord(m) /\ a \in Archives /\ \A r \in Past : RowOf(times, r) \in Int \X Keys
    OBVIOUS
  <2>2. Grown(ImportLog(m, a, times), m)
    BY ONLY <2>1, ImportLogGrows
  <2> QED
    BY <1>9, <2>2 DEF Grown
<1>11. y.counted = x.counted /\ y.rows = x.rows /\ y.unknown = u /\ y.ids = i /\ y.sources = x.sources /\ y.since = x.since
  BY <1>8
<1>12. LogAdded(y, m, a, times)
  <2>1. LinesAdded(y, m, a, times, lines)
    BY <1>3, <1>6, <1>7, <1>10, <1>11 DEF LinesAdded, Added
  <2> QED
    BY <2>1 DEF LogAdded
<1> QED
  BY <1>9, <1>12

(* ... or the whole days of a snapshot in the rows that are missing, and   *)
(* the recent requests that none of its rows covers.                       *)
WholeDays(a, times) == {r \in All : a.counted[r] > 0 /\ times[r].day < Today}
WholeRows(a, times) == {RowOf(times, w) : w \in WholeDays(a, times)}
SnapshotAdded(y, m, a, times) ==
  LET missing == {r \in WholeDays(a, times) : RowOf(times, r) \notin m.rows}
      before == {r \in a.recent : times[r].time < m.since}
      covered == {r \in before : RowOf(times, r) \in WholeRows(a, times)}
      alone == {r \in before \ covered : <<"id", r>> \notin m.ids}
  IN /\ IsRecord(y) /\ y.sources = m.sources /\ y.since = m.since /\ y.unknown = m.unknown
     /\ y.rows = (m.rows \cup {RowOf(times, r) : r \in missing}) \cup {RowOf(times, r) : r \in alone}
     /\ \A r \in All : y.counted[r] = (m.counted[r] + (IF r \in missing THEN 1 ELSE 0)) + (IF r \in alone THEN 1 ELSE 0)
     /\ y.ids = m.ids \cup {<<"id", r>> : r \in covered \cup alone}
LEMMA ImportSnapshotAdds ==
  ASSUME NEW m, IsRecord(m), NEW a \in Archives, NEW times, \A r \in Past : RowOf(times, r) \in Int \X Keys
  PROVE  SnapshotAdded(ImportSnapshot(m, a, times), m, a, times)
<1>1. PICK whole : whole = {r \in All : a.counted[r] > 0 /\ times[r].day < Today}
  OBVIOUS
<1>2. PICK missing : missing = {r \in whole : RowOf(times, r) \notin m.rows}
  OBVIOUS
<1>3. PICK x : x = RecordHistory(m, missing, times)
  OBVIOUS
<1>4. PICK before : before = {r \in a.recent : times[r].time < m.since}
  OBVIOUS
<1>5. PICK covered : covered = {r \in before : RowOf(times, r) \in {RowOf(times, w) : w \in whole}}
  OBVIOUS
<1>6. PICK alone : alone = {r \in before \ covered : <<"id", r>> \notin m.ids}
  OBVIOUS
<1>7. PICK y : y = RecordHistory(x, alone, times)
  OBVIOUS
<1>8. PICK i : i = y.ids \cup {<<"id", r>> : r \in covered \cup alone}
  OBVIOUS
<1>9. PICK z : z = [y EXCEPT !.ids = i]
  OBVIOUS
<1>10. ImportSnapshot(m, a, times) = z
  BY <1>1, <1>2, <1>3, <1>4, <1>5, <1>6, <1>7, <1>8, <1>9 DEF ImportSnapshot
<1>11. missing \subseteq Past /\ missing \subseteq All
  BY <1>1, <1>2 DEF Archives, All
<1>12. alone \subseteq Past /\ alone \subseteq All
  BY <1>4, <1>6 DEF Archives, All
<1>13. Added(x, m, missing, times)
  BY <1>3, <1>11, RecordHistoryAdds
<1>14. Added(y, x, alone, times)
  <2>1. IsRecord(x) /\ alone \subseteq All /\ \A r \in alone : RowOf(times, r) \in Int \X Keys
    BY <1>12, <1>13 DEF Added
  <2> QED
    BY ONLY <1>7, <2>1, RecordHistoryAdds
<1>15. PICK w : w = [counted |-> y.counted, recent |-> y.recent, rows |-> y.rows, unknown |-> y.unknown,
                     ids |-> i, sources |-> y.sources, since |-> y.since, series |-> y.series]
  OBVIOUS
<1>16. z = w
  <2>1. y = [counted |-> y.counted, recent |-> y.recent, rows |-> y.rows, unknown |-> y.unknown,
             ids |-> y.ids, sources |-> y.sources, since |-> y.since, series |-> y.series]
    BY <1>14, RecordFields DEF Added
  <2> QED
    BY ONLY <1>9, <1>15, <2>1
<1>17. IsRecord(z)
  <2>1. IsRecord(m) /\ a \in Archives /\ \A r \in Past : RowOf(times, r) \in Int \X Keys
    OBVIOUS
  <2>2. Grown(ImportSnapshot(m, a, times), m)
    BY ONLY <2>1, ImportSnapshotGrows
  <2> QED
    BY <1>10, <2>2 DEF Grown
<1>18. /\ z.counted = y.counted /\ z.rows = y.rows /\ z.unknown = y.unknown /\ z.ids = i
       /\ z.sources = y.sources /\ z.since = y.since
  BY <1>15, <1>16
<1>19. /\ z.sources = m.sources /\ z.since = m.since /\ z.unknown = m.unknown
       /\ z.rows = (m.rows \cup {RowOf(times, r) : r \in missing}) \cup {RowOf(times, r) : r \in alone}
       /\ \A r \in All : z.counted[r] = (m.counted[r] + (IF r \in missing THEN 1 ELSE 0)) + (IF r \in alone THEN 1 ELSE 0)
       /\ z.ids = m.ids \cup {<<"id", r>> : r \in covered \cup alone}
  BY <1>8, <1>13, <1>14, <1>18 DEF Added
<1>20. whole = WholeDays(a, times) /\ {RowOf(times, v) : v \in whole} = WholeRows(a, times)
  BY <1>1 DEF WholeDays, WholeRows
<1>21. SnapshotAdded(z, m, a, times)
  BY <1>2, <1>4, <1>5, <1>6, <1>17, <1>19, <1>20 DEF SnapshotAdded
<1> QED
  BY <1>10, <1>21

(* What keeps the requests of former gateways from being counted twice: a  *)
(* request that is counted has its row, and the line of a log its mark.    *)
Sound(m, times) ==
  /\ \A r \in All : m.counted[r] > 0 => RowOf(times, r) \in m.rows
  /\ \A r \in Past : m.counted[r] <= 1
  /\ \A r \in m.unknown : <<"log", r>> \in m.ids
(* The first k archives of q were imported into s: who is counted without  *)
(* an identity was counted so in s or by one of them.                      *)
Marked(m, s, q, k) ==
  /\ m.since = s.since /\ s.ids \subseteq m.ids
  /\ \A r \in Past : m.counted[r] > 0 /\ <<"id", r>> \notin m.ids /\ PastAt[r].time < m.since =>
       s.counted[r] > 0 \/ \E i \in 1 .. k : r \in Unnamed(q[i])

LEMMA LogKeeps ==
  ASSUME NEW m, IsRecord(m), NEW times, Sound(m, times), NEW s, NEW q, NEW k \in Nat, Marked(m, s, q, k),
         q[k + 1].kind = "log", q[k + 1].recent \subseteq Past, NEW y, LogAdded(y, m, q[k + 1], times)
  PROVE  Sound(y, times) /\ Marked(y, s, q, k + 1) /\ y.sources = m.sources
<1>1. PICK a : a = q[k + 1]
  OBVIOUS
<1>2. PICK lines : LinesAdded(y, m, a, times, lines)
  BY <1>1 DEF LogAdded
<1>3. m.counted \in [All -> Nat] /\ y.counted \in [All -> Nat] /\ lines \subseteq Past /\ Past \subseteq All
  BY <1>1, <1>2, RecordFields DEF All, LinesAdded
<1>4. ASSUME NEW r \in lines PROVE m.counted[r] = 0
  <2>1. r \notin m.unknown
    BY <1>2 DEF Sound, LinesAdded
  <2>2. ~(m.counted[r] > 0)
    BY <1>2, <1>3, <2>1 DEF LinesAdded
  <2> QED
    BY <1>3, <2>2
<1>5. Sound(y, times)
  <2>1. \A r \in All : y.counted[r] > 0 => m.counted[r] > 0 \/ r \in lines
    BY <1>2, <1>3 DEF LinesAdded
  <2>2. \A r \in All : y.counted[r] > 0 => RowOf(times, r) \in y.rows
    BY <1>2, <2>1 DEF Sound, LinesAdded
  <2>3. ASSUME NEW r \in Past PROVE y.counted[r] <= 1
    <3>1. CASE r \in lines
      BY <1>2, <1>3, <1>4, <3>1 DEF LinesAdded
    <3>2. CASE r \notin lines
      <4>1. y.counted[r] = m.counted[r] + 0 /\ m.counted[r] \in Nat
        BY <1>2, <1>3, <3>2 DEF LinesAdded
      <4> QED
        BY <4>1 DEF Sound
    <3> QED
      BY <3>1, <3>2
  <2>4. ASSUME NEW r \in y.unknown PROVE <<"log", r>> \in y.ids
    <3>1. r \in m.unknown \/ r \in lines
      BY <1>2 DEF LinesAdded
    <3>2. m.ids \subseteq y.ids /\ \A p \in lines : <<"log", p>> \in y.ids
      BY <1>2 DEF LinesAdded
    <3> QED
      BY <3>1, <3>2 DEF Sound
  <2> QED
    BY <2>2, <2>3, <2>4 DEF Sound
<1>6. Marked(y, s, q, k + 1)
  <2>1. y.since = s.since /\ s.ids \subseteq y.ids
    BY <1>2 DEF Marked, LinesAdded
  <2>2. ASSUME NEW r \in Past, y.counted[r] > 0, <<"id", r>> \notin y.ids, PastAt[r].time < y.since
        PROVE  s.counted[r] > 0 \/ \E i \in 1 .. k + 1 : r \in Unnamed(q[i])
    <3>1. CASE r \in lines
      <4>1. r \in Unnamed(q[k + 1])
        BY <1>1, <1>2, <3>1 DEF Unnamed, LinesAdded
      <4>2. k + 1 \in 1 .. k + 1
        OBVIOUS
      <4> QED
        BY <4>1, <4>2
    <3>2. CASE r \notin lines
      <4>1. m.counted[r] > 0 /\ <<"id", r>> \notin m.ids /\ PastAt[r].time < m.since
        <5>1. y.counted[r] = m.counted[r] + 0 /\ m.counted[r] \in Nat
          BY <1>2, <1>3, <3>2 DEF LinesAdded
        <5> QED
          BY <1>2, <2>2, <5>1 DEF LinesAdded
      <4>2. s.counted[r] > 0 \/ \E i \in 1 .. k : r \in Unnamed(q[i])
        BY <4>1 DEF Marked
      <4>3. \A i \in 1 .. k : i \in 1 .. k + 1
        OBVIOUS
      <4> QED
        BY <4>2, <4>3
    <3> QED
      BY <3>1, <3>2
  <2> QED
    BY <2>1, <2>2 DEF Marked
<1> QED
  BY <1>2, <1>5, <1>6 DEF LinesAdded

(* The days fill only rows that were not there; who is counted alone was   *)
(* not counted before, because the archives are in order.                  *)
LEMMA SnapshotKeeps ==
  ASSUME NEW m, IsRecord(m), NEW times, \A r \in Past : times[r] = PastAt[r], Sound(m, times),
         NEW s, s.counted \in [All -> Nat], NEW q, NEW k \in Nat, k + 1 \in DOMAIN q, Marked(m, s, q, k), InOrder(s, q),
         q[k + 1].kind # "log", q[k + 1] \in Archives,
         NEW y, SnapshotAdded(y, m, q[k + 1], times)
  PROVE  Sound(y, times) /\ Marked(y, s, q, k + 1) /\ y.sources = m.sources
<1>1. PICK a : a = q[k + 1]
  OBVIOUS
<1>2. PICK missing : missing = {r \in WholeDays(a, times) : RowOf(times, r) \notin m.rows}
  OBVIOUS
<1>3. PICK before : before = {r \in a.recent : times[r].time < m.since}
  OBVIOUS
<1>4. PICK covered : covered = {r \in before : RowOf(times, r) \in WholeRows(a, times)}
  OBVIOUS
<1>5. PICK alone : alone = {r \in before \ covered : <<"id", r>> \notin m.ids}
  OBVIOUS
<1>6. /\ IsRecord(y) /\ y.sources = m.sources /\ y.since = m.since /\ y.unknown = m.unknown
      /\ y.rows = (m.rows \cup {RowOf(times, r) : r \in missing}) \cup {RowOf(times, r) : r \in alone}
      /\ \A r \in All : y.counted[r] = (m.counted[r] + (IF r \in missing THEN 1 ELSE 0)) + (IF r \in alone THEN 1 ELSE 0)
      /\ y.ids = m.ids \cup {<<"id", r>> : r \in covered \cup alone}
  BY <1>1, <1>2, <1>3, <1>4, <1>5 DEF SnapshotAdded
<1>7. a.recent \subseteq Past /\ Past \subseteq All /\ a.counted \in [All -> {0, 1}] /\ \A r \in Live : a.counted[r] = 0
  BY <1>1 DEF Archives, All
<1>8. m.counted \in [All -> Nat] /\ y.counted \in [All -> Nat]
  BY <1>6, RecordFields
<1>9. \A w \in WholeDays(a, times) : w \in Past /\ a.counted[w] > 0 /\ PastAt[w].day < Today
  BY <1>7 DEF WholeDays, All
<1>10. ASSUME NEW r \in missing PROVE r \in Past /\ m.counted[r] = 0 /\ r \notin alone
  <2>1. r \in Past /\ r \in WholeDays(a, times) /\ RowOf(times, r) \notin m.rows
    BY <1>2, <1>9
  <2>2. ~(m.counted[r] > 0)
    BY <1>7, <2>1 DEF Sound
  <2>3. RowOf(times, r) \in WholeRows(a, times)
    BY <2>1 DEF WholeRows
  <2>4. r \notin alone
    BY <1>4, <1>5, <2>3
  <2> QED
    BY <1>7, <1>8, <2>1, <2>2, <2>4
<1>11. ASSUME NEW r \in alone PROVE r \in Past /\ m.counted[r] = 0
  <2>1. r \in Past /\ r \in a.recent /\ times[r].time < m.since /\ <<"id", r>> \notin m.ids
        /\ RowOf(times, r) \notin WholeRows(a, times)
    BY <1>3, <1>4, <1>5, <1>7
  <2>2. r \in Alone(a)
    <3>1. SUFFICES ASSUME NEW w \in Past, a.counted[w] > 0, PastAt[w].day < Today, RowOf(PastAt, w) = RowOf(PastAt, r)
                   PROVE  FALSE
      BY <1>1, <2>1 DEF Alone
    <3>2. w \in WholeDays(a, times)
      BY <1>7, <3>1 DEF WholeDays
    <3>3. RowOf(times, w) = RowOf(times, r)
      BY <2>1, <3>1 DEF RowOf
    <3> QED
      BY <2>1, <3>2, <3>3 DEF WholeRows
  <2>3. \/ <<"id", r>> \in s.ids
        \/ PastAt[r].time >= s.since
        \/ s.counted[r] = 0 /\ \A i \in 1 .. (k + 1) - 1 : r \notin Unnamed(q[i])
    BY <1>1, <2>2 DEF InOrder
  <2>4. <<"id", r>> \notin s.ids
    BY <2>1 DEF Marked
  <2>5. PastAt[r].time < m.since /\ m.since = s.since /\ PastAt[r].time \in Int /\ s.since \in Int
    <3>1. PastAt[r].time \in Int
      BY <2>1, StoreAssumption DEF Times
    <3>2. m.since = s.since /\ m.since \in Int
      BY RecordFields DEF Marked
    <3> QED
      BY <2>1, <3>1, <3>2
  <2>6. s.counted[r] = 0 /\ \A i \in 1 .. k : r \notin Unnamed(q[i])
    <3>1. (k + 1) - 1 = k
      OBVIOUS
    <3>2. ~(PastAt[r].time >= s.since)
      BY <2>5
    <3> QED
      BY <2>3, <2>4, <3>1, <3>2
  <2>7. ~(m.counted[r] > 0)
    BY <2>1, <2>5, <2>6 DEF Marked
  <2> QED
    BY <1>7, <1>8, <2>1, <2>7
<1>12. \A r \in All : /\ r \in missing => y.counted[r] = 1 /\ r \in Past
                      /\ r \in alone => y.counted[r] = 1 /\ r \in Past
                      /\ r \notin missing /\ r \notin alone => y.counted[r] = m.counted[r]
  BY <1>6, <1>8, <1>10, <1>11
<1>13. Sound(y, times)
  <2>1. \A r \in All : y.counted[r] > 0 => RowOf(times, r) \in y.rows
    BY <1>6, <1>12 DEF Sound
  <2>2. \A r \in Past : y.counted[r] <= 1
    BY <1>7, <1>12 DEF Sound
  <2>3. ASSUME NEW r \in y.unknown PROVE <<"log", r>> \in y.ids
    <3>1. r \in m.unknown /\ m.ids \subseteq y.ids
      BY <1>6
    <3> QED
      BY <3>1 DEF Sound
  <2> QED
    BY <2>1, <2>2, <2>3 DEF Sound
<1>14. Marked(y, s, q, k + 1)
  <2>1. y.since = s.since /\ s.ids \subseteq y.ids
    BY <1>6 DEF Marked
  <2>2. ASSUME NEW r \in Past, y.counted[r] > 0, <<"id", r>> \notin y.ids, PastAt[r].time < y.since
        PROVE  s.counted[r] > 0 \/ \E i \in 1 .. k + 1 : r \in Unnamed(q[i])
    <3>1. r \notin alone /\ r \notin covered /\ <<"id", r>> \notin m.ids
      BY <1>6, <2>2
    <3>2. CASE r \in missing
      <4>1. r \in WholeDays(a, times) /\ a.counted[r] > 0 /\ RowOf(times, r) \in WholeRows(a, times)
        BY <1>2, <1>9, <3>2 DEF WholeRows
      <4>2. r \notin a.recent
        BY <1>3, <1>4, <1>6, <2>2, <3>1, <4>1
      <4>3. r \in Unnamed(q[k + 1])
        BY <1>1, <4>1, <4>2 DEF Unnamed
      <4>4. k + 1 \in 1 .. k + 1
        OBVIOUS
      <4> QED
        BY <4>3, <4>4
    <3>3. CASE r \notin missing
      <4>1. m.counted[r] > 0 /\ PastAt[r].time < m.since
        BY <1>6, <1>7, <1>12, <2>2, <3>1, <3>3
      <4>2. s.counted[r] > 0 \/ \E i \in 1 .. k : r \in Unnamed(q[i])
        BY <3>1, <4>1 DEF Marked
      <4>3. \A i \in 1 .. k : i \in 1 .. k + 1
        OBVIOUS
      <4> QED
        BY <4>2, <4>3
    <3> QED
      BY <3>2, <3>3
  <2> QED
    BY <2>1, <2>2 DEF Marked
<1> QED
  BY <1>6, <1>13, <1>14

(* The first k archives of q were imported into s.                         *)
Imported(m, s, q, k, times) ==
  IsRecord(m) /\ Sound(m, times) /\ Marked(m, s, q, k) /\ m.sources = {q[i] : i \in 1 .. k}
(* The archives of a sequence q in order, and a start s they go to.        *)
Sequence(s, q) == q \in Seq(Archives) /\ s.counted \in [All -> Nat] /\ InOrder(s, q)
PastTimes(times) ==
  /\ \A r \in Past : times[r] = PastAt[r]
  /\ \A r \in Past : RowOf(times, r) \in Int \X Keys

LEMMA ImportKeeps ==
  ASSUME NEW m, NEW s, NEW q, NEW k \in Nat, k + 1 \in DOMAIN q, NEW times, PastTimes(times), Sequence(s, q),
         Imported(m, s, q, k, times)
  PROVE  Imported(ImportHistory(m, q[k + 1], times), s, q, k + 1, times)
<1>1. PICK a : a = q[k + 1]
  OBVIOUS
<1>2. a \in Archives /\ a.recent \subseteq Past
  <2>1. q \in Seq(Archives) /\ DOMAIN q = 1 .. Len(q)
    BY LenProperties DEF Sequence
  <2>2. a \in Archives
    BY <1>1, <2>1, ElementOfSeq
  <2> QED
    BY <2>2 DEF Archives
<1>3. {q[i] : i \in 1 .. k + 1} = {q[i] : i \in 1 .. k} \cup {a}
  <2>1. \A i \in 1 .. k + 1 : i \in 1 .. k \/ i = k + 1
    OBVIOUS
  <2>2. \A i \in 1 .. k : i \in 1 .. k + 1
    OBVIOUS
  <2>3. k + 1 \in 1 .. k + 1
    OBVIOUS
  <2> QED
    BY <1>1, <2>1, <2>2, <2>3
<1>4. IsRecord(m) /\ Sound(m, times) /\ Marked(m, s, q, k) /\ m.sources = {q[i] : i \in 1 .. k}
  BY DEF Imported
<1>5. CASE a \in m.sources
  <2>1. ImportHistory(m, a, times) = m
    BY <1>5 DEF ImportHistory
  <2>2. Marked(m, s, q, k + 1)
    <3>1. \A i \in 1 .. k : i \in 1 .. k + 1
      OBVIOUS
    <3> QED
      BY <1>4, <3>1 DEF Marked
  <2>3. m.sources = {q[i] : i \in 1 .. k + 1}
    BY <1>3, <1>4, <1>5
  <2> QED
    BY <1>1, <1>4, <2>1, <2>2, <2>3 DEF Imported
<1>6. CASE a \notin m.sources
  <2>1. PICK x : x = IF a.kind = "log" THEN ImportLog(m, a, times) ELSE ImportSnapshot(m, a, times)
    OBVIOUS
  <2>2. IsRecord(x) /\ Sound(x, times) /\ Marked(x, s, q, k + 1) /\ x.sources = m.sources
    <3>1. CASE a.kind = "log"
      <4>1. LogAdded(x, m, a, times)
        BY <1>2, <1>4, <2>1, <3>1, ImportLogAdds DEF PastTimes
      <4>2. IsRecord(x)
        BY <4>1 DEF LogAdded, LinesAdded
      <4> QED
        BY <1>1, <1>2, <1>4, <3>1, <4>1, <4>2, LogKeeps
    <3>2. CASE a.kind # "log"
      <4>1. SnapshotAdded(x, m, a, times)
        BY <1>2, <1>4, <2>1, <3>2, ImportSnapshotAdds DEF PastTimes
      <4>2. IsRecord(x)
        BY <4>1 DEF SnapshotAdded
      <4>3. s.counted \in [All -> Nat] /\ InOrder(s, q) /\ \A r \in Past : times[r] = PastAt[r]
        BY DEF Sequence, PastTimes
      <4> QED
        BY <1>1, <1>2, <1>4, <3>2, <4>1, <4>2, <4>3, SnapshotKeeps
    <3> QED
      BY <3>1, <3>2
  <2>3. PICK l : l = x.sources \cup {a}
    OBVIOUS
  <2>4. PICK y : y = [counted |-> x.counted, recent |-> x.recent, rows |-> x.rows, unknown |-> x.unknown,
                      ids |-> x.ids, sources |-> l, since |-> x.since, series |-> x.series]
    OBVIOUS
  <2>5. ImportHistory(m, a, times) = y
    <3>1. ImportHistory(m, a, times) = [x EXCEPT !.sources = l]
      BY <1>6, <2>1, <2>3 DEF ImportHistory
    <3> QED
      BY <2>2, <2>4, <3>1, RecordFields
  <2>6. IsRecord(y)
    <3>1. l \subseteq Archives
      BY <1>2, <2>2, <2>3, RecordFields
    <3>2. Grown([x EXCEPT !.sources = l], x)
      BY <2>2, <3>1, SourcesGrow
    <3>3. [x EXCEPT !.sources = l] = y
      BY <2>2, <2>4, RecordFields
    <3> QED
      BY <3>2, <3>3 DEF Grown
  <2>7. /\ y.counted = x.counted /\ y.rows = x.rows /\ y.unknown = x.unknown /\ y.ids = x.ids
        /\ y.since = x.since /\ y.sources = l
    BY <2>4
  <2>8. Sound(y, times) /\ Marked(y, s, q, k + 1)
    BY <2>2, <2>7 DEF Sound, Marked
  <2>9. y.sources = {q[i] : i \in 1 .. k + 1}
    BY <1>3, <1>4, <2>2, <2>3, <2>7
  <2> QED
    BY <1>1, <2>5, <2>6, <2>8, <2>9 DEF Imported
<1> QED
  BY <1>5, <1>6

(* The snapshots after each of the archives.                               *)
Stages(f, m, list, times) ==
  /\ f[0] = m /\ f[Len(list)] = ImportAll(m, list, times)
  /\ \A j \in Nat : j + 1 <= Len(list) => f[j + 1] = ImportHistory(f[j], list[j + 1], times)
LEMMA ImportAllSteps ==
  ASSUME NEW m, IsRecord(m), NEW list \in Seq(Archives), NEW times, \A r \in Past : RowOf(times, r) \in Int \X Keys
  PROVE  \E f : Stages(f, m, list, times)
<1>1. PICK g : ImportsFrom(m, list, times, g) /\ ImportAll(m, list, times) = g[DOMAIN list]
  BY ImportAllIsFold
<1>2. Len(list) \in Nat /\ DOMAIN list = 1 .. Len(list)
  BY LenProperties
<1>3. \A v \in SUBSET DOMAIN list : g[v] = IF v = {} THEN m ELSE ImportHistory(g[v \ {Max(v)}], list[Max(v)], times)
  BY <1>1 DEF ImportsFrom
<1>4. PICK f : f = [j \in 0 .. Len(list) |-> g[1 .. j]]
  OBVIOUS
<1>5. f[0] = m
  <2>1. 1 .. 0 = {} /\ 0 \in 0 .. Len(list)
    BY <1>2
  <2> QED
    BY <1>3, <1>4, <2>1
<1>6. f[Len(list)] = ImportAll(m, list, times)
  BY <1>1, <1>2, <1>4
<1>7. ASSUME NEW j \in Nat, j + 1 <= Len(list) PROVE f[j + 1] = ImportHistory(f[j], list[j + 1], times)
  <2>1. Max(1 .. j + 1) = j + 1 /\ (1 .. j + 1) \ {j + 1} = 1 .. j
    BY MaxOfPrefix
  <2>2. 1 .. j + 1 \in SUBSET DOMAIN list /\ 1 .. j + 1 # {}
    <3>1. j + 1 \in 1 .. j + 1
      OBVIOUS
    <3>2. \A i \in 1 .. j + 1 : i \in 1 .. Len(list)
      BY <1>2, <1>7
    <3> QED
      BY ONLY <1>2, <3>1, <3>2
  <2>3. g[1 .. j + 1] = ImportHistory(g[1 .. j], list[j + 1], times)
    BY <1>3, <2>1, <2>2
  <2>4. j \in 0 .. Len(list) /\ j + 1 \in 0 .. Len(list)
    BY <1>2, <1>7
  <2> QED
    BY <1>4, <2>3, <2>4
<1> QED
  BY <1>5, <1>6, <1>7 DEF Stages

(* All archives of a list that goes on where q was left.                   *)
LEMMA ImportAllKeeps ==
  ASSUME NEW m, NEW s, NEW q, NEW k \in Nat, NEW times, PastTimes(times), Sequence(s, q), Imported(m, s, q, k, times),
         NEW list \in Seq(Archives), k + Len(list) <= Len(q), \A i \in 1 .. Len(list) : list[i] = q[k + i]
  PROVE  Imported(ImportAll(m, list, times), s, q, k + Len(list), times)
<1>1. PICK f : Stages(f, m, list, times)
  <2>1. IsRecord(m) /\ \A r \in Past : RowOf(times, r) \in Int \X Keys
    BY DEF Imported, PastTimes
  <2> QED
    BY <2>1, ImportAllSteps
<1>2. Len(list) \in Nat /\ Len(q) \in Nat /\ DOMAIN q = 1 .. Len(q)
  <2>1. q \in Seq(Archives)
    BY DEF Sequence
  <2> QED
    BY <2>1, LenProperties
<1> DEFINE S == {j \in Nat : j <= Len(list) => Imported(f[j], s, q, k + j, times)}
<1>3. 0 \in S
  <2>1. k + 0 = k
    OBVIOUS
  <2> QED
    BY <1>1, <2>1 DEF Stages
<1>4. ASSUME NEW j \in Nat, j \in S PROVE j + 1 \in S
  <2>1. SUFFICES ASSUME j + 1 <= Len(list) PROVE Imported(f[j + 1], s, q, k + (j + 1), times)
    OBVIOUS
  <2>2. Imported(f[j], s, q, k + j, times)
    BY <1>2, <1>4, <2>1
  <2>3. PICK i : i = k + j
    OBVIOUS
  <2>4. i \in Nat /\ i + 1 \in DOMAIN q /\ k + (j + 1) = i + 1 /\ j + 1 \in 1 .. Len(list)
    <3>1. i \in Nat /\ k + (j + 1) = i + 1 /\ j + 1 \in 1 .. Len(list) /\ i + 1 <= k + Len(list)
      BY <1>2, <2>1, <2>3
    <3>2. k + Len(list) <= Len(q)
      OBVIOUS
    <3>3. i + 1 \in 1 .. Len(q)
      BY ONLY <1>2, <3>1, <3>2, k \in Nat
    <3> QED
      BY <1>2, <3>1, <3>3
  <2>5. list[j + 1] = q[i + 1]
    BY <2>4
  <2>6. Imported(ImportHistory(f[j], q[i + 1], times), s, q, i + 1, times)
    BY <2>2, <2>3, <2>4, ImportKeeps
  <2> QED
    BY <1>1, <2>1, <2>4, <2>5, <2>6 DEF Stages
<1> HIDE DEF S
<1>5. Nat \subseteq S
  BY <1>3, <1>4, NumberInduction
<1> QED
  BY <1>1, <1>2, <1>5 DEF S, Stages

(* Archives that were imported before change nothing.                      *)
LEMMA ImportAllDone ==
  ASSUME NEW m, IsRecord(m), NEW list \in Seq(Archives), NEW times, \A r \in Past : RowOf(times, r) \in Int \X Keys,
         \A i \in 1 .. Len(list) : list[i] \in m.sources
  PROVE  ImportAll(m, list, times) = m
<1>1. PICK f : Stages(f, m, list, times)
  <2>1. IsRecord(m) /\ list \in Seq(Archives) /\ \A r \in Past : RowOf(times, r) \in Int \X Keys
    OBVIOUS
  <2> QED
    BY ONLY <2>1, ImportAllSteps
<1>2. Len(list) \in Nat
  BY LenProperties
<1> DEFINE S == {j \in Nat : j <= Len(list) => f[j] = m}
<1>3. 0 \in S
  BY <1>1 DEF Stages
<1>4. ASSUME NEW j \in Nat, j \in S PROVE j + 1 \in S
  <2>1. SUFFICES ASSUME j + 1 <= Len(list) PROVE f[j + 1] = m
    OBVIOUS
  <2>2. f[j] = m /\ j + 1 \in 1 .. Len(list)
    BY <1>2, <1>4, <2>1
  <2>3. list[j + 1] \in m.sources
    BY <2>2
  <2> QED
    BY <1>1, <2>1, <2>2, <2>3 DEF ImportHistory, Stages
<1> HIDE DEF S
<1>5. Nat \subseteq S
  BY <1>3, <1>4, NumberInduction
<1> QED
  BY <1>1, <1>2, <1>5 DEF S, Stages

(* Where an import begins: with nothing, or with what one archive gives.   *)
LEMMA EmptyBegins ==
  ASSUME NEW n \in Int, NEW q, NEW times
  PROVE  Imported(Empty(n), Empty(n), q, 0, times) /\ Empty(n).counted \in [All -> Nat]
<1>1. PICK e : e = Empty(n)
  OBVIOUS
<1>2. IsRecord(e) /\ \A r \in All : e.counted[r] = 0
  BY ONLY <1>1, n \in Int, EmptyIsRecord
<1>3. e.sources = {} /\ e.unknown = {} /\ e.counted \in [All -> Nat]
  BY <1>1, <1>2, RecordFields DEF Empty
<1>4. Sound(e, times)
  BY <1>2, <1>3 DEF Sound, All
<1>5. Marked(e, e, q, 0)
  BY DEF Marked
<1>6. e.sources = {q[i] : i \in 1 .. 0}
  BY <1>3
<1> QED
  BY <1>1, <1>2, <1>3, <1>4, <1>5, <1>6 DEF Imported

LEMMA ArchiveBegins ==
  ASSUME NEW a \in Archives, NEW n \in Int, NEW q, NEW times, PastTimes(times)
  PROVE  Imported(FromArchive(a, n), FromArchive(a, n), q, 0, times) /\ FromArchive(a, n).counted \in [All -> Nat]
<1>1. PICK m : m = FromArchive(a, n)
  OBVIOUS
<1>2. IsRecord(m) /\ m.counted \in [All -> Nat] /\ \A r \in Live : m.counted[r] = 0
  BY <1>1, FromArchiveIs, RecordFields DEF Foreign
<1>3. a.recent \subseteq Past /\ a.counted \in [All -> {0, 1}] /\ Past \subseteq All
  BY DEF Archives, All
<1>4. \A r \in Past : RowOf(PastAt, r) \in Int \X Keys /\ RowOf(times, r) = RowOf(PastAt, r)
  BY StoreAssumption DEF Times, RowOf, PastTimes
<1>5. /\ m.sources = {} /\ m.unknown = {}
      /\ \A r \in Past : m.counted[r] <= 1 /\ (m.counted[r] > 0 => RowOf(PastAt, r) \in m.rows)
  <2>1. CASE a.kind = "legacy"
    <3>1. PICK e : e = Empty(n)
      OBVIOUS
    <3>2. IsRecord(e) /\ e.sources = {} /\ e.unknown = {} /\ \A r \in All : e.counted[r] = 0
      <4>1. IsRecord(e) /\ \A r \in All : e.counted[r] = 0
        BY ONLY <3>1, n \in Int, EmptyIsRecord
      <4> QED
        BY <3>1, <4>1 DEF Empty
    <3>3. PICK x : x = RecordHistory(e, a.recent, PastAt)
      OBVIOUS
    <3>4. Added(x, e, a.recent, PastAt)
      <4>1. IsRecord(e) /\ a.recent \subseteq All /\ \A r \in a.recent : RowOf(PastAt, r) \in Int \X Keys
        BY <1>3, <1>4, <3>2
      <4> QED
        BY ONLY <3>3, <4>1, RecordHistoryAdds
    <3>5. m = [x EXCEPT !.recent = a.recent, !.ids = {<<"id", r>> : r \in a.recent}]
      BY <1>1, <2>1, <3>1, <3>3 DEF FromArchive, LoadLegacy
    <3>6. m.sources = x.sources /\ m.unknown = x.unknown /\ m.counted = x.counted /\ m.rows = x.rows
      <4>1. PICK i, k : i = {<<"id", r>> : r \in a.recent} /\ k = a.recent
        OBVIOUS
      <4>2. m = [x EXCEPT !.recent = k, !.ids = i]
        BY <3>5, <4>1
      <4>3. x = [counted |-> x.counted, recent |-> x.recent, rows |-> x.rows, unknown |-> x.unknown,
                 ids |-> x.ids, sources |-> x.sources, since |-> x.since, series |-> x.series]
        BY <3>4, RecordFields DEF Added
      <4> QED
        BY ONLY <4>2, <4>3
    <3>7. m.sources = {} /\ m.unknown = {}
      BY <3>2, <3>4, <3>6 DEF Added
    <3>8. \A r \in Past : m.counted[r] = IF r \in a.recent THEN 1 ELSE 0
      BY <1>3, <3>2, <3>4, <3>6 DEF Added
    <3>9. \A r \in a.recent : RowOf(PastAt, r) \in m.rows
      BY <3>4, <3>6 DEF Added
    <3> QED
      BY <3>7, <3>8, <3>9
  <2>2. CASE a.kind # "legacy"
    <3>1. PICK own : own = {RowOf(PastAt, r) : r \in {q1 \in All : a.counted[q1] > 0}}
      OBVIOUS
    <3>2. m = [Empty(a.since) EXCEPT !.counted = a.counted, !.recent = a.recent, !.rows = own]
      BY <1>1, <2>2, <3>1 DEF FromArchive
    <3>3. m.sources = {} /\ m.unknown = {} /\ m.counted = a.counted /\ m.rows = own
      <4>1. PICK c, k, t, none : c = a.counted /\ k = a.recent /\ t = a.since /\ none = [r \in All |-> 0]
        OBVIOUS
      <4>2. PICK l : l = <<>>
        OBVIOUS
      <4>3. m = [[counted |-> none, recent |-> {}, rows |-> {}, unknown |-> {}, ids |-> {},
                  sources |-> {}, since |-> t, series |-> l] EXCEPT !.counted = c, !.recent = k, !.rows = own]
        BY <3>2, <4>1, <4>2 DEF Empty
      <4>4. m.sources = {} /\ m.unknown = {} /\ m.counted = c /\ m.rows = own
        BY ONLY <4>3
      <4> QED
        BY <4>1, <4>4
    <3>4. \A r \in Past : m.counted[r] \in {0, 1} /\ (m.counted[r] > 0 => RowOf(PastAt, r) \in m.rows)
      BY <1>3, <3>1, <3>3
    <3> QED
      BY <3>3, <3>4
  <2> QED
    BY <2>1, <2>2
<1>6. Sound(m, times)
  <2>1. \A r \in All : m.counted[r] > 0 => r \in Past
    BY <1>2 DEF All
  <2> QED
    BY <1>4, <1>5, <2>1 DEF Sound
<1>7. Marked(m, m, q, 0)
  BY DEF Marked
<1>8. m.sources = {q[i] : i \in 1 .. 0}
  BY <1>5
<1> QED
  BY <1>1, <1>2, <1>6, <1>7, <1>8 DEF Imported

(* A request of this gateway changes nothing of it.                        *)
LEMMA RecordKeeps ==
  ASSUME NEW m, NEW s, NEW q, NEW k, NEW times \in [All -> Times], NEW r \in Live, Imported(m, s, q, k, times)
  PROVE  Imported(Record(m, r, times), s, q, k, times)
<1>1. IsRecord(m) /\ Sound(m, times) /\ Marked(m, s, q, k) /\ m.sources = {q[i] : i \in 1 .. k}
  BY DEF Imported
<1>2. r \in All /\ r \notin Past /\ Past \subseteq All
  BY HistoryAssumption DEF All
<1>3. PICK x : x = RecordHistory(m, {r}, times)
  OBVIOUS
<1>4. Added(x, m, {r}, times)
  <2>1. IsRecord(m) /\ {r} \subseteq All /\ \A p \in {r} : RowOf(times, p) \in Int \X Keys
    BY <1>1, <1>2 DEF RowOf, Times
  <2> QED
    BY ONLY <1>3, <2>1, RecordHistoryAdds
<1>5. PICK y : y = Record(m, r, times)
  OBVIOUS
<1>6. IsRecord(y)
  <2>1. IsRecord(m) /\ r \in All /\ times \in [All -> Times]
    BY <1>1, <1>2
  <2>2. IsRecord(Record(m, r, times))
    BY ONLY <2>1, RecordIs
  <2> QED
    BY <1>5, <2>2
<1>7. /\ y.counted = x.counted /\ y.rows = x.rows /\ y.unknown = x.unknown /\ y.ids = x.ids
      /\ y.sources = x.sources /\ y.since = x.since
  <2>1. PICK l, e : l = AddMinute(x.series, times[r].minute) /\ e = x.recent \cup {r}
    OBVIOUS
  <2>2. y = [x EXCEPT !.recent = e, !.series = l]
    BY <1>3, <1>5, <2>1 DEF Record
  <2>3. x = [counted |-> x.counted, recent |-> x.recent, rows |-> x.rows, unknown |-> x.unknown,
             ids |-> x.ids, sources |-> x.sources, since |-> x.since, series |-> x.series]
    BY <1>4, RecordFields DEF Added
  <2> QED
    BY ONLY <2>2, <2>3
<1>8. /\ y.rows = m.rows \cup {RowOf(times, p) : p \in {r}} /\ y.unknown = m.unknown /\ y.ids = m.ids
      /\ y.sources = m.sources /\ y.since = m.since
      /\ \A p \in All : y.counted[p] = m.counted[p] + (IF p \in {r} THEN 1 ELSE 0)
  BY <1>4, <1>7 DEF Added
<1>9. \A p \in All : p # r => y.counted[p] = m.counted[p]
  <2>1. m.counted \in [All -> Nat]
    BY <1>1, RecordFields
  <2> QED
    BY <1>8, <2>1
<1>10. Sound(y, times)
  <2>1. ASSUME NEW p \in All, y.counted[p] > 0 PROVE RowOf(times, p) \in y.rows
    <3>1. CASE p = r
      BY <1>8, <3>1
    <3>2. CASE p # r
      BY <1>1, <1>8, <1>9, <2>1, <3>2 DEF Sound
    <3> QED
      BY <3>1, <3>2
  <2>2. \A p \in Past : y.counted[p] <= 1
    BY <1>1, <1>2, <1>9 DEF Sound
  <2> QED
    BY <1>1, <1>8, <2>1, <2>2 DEF Sound
<1>11. Marked(y, s, q, k)
  BY <1>1, <1>2, <1>8, <1>9 DEF Marked
<1> QED
  BY <1>1, <1>5, <1>6, <1>8, <1>10, <1>11 DEF Imported

(* Nor does the time at which a request comes in.                          *)
LEMMA ArrivalKeeps ==
  ASSUME NEW m, NEW s, NEW q, NEW k, NEW times, NEW later, Imported(m, s, q, k, times),
         \A r \in All : RowOf(later, r) = RowOf(times, r)
  PROVE  Imported(m, s, q, k, later)
BY DEF Imported, Sound

(* Where a snapshot has its requests of former gateways from, by the file  *)
(* it is kept in. None of it depends on how many starts there were.        *)
FromImports(m) == \E n \in 1 .. LastBoot : Imported(m, Empty(n), imports, Len(imports), at)
FromAlternate(m) ==
  Importable(archive)
  /\ \E n \in 1 .. LastBoot, k \in {Len(imports), Len(imports) + 1} :
       Imported(m, FromArchive(archive, n), Append(imports, archive), k, at)
Others == (IF Importable(archive) THEN <<archive>> ELSE <<>>) \o imports
FromFirst(m) ==
  \E first \in FirstMain :
    first.kind # "absent" /\ \E k \in {0, Len(Others)} : Imported(m, FromArchive(first, 1), Others, k, at)
Origin(f, m) ==
  IF f = Main THEN (FromImports(m) /\ archive.kind = "absent") \/ FromAlternate(m) \/ FromFirst(m)
  ELSE FromImports(m)
PastInv ==
  /\ \A r \in Past : at[r] = PastAt[r]
  /\ \A f \in Files : file[f].is = "saved" => Origin(f, file[f].m)
  /\ IF phase = "down" THEN mem = Empty(0) ELSE Origin(path, mem)
  /\ writer # "none" => Origin(path, copy)

(* What a start may take for granted of the archives and their order.      *)
LEMMA ArchivesAre ==
  ASSUME ArchivesInOrder, TypeInv, \A r \in Past : at[r] = PastAt[r]
  PROVE  /\ PastTimes(at) /\ archive \in Archives /\ imports \in Seq(Archives) /\ Len(imports) \in Nat
         /\ \A n \in 1 .. LastBoot : Sequence(Empty(n), imports)
         /\ Importable(archive) => \A n \in 1 .. LastBoot : Sequence(FromArchive(archive, n), Append(imports, archive))
         /\ \A first \in FirstMain : first.kind # "absent" => Sequence(FromArchive(first, 1), Others)
<1>1. archive \in Alternate /\ imports \in Imports /\ at \in [All -> Times]
  BY DEF TypeInv
<1>2. archive \in Archives /\ imports \in Seq(Archives) /\ Len(imports) \in Nat /\ FirstMain \subseteq Archives
  BY <1>1, StoreAssumption, LenProperties
<1>3. PastTimes(at)
  BY StoreAssumption DEF PastTimes, Times, RowOf
<1>4. \A n \in 1 .. LastBoot : n \in Int
  OBVIOUS
<1>5. \A n \in 1 .. LastBoot : Empty(n).counted \in [All -> Nat] /\ FromArchive(archive, n).counted \in [All -> Nat]
  BY <1>2, <1>3, <1>4, EmptyBegins, ArchiveBegins
<1>6. \A first \in FirstMain : FromArchive(first, 1).counted \in [All -> Nat]
  <2>1. 1 \in Int
    OBVIOUS
  <2> QED
    BY <1>2, <1>3, <2>1, ArchiveBegins
<1>7. Append(imports, archive) \in Seq(Archives) /\ Others \in Seq(Archives)
  <2>1. PICK b : b = IF Importable(archive) THEN <<archive>> ELSE <<>>
    OBVIOUS
  <2>2. b \in Seq(Archives)
    BY <1>2, <2>1
  <2> QED
    BY <1>2, <2>1, <2>2, ConcatProperties DEF Others
<1>8. \A n \in 1 .. LastBoot : Sequence(Empty(n), imports)
  <2>1. \A n \in 1 .. LastBoot : InOrder(Empty(n), imports)
    BY <1>1 DEF ArchivesInOrder
  <2> QED
    BY <1>2, <1>5, <2>1 DEF Sequence
<1>9. Importable(archive) => \A n \in 1 .. LastBoot : Sequence(FromArchive(archive, n), Append(imports, archive))
  <2>1. Importable(archive) => \A n \in 1 .. LastBoot : InOrder(FromArchive(archive, n), Append(imports, archive))
    BY <1>1 DEF ArchivesInOrder
  <2> QED
    BY <1>5, <1>7, <2>1 DEF Sequence
<1>10. \A first \in FirstMain : first.kind # "absent" => Sequence(FromArchive(first, 1), Others)
  <2>1. \A first \in FirstMain : first.kind # "absent" => InOrder(FromArchive(first, 1), Others)
    BY <1>1 DEF ArchivesInOrder, Others
  <2> QED
    BY <1>6, <1>7, <2>1 DEF Sequence
<1> QED
  BY <1>2, <1>3, <1>8, <1>9, <1>10

(* Importing once more what was imported changes nothing.                  *)
LEMMA ImportAgain ==
  ASSUME ArchivesInOrder, TypeInv, \A r \in Past : at[r] = PastAt[r], NEW m, FromImports(m)
  PROVE  ImportAll(m, imports, at) = m
<1>1. PICK n \in 1 .. LastBoot : Imported(m, Empty(n), imports, Len(imports), at)
  BY DEF FromImports
<1>2. IsRecord(m) /\ \A i \in 1 .. Len(imports) : imports[i] \in m.sources
  BY <1>1 DEF Imported
<1>3. imports \in Seq(Archives) /\ \A r \in Past : RowOf(at, r) \in Int \X Keys
  BY ArchivesAre DEF PastTimes
<1> QED
  BY <1>2, <1>3, ImportAllDone

(* A file that was kept once the main one was damaged.                     *)
LEMMA RecoveredOrigin ==
  ASSUME ArchivesInOrder, MetricsInv, PastInv, boots < LastBoot
  PROVE  /\ Recovery(boots + 1)[1] # Main
         /\ FromImports(ImportAll(Recovery(boots + 1)[2], imports, at))
<1> DEFINE valid == {f \in Spares : file[f].is = "saved"}
<1>1. TypeInv /\ \A r \in Past : at[r] = PastAt[r]
  BY DEF MetricsInv, PastInv
<1>2. boots + 1 \in 1 .. LastBoot /\ boots + 1 \in Int
  BY <1>1, StoreAssumption DEF TypeInv
<1>3. RecoveryFile \in Files /\ RecoveryFile # Main /\ \A f \in Spares : f \in Files /\ f # Main
  BY StoreAssumption DEF Files, Spares, RecoveryFile, Main
<1>4. \A f \in Files \ {Main} : file[f].is = "saved" => FromImports(ImportAll(file[f].m, imports, at))
  <2>1. ASSUME NEW f \in Files \ {Main}, file[f].is = "saved" PROVE FromImports(ImportAll(file[f].m, imports, at))
    <3>1. FromImports(file[f].m)
      BY <2>1 DEF PastInv, Origin
    <3> QED
      BY <1>1, <3>1, ImportAgain
  <2> QED
    BY <2>1
<1>5. PICK e : e = Empty(boots + 1)
  OBVIOUS
<1>6. FromImports(ImportAll(e, imports, at))
  <2>1. Sequence(e, imports) /\ PastTimes(at) /\ imports \in Seq(Archives) /\ Len(imports) \in Nat
    BY <1>1, <1>2, <1>5, ArchivesAre
  <2>2. Imported(e, e, imports, 0, at)
    BY <1>2, <1>5, EmptyBegins
  <2>3. 0 + Len(imports) <= Len(imports) /\ 0 + Len(imports) = Len(imports) /\ \A i \in 1 .. Len(imports) : 0 + i = i
    BY <2>1
  <2>4. \A i \in 1 .. Len(imports) : imports[i] = imports[0 + i]
    BY <2>3
  <2>5. Imported(ImportAll(e, imports, at), e, imports, 0 + Len(imports), at)
    BY <2>1, <2>2, <2>3, <2>4, ImportAllKeeps
  <2> QED
    BY <1>2, <1>5, <2>3, <2>5 DEF FromImports
<1>7. CASE file[RecoveryFile].is = "saved"
  <2>1. Recovery(boots + 1) = <<RecoveryFile, file[RecoveryFile].m>>
    BY <1>7 DEF Recovery
  <2> QED
    BY <1>3, <1>4, <1>7, <2>1
<1>8. CASE file[RecoveryFile].is # "saved" /\ valid # {}
  <2>1. PICK newest : newest = Max(valid)
    OBVIOUS
  <2>2. newest \in valid
    <3>1. valid \subseteq 0 .. 10 + LastBoot /\ 10 + LastBoot \in Nat
      BY StoreAssumption DEF Spares
    <3> HIDE DEF valid
    <3> QED
      BY <1>8, <2>1, <3>1, MaxIsGreatest
  <2>3. Recovery(boots + 1) = <<newest, file[newest].m>>
    BY <1>8, <2>1 DEF Recovery
  <2> QED
    BY <1>3, <1>4, <2>2, <2>3
<1>9. CASE file[RecoveryFile].is # "saved" /\ valid = {}
  <2>1. Recovery(boots + 1) = <<RecoveryFile, e>> \/ Recovery(boots + 1) = <<10 + (boots + 1), e>>
    BY <1>5, <1>9 DEF Recovery
  <2>2. 10 + (boots + 1) # Main
    BY <1>2 DEF Main
  <2> QED
    BY <1>3, <1>6, <2>1, <2>2
<1> QED
  BY <1>7, <1>8, <1>9

(* The main file, or none yet, with the archives.                          *)
LEMMA LoadedOrigin ==
  ASSUME ArchivesInOrder, MetricsInv, PastInv, boots < LastBoot
  PROVE  Origin(Loaded(boots + 1)[1], ImportAll(Loaded(boots + 1)[2], imports, at))
<1>1. TypeInv /\ \A r \in Past : at[r] = PastAt[r]
  BY DEF MetricsInv, PastInv
<1>2. boots + 1 \in 1 .. LastBoot /\ boots + 1 \in Int
  BY <1>1, StoreAssumption DEF TypeInv
<1>3. PICK len : len = Len(imports)
  OBVIOUS
<1>4. /\ PastTimes(at) /\ archive \in Archives /\ imports \in Seq(Archives) /\ len \in Nat
      /\ \A n \in 1 .. LastBoot : Sequence(Empty(n), imports)
      /\ Importable(archive) => \A n \in 1 .. LastBoot : Sequence(FromArchive(archive, n), Append(imports, archive))
      /\ \A first \in FirstMain : first.kind # "absent" => Sequence(FromArchive(first, 1), Others)
  BY <1>1, <1>3, ArchivesAre
<1>5. \A r \in Past : RowOf(at, r) \in Int \X Keys
  BY <1>4 DEF PastTimes
<1>6. \A i \in 1 .. len : 0 + i = i /\ i \in 1 .. len + 1
  BY <1>4
(* All were imported before.                                               *)
<1>7. ASSUME NEW m, NEW s, NEW q, NEW k, Imported(m, s, q, k, at), \A i \in 1 .. len : \E j \in 1 .. k : q[j] = imports[i]
      PROVE  ImportAll(m, imports, at) = m
  <2>1. IsRecord(m) /\ \A i \in 1 .. Len(imports) : imports[i] \in m.sources
    BY <1>3, <1>7 DEF Imported
  <2> QED
    BY <1>4, <1>5, <2>1, ImportAllDone
<1>8. CASE file[Main].is = "saved" /\ Importable(archive)
  <2>1. PICK m, x : m = file[Main].m /\ x = ImportHistory(m, archive, at)
    OBVIOUS
  <2>2. Loaded(boots + 1) = <<Main, x>>
    BY <1>8, <2>1 DEF Loaded, Importable
  <2>3. FromAlternate(m) \/ FromFirst(m)
    <3>1. Main \in Files
      BY DEF Files
    <3> QED
      BY <1>8, <2>1, <3>1 DEF PastInv, Origin, Importable
  <2>4. CASE FromAlternate(m)
    <3>1. PICK n \in 1 .. LastBoot, k \in {len, len + 1} :
            Imported(m, FromArchive(archive, n), Append(imports, archive), k, at)
      BY <1>3, <2>4 DEF FromAlternate
    <3>2. PICK s, q : s = FromArchive(archive, n) /\ q = Append(imports, archive)
      OBVIOUS
    <3>3. Sequence(s, q) /\ Len(q) = len + 1 /\ q[len + 1] = archive /\ \A i \in 1 .. len : q[i] = imports[i]
      BY <1>3, <1>4, <1>8, <3>2
    <3>4. DOMAIN q = 1 .. len + 1 /\ len + 1 \in DOMAIN q
      <4>1. q \in Seq(Archives)
        BY <3>3 DEF Sequence
      <4> QED
        BY <1>4, <3>3, <4>1, LenProperties
    <3>5. Imported(x, s, q, len + 1, at)
      <4>1. CASE k = len
        BY <1>4, <2>1, <3>1, <3>2, <3>3, <3>4, <4>1, ImportKeeps
      <4>2. CASE k = len + 1
        <5>1. archive \in m.sources
          BY <3>1, <3>2, <3>3, <3>4, <4>2 DEF Imported
        <5>2. x = m
          BY <2>1, <5>1 DEF ImportHistory
        <5> QED
          BY <3>1, <3>2, <4>2, <5>2
      <4> QED
        BY <3>1, <4>1, <4>2
    <3>6. ImportAll(x, imports, at) = x
      <4>1. \A i \in 1 .. len : \E j \in 1 .. len + 1 : q[j] = imports[i]
        BY <1>6, <3>3
      <4> QED
        BY <1>7, <3>5, <4>1
    <3>7. FromAlternate(x)
      BY <1>3, <1>8, <3>2, <3>5 DEF FromAlternate
    <3> QED
      BY <2>2, <3>6, <3>7 DEF Origin
  <2>5. CASE FromFirst(m)
    <3>1. PICK first \in FirstMain, k \in {0, Len(Others)} :
            first.kind # "absent" /\ Imported(m, FromArchive(first, 1), Others, k, at)
      BY <2>5 DEF FromFirst
    <3>2. PICK s, q : s = FromArchive(first, 1) /\ q = Others
      OBVIOUS
    <3>3. PICK b : b = <<archive>>
      OBVIOUS
    <3>4. b \in Seq(Archives) /\ Len(b) = 1 /\ b[1] = archive /\ q = b \o imports
      BY <1>4, <1>8, <3>2, <3>3 DEF Others
    <3>5. Sequence(s, q) /\ Len(q) = 1 + len /\ q[1] = archive /\ \A i \in 1 .. len : q[1 + i] = imports[i]
      <4>1. Sequence(s, q)
        BY <1>4, <3>1, <3>2
      <4>2. Len(q) = 1 + len /\ \A i \in 1 .. 1 + len : q[i] = IF i <= 1 THEN b[i] ELSE imports[i - 1]
        <5>1. imports \in Seq(Archives) /\ Len(imports) = len
          BY <1>3, <1>4
        <5>2. /\ Len(b \o imports) = Len(b) + Len(imports)
              /\ \A i \in 1 .. Len(b) + Len(imports) : (b \o imports)[i] = IF i <= Len(b) THEN b[i] ELSE imports[i - Len(b)]
          <6>1. b \in Seq(Archives) /\ imports \in Seq(Archives)
            BY <3>4, <5>1
          <6> QED
            BY ONLY <6>1, ConcatProperties
        <5> QED
          BY ONLY <3>4, <5>1, <5>2
      <4>3. 1 \in 1 .. 1 + len /\ \A i \in 1 .. len : 1 + i \in 1 .. 1 + len /\ ~(1 + i <= 1) /\ (1 + i) - 1 = i
        BY <1>4
      <4> QED
        BY <3>4, <4>1, <4>2, <4>3
    <3>6. DOMAIN q = 1 .. 1 + len
      <4>1. q \in Seq(Archives)
        BY <3>5 DEF Sequence
      <4> QED
        BY <1>4, <3>5, <4>1, LenProperties
    <3>7. Imported(ImportAll(x, imports, at), s, q, 1 + len, at)
      <4>1. CASE k = 0
        <5>1. 0 \in Nat /\ 0 + 1 \in DOMAIN q /\ 0 + 1 = 1 /\ Imported(m, s, q, 0, at)
          BY <1>4, <3>1, <3>2, <3>6, <4>1
        <5>2. Imported(ImportHistory(m, q[0 + 1], at), s, q, 0 + 1, at)
          BY <1>4, <3>5, <5>1, ImportKeeps
        <5>3. Imported(x, s, q, 1, at)
          BY <2>1, <3>5, <5>1, <5>2
        <5>4. 1 + Len(imports) <= Len(q) /\ \A i \in 1 .. Len(imports) : imports[i] = q[1 + i]
          BY <1>3, <1>4, <3>5
        <5> QED
          BY <1>3, <1>4, <3>5, <5>3, <5>4, ImportAllKeeps
      <4>2. CASE k = 1 + len
        <5>1. 1 \in 1 .. 1 + len
          BY <1>4
        <5>2. archive \in m.sources
          BY <3>1, <3>2, <3>5, <4>2, <5>1 DEF Imported
        <5>3. x = m
          BY <2>1, <5>2 DEF ImportHistory
        <5>4. \A i \in 1 .. len : \E j \in 1 .. 1 + len : q[j] = imports[i]
          <6>1. \A i \in 1 .. len : 1 + i \in 1 .. 1 + len
            BY <1>4
          <6> QED
            BY <3>5, <6>1
        <5>5. Imported(m, s, q, 1 + len, at)
          BY <3>1, <3>2, <4>2
        <5>6. ImportAll(m, imports, at) = m
          BY <1>7, <5>4, <5>5
        <5> QED
          BY <5>3, <5>5, <5>6
      <4> QED
        BY <3>1, <3>2, <3>5, <4>1, <4>2
    <3>8. FromFirst(ImportAll(x, imports, at))
      BY <3>1, <3>2, <3>5, <3>7 DEF FromFirst
    <3> QED
      BY <2>2, <3>8 DEF Origin
  <2> QED
    BY <2>3, <2>4, <2>5
<1>9. CASE file[Main].is = "saved" /\ ~Importable(archive)
  <2>1. PICK m : m = file[Main].m
    OBVIOUS
  <2>2. Loaded(boots + 1) = <<Main, m>>
    BY <1>9, <2>1 DEF Loaded, Importable
  <2>3. (FromImports(m) /\ archive.kind = "absent") \/ FromFirst(m)
    <3>1. Main \in Files
      BY DEF Files
    <3> QED
      BY <1>9, <2>1, <3>1 DEF PastInv, Origin, FromAlternate
  <2>4. CASE FromImports(m) /\ archive.kind = "absent"
    <3>1. ImportAll(m, imports, at) = m
      BY <1>1, <2>4, ImportAgain
    <3> QED
      BY <2>2, <2>4, <3>1 DEF Origin
  <2>5. CASE FromFirst(m)
    <3>1. PICK first \in FirstMain, k \in {0, Len(Others)} :
            first.kind # "absent" /\ Imported(m, FromArchive(first, 1), Others, k, at)
      BY <2>5 DEF FromFirst
    <3>2. PICK b : b = <<>>
      OBVIOUS
    <3>3. Others = b \o imports /\ b \in Seq(Archives) /\ Len(b) = 0
      BY <1>9, <3>2 DEF Others
    <3>4. Others = imports
      BY <1>4, <3>2, <3>3
    <3>5. PICK s : s = FromArchive(first, 1)
      OBVIOUS
    <3>6. Sequence(s, imports) /\ k \in {0, len} /\ Imported(m, s, imports, k, at)
      BY <1>3, <1>4, <3>1, <3>4, <3>5
    <3>7. Imported(ImportAll(m, imports, at), s, imports, len, at)
      <4>1. CASE k = 0
        <5>1. 0 + Len(imports) <= Len(imports) /\ 0 + Len(imports) = len /\ \A i \in 1 .. Len(imports) : imports[i] = imports[0 + i]
          BY <1>3, <1>4, <1>6
        <5>2. Imported(ImportAll(m, imports, at), s, imports, 0 + Len(imports), at)
          BY <1>4, <3>6, <4>1, <5>1, ImportAllKeeps
        <5> QED
          BY <5>1, <5>2
      <4>2. CASE k = len
        <5>1. ImportAll(m, imports, at) = m
          BY <1>7, <3>6, <4>2
        <5> QED
          BY <3>6, <4>2, <5>1
      <4> QED
        BY <3>6, <4>1, <4>2
    <3>8. FromFirst(ImportAll(m, imports, at))
      BY <1>3, <3>1, <3>4, <3>5, <3>7 DEF FromFirst
    <3> QED
      BY <2>2, <3>8 DEF Origin
  <2> QED
    BY <2>3, <2>4, <2>5
<1>10. CASE file[Main].is = "absent" /\ archive.kind = "absent"
  <2>1. PICK e : e = Empty(boots + 1)
    OBVIOUS
  <2>2. Loaded(boots + 1) = <<Main, e>>
    BY <1>10, <2>1 DEF Loaded
  <2>3. Imported(e, e, imports, 0, at)
    BY <1>2, <2>1, EmptyBegins
  <2>4. 0 + Len(imports) <= Len(imports) /\ 0 + Len(imports) = len /\ \A i \in 1 .. Len(imports) : imports[i] = imports[0 + i]
    BY <1>3, <1>4, <1>6
  <2>5. Imported(ImportAll(e, imports, at), e, imports, 0 + Len(imports), at)
    BY <1>2, <1>4, <2>1, <2>3, <2>4, ImportAllKeeps
  <2>6. FromImports(ImportAll(e, imports, at))
    BY <1>2, <1>3, <2>1, <2>4, <2>5 DEF FromImports
  <2> QED
    BY <1>10, <2>2, <2>6 DEF Origin
<1>11. CASE file[Main].is = "absent" /\ Importable(archive)
  <2>1. PICK s, q : s = FromArchive(archive, boots + 1) /\ q = Append(imports, archive)
    OBVIOUS
  <2>2. Loaded(boots + 1) = <<Main, s>>
    BY <1>11, <2>1 DEF Loaded, Importable
  <2>3. Imported(s, s, q, 0, at)
    BY <1>2, <1>4, <2>1, ArchiveBegins
  <2>4. Sequence(s, q) /\ Len(q) = len + 1 /\ \A i \in 1 .. len : q[i] = imports[i]
    BY <1>2, <1>3, <1>4, <1>11, <2>1
  <2>5. 0 + Len(imports) <= Len(q) /\ 0 + Len(imports) = len /\ \A i \in 1 .. Len(imports) : imports[i] = q[0 + i]
    BY <1>3, <1>4, <1>6, <2>4
  <2>6. Imported(ImportAll(s, imports, at), s, q, 0 + Len(imports), at)
    BY <1>4, <2>3, <2>4, <2>5, ImportAllKeeps
  <2>7. FromAlternate(ImportAll(s, imports, at))
    BY <1>2, <1>3, <1>11, <2>1, <2>5, <2>6 DEF FromAlternate
  <2> QED
    BY <2>2, <2>7 DEF Origin
<1>12. CASE file[Main].is # "saved" /\ (file[Main].is = "absent" => archive.kind = "damaged")
  <2>1. Loaded(boots + 1) = Recovery(boots + 1)
    BY <1>12 DEF Loaded
  <2> QED
    BY <2>1, RecoveredOrigin DEF Origin
<1> QED
  <2>1. Importable(archive) <=> archive.kind # "absent" /\ archive.kind # "damaged"
    BY DEF Importable
  <2> QED
    BY <1>8, <1>9, <1>10, <1>11, <1>12, <2>1

(* What comes in and is counted leaves every origin as it was.             *)
LEMMA OriginKept ==
  ASSUME NEW f, NEW m, Origin(f, m), UNCHANGED <<archive, imports>>,
         \A r \in All : RowOf(at', r) = RowOf(at, r)
  PROVE  Origin(f, m)'
<1>1. PICK later : later = at'
  OBVIOUS
<1>2. \A s, q, k : Imported(m, s, q, k, at) => Imported(m, s, q, k, later)
  BY <1>1, ArrivalKeeps
<1>3. archive' = archive /\ imports' = imports /\ at' = later
  BY <1>1
<1> QED
  BY <1>2, <1>3 DEF Origin, FromImports, FromAlternate, FromFirst, Others

LEMMA OriginRecorded ==
  ASSUME MetricsInv, NEW f, NEW m, Origin(f, m), NEW r \in Live PROVE Origin(f, Record(m, r, at))
<1>1. at \in [All -> Times]
  BY DEF MetricsInv, TypeInv
<1>2. PICK y : y = Record(m, r, at)
  OBVIOUS
<1>3. \A s, q, k : Imported(m, s, q, k, at) => Imported(y, s, q, k, at)
  BY <1>1, <1>2, RecordKeeps
<1>4. Origin(f, y)
  BY <1>3 DEF Origin, FromImports, FromAlternate, FromFirst
<1> QED
  BY <1>2, <1>4

LEMMA InitPast == ASSUME ArchivesInOrder, Init, TypeInv PROVE PastInv
<1>1. PICK first \in FirstMain :
        file = [f \in Files |-> IF f = Main /\ first.kind # "absent" THEN Holds(FromArchive(first, 1)) ELSE NoFile]
  BY DEF Init
<1>2. phase = "down" /\ writer = "none" /\ \A r \in Past : at[r] = PastAt[r]
  BY DEF Init, All
<1>4. mem = Empty(0)
  BY DEF Init
<1>3. ASSUME NEW f \in Files, file[f].is = "saved" PROVE Origin(f, file[f].m)
  <2>1. f = Main /\ first.kind # "absent" /\ file[f] = Holds(FromArchive(first, 1))
    BY <1>1, <1>3 DEF NoFile
  <2>2. PICK s : s = FromArchive(first, 1)
    OBVIOUS
  <2>3. first \in Archives /\ PastTimes(at)
    BY <1>2, StoreAssumption, ArchivesAre
  <2>4. Imported(s, s, Others, 0, at)
    <3>1. 1 \in Int
      OBVIOUS
    <3> QED
      BY <2>2, <2>3, <3>1, ArchiveBegins
  <2>5. FromFirst(s)
    BY <2>1, <2>2, <2>4 DEF FromFirst
  <2>6. file[f].m = s
    BY <2>1, <2>2 DEF Holds
  <2> QED
    BY <2>1, <2>5, <2>6 DEF Origin
<1> QED
  BY <1>2, <1>3, <1>4 DEF PastInv

LEMMA PastStep == ASSUME ArchivesInOrder, MetricsInv, PastInv, [Next]_vars PROVE PastInv'
<1>1. UNCHANGED <<archive, imports>>
  BY DEF Next, Boot, TickDue, Signal, ShutdownReturns, ShutdownTimesOut, CleanupDone, CleanupTimesOut, Crash, Damage,
         Delete, Harm, Send, Arrive, CountRequest, Leave, SaveBegins, SaveEnds, vars, disk
<1>2. \A r \in All : RowOf(at', r) = RowOf(at, r) /\ (r \in Past => at'[r] = at[r])
  <2>1. CASE \E p \in Live : Arrive(p)
    <3>1. PICK p \in Live : Arrive(p)
      BY <2>1
    <3>2. at \in [All -> Times] /\ p \in All /\ p \notin Past
      BY HistoryAssumption DEF MetricsInv, TypeInv, All
    <3>3. at' = at \/ \E n \in 1 .. LastMinute : at' = [at EXCEPT ![p].minute = n, ![p].time = boots]
      BY <3>1 DEF Arrive
    <3>4. \A r \in All : at'[r].day = at[r].day /\ at'[r].key = at[r].key /\ (r # p => at'[r] = at[r])
      <4>1. ASSUME NEW n \in 1 .. LastMinute, at' = [at EXCEPT ![p].minute = n, ![p].time = boots]
            PROVE  \A r \in All : at'[r].day = at[r].day /\ at'[r].key = at[r].key /\ (r # p => at'[r] = at[r])
        <5>1. PICK b : b = [at EXCEPT ![p].minute = n]
          OBVIOUS
        <5>2. at' = [b EXCEPT ![p].time = boots]
          BY <4>1, <5>1
        <5>3. /\ \A r \in All : b[r].day = at[r].day /\ b[r].key = at[r].key /\ (r # p => b[r] = at[r])
              /\ b = [r \in All |-> b[r]] /\ b[p] = [at[p] EXCEPT !.minute = n]
          BY <3>2, <5>1 DEF Times
        <5>4. b[p] = [day |-> at[p].day, key |-> at[p].key, time |-> at[p].time, minute |-> n]
          BY <3>2, <5>3 DEF Times
        <5>5. \A r \in All : at'[r] = IF r = p THEN [b[p] EXCEPT !.time = boots] ELSE b[r]
          BY <3>2, <5>2, <5>3
        <5>6. at'[p] = [day |-> at[p].day, key |-> at[p].key, time |-> boots, minute |-> n]
          BY <3>2, <5>4, <5>5
        <5>7. at'[p].day = at[p].day /\ at'[p].key = at[p].key
          BY ONLY <5>6
        <5>8. \A r \in All : r # p => at'[r] = at[r]
          BY <5>3, <5>5
        <5> QED
          BY ONLY <5>7, <5>8
      <4> QED
        BY <3>3, <4>1
    <3> QED
      BY <3>2, <3>4 DEF RowOf
  <2>2. CASE ~ \E p \in Live : Arrive(p)
    <3>1. at' = at
      BY <2>2 DEF Next, Boot, TickDue, Signal, ShutdownReturns, ShutdownTimesOut, CleanupDone, CleanupTimesOut, Crash,
                  Damage, Delete, Harm, Send, CountRequest, Leave, SaveBegins, SaveEnds, vars, disk
    <3> QED
      BY <3>1
  <2> QED
    BY <2>1, <2>2
<1>3. \A r \in Past : at'[r] = PastAt[r]
  BY <1>2 DEF PastInv, All
<1>4. \A f, m : Origin(f, m) => Origin(f, m)'
  BY <1>1, <1>2, OriginKept
<1>5. ASSUME /\ \A f \in Files : file'[f].is = "saved" => Origin(f, file'[f].m)
             /\ IF phase' = "down" THEN mem' = Empty(0) ELSE Origin(path', mem')
             /\ writer' # "none" => Origin(path', copy')
      PROVE  PastInv'
  <2>1. PICK held, p, m, c : held = file' /\ p = path' /\ m = mem' /\ c = copy'
    OBVIOUS
  <2>2. /\ \A f \in Files : held[f].is = "saved" => Origin(f, held[f].m)'
        /\ IF phase' = "down" THEN m = Empty(0) ELSE Origin(p, m)'
        /\ writer' # "none" => Origin(p, c)'
    BY <1>4, <1>5, <2>1
  <2> QED
    BY <1>3, <2>1, <2>2 DEF PastInv
<1>6. CASE Boot
  <2>1. /\ phase = "down" /\ phase' = "up" /\ boots < LastBoot /\ path' = Loaded(boots + 1)[1]
        /\ mem' = ImportAll(Loaded(boots + 1)[2], imports, at) /\ UNCHANGED <<file, writer>>
    BY <1>6 DEF Boot, disk
  <2>2. Origin(path', mem')
    BY <2>1, LoadedOrigin
  <2>3. writer = "none"
    BY <2>1 DEF MetricsInv, FileInv
  <2> QED
    BY <1>5, <2>1, <2>2, <2>3 DEF PastInv
<1>7. CASE \E f \in Files : Damage(f) \/ Delete(f)
  <2>1. PICK g \in Files, result \in {Damaged, NoFile} : Harm(g, result)
    BY <1>7 DEF Damage, Delete
  <2>2. /\ file' = [file EXCEPT ![g] = result] /\ file = [f \in Files |-> file[f]] /\ result.is # "saved"
        /\ UNCHANGED <<path, mem, copy, phase, writer>>
    BY <2>1 DEF Harm, MetricsInv, TypeInv, Damaged, NoFile
  <2>3. \A f \in Files : file'[f].is = "saved" => file'[f] = file[f]
    BY <2>2
  <2> QED
    BY <1>5, <2>2, <2>3 DEF PastInv
<1>8. CASE \E r \in Live : CountRequest(r)
  <2>1. PICK r \in Live : CountRequest(r)
    BY <1>8
  <2>2. phase # "down" /\ mem' = Record(mem, r, at) /\ UNCHANGED <<copy, file, path, phase, writer>>
    BY <2>1 DEF CountRequest, disk
  <2>3. Origin(path, Record(mem, r, at))
    BY <2>2, OriginRecorded DEF PastInv
  <2> QED
    BY <1>5, <2>2, <2>3 DEF PastInv
<1>9. CASE \E saved \in BOOLEAN : SaveEnds(saved)
  <2>1. PICK saved \in BOOLEAN : SaveEnds(saved)
    BY <1>9
  <2>2. \A f \in Files : file'[f] = IF saved /\ f = path THEN Holds(copy) ELSE file[f]
    BY <2>1, WrittenIs
  <2>3. /\ writer # "none" /\ path' = path /\ writer' = "none" /\ (IF phase' = "down" THEN mem' = Empty(0) ELSE mem' = mem)
        /\ phase # "down"
    BY <2>1 DEF SaveEnds, Ended, MetricsInv, FileInv
  <2>4. ASSUME NEW f \in Files, file'[f].is = "saved" PROVE Origin(f, file'[f].m)
    <3>1. CASE saved /\ f = path
      <4>1. file'[f].m = copy
        BY <2>2, <3>1 DEF Holds
      <4> QED
        BY <2>3, <3>1, <4>1 DEF PastInv
    <3>2. CASE ~(saved /\ f = path)
      BY <2>2, <2>4, <3>2 DEF PastInv
    <3> QED
      BY <3>1, <3>2
  <2> QED
    BY <1>5, <2>3, <2>4 DEF PastInv
<1>10. CASE Crash
  <2>1. phase' = "down" /\ writer' = "none" /\ file' = file /\ mem' = Empty(0)
    BY <1>10 DEF Crash, Ended, disk
  <2> QED
    BY <1>5, <2>1 DEF PastInv
<1>11. CASE \E who \in {"ticker", "exit"} : SaveBegins(who)
  <2>1. copy' = mem /\ phase # "down" /\ UNCHANGED <<mem, file, path, phase>>
    BY <1>11 DEF SaveBegins, disk
  <2> QED
    BY <1>5, <2>1 DEF PastInv
<1>12. CASE \/ TickDue \/ Signal \/ ShutdownReturns \/ ShutdownTimesOut \/ CleanupDone \/ CleanupTimesOut
            \/ UNCHANGED vars \/ \E r \in Live : Send(r) \/ Arrive(r) \/ Leave(r)
  <2>1. UNCHANGED <<mem, copy, file, path, writer>> /\ (phase' = "down" <=> phase = "down")
    BY <1>12 DEF TickDue, Signal, ShutdownReturns, ShutdownTimesOut, CleanupDone, CleanupTimesOut, Send, Arrive,
                 Leave, vars, disk, process
  <2> QED
    BY <1>5, <2>1 DEF PastInv
<1> QED
  BY <1>6, <1>7, <1>8, <1>9, <1>10, <1>11, <1>12 DEF Next

(* Every request is counted at most once, whatever was saved, lost, loaded *)
(* and imported on the way, and the minutes are in order, the latest ones, *)
(* and agree with the history; for any archives in an order in which an    *)
(* import knows what came before it (Record, ImportHistory, Load).         *)
THEOREM EachCountedOnce == ASSUME ArchivesInOrder PROVE Spec => []CountedOnce
<1>1. MetricsInv /\ PastInv => \A r \in All : mem.counted[r] <= 1
  <2>1. SUFFICES ASSUME MetricsInv, PastInv, NEW r \in All PROVE mem.counted[r] <= 1
    OBVIOUS
  <2>2. CASE r \in Live
    BY <2>1, <2>2 DEF MetricsInv, SnapshotInv, Snapshots, Counts
  <2>3. CASE r \in Past /\ phase # "down"
    <3>1. Sound(mem, at)
      BY <2>1, <2>3 DEF PastInv, Origin, FromImports, FromAlternate, FromFirst, Imported
    <3> QED
      BY <2>3, <3>1 DEF Sound
  <2>4. CASE phase = "down"
    <3>1. PICK e : e = Empty(0)
      OBVIOUS
    <3>2. e.counted[r] = 0
      BY ONLY <3>1, r \in All, EmptyIsRecord
    <3> QED
      BY <2>1, <2>4, <3>1, <3>2 DEF PastInv
  <2> QED
    BY <2>2, <2>3, <2>4 DEF All
<1>2. Init => PastInv
  BY InitMetrics, InitPast DEF MetricsInv
<1>3. MetricsInv /\ PastInv /\ [Next]_vars => PastInv'
  BY PastStep
<1>4. (\A r \in All : mem.counted[r] <= 1) /\ MinutesAgree(mem) => CountedOnce
  BY DEF CountedOnce
<1> QED
  BY <1>1, <1>2, <1>3, <1>4, MetricsInvariant, MinutesInOrder, PTL DEF Spec
===============================================================================
