------------------------------ MODULE MetricsStore ------------------------------
(***************************************************************************)
(* From boot to exit (cmd/agent2api, app, obs): the gateway loads its      *)
(* metrics, falls back to a recovery file when they are damaged, imports   *)
(* archives, counts requests, saves every 30 seconds, and at the end       *)
(* drains the requests and saves once more. Requests end in any order, a   *)
(* save may fail, the process may be killed at any step, and files may be  *)
(* damaged or removed while it is down.                                    *)
(***************************************************************************)
EXTENDS UsageHistory

CONSTANTS
  Alternate,   \* archives the file of the other default name may hold, or none
  FirstMain,   \* what the metrics file may hold at first, likewise
  Imports,     \* the sequences of archives the configuration may name
  PastAt,      \* [Past -> [day, key, time, minute]]
  LastMinute, LastBoot, LastDamage   \* bounds

(* Archives were made by former gateways: they count none of our requests. *)
Archives ==
  {a \in [kind : {"absent", "damaged", "legacy", "snapshot", "log"}, counted : [All -> {0, 1}],
          recent : SUBSET Past, since : Int] : \A r \in Live : a.counted[r] = 0}
Keys == {"live"} \cup {PastAt[r].key : r \in Past}   \* the models
Times == [day : Int, key : Keys, time : Int, minute : Nat]
ASSUME StoreAssumption ==
  /\ Alternate \subseteq Archives /\ FirstMain \subseteq Archives /\ Imports \subseteq Seq(Archives)
  /\ PastAt \in [Past -> Times]
  /\ LastMinute \in Nat /\ LastBoot \in Nat

VARIABLES
  phase,    \* "down", "up", "shutdown", "cleanup", "persist"
  boots, damages,
  file,     \* file -> what it holds
  archive,  \* what the alternate file holds
  imports,  \* the configured archives
  path,     \* the file this process saves to
  mem,      \* Metrics
  served,   \* request -> its place in the drain
  at,       \* request -> its start and its model
  stopping, \* requestDrain.stopping
  ticker,   \* the persistence worker: "off", "idle", "due"
  writer,   \* who holds the lock of the storage: "none", "ticker", "exit"
  copy,     \* the snapshot being written
  last      \* how the last process ended: "none", "clean", "other"
vars == <<phase, boots, damages, file, archive, imports, path, mem, served, at, stopping, ticker,
          writer, copy, last>>
process == <<phase, path, mem, stopping, ticker, writer, copy, last>>
disk == <<damages, file, archive, imports>>

(* The file of the configuration, its recovery file, and the spares, which *)
(* are named by the time they were made.                                   *)
Main == 0
RecoveryFile == 1
Spares == {10 + n : n \in 1..LastBoot}
Files == {Main, RecoveryFile} \cup Spares
NoFile == [is |-> "absent", m |-> Empty(0)]
Holds(m) == [is |-> "saved", m |-> m]
Damaged == [is |-> "damaged", m |-> Empty(0)]

(* Load: what a file of either form gives.                                 *)
FromArchive(a, now) == IF a.kind = "legacy" THEN LoadLegacy(a, PastAt, now)
                       ELSE [Empty(a.since) EXCEPT !.counted = a.counted, !.recent = a.recent,
                               !.rows = {RowOf(PastAt, r) : r \in {q \in All : a.counted[q] > 0}}]

Init ==
  /\ phase = "down" /\ boots = 0 /\ damages = 0
  /\ \E first \in FirstMain :
       file = [f \in Files |-> IF f = Main /\ first.kind # "absent" THEN Holds(FromArchive(first, 1)) ELSE NoFile]
  /\ archive \in Alternate
  /\ imports \in Imports
  /\ path = Main /\ mem = Empty(0)
  /\ served = [r \in Live |-> "idle"]
  /\ at = [r \in All |-> IF r \in Past THEN PastAt[r]
                         ELSE [day |-> Today, key |-> "live", time |-> 0, minute |-> 0]]
  /\ stopping = FALSE /\ ticker = "off" /\ writer = "none" /\ copy = Empty(0) /\ last = "none"

----------------------------------------------------------------------------
(* loadMetricsRecovery: the recovery file, or the newest valid spare, or a *)
(* file that does not exist yet. The result is the file and what it gives. *)
(* Variant: a damaged recovery file is used again.                         *)
RecoveryReused(now) ==
  LET valid == {f \in Spares : file[f].is = "saved"}
  IN IF file[RecoveryFile].is = "saved" THEN <<RecoveryFile, file[RecoveryFile].m>>
     ELSE IF valid # {} THEN <<Max(valid), file[Max(valid)].m>>
     ELSE <<RecoveryFile, Empty(now)>>
Recovery(now) ==
  LET valid == {f \in Spares : file[f].is = "saved"}
  IN CASE file[RecoveryFile].is = "saved" -> <<RecoveryFile, file[RecoveryFile].m>>
       [] file[RecoveryFile].is # "saved" /\ valid # {} -> <<Max(valid), file[Max(valid)].m>>
       [] file[RecoveryFile].is = "absent" /\ valid = {} -> <<RecoveryFile, Empty(now)>>
       [] OTHER -> <<10 + now, Empty(now)>>

(* loadMetricsStorage: the main file, with the alternate imported; without *)
(* a main file the alternate is loaded; a damaged one is left alone.       *)
Loaded(now) ==
  CASE file[Main].is = "saved" /\ archive.kind \notin {"absent", "damaged"} ->
         <<Main, ImportHistory(file[Main].m, archive, at)>>
    [] file[Main].is = "saved" /\ archive.kind \in {"absent", "damaged"} -> <<Main, file[Main].m>>
    [] file[Main].is = "absent" /\ archive.kind = "absent" -> <<Main, Empty(now)>>
    [] file[Main].is = "absent" /\ archive.kind \notin {"absent", "damaged"} -> <<Main, FromArchive(archive, now)>>
    [] OTHER -> Recovery(now)

(* New: load, then the configured archives in their order.                 *)
ImportAll(m, list, times) == FoldLeft(LAMBDA x, a : ImportHistory(x, a, times), m, list)
Boot ==
  /\ phase = "down" /\ boots < LastBoot
  /\ boots' = boots + 1
  /\ phase' = "up" /\ ticker' = "idle" /\ stopping' = FALSE /\ last' = "none"
  /\ LET loaded == Loaded(boots + 1)
     IN /\ path' = loaded[1]
        /\ mem' = ImportAll(loaded[2], imports, at)
  /\ UNCHANGED <<disk, served, at, writer, copy>>

(* External: what may happen to a file while no process runs.              *)
Harm(f, result) ==
  /\ phase = "down" /\ damages < LastDamage /\ file[f].is = "saved"
  /\ damages' = damages + 1
  /\ file' = [file EXCEPT ![f] = result]
  /\ last' = "other"
  /\ UNCHANGED <<phase, path, mem, stopping, ticker, writer, copy, boots, archive, imports, served, at>>
Damage(f) == Harm(f, Damaged)
Delete(f) == f = Main /\ Harm(f, NoFile)

----------------------------------------------------------------------------
(* A client has sent its request on a connection the server accepted.      *)
Send(r) ==
  /\ phase = "up" /\ served[r] = "idle"
  /\ served' = [served EXCEPT ![r] = "sent"]
  /\ UNCHANGED <<process, boots, disk, at>>

(* requestDrain.ServeHTTP: counted as active, or answered 503.             *)
Arrive(r) ==
  /\ phase # "down" /\ served[r] = "sent"
  /\ IF stopping
     THEN served' = [served EXCEPT ![r] = "refused"] /\ UNCHANGED at
     ELSE /\ served' = [served EXCEPT ![r] = "active"]
          /\ \E n \in 1..LastMinute :
               /\ \A q \in Live : at[q].minute <= n
               /\ at' = [at EXCEPT ![r].minute = n, ![r].time = boots]
  /\ UNCHANGED <<process, boots, disk>>

(* The deferred accounting of App.serve, then the drain's own.             *)
CountRequest(r) ==
  /\ phase # "down" /\ served[r] = "active"
  /\ mem' = Record(mem, r, at)
  /\ served' = [served EXCEPT ![r] = "counted"]
  /\ UNCHANGED <<phase, boots, disk, path, at, stopping, ticker, writer, copy, last>>
Leave(r) ==
  /\ phase # "down" /\ served[r] = "counted"
  /\ served' = [served EXCEPT ![r] = "over"]
  /\ UNCHANGED <<process, boots, disk, at>>

----------------------------------------------------------------------------
(* StartMetricsPersistence: the tick is looked at before the context is    *)
(* cancelled, the save itself may come later.                              *)
TickDue ==
  /\ phase = "up" /\ ticker = "idle"
  /\ ticker' = "due"
  /\ UNCHANGED <<boots, disk, phase, path, mem, served, at, stopping, writer, copy, last>>
(* saveMetrics takes the lock of the storage, Save copies under its own.   *)
SaveBegins(who) ==
  /\ writer = "none"
  /\ IF who = "ticker" THEN phase # "down" /\ ticker = "due" ELSE phase = "persist"
  /\ writer' = who /\ copy' = mem
  /\ UNCHANGED <<boots, disk, phase, path, mem, served, at, stopping, ticker, last>>
(* The end of the process, with the requests that were still running.      *)
Ended(how) ==
  /\ phase' = "down" /\ last' = how /\ ticker' = "off" /\ writer' = "none"
  /\ served' = [r \in Live |-> IF served[r] \in {"sent", "active", "counted"} THEN "lost" ELSE served[r]]
  /\ mem' = Empty(0) /\ copy' = Empty(0)
  /\ UNCHANGED <<path, stopping>>
(* The temporary file is renamed over the other, or the write fails. The   *)
(* ticker goes on while the context lives; the exit's save is the last     *)
(* step of the process.                                                    *)
SaveEnds(saved) ==
  /\ writer # "none"
  /\ file' = IF saved THEN [file EXCEPT ![path] = Holds(copy)] ELSE file
  /\ IF writer = "exit"
     THEN Ended(IF saved /\ last # "other" THEN "clean" ELSE "other")
     ELSE /\ writer' = "none" /\ ticker' = IF phase = "up" THEN "idle" ELSE "off"
          /\ copy' = Empty(0) /\ UNCHANGED <<phase, path, mem, served, stopping, last>>
  /\ UNCHANGED <<boots, damages, archive, imports, at>>

----------------------------------------------------------------------------
(* runServer: the signal stops the worker, then http.Server.Shutdown.      *)
Signal ==
  /\ phase = "up"
  /\ phase' = "shutdown" /\ ticker' = IF ticker = "idle" THEN "off" ELSE ticker
  /\ UNCHANGED <<boots, disk, path, mem, served, at, stopping, writer, copy, last>>

(* Shutdown returns when every connection is idle, or after 15 seconds;    *)
(* then the drain refuses what comes, and Close cancels what runs.         *)
ShutdownReturns ==
  /\ phase = "shutdown"
  /\ \A r \in Live : served[r] \notin {"sent", "active", "counted"}
  /\ phase' = "persist" /\ stopping' = TRUE
  /\ UNCHANGED <<boots, disk, path, mem, served, at, ticker, writer, copy, last>>
ShutdownTimesOut ==
  /\ phase = "shutdown"
  /\ \E r \in Live : served[r] \in {"sent", "active", "counted"}
  /\ phase' = "cleanup" /\ stopping' = TRUE
  /\ UNCHANGED <<boots, disk, path, mem, served, at, ticker, writer, copy, last>>
(* Variant: the save does not wait for the requests it has cancelled.      *)
PersistAtOnce ==
  /\ phase = "cleanup"
  /\ phase' = "persist"
  /\ UNCHANGED <<boots, disk, path, mem, served, at, stopping, ticker, writer, copy, last>>
(* The wait for the active requests, of at most five seconds.              *)
CleanupDone ==
  /\ phase = "cleanup"
  /\ \A r \in Live : served[r] \notin {"active", "counted"}
  /\ phase' = "persist"
  /\ UNCHANGED <<boots, disk, path, mem, served, at, stopping, ticker, writer, copy, last>>
CleanupTimesOut ==
  /\ phase = "cleanup"
  /\ \E r \in Live : served[r] \in {"active", "counted"}
  /\ phase' = "persist" /\ last' = "other"
  /\ UNCHANGED <<boots, disk, path, mem, served, at, stopping, ticker, writer, copy>>
(* The process is killed; a file is never left half written.               *)
Crash ==
  /\ phase # "down"
  /\ Ended("other")
  /\ UNCHANGED <<boots, disk, at>>

Next ==
  \/ Boot \/ TickDue \/ Signal \/ ShutdownReturns \/ ShutdownTimesOut \/ CleanupDone
  \/ CleanupTimesOut \/ Crash
  \/ \E f \in Files : Damage(f) \/ Delete(f)
  \/ \E r \in Live : Send(r) \/ Arrive(r) \/ CountRequest(r) \/ Leave(r)
  \/ \E who \in {"ticker", "exit"} : SaveBegins(who)
  \/ \E saved \in BOOLEAN : SaveEnds(saved)
Spec == Init /\ [][Next]_vars

----------------------------------------------------------------------------
(* Every request is counted at most once, whatever was saved, lost, loaded *)
(* and imported from overlapping archives on the way, and the minutes are  *)
(* in order, the latest ones, and agree with the history (Record,          *)
(* ImportHistory, Load).                                                   *)
MinutesAgree(m) ==
  LET s == m.series
      of(n) == {r \in Live : m.counted[r] > 0 /\ at[r].minute = n}
  IN /\ \A i, j \in DOMAIN s : i < j => s[i].minute < s[j].minute
     /\ \A i \in DOMAIN s : of(s[i].minute) # {} /\ s[i].total = Cardinality(of(s[i].minute))
     /\ Len(s) <= SeriesCap
     /\ \A r \in Live : m.counted[r] > 0 /\ (\A i \in DOMAIN s : s[i].minute # at[r].minute) =>
          Len(s) = SeriesCap /\ \A i \in DOMAIN s : at[r].minute < s[i].minute
CountedOnce == (\A r \in All : mem.counted[r] <= 1) /\ MinutesAgree(mem)

(* The program never writes over a damaged file, and never replaces a      *)
(* saved file by one that has fewer of its counts: not by a save that      *)
(* overtakes another, nor after a failed load (loadMetricsStorage).        *)
FilesKept ==
  [][damages' = damages => \A f \in Files :
       /\ file[f].is = "damaged" => file'[f] = file[f]
       /\ file[f].is = "saved" => /\ file'[f].is = "saved"
                                  /\ \A r \in All : file'[f].m.counted[r] >= file[f].m.counted[r]]_vars

(* A process that was told to stop, and neither gave up the wait for its   *)
(* requests nor failed to write, has saved every request it admitted,      *)
(* also those it had to cancel (shutdownAndPersist).                       *)
FinalSave ==
  phase = "down" /\ last = "clean" =>
    \A r \in Live : at[r].time = boots => file[path].m.counted[r] = 1

(* Archives in an order in which no request is counted twice: the recent   *)
(* requests an import would count one by one are known by their identity,  *)
(* or neither the snapshot s it began with nor an archive of q before this *)
(* one has counted them without theirs (ImportHistory).                    *)
Alone(a) ==
  IF a.kind = "log" THEN {}
  ELSE {r \in a.recent :
          ~ \E w \in Past : a.counted[w] > 0 /\ PastAt[w].day < Today /\ RowOf(PastAt, w) = RowOf(PastAt, r)}
Unnamed(a) == IF a.kind = "log" THEN a.recent ELSE {r \in Past : a.counted[r] > 0} \ a.recent
InOrder(s, q) ==
  \A j \in DOMAIN q : \A r \in Alone(q[j]) :
    \/ <<"id", r>> \in s.ids
    \/ PastAt[r].time >= s.since
    \/ s.counted[r] = 0 /\ \A i \in 1..j-1 : r \notin Unnamed(q[i])
Importable(a) == a.kind \notin {"absent", "damaged"}
ArchivesInOrder ==
  \A alt \in Alternate, list \in Imports :
    /\ \A n \in 1..LastBoot : /\ InOrder(Empty(n), list)
                              /\ Importable(alt) => InOrder(FromArchive(alt, n), Append(list, alt))
    /\ \A first \in FirstMain : first.kind # "absent" =>
         InOrder(FromArchive(first, 1), (IF Importable(alt) THEN <<alt>> ELSE <<>>) \o list)

(* What the documentation says of archives (docs/console.md:97): whatever  *)
(* they hold and in whatever order they are named, overlapping snapshots   *)
(* count no request twice.                                                 *)
NeverImportedTwice == \A r \in Past : mem.counted[r] <= 1
===============================================================================
