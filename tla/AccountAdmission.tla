---------------------------- MODULE AccountAdmission ----------------------------
(***************************************************************************)
(* How accounts of WorkBuddy come into the pool: from files when the       *)
(* gateway starts, from the watcher of the accounts directory, which looks *)
(* every ten seconds, and from logins in the browser, several at a time.   *)
(* A credential is the account it belongs to; what a session contains, and *)
(* its refresh, are in CredentialRefresh. Files of the directory are named *)
(* by numbers in their order. Nobody deletes a file or copies over one; but*)
(* a copy may arrive at any moment, between the steps of a login as well.  *)
(***************************************************************************)
EXTENDS Integers

CONSTANTS
  Uids,          \* accounts
  NoUid,         \* a credential whose account is not known
  Logins,        \* login sessions
  Names,         \* names of files in the accounts directory
  OutsideLabel,  \* the base name of the configured credential path
  FirstFiles,    \* what may be on the disk at first: [Paths -> Files]
  LastBoot, LastDrop   \* bounds

(* The configured credential path lies in another directory.               *)
Outside == 0
Paths == Names \cup {Outside}
NoFile == [uid |-> NoUid, whole |-> FALSE, there |-> FALSE]
File(u, whole) == [uid |-> u, whole |-> whole, there |-> TRUE]
Files == {NoFile} \cup {File(u, whole) : u \in Uids, whole \in BOOLEAN}

ASSUME AdmissionAssumption ==
  Names \subseteq Nat \ {0} /\ NoUid \notin Uids /\ NoUid \notin Logins /\ FirstFiles \subseteq [Paths -> Files]

VARIABLES
  phase, boots, drops,
  disk,    \* path -> File
  staged,  \* the logins whose credential is in a temporary file
  login,   \* login -> where its goroutine is: see LoginStates
  name,    \* login -> the name it was asked for, later the file it goes to
  user,    \* login -> the account the browser chose
  holder,  \* the login that holds credentialMu, or NoUid
  members, \* the accounts in the pool: label, uid, path
  known,   \* the watcher's sets: uids and labels at the start of its pass
  left,    \* the names it still has to look at
  found,   \* the account it has loaded and is about to add: none or one
  late     \* for the properties: the names a file was copied to after a login
           \* had found them free and before it renamed its own to them
admissionVars == <<phase, boots, drops, disk, staged, login, name, user, holder, members, known, left, found, late>>
watcher == <<known, left, found>>
sessions == <<staged, login, name, user, holder>>

(* In commitCredential, with credentialMu. *)
Committing == {"checking", "probing", "merging", "renaming"}
(* The gateway calls both "failed" and "refused" failed: the first ended   *)
(* before its credential was in a temporary file, the second after.        *)
LoginStates == {"idle", "pending", "obtained", "success", "failed", "refused", "gone"} \cup Committing

Label(p) == IF p = Outside THEN OutsideLabel ELSE p
Account(p) == [label |-> Label(p), uid |-> disk[p].uid, path |-> p]
UidsOf(accounts) == {a.uid : a \in accounts} \ {NoUid}
LabelsOf(accounts) == {a.label : a \in accounts}
Resting == left = {} /\ found = {}
(* The paths are looked at in their order, as ReadDir gives them.          *)
First(n, paths) == n \in paths /\ \A m \in paths : n <= m

AdmissionInit ==
  /\ phase = "down" /\ boots = 0 /\ drops = 0
  /\ disk \in FirstFiles
  /\ staged = {} /\ login = [l \in Logins |-> "idle"]
  /\ name = [l \in Logins |-> Outside] /\ user = [l \in Logins |-> NoUid] /\ holder = NoUid
  /\ members = {} /\ known = [uids |-> {}, labels |-> {}] /\ left = {} /\ found = {} /\ late = {}

----------------------------------------------------------------------------
(* buildAdapter: the configured path, then the directory in its order; a   *)
(* file that does not load is skipped, and one of an account already seen. *)
Boot ==
  /\ phase = "down" /\ boots < LastBoot
  /\ phase' = "up" /\ boots' = boots + 1
  /\ LET loads == {p \in Paths : disk[p].whole}
     IN members' = {Account(p) : p \in {n \in loads : First(n, {m \in loads : disk[m].uid = disk[n].uid})}}
  /\ UNCHANGED <<drops, disk, sessions, watcher, late>>

(* The process ends; staged credentials and files stay.                    *)
Crash ==
  /\ phase = "up" /\ boots < LastBoot
  /\ phase' = "down" /\ members' = {} /\ holder' = NoUid
  /\ login' = [l \in Logins |-> IF login[l] \in {"pending", "obtained"} \cup Committing THEN "gone" ELSE login[l]]
  /\ known' = [uids |-> {}, labels |-> {}] /\ left' = {} /\ found' = {} /\ late' = {}
  /\ UNCHANGED <<boots, drops, disk, staged, name, user>>

(* External: somebody copies a credential into the directory, and the copy *)
(* may be seen before it is complete.                                      *)
Drop(n, u) ==
  /\ drops < LastDrop /\ ~disk[n].there
  /\ drops' = drops + 1 /\ disk' = [disk EXCEPT ![n] = File(u, FALSE)]
  /\ late' = late \cup {m \in {n} : \E l \in Logins : login[l] = "renaming" /\ name[l] = m}
  /\ UNCHANGED <<phase, boots, sessions, members, watcher>>
Complete(n) ==
  /\ disk[n].there /\ ~disk[n].whole
  /\ disk' = [disk EXCEPT ![n] = File(@.uid, TRUE)]
  /\ UNCHANGED <<phase, boots, drops, sessions, members, watcher, late>>

----------------------------------------------------------------------------
(* scanAccountDir: the names, and the accounts as they are now.            *)
ScanBegins ==
  /\ phase = "up" /\ Resting
  /\ left' = {n \in Names : disk[n].there}
  /\ left' # {}
  /\ known' = [uids |-> UidsOf(members), labels |-> LabelsOf(members)]
  /\ UNCHANGED <<phase, boots, drops, disk, sessions, members, found, late>>
(* A name that is in the pool, or a file that is no credential yet.        *)
Unfit(n) == n \in known.labels \/ ~disk[n].whole
(* Variant: a file that does not load ends the pass.                       *)
SkipEndsPass(n) ==
  /\ phase = "up" /\ First(n, left) /\ found = {}
  /\ Unfit(n)
  /\ left' = IF n \in known.labels THEN left \ {n} ELSE {}
  /\ UNCHANGED <<phase, boots, drops, disk, sessions, members, known, found, late>>
Skip(n) ==
  /\ phase = "up" /\ First(n, left) /\ found = {}
  /\ Unfit(n)
  /\ left' = left \ {n}
  /\ UNCHANGED <<phase, boots, drops, disk, sessions, members, known, found, late>>
(* The candidate is loaded. One of an account of the pool is left aside.   *)
LoadCandidate(n) ==
  /\ phase = "up" /\ First(n, left) /\ found = {}
  /\ ~Unfit(n)
  /\ left' = left \ {n}
  /\ found' = IF disk[n].uid \in known.uids THEN {} ELSE {Account(n)}
  /\ UNCHANGED <<phase, boots, drops, disk, sessions, members, known, late>>
AddCandidate ==
  /\ phase = "up" /\ found # {}
  /\ members' = members \cup found
  /\ known' = [uids |-> known.uids \cup UidsOf(found), labels |-> known.labels \cup LabelsOf(found)]
  /\ found' = {}
  /\ UNCHANGED <<phase, boots, drops, disk, sessions, left, late>>

----------------------------------------------------------------------------
(* startAccountLogin and loginManager.Start: a session of its own.         *)
Start(l, n) ==
  /\ phase = "up" /\ login[l] = "idle"
  /\ login' = [login EXCEPT ![l] = "pending"] /\ name' = [name EXCEPT ![l] = n]
  /\ UNCHANGED <<phase, boots, drops, disk, staged, user, holder, members, watcher, late>>
(* pollForAccount: the account may still be unknown after a minute.        *)
PolledAccount == Uids \cup {NoUid}
(* saveCredential: into a temporary file, which the watcher does not read. *)
Stage(l) == staged' = staged \cup {l}
(* Login: the user has authorised it and the token was granted.            *)
Obtain(l, u) ==
  /\ phase = "up" /\ login[l] = "pending"
  /\ user' = [user EXCEPT ![l] = u]
  /\ \/ login' = [login EXCEPT ![l] = "obtained"] /\ Stage(l)
     \* The temporary file cannot be written: what was granted is lost.
     \/ login' = [login EXCEPT ![l] = "failed"] /\ UNCHANGED staged
  /\ UNCHANGED <<phase, boots, drops, disk, name, holder, members, watcher, late>>
(* It times out or the upstream fails: no token was granted.               *)
LoginFails(l) ==
  /\ phase = "up" /\ login[l] = "pending"
  /\ login' = [login EXCEPT ![l] = "failed"]
  /\ UNCHANGED <<phase, boots, drops, disk, staged, name, user, holder, members, watcher, late>>

(* The credential replaces what is in file p, as a whole.                  *)
Replaced(l, p) == disk' = [disk EXCEPT ![p] = File(user[l], TRUE)] /\ staged' = staged \ {l}
(* How commitCredential ends, with the mutex returned: the credential is   *)
(* in file p, or stays in the temporary file.                              *)
Committed(l, p) ==
  /\ login' = [login EXCEPT ![l] = "success"] /\ name' = [name EXCEPT ![l] = p]
  /\ Replaced(l, p) /\ holder' = NoUid
Refused(l) ==
  /\ login' = [login EXCEPT ![l] = "refused"] /\ holder' = NoUid
  /\ UNCHANGED <<disk, staged, name>>
(* It goes on, with the mutex and file p in mind.                          *)
GoesOn(l, where, p) ==
  /\ login' = [login EXCEPT ![l] = where] /\ name' = [name EXCEPT ![l] = p] /\ holder' = l
  /\ UNCHANGED <<disk, staged>>
CommitStep(l, where) ==
  /\ phase = "up" /\ login[l] = where
  /\ UNCHANGED <<phase, boots, drops, user, members, watcher, late>>

(* commitCredential: an account of the pool gets the session there, with   *)
(* its file (replaceLoginCredential); any other is looked for on the disk. *)
CommitToPool(l) ==
  /\ CommitStep(l, "obtained") /\ holder = NoUid
  /\ \/ user[l] = NoUid /\ Refused(l)
     \/ \E a \in members :
          /\ a.uid = user[l] /\ a.uid # NoUid
          /\ Committed(l, a.path) \/ Refused(l)
     \/ /\ user[l] # NoUid /\ user[l] \notin UidsOf(members)
        /\ GoesOn(l, "checking", name[l])

(* findDuplicateCredential: the first file of this account.                *)
Duplicates(l) == {n \in Names : disk[n].whole /\ disk[n].uid = user[l]}
FindDuplicate(l) ==
  /\ CommitStep(l, "checking")
  /\ \/ \E n \in Names : First(n, Duplicates(l)) /\ GoesOn(l, "merging", n)
     \/ Duplicates(l) = {} /\ GoesOn(l, "probing", name[l])
(* That file is loaded and gets the session, if it is still of the account.*)
MergeDuplicate(l) ==
  /\ CommitStep(l, "merging")
  /\ \/ disk[name[l]] = File(user[l], TRUE) /\ Committed(l, name[l])
     \/ Refused(l)
(* Variant: a file of that name is replaced, whosever it is.               *)
StatForgotten(l) == CommitStep(l, "probing") /\ GoesOn(l, "renaming", name[l])
(* os.Stat: a file of that name that is there is kept.                     *)
StatTarget(l) ==
  /\ CommitStep(l, "probing")
  /\ \/ ~disk[name[l]].there /\ GoesOn(l, "renaming", name[l])
     \/ Refused(l)
(* os.Rename asks no more: what has been copied to that name since is gone.*)
RenameStaged(l) ==
  /\ CommitStep(l, "renaming")
  /\ Committed(l, name[l]) \/ Refused(l)

Scan == ScanBegins \/ AddCandidate \/ \E n \in Names : Skip(n) \/ LoadCandidate(n)
Commit ==
  \E l \in Logins :
    CommitToPool(l) \/ FindDuplicate(l) \/ MergeDuplicate(l) \/ StatTarget(l) \/ RenameStaged(l)
AdmissionNext ==
  \/ Boot \/ Crash \/ Scan \/ Commit
  \/ \E n \in Names, u \in Uids : Drop(n, u)
  \/ \E n \in Names : Complete(n)
  \/ \E l \in Logins :
       LoginFails(l) \/ (\E n \in Names : Start(l, n)) \/ (\E u \in PolledAccount : Obtain(l, u))

(* The watcher's timer runs while the process does. The gateway is started *)
(* again. Nobody has to log in or to finish copying a file.                *)
AdmissionSpec == AdmissionInit /\ [][AdmissionNext]_admissionVars /\ WF_admissionVars(Scan) /\ WF_admissionVars(Boot)

----------------------------------------------------------------------------
(* No account is in the pool twice, whoever brings it. The file of every   *)
(* account of the pool is its own, whatever account a login turns out to   *)
(* be for, but for one case: the file was copied to a name between the     *)
(* os.Stat of a login, which found the name free, and its os.Rename, which *)
(* nothing guards. And a credential that a login has written to its        *)
(* temporary file is there until it is in a file of the directory, also    *)
(* when the commit is refused or the gateway stops                         *)
(* (scanAccountDir, buildAdapter, commitCredential).                       *)
OnceAndOwn ==
  /\ \A a, b \in members : a.uid = b.uid /\ a.uid # NoUid => a = b
  /\ \A a \in members : disk[a.path] = File(a.uid, TRUE) \/ a.path \in late
  /\ \A l \in Logins :
       \/ login[l] \in {"obtained", "refused"} \cup Committing
       \/ login[l] = "gone" /\ user[l] # NoUid
       => l \in staged

(* A login that reports success has its account in the pool, or the        *)
(* watcher brings it there without a restart, though other files of the    *)
(* directory are half copied or belong to accounts that are there already. *)
(* The exception is a file whose name is the label of another account: of  *)
(* the configured credential, or of a file the login has renamed over      *)
(* after the watcher had loaded it.                                        *)
LoginJoins ==
  \A l \in Logins :
    login[l] = "success" ~>
      \/ user[l] \in UidsOf(members)
      \/ \E a \in members : a.label = name[l] /\ a.uid # user[l]
===============================================================================
