---------------------------- MODULE CredentialStore ----------------------------
(***************************************************************************)
(* What an account's credential store promises: a credential in memory and *)
(* a copy on disk.  A rotation continues the session in memory and is      *)
(* saved afterwards; a login starts a later session, on disk first.        *)
(***************************************************************************)
EXTENDS Naturals

CONSTANT Generations   \* rotations of a session are told apart modulo this

VARIABLES memory, file

storeVars == <<memory, file>>

\* The n-th credential of a login session; rotations mint the next one.
Credential(session, n) == [session |-> session, generation |-> n]
Rotated(c) == Credential(c.session, (c.generation + 1) % Generations)
Credentials == [session : Nat, generation : Nat]
FirstCredential == Credential(0, 0)

StoreInit == memory = FirstCredential /\ file = FirstCredential

\* A rotation is not allowed to land between a login's save and its adoption.
Rotate ==
  /\ file.session = memory.session
  /\ memory' = Rotated(memory)
  /\ UNCHANGED file

Save == file' = memory /\ file.session = memory.session /\ UNCHANGED memory

LoginSaved ==
  /\ file.session = memory.session
  /\ file' \in Credentials
  /\ file'.session > memory.session /\ file'.generation = 0
  /\ UNCHANGED memory

LoginAdopted ==
  /\ file.session > memory.session
  /\ memory' = file
  /\ UNCHANGED file

StoreNext == Rotate \/ Save \/ LoginSaved \/ LoginAdopted
StoreSpec == StoreInit /\ [][StoreNext]_storeVars
===============================================================================
