--------------------------- MODULE AccountAdmissionMC ---------------------------
(* A small instance of AccountAdmission: the disk is empty, or the          *)
(* configured credential of one account is there.                           *)
EXTENDS AccountAdmission

MCFirstFiles ==
  {[p \in Paths |-> IF p = Outside /\ there THEN File(u, TRUE) ELSE NoFile] : u \in Uids, there \in BOOLEAN}
===============================================================================
