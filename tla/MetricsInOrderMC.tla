---------------------------- MODULE MetricsInOrderMC ----------------------------
(* The small instance whose archives are in an order that counts no request *)
(* twice, as EachCountedOnce asks of them.                                  *)
EXTENDS MetricsStoreMC

ASSUME ArchivesInOrder
===============================================================================
