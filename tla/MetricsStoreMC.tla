----------------------------- MODULE MetricsStoreMC -----------------------------
(* A small instance of MetricsStore: four requests of former gateways on    *)
(* two days before today and on today, and archives of them that overlap.   *)
EXTENDS MetricsStore, TLC

MCPastAt ==
  [p \in Past |->
     CASE p = "p1" -> [day |-> 1, key |-> "old", time |-> -4, minute |-> 0]
       [] p = "p2" -> [day |-> 1, key |-> "old", time |-> -3, minute |-> 0]
       [] p = "p3" -> [day |-> 2, key |-> "old", time |-> -2, minute |-> 0]
       [] p = "p4" -> [day |-> 3, key |-> "live", time |-> -1, minute |-> 0]]
Absent == Archive("absent", {}, {}, 0)
Broken == Archive("damaged", {}, {}, 0)
Legacy == Archive("legacy", {}, {"p2", "p4"}, 0)
Modern == Archive("snapshot", {"p1", "p2", "p3", "p4"}, {"p3", "p4"}, -9)
Later == Archive("snapshot", {"p1", "p2", "p3", "p4"}, {"p4"}, -9)
Lines == Archive("log", {}, {"p1", "p3", "p4"}, 0)

MCAlternate == {Absent, Broken, Modern}
MCFirstMain == {Absent, Legacy}
(* Archives with whole days come after those without, logs last.            *)
MCImports == {<<Modern, Later>>, <<Legacy, Modern, Lines>>}
RequestsAlike == Permutations(Live)
(* The same archives in the order that disagrees with the documentation.    *)
OverlapAlternate == {Absent}
OverlapImports == {<<Modern, Legacy>>}
===============================================================================
