------------------------------ MODULE PoolShapes ------------------------------
(* The shapes of small instances of the pool: which request asks for which    *)
(* model, and which belong to a session.                                      *)
CONSTANTS Requests, NoSession, r1, m1, m2, s1

OneModel == [r \in Requests |-> m1]
TwoModels == [r \in Requests |-> IF r = r1 THEN m1 ELSE m2]

NoSessions == [r \in Requests |-> NoSession]
OneSession == [r \in Requests |-> s1]
\* r1 belongs to a session, the others do not.
MixedSessions == [r \in Requests |-> IF r = r1 THEN s1 ELSE NoSession]
===============================================================================
