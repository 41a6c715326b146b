--------------------------- MODULE PoolOperatorMC ----------------------------
(* PoolOperator for TLC, in the shapes PoolShapes names.                        *)
EXTENDS PoolOperator, TLC

CONSTANTS r1, r2, r3, m1, m2, s1

INSTANCE PoolShapes

\* Accounts are interchangeable wherever all of them start in the pool.
AccountSymmetry == Permutations(Accounts)
===============================================================================
