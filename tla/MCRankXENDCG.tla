----------------------------- MODULE MCRankXENDCG -----------------------------
(* Model-checking instance of RankXENDCG: a query of one document (the     *)
(* skipped case) and one of two, two threads, two calls.                   *)
EXTENDS RankXENDCG

MCQueryCnt == [q \in 0 .. 2 |-> IF q = 1 THEN 1 ELSE 2]
MCScoreSet == {0, 1, 2}
MCScoreSetWide == {0, 40}
MCLabels == {[d \in Docs |-> d % 2], [d \in Docs |-> 2]}
=============================================================================
