--------------------------- MODULE MCLambdarankNDCG ---------------------------
(* Model-checking instance of LambdarankNDCG: two queries, labels 0..2     *)
(* with the default gains 2^l - 1, scores {kMinScore, 0, 1}.               *)
EXTENDS LambdarankNDCG

MCQueryCnt2x2 == [q \in 0 .. 1 |-> 2]
MCQueryCnt1x3 == [q \in 0 .. 1 |-> IF q = 0 THEN 1 ELSE 3]
MCQueryCnt1x2 == [q \in 0 .. 1 |-> IF q = 0 THEN 1 ELSE 2]
MCQueryCnt3   == [q \in 0 .. 0 |-> 3]
MCQueryCnt0x2 == [q \in 0 .. 1 |-> IF q = 0 THEN 0 ELSE 2]
MCQueryCnt1x2x1 == [q \in 0 .. 2 |-> IF q = 1 THEN 2 ELSE 1]
MCLabelGain   == [l \in 0 .. 2 |-> 2 ^ l - 1]
MCKMinScore   == -1
MCScoreSet    == {-1, 0, 1}
MCScoreSetNoSentinel == {0, 1}
MCLabels01    == [Docs -> {0, 1}]
MCLabels012   == [Docs -> {0, 1, 2}]
MCLabelsMixed == {[d \in Docs |-> (d + d \div 2) % 2]}
=============================================================================
