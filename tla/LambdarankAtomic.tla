--------------------------- MODULE LambdarankAtomic ---------------------------
(***************************************************************************)
(* What LambdarankNDCG's GetGradients promises its caller, with the        *)
(* parallel loop abstracted away: a call takes the scores, leaves the      *)
(* output arrays undefined while it runs, and returns with every query's   *)
(* gradients computed from the bias powers of the previous call and, when  *)
(* unbiased_, the bias powers updated from the costs of all its pairs.     *)
(***************************************************************************)
EXTENDS RankPairs, FiniteSetsExt

CONSTANTS QueryCnt, Labelings, ScoreSet, HasWeights, WeightSet

VARIABLES
  label, weight, score,
  phase,          \* "idle" or "pass"
  out,            \* document -> <<lambda, hessian>>, or Busy during a call
  i_bias, j_bias  \* rank -> class of the bias power

vars == <<label, weight, score, phase, out, i_bias, j_bias>>

Queries == DOMAIN QueryCnt
Start == [q \in Queries |-> SumFunctionOnSet(QueryCnt, 0 .. q - 1)]
Docs == 0 .. SumFunction(QueryCnt) - 1
QDocs(q) == Start[q] .. Start[q] + QueryCnt[q] - 1
Part(f, q) == [d \in 0 .. QueryCnt[q] - 1 |-> f[Start[q] + d]]
Busy == "busy"

(* Values a read past a bias array may give (see LambdarankNDCG). *)
OOBValues(q) == IF QueryCnt[q] > TruncationLevel THEN NonNeg ELSE {One}

Run(q, g) == QueryGradients(Part(label, q), Part(score, q), QueryCnt[q], i_bias, j_bias, g)

(* Each query's result for each value a read past the arrays may give. *)
Results == [q \in Queries |-> [g \in OOBValues(q) |-> Run(q, g)]]

(* The bias powers after a call in which query q's result was res[q]. *)
UpdatedBias(res, which) ==
  LET C(r) == UNION {{x.c : x \in {y \in res[q][which] : y.rank = r}} : q \in Queries}
  IN [r \in Ranks |-> BiasPow(ClassSum(C(r)), ClassSum(C(0)), r)]

Weights == IF HasWeights THEN [Docs -> WeightSet] ELSE {[d \in Docs |-> One]}

Init ==
  /\ label \in Labelings
  /\ weight \in Weights
  /\ score \in [Docs -> ScoreSet]
  /\ phase = "idle"
  /\ out \in [Docs -> LambdaVal \X DocVal]
  /\ i_bias = [r \in Ranks |-> One]
  /\ j_bias = [r \in Ranks |-> One]

Call ==
  /\ phase = "idle"
  /\ phase' = "pass"
  /\ score' \in [Docs -> ScoreSet]
  /\ out' = Busy
  /\ UNCHANGED <<label, weight, i_bias, j_bias>>

Return ==
  /\ phase = "pass"
  /\ phase' = "idle"
  /\ LET R == Results IN
     \E g \in [Queries -> NonNeg] :
       LET res == [q \in Queries |-> R[q][g[q]]] IN
       /\ \A q \in Queries : g[q] \in OOBValues(q)
       /\ out' = [d \in Docs |->
                    LET q == CHOOSE p \in Queries : d \in QDocs(p)
                    IN <<Scale(res[q].lambda[d - Start[q]], weight[d]),
                         Scale(res[q].hessian[d - Start[q]], weight[d])>>]
       /\ IF Unbiased
          THEN i_bias' = UpdatedBias(res, "icost") /\ j_bias' = UpdatedBias(res, "jcost")
          ELSE UNCHANGED <<i_bias, j_bias>>
  /\ UNCHANGED <<label, weight, score>>

(* Init again between calls: new metadata, and the bias model restarts   *)
(* from 1.0 at every rank.                                                 *)
ReInit ==
  /\ phase = "idle"
  /\ label' \in Labelings
  /\ weight' \in Weights
  /\ i_bias' = [r \in Ranks |-> One]
  /\ j_bias' = [r \in Ranks |-> One]
  /\ UNCHANGED <<score, phase, out>>

Next == Call \/ Return \/ ReInit

(* A call that has started returns; the caller may stop calling.         *)
(* WF_vars(Return) written out: ENABLED Return is phase = "pass", as some  *)
(* value of every out-of-bounds read and so some result always exists.   *)
Fairness == []<>(phase # "pass") \/ []<><<Return>>_vars

Spec == Init /\ [][Next]_vars /\ Fairness
=============================================================================
