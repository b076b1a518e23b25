------------------------------ MODULE RankPairs ------------------------------
(***************************************************************************)
(* The per-query pairwise LambdaRank-NDCG computation of                   *)
(* LambdarankNDCG::GetGradientsForOneQuery (rank_objective.hpp).           *)
(*                                                                         *)
(* Control is kept exactly: the stable descending sort, the truncated pair *)
(* loop with its sentinel and equal-label skips, the high/low choice by    *)
(* label, the accesses to the bias arrays at high_rank / low_rank, the     *)
(* cost contributions and the final normalisation.                         *)
(*                                                                         *)
(* Real numbers are abstracted to the class of their value: exactly zero,  *)
(* exactly one, some other positive finite value, +infinity or NaN.  The   *)
(* classes follow IEEE arithmetic exactly, so a property about zeros,      *)
(* non-finite values or NaN propagation holds of the doubles iff it holds  *)
(* of the classes (float overflow and underflow are not modelled).         *)
(* Documents of a query are numbered 0 .. cnt-1 as in the code.            *)
(***************************************************************************)
EXTENDS Integers, FiniteSets

CONSTANTS
  TruncationLevel,  \* truncation_level_
  KMinScore,        \* kMinScore (-infinity): below every other score
  LabelGain,        \* label_gain_: label -> gain, after DefaultLabelGain
  Norm,             \* norm_
  Unbiased,         \* unbiased_
  EtaSign           \* sign of eta_: 0 or 1 (any positive exponent)

ASSUME TruncationLevel \in Nat \ {0}
ASSUME \A l \in DOMAIN LabelGain : LabelGain[l] \in Nat
ASSUME \A l, m \in DOMAIN LabelGain : l < m => LabelGain[l] <= LabelGain[m]
ASSUME Norm \in BOOLEAN /\ Unbiased \in BOOLEAN /\ EtaSign \in {0, 1}

(* A plausible bug: the position vectors resized to truncation_level_ - 1. *)
RanksShort == 0 .. TruncationLevel - 2

(* The ranks the position vectors i_biases_pow_, j_biases_pow_, i_costs_,   *)
(* j_costs_ and each cost buffer hold (resize(truncation_level_)).          *)
Ranks == 0 .. TruncationLevel - 1

(* Classes of a non-negative double or float. *)
Zero == "zero"
One  == "one"
Pos  == "pos"
Inf  == "inf"
NaN  == "nan"
NonNeg == {Zero, One, Pos, Inf, NaN}

(* Classes of an accumulated lambda or hessian of one document: exactly   *)
(* 0.0, some finite value, or inf/NaN.                                    *)
Fin    == "fin"
NonFin == "nonfin"
DocVal == {Zero, Fin, NonFin}

(* Classes of an accumulated lambda, which has a sign: exactly 0.0, a sum  *)
(* of negative terms only, of positive terms only, of terms of both signs  *)
(* (any sign, zero included), or inf/NaN.                                  *)
Minus == "minus"
Plus  == "plus"
Mixed == "mixed"
LambdaVal == {Zero, Minus, Plus, Mixed, NonFin}

Mul(a, b) ==
  CASE a = NaN \/ b = NaN                      -> NaN
    [] {a, b} = {Zero, Inf}                     -> NaN
    [] a = Inf \/ b = Inf                       -> Inf
    [] a = Zero \/ b = Zero                     -> Zero
    [] a = One                                  -> b
    [] b = One                                  -> a
    [] OTHER                                    -> Pos

Div(a, b) ==
  CASE a = NaN \/ b = NaN                      -> NaN
    [] a = b /\ a \in {Zero, Inf}               -> NaN
    [] a = Inf \/ b = Zero                      -> Inf
    [] a = Zero \/ b = Inf                      -> Zero
    [] b = One                                  -> a
    [] OTHER                                    -> Pos

(* The class of a sum of non-negative terms. *)
ClassSum(S) ==
  IF NaN \in S THEN NaN
  ELSE IF Inf \in S THEN Inf
  ELSE IF S \ {Zero} # {} THEN Pos
  ELSE Zero

(* pow(x, eta_) with eta_ >= 0; pow(x, 0) = 1 even for NaN and inf. *)
PowEta(x) == IF EtaSign = 0 THEN One ELSE x

(***************************************************************************)
(* std::stable_sort of 0..cnt-1 by score descending: the rank of d is the  *)
(* number of documents sorted before it.                                   *)
(***************************************************************************)
StableRank(score, cnt, d) ==
  Cardinality({e \in 0 .. cnt - 1 :
                 score[e] > score[d] \/ (score[e] = score[d] /\ e < d)})

SortedIdx(score, cnt) ==
  [r \in 0 .. cnt - 1 |-> CHOOSE d \in 0 .. cnt - 1 : StableRank(score, cnt, d) = r]

(* inverse_max_dcgs_[q]: CalMaxDCGAtK is positive iff the best label of    *)
(* the query has a positive gain; the inverse is kept only when positive.  *)
InverseMaxDCG(label, cnt) ==
  IF \E d \in 0 .. cnt - 1 : LabelGain[label[d]] > 0 THEN Pos ELSE Zero

(***************************************************************************)
(* The rank pairs <<i, j>> the double loop over sorted_idx s reaches and   *)
(* does not skip.                                                          *)
(***************************************************************************)
(* Plausible bugs: the loop bound without "i < truncation_level_", and the *)
(* inner loop without its kMinScore skip.                                   *)
LoopPairsNoTruncation(label, score, cnt, s) ==
  {p \in (0 .. cnt - 1) \X (0 .. cnt - 1) :
     /\ p[1] < cnt - 1
     /\ p[1] < p[2]
     /\ score[s[p[1]]] # KMinScore
     /\ score[s[p[2]]] # KMinScore
     /\ label[s[p[1]]] # label[s[p[2]]]}

LoopPairsNoSentinelSkip(label, score, cnt, s) ==
  {p \in (0 .. cnt - 1) \X (0 .. cnt - 1) :
     /\ p[1] < cnt - 1 /\ p[1] < TruncationLevel
     /\ p[1] < p[2]
     /\ score[s[p[1]]] # KMinScore
     /\ label[s[p[1]]] # label[s[p[2]]]}

LoopPairs(label, score, cnt, s) ==
  {p \in (0 .. cnt - 1) \X (0 .. cnt - 1) :
     /\ p[1] < cnt - 1 /\ p[1] < TruncationLevel
     /\ p[1] < p[2]
     /\ score[s[p[1]]] # KMinScore
     /\ score[s[p[2]]] # KMinScore
     /\ label[s[p[1]]] # label[s[p[2]]]}

(* The processed pairs: the more relevant document is "high" whatever its  *)
(* rank.                                                                   *)
Pairs(label, score, cnt) ==
  LET s == SortedIdx(score, cnt)
      hiRank(p) == IF label[s[p[1]]] > label[s[p[2]]] THEN p[1] ELSE p[2]
      loRank(p) == IF label[s[p[1]]] > label[s[p[2]]] THEN p[2] ELSE p[1]
  IN {[highRank |-> hiRank(p), lowRank |-> loRank(p),
       high |-> s[hiRank(p)], low |-> s[loRank(p)]] : p \in LoopPairs(label, score, cnt, s)}

(* A read of a bias array: ranks past the vector's end read whatever float *)
(* lies beyond it, the value g chosen by the caller.                       *)
BiasAt(bias, r, g) == IF r \in Ranks THEN bias[r] ELSE g

(* delta_pair_NDCG: dcg_gap * paired_discount * inverse_max_dcg, divided   *)
(* by (0.01 + |delta_score|) when regularised (a positive finite factor,   *)
(* so the class is unchanged).  paired_discount > 0 since ranks differ.    *)
DeltaPairNDCG(label, cnt, pi) ==
  LET gap == LabelGain[label[pi.high]] - LabelGain[label[pi.low]]
  IN Mul(IF gap > 0 THEN Pos ELSE Zero, InverseMaxDCG(label, cnt))

(* |p_lambda| = sigmoid_ * p * delta / i_bias[high_rank] / j_bias[low_rank]; *)
(* p_hessian has the same class (p * (1 - p) > 0 for table values).        *)
PairMagnitude(label, cnt, pi, ib, jb, g) ==
  Div(Div(Mul(Pos, DeltaPairNDCG(label, cnt, pi)), BiasAt(ib, pi.highRank, g)),
      BiasAt(jb, pi.lowRank, g))

(* p_cost = log(1 / (1 - p)) * delta_pair_NDCG. *)
PairCost(label, cnt, pi) == Mul(Pos, DeltaPairNDCG(label, cnt, pi))

DocClass(terms) ==
  IF terms \cap {Inf, NaN} # {} THEN NonFin
  ELSE IF terms \ {Zero} # {} THEN Fin
  ELSE Zero

(* Multiplying an accumulated value by a factor of class f. *)
Scale(v, f) ==
  CASE f = NaN \/ f = Inf          -> NonFin
    [] f = Zero                    -> IF v = NonFin THEN NonFin ELSE Zero
    [] OTHER                       -> v

(* A plausible bug: both updates of lines 358 and 360 with the same sign. *)
LambdaClassSameSign(down, up) ==
  LET nz == (down \cup up) \ {Zero}
  IN IF nz \cap {Inf, NaN} # {} THEN NonFin ELSE IF nz = {} THEN Zero ELSE Minus

(* A plausible bug: the update of the low document (line 358) dropped. *)
LambdaClassNoLowUpdate(down, up) ==
  LET nz == down \ {Zero}
  IN IF nz \cap {Inf, NaN} # {} THEN NonFin ELSE IF nz = {} THEN Zero ELSE Minus

(* lambdas[d] after the pair loop: p_lambda is negative (line 325); it is  *)
(* added to the high document (line 360) and subtracted from the low one   *)
(* (line 358).  down and up are the magnitudes of the pairs in which d is  *)
(* high and low respectively.                                              *)
LambdaClass(down, up) ==
  LET nzDown == down \ {Zero}
      nzUp   == up \ {Zero}
  IN CASE (nzDown \cup nzUp) \cap {Inf, NaN} # {} -> NonFin
       [] nzDown = {} /\ nzUp = {}               -> Zero
       [] nzUp = {}                              -> Minus
       [] nzDown = {}                            -> Plus
       [] OTHER                                  -> Mixed

(* A plausible bug: normalising without the "sum_lambdas > 0" guard, so   *)
(* a query without pairs computes log2(1 + 0) / 0.                        *)
NormFactorUnguarded(sum) ==
  IF Norm THEN (IF sum \in {Zero, Inf, NaN} THEN NaN ELSE Pos) ELSE One

(* The factor "if (norm_ && sum_lambdas > 0)" multiplies every lambda and  *)
(* hessian by: log2(1 + sum) / sum, which is NaN for an infinite sum; One  *)
(* when the normalisation is skipped (sum zero or NaN).                   *)
NormFactor(sum) ==
  IF Norm /\ sum \notin {Zero, NaN} THEN (IF sum = Inf THEN NaN ELSE Pos) ELSE One

(***************************************************************************)
(* GetGradientsForOneQuery for a query of cnt documents, bias arrays ib,   *)
(* jb and out-of-bounds read value g.  Result:                             *)
(*   lambda, hessian : local doc -> LambdaVal, DocVal                      *)
(*   icost, jcost    : the cost contributions, as records                  *)
(*                     [rank, high, low, c] added to the thread's buffers  *)
(*   oob             : out-of-bounds accesses <<array, index>>             *)
(***************************************************************************)
QueryGradients(label, score, cnt, ib, jb, g) ==
  LET pairs  == Pairs(label, score, cnt)
      magOf == [pi \in pairs |-> PairMagnitude(label, cnt, pi, ib, jb, g)]
      mag(pi) == magOf[pi]
      sumLambdas == ClassSum({mag(pi) : pi \in pairs})
      acc(d) == DocClass({mag(pi) : pi \in {x \in pairs : d \in {x.high, x.low}}})
      final(d) == Scale(acc(d), NormFactor(sumLambdas))
      magsAs(d, role) == {mag(pi) : pi \in {x \in pairs : x[role] = d}}
      lam(d) == Scale(LambdaClass(magsAs(d, "high"), magsAs(d, "low")), NormFactor(sumLambdas))
      cost(pi) == PairCost(label, cnt, pi)
  IN [lambda  |-> [d \in 0 .. cnt - 1 |-> lam(d)],
      hessian |-> [d \in 0 .. cnt - 1 |-> final(d)],
      icost   |-> IF Unbiased
                  THEN {[rank |-> pi.highRank, high |-> pi.high, low |-> pi.low,
                         c |-> Div(cost(pi), BiasAt(jb, pi.lowRank, g))] : pi \in pairs}
                  ELSE {},
      jcost   |-> IF Unbiased
                  THEN {[rank |-> pi.lowRank, high |-> pi.high, low |-> pi.low,
                         c |-> Div(cost(pi), BiasAt(ib, pi.highRank, g))] : pi \in pairs}
                  ELSE {},
      oob     |-> (IF cnt = 0 THEN {<<"sorted_idx", 0>>} ELSE {})
                  \cup {<<"i_biases_pow_", pi.highRank>> : pi \in {x \in pairs : x.highRank \notin Ranks}}
                  \cup {<<"j_biases_pow_", pi.lowRank>> : pi \in {x \in pairs : x.lowRank \notin Ranks}}]

(***************************************************************************)
(* Reference: the document pairs the spec says are compared -- distinct    *)
(* labels, neither document at the sentinel score, and the better-ranked   *)
(* of the two inside the truncation window.                                *)
(***************************************************************************)
EligiblePairs(label, score, cnt) ==
  {P \in SUBSET (0 .. cnt - 1) :
     /\ Cardinality(P) = 2
     /\ \A d \in P : score[d] # KMinScore
     /\ \E a, b \in P : label[a] # label[b]
     /\ \E d \in P : StableRank(score, cnt, d) < TruncationLevel}

ComparedPairs(label, score, cnt) ==
  {{pi.high, pi.low} : pi \in Pairs(label, score, cnt)}

(***************************************************************************)
(* UpdatePositionBiasesAndGradients for one rank: pow(cost[r] / cost[0],   *)
(* eta_).  cost[0] / cost[0] is exactly 1 when finite and non-zero.        *)
(***************************************************************************)
BiasPow(cr, c0, r) ==
  PowEta(IF r = 0 THEN (IF c0 \in {Pos, One} THEN One ELSE NaN)
         ELSE Div(cr, c0))
=============================================================================
