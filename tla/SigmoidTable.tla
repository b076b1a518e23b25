----------------------------- MODULE SigmoidTable -----------------------------
(***************************************************************************)
(* The sigmoid lookup table of LambdarankNDCG (rank_objective.hpp): the    *)
(* constructor's check of sigmoid_, ConstructSigmoidTable, run by every    *)
(* call of Init, and GetSigmoid, called by the pair loop on delta_score.   *)
(*                                                                         *)
(* Numbers are exact rationals <<num, den>> (den > 0, in lowest terms).    *)
(* Entry i of sigmoid_table_ is 1 / (1 + exp(score_i * sigmoid_)), a       *)
(* strictly decreasing function of score_i, so the model stores score_i:   *)
(* it identifies the entry.  The double computation of a bin index is     *)
(* modelled by the exact product plus or minus a rounding error of at     *)
(* most RoundErr bins.                                                     *)
(***************************************************************************)
EXTENDS Integers

CONSTANTS
  SigmoidSet,   \* values config.sigmoid may hold, as rationals
  RawMinInput,  \* the initialiser of min_sigmoid_input_ (-50)
  Bins,         \* _sigmoid_bins (1024 * 1024 in the code)
  MaxInits,     \* bound on the calls of Init on one objective
  RoundErr,     \* bound on the rounding error of the bin index, in bins
  ProbeSet      \* delta_score values looked up besides the table's own points

ASSUME RawMinInput \in Int /\ RawMinInput < 0
ASSUME Bins \in Nat \ {0} /\ MaxInits \in Nat

RECURSIVE GCD(_, _)
GCD(a, b) == IF b = 0 THEN a ELSE GCD(b, a % b)

Rat(n, d) == LET g == GCD(IF n < 0 THEN -n ELSE n, IF d < 0 THEN -d ELSE d)
                 s == IF d < 0 THEN -1 ELSE 1
             IN <<(s * n) \div g, (s * d) \div g>>
Int2Rat(n) == <<n, 1>>
RAdd(a, b) == Rat(a[1] * b[2] + b[1] * a[2], a[2] * b[2])
RNeg(a)    == <<-a[1], a[2]>>
RSub(a, b) == RAdd(a, RNeg(b))
RMul(a, b) == Rat(a[1] * b[1], a[2] * b[2])
RDiv(a, b) == Rat(a[1] * b[2], a[2] * b[1])
RLeq(a, b) == a[1] * b[2] <= b[1] * a[2]
RAbs(a)    == IF a[1] < 0 THEN RNeg(a) ELSE a
(* static_cast<size_t> of a non-negative double: truncation. *)
Trunc(a)   == a[1] \div a[2]

VARIABLES
  sigmoid_,                  \* sigmoid_ from the config
  phase,                     \* "fatal", "constructed" or "ready" (table built)
  min_sigmoid_input_,
  max_sigmoid_input_,
  sigmoid_table_idx_factor_,
  sigmoid_table_,            \* bin -> the score the entry was computed at
  inits,                     \* number of Init calls so far
  lookup                     \* the last GetSigmoid call: [input, index]

vars == <<sigmoid_, phase, min_sigmoid_input_, max_sigmoid_input_,
          sigmoid_table_idx_factor_, sigmoid_table_, inits, lookup>>

(* No GetSigmoid call since the table was (re)built. *)
NoLookup == [input |-> Int2Rat(0), index |-> -1]

(* A plausible bug: the constructor without its sigmoid_ <= 0 check. *)
InitNoFatal ==
  /\ sigmoid_ \in SigmoidSet
  /\ phase = "constructed"
  /\ min_sigmoid_input_ = Int2Rat(RawMinInput)
  /\ max_sigmoid_input_ = Int2Rat(-RawMinInput)
  /\ sigmoid_table_idx_factor_ = Int2Rat(0)
  /\ sigmoid_table_ = <<>>
  /\ inits = 0
  /\ lookup = NoLookup

(***************************************************************************)
(* The constructor: the member initialisers -50 / 50, the table cleared,   *)
(* and Log::Fatal when sigmoid_ <= 0 (the objective is never built).       *)
(* sigmoid_table_idx_factor_ has no initialiser and is not read before     *)
(* ConstructSigmoidTable; the model gives it 0.                            *)
(***************************************************************************)
Init ==
  /\ sigmoid_ \in SigmoidSet
  /\ phase = IF RLeq(sigmoid_, Int2Rat(0)) THEN "fatal" ELSE "constructed"
  /\ min_sigmoid_input_ = Int2Rat(RawMinInput)
  /\ max_sigmoid_input_ = Int2Rat(-RawMinInput)
  /\ sigmoid_table_idx_factor_ = Int2Rat(0)
  /\ sigmoid_table_ = <<>>
  /\ inits = 0
  /\ lookup = NoLookup

(* A plausible bug: the table filled before the bounds are rescaled. *)
ConstructSigmoidTableStaleMin ==
  /\ phase \in {"constructed", "ready"}
  /\ inits < MaxInits
  /\ LET mn == RDiv(RDiv(min_sigmoid_input_, sigmoid_), Int2Rat(2))
         mx == RNeg(mn)
         f  == RDiv(Int2Rat(Bins), RSub(mx, mn))
     IN /\ min_sigmoid_input_' = mn
        /\ max_sigmoid_input_' = mx
        /\ sigmoid_table_idx_factor_' = f
        /\ sigmoid_table_' = [i \in 0 .. Bins - 1 |-> RAdd(RDiv(Int2Rat(i), f), min_sigmoid_input_)]
  /\ phase' = "ready"
  /\ inits' = inits + 1
  /\ lookup' = NoLookup
  /\ UNCHANGED sigmoid_

(***************************************************************************)
(* Init calls ConstructSigmoidTable, which rescales the member             *)
(* min_sigmoid_input_ in place and rebuilds the table over the new domain. *)
(***************************************************************************)
ConstructSigmoidTable ==
  /\ phase \in {"constructed", "ready"}
  /\ inits < MaxInits
  /\ LET mn == RDiv(RDiv(min_sigmoid_input_, sigmoid_), Int2Rat(2))
         mx == RNeg(mn)
         f  == RDiv(Int2Rat(Bins), RSub(mx, mn))
     IN /\ min_sigmoid_input_' = mn
        /\ max_sigmoid_input_' = mx
        /\ sigmoid_table_idx_factor_' = f
        /\ sigmoid_table_' = [i \in 0 .. Bins - 1 |-> RAdd(RDiv(Int2Rat(i), f), mn)]
  /\ phase' = "ready"
  /\ inits' = inits + 1
  /\ lookup' = NoLookup
  /\ UNCHANGED sigmoid_

(* The index (score - min) * factor may take once rounded. *)
RoundedIndices(x) ==
  LET p == RMul(RSub(x, min_sigmoid_input_), sigmoid_table_idx_factor_)
  IN {Trunc(q) : q \in {RSub(p, RoundErr), p, RAdd(p, RoundErr)}}

(* The entries GetSigmoid(x) may read: clamped below and above the domain. *)
SigmoidIndices(x) ==
  IF RLeq(x, min_sigmoid_input_) THEN {0}
  ELSE IF RLeq(max_sigmoid_input_, x) THEN {Bins - 1}
  ELSE RoundedIndices(x)

(* Scores looked up: the probes, the domain ends, every entry's own point  *)
(* and a point a thousandth of a bin below the upper end.                  *)
Width == RDiv(Int2Rat(1), sigmoid_table_idx_factor_)
Probes ==
  ProbeSet \cup {min_sigmoid_input_, max_sigmoid_input_}
           \cup {sigmoid_table_[i] : i \in 0 .. Bins - 1}
           \cup {RSub(max_sigmoid_input_, RMul(Width, Rat(1, 1000)))}

(* The pair loop calls GetSigmoid(delta_score). *)
GetSigmoid ==
  /\ phase = "ready"
  /\ \E x \in Probes : \E i \in SigmoidIndices(x) : lookup' = [input |-> x, index |-> i]
  /\ UNCHANGED <<sigmoid_, phase, min_sigmoid_input_, max_sigmoid_input_,
                 sigmoid_table_idx_factor_, sigmoid_table_, inits>>

Next == ConstructSigmoidTable \/ GetSigmoid

Spec == Init /\ [][Next]_vars
-----------------------------------------------------------------------------
TypeOK ==
  /\ sigmoid_ \in SigmoidSet
  /\ phase \in {"fatal", "constructed", "ready"}
  /\ inits \in 0 .. MaxInits
  /\ \A r \in {min_sigmoid_input_, max_sigmoid_input_, sigmoid_table_idx_factor_} :
        r[1] \in Int /\ r[2] \in Nat \ {0}
  /\ RLeq(min_sigmoid_input_, max_sigmoid_input_)
  /\ lookup.index \in Int

(***************************************************************************)
(* GetSigmoid never reads outside sigmoid_table_: the clamps and the       *)
(* truncated index keep every lookup in 0 .. _sigmoid_bins - 1.            *)
(***************************************************************************)
LookupInTable == lookup # NoLookup => lookup.index \in 0 .. Bins - 1

(***************************************************************************)
(* The spec's contract of a lookup, after any number of Init calls: inputs *)
(* at or below the domain read the first entry, at or above it the last,   *)
(* and inside it an entry computed within one bin width of the input.      *)
(***************************************************************************)
LookupMatchesSpec ==
  lookup # NoLookup /\ lookup.index \in 0 .. Bins - 1 =>
    LET x == lookup.input
        e == sigmoid_table_[lookup.index]
    IN /\ RLeq(x, min_sigmoid_input_) => lookup.index = 0
       /\ RLeq(max_sigmoid_input_, x) => lookup.index = Bins - 1
       /\ ~RLeq(x, min_sigmoid_input_) /\ ~RLeq(max_sigmoid_input_, x)
            => RLeq(RAbs(RSub(x, e)), Width)

(***************************************************************************)
(* The table's domain is the fixed raw bound scaled by the steepness,      *)
(* [-50 / sigmoid / 2, 50 / sigmoid / 2], however often Init has run.      *)
(***************************************************************************)
DomainAsSpecified ==
  phase = "ready" =>
    /\ min_sigmoid_input_ = RDiv(RDiv(Int2Rat(RawMinInput), sigmoid_), Int2Rat(2))
    /\ max_sigmoid_input_ = RNeg(min_sigmoid_input_)
=============================================================================
