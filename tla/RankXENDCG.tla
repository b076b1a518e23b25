------------------------------ MODULE RankXENDCG ------------------------------
(***************************************************************************)
(* RankXENDCG (rank_objective.hpp) driven by RankingObjective's parallel   *)
(* loop: Init creates one Random per query, and every call of             *)
(* GetGradientsForOneQuery on a query of two or more documents draws one  *)
(* float per document from that query's generator.                        *)
(*                                                                         *)
(* A generator is abstracted to its position in its own stream (Random,    *)
(* utils/random.h, is outside src/): NextFloat returns the value at the   *)
(* position and advances it.  Values are abstracted to finite / non-      *)
(* finite: the softmax and every sum and product of finite values are    *)
(* finite, and a non-finite operand stays non-finite (inf, or NaN from    *)
(* inf - inf and 0 * inf).  Labels enter only through Phi = 2^label - g.   *)
(***************************************************************************)
EXTENDS Integers, FiniteSets, FiniteSetsExt

CONSTANTS
  QueryCnt,   \* query q (0-based) -> number of its documents
  Labelings,  \* label arrays the metadata may hold (integer labels)
  TeamSize,   \* threads of the OpenMP team
  ScoreSet,   \* scores the boosting loop may pass
  RoundGap,   \* score lead above which exp rounds the softmax of the leader to 1.0
  MaxCalls,   \* bound on the GetGradients calls explored
  MaxInits    \* bound on the further Init calls explored

Queries == DOMAIN QueryCnt
NumQueries == Cardinality(Queries)
Threads == 0 .. TeamSize - 1
QueryStart == [q \in Queries |-> SumFunctionOnSet(QueryCnt, 0 .. q - 1)]
NumData == SumFunction(QueryCnt)
Docs == 0 .. NumData - 1

ASSUME Queries = 0 .. NumQueries - 1 /\ TeamSize \in Nat \ {0}

Fin == "fin"
NonFin == "nonfin"
(* The class of a sum, difference or product of values of classes S. *)
Combine(S) == IF NonFin \in S THEN NonFin ELSE Fin

(* Labels small enough that Common::Pow(2, label) is exact whether it     *)
(* computes in int or in double (Common::Pow is outside src/).            *)
ASSUME \A lab \in Labelings : \A d \in DOMAIN lab : lab[d] \in 0 .. 30

(* Phi(label, g) = 2^label - g with g in [0, 1): finite and at least 0.   *)
Phi(l) == Fin

(***************************************************************************)
(* Common::Softmax: rho[i] = exp(s[i] - max) / sum.  The sum is 1 + the    *)
(* other terms, which rounds to exactly 1.0 when the leader is ahead of    *)
(* every other document by RoundGap (about 37 for doubles): rho = 1.0.     *)
(***************************************************************************)
RhoIsOne(sc, cnt, i) == \A e \in 0 .. cnt - 1 \ {i} : sc[i] - sc[e] >= RoundGap

(* x / (1. - rho[i]): a division by zero when rho[i] is exactly 1.0. *)
OverOneMinusRho(x, sc, cnt, i) == IF RhoIsOne(sc, cnt, i) THEN NonFin ELSE x

(* A plausible bug: no "Skip groups with too few items" branch. *)
SkippedNever(cnt) == FALSE

(* "if (cnt <= 1)": groups with too few items get zero gradients. *)
Skipped(cnt) == cnt <= 1

(***************************************************************************)
(* GetGradientsForOneQuery on scores sc and labels lab of cnt documents:   *)
(* the class of each lambda and hessian.  inv_denominator is at most       *)
(* 1 / kEpsilon, and 0 when a param is inf; then that document's first-    *)
(* order term is -inf * 0 = NaN, and finite params give finite terms.     *)
(***************************************************************************)
XEQueryGradients(sc, lab, cnt) ==
  IF Skipped(cnt)
  THEN [lambda |-> [i \in 0 .. cnt - 1 |-> Fin], hessian |-> [i \in 0 .. cnt - 1 |-> Fin]]
  ELSE
  LET D == 0 .. cnt - 1
      p1 == [i \in D |-> OverOneMinusRho(Phi(lab[i]), sc, cnt, i)]
      sumL1 == Combine({p1[i] : i \in D})
      t2 == [i \in D |-> Combine({sumL1, p1[i]})]
      p2 == [i \in D |-> OverOneMinusRho(t2[i], sc, cnt, i)]
      sumL2 == Combine({p2[i] : i \in D})
  IN [lambda  |-> [i \in D |-> Combine({Fin, t2[i], sumL2, p2[i]})],
      hessian |-> [i \in D |-> Fin]]

(* The NextFloat calls of one query: one per document, none when skipped. *)
Draws(q) == IF Skipped(QueryCnt[q]) THEN 0 ELSE QueryCnt[q]

VARIABLES
  label, score, phase, next, chunk,
  rands,      \* rands_: generator -> its position in its stream
  gradients, hessians,
  used,       \* query -> stream positions its last run drew
  calls,      \* GetGradients calls so far
  inits       \* Init calls after the first

vars == <<label, score, phase, next, chunk, rands, gradients, hessians, used, calls, inits>>

(* RankXENDCG::Init: rands_.emplace_back(seed_ + i), each at its start. *)
Init ==
  /\ label \in Labelings
  /\ score = [d \in Docs |-> CHOOSE s \in ScoreSet : TRUE]
  /\ phase = "idle"
  /\ next = NumQueries
  /\ chunk = [t \in Threads |-> {}]
  /\ rands = [q \in Queries |-> 0]
  /\ gradients = [d \in Docs |-> Fin]
  /\ hessians = [d \in Docs |-> Fin]
  /\ used = [q \in Queries |-> {}]
  /\ calls = 0
  /\ inits = 0

(***************************************************************************)
(* RankXENDCG::Init again between calls: rands_.emplace_back appends one   *)
(* generator per query, seeded at its start; those already there keep     *)
(* their positions.  The new metadata has the same query boundaries.       *)
(***************************************************************************)
ReInit ==
  /\ phase = "idle"
  /\ inits < MaxInits
  /\ inits' = inits + 1
  /\ label' \in Labelings
  /\ LET n == Cardinality(DOMAIN rands)
     IN rands' = [r \in 0 .. n + NumQueries - 1 |-> IF r < n THEN rands[r] ELSE 0]
  /\ UNCHANGED <<score, phase, next, chunk, gradients, hessians, used, calls>>

GetGradients ==
  /\ phase = "idle"
  /\ calls < MaxCalls
  /\ phase' = "pass"
  /\ score' \in [Docs -> ScoreSet]
  /\ next' = 0
  /\ calls' = calls + 1
  /\ UNCHANGED <<label, chunk, rands, gradients, hessians, used, inits>>

(* A plausible bug: a chunk one query too long. *)
TakeChunkOffByOne(t, k) ==
  /\ phase = "pass"
  /\ chunk[t] = {}
  /\ next + k <= NumQueries
  /\ chunk' = [chunk EXCEPT ![t] = next .. next + k]
  /\ next' = next + k
  /\ UNCHANGED <<label, score, phase, rands, gradients, hessians, used, calls, inits>>

(* schedule(guided): an idle thread takes the next k unassigned queries. *)
TakeChunk(t, k) ==
  /\ phase = "pass"
  /\ chunk[t] = {}
  /\ next + k <= NumQueries
  /\ chunk' = [chunk EXCEPT ![t] = next .. next + k - 1]
  /\ next' = next + k
  /\ UNCHANGED <<label, score, phase, rands, gradients, hessians, used, calls, inits>>

(* A plausible bug: one generator shared by all queries. *)
GeneratorShared(q) == 0

(* The generator query q draws from: rands_[query_id]. *)
Generator(q) == q

(* One loop iteration: the per-query gradients, drawing from rands_[q]. *)
ProcessQuery(t) ==
  /\ phase = "pass"
  /\ chunk[t] # {}
  /\ LET q == Min(chunk[t])
         Part(f) == [i \in 0 .. QueryCnt[q] - 1 |-> f[QueryStart[q] + i]]
         res == XEQueryGradients(Part(score), Part(label), QueryCnt[q])
         QD == QueryStart[q] .. QueryStart[q] + QueryCnt[q] - 1
         r == Generator(q)
     IN /\ chunk' = [chunk EXCEPT ![t] = @ \ {q}]
        /\ rands' = [rands EXCEPT ![r] = @ + Draws(q)]
        /\ used' = [used EXCEPT ![q] = rands[r] .. rands[r] + Draws(q) - 1]
        /\ gradients' = [d \in Docs |-> IF d \in QD THEN res.lambda[d - QueryStart[q]]
                                                    ELSE gradients[d]]
        /\ hessians' = [d \in Docs |-> IF d \in QD THEN res.hessian[d - QueryStart[q]]
                                                   ELSE hessians[d]]
  /\ UNCHANGED <<label, score, phase, next, calls, inits>>

(* The loop's barrier; RankXENDCG has no update after it. *)
FinishGetGradients ==
  /\ phase = "pass"
  /\ next = NumQueries
  /\ \A t \in Threads : chunk[t] = {}
  /\ phase' = "idle"
  /\ UNCHANGED <<label, score, next, chunk, rands, gradients, hessians, used, calls, inits>>

Next ==
  \/ ReInit
  \/ GetGradients
  \/ \E t \in Threads, k \in 1 .. NumQueries : TakeChunk(t, k)
  \/ \E t \in Threads : ProcessQuery(t)
  \/ FinishGetGradients

(* A step of the parallel loop or of its barrier. *)
LoopStep ==
  \/ \E t \in Threads, k \in 1 .. NumQueries : TakeChunk(t, k)
  \/ \E t \in Threads : ProcessQuery(t)
  \/ FinishGetGradients

(* OpenMP threads never block in the loop body: while a call is running,  *)
(* the loop keeps moving.  The booster may stop calling at any time.      *)
Spec == Init /\ [][Next]_vars /\ WF_vars(LoopStep)
-----------------------------------------------------------------------------
PassComplete ==
  phase = "pass" /\ next = NumQueries /\ \A t \in Threads : chunk[t] = {}

TypeOK ==
  /\ label \in Labelings
  /\ score \in [Docs -> ScoreSet]
  /\ phase \in {"idle", "pass"}
  /\ next \in 0 .. NumQueries
  /\ chunk \in [Threads -> SUBSET Queries]
  /\ DOMAIN rands = 0 .. (inits + 1) * NumQueries - 1
  /\ \A r \in DOMAIN rands : rands[r] \in Nat
  /\ gradients \in [Docs -> {Fin, NonFin}] /\ hessians \in [Docs -> {Fin, NonFin}]
  /\ calls \in 0 .. MaxCalls
  /\ inits \in 0 .. MaxInits

(***************************************************************************)
(* Every query draws, in each call, the next positions of its own stream   *)
(* and only those, whichever thread runs it and in whatever order the      *)
(* chunks are taken: the generators are advanced every call, never        *)
(* shared, and not reseeded by a further Init, which appends new ones.     *)
(***************************************************************************)
OwnStreamDraws ==
  PassComplete =>
    \A q \in Queries :
      /\ rands[q] = calls * Draws(q)
      /\ used[q] = (calls - 1) * Draws(q) .. calls * Draws(q) - 1

(* Every lambda and hessian handed back to the booster is finite. *)
XEGradientsFinite ==
  PassComplete => \A d \in Docs : gradients[d] = Fin /\ hessians[d] = Fin

=============================================================================
