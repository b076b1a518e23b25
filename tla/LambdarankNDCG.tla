---------------------------- MODULE LambdarankNDCG ----------------------------
(***************************************************************************)
(* RankingObjective::GetGradients driving LambdarankNDCG: the OpenMP       *)
(* parallel-for over queries (schedule(guided)), the per-query gradient    *)
(* computation of module RankPairs, the per-document weights, the          *)
(* per-thread cost buffers and, after the loop's implicit barrier, the     *)
(* single-threaded position-bias update.  The boosting loop calls          *)
(* GetGradients again and again with fresh scores.                         *)
(*                                                                         *)
(* One query is processed in one step: during the loop every thread       *)
(* writes only its own query's slice of the outputs and its own cost       *)
(* buffer, and only reads the bias arrays, so finer interleavings of two   *)
(* queries give the same states.                                           *)
(***************************************************************************)
EXTENDS RankPairs, Bags, FiniteSetsExt

CONSTANTS
  QueryCnt,   \* query q (0-based) -> number of its documents (query_boundaries_)
  TeamSize,   \* number of threads of the OpenMP team running the loop
  Labelings,  \* label arrays the metadata may hold
  ScoreSet,   \* scores the boosting loop may pass (KMinScore among them)
  HasWeights, \* weights_ != nullptr
  WeightSet,  \* classes of the per-document weights (subset of {Zero, Pos})
  MaxInits    \* bound on the further Init calls explored

Queries == DOMAIN QueryCnt
NumQueries == Cardinality(Queries)
Threads == 0 .. TeamSize - 1
QueryStart == [q \in Queries |-> SumFunctionOnSet(QueryCnt, 0 .. q - 1)]
Start(q) == QueryStart[q]
NumData == SumFunction(QueryCnt)
Docs == 0 .. NumData - 1
QueryDocsOf == [q \in Queries |-> Start(q) .. Start(q) + QueryCnt[q] - 1]
QueryDocs(q) == QueryDocsOf[q]

ASSUME Queries = 0 .. NumQueries - 1
ASSUME TeamSize \in Nat \ {0}
ASSUME Labelings \subseteq [Docs -> DOMAIN LabelGain]
ASSUME \A s \in ScoreSet \ {KMinScore} : KMinScore < s
ASSUME WeightSet \subseteq {Zero, Pos}

(* num_threads_ = omp_get_num_threads(), called in the constructor, outside *)
(* any parallel region, where OpenMP returns 1.                             *)
num_threads_ == 1
BufferThreads == 0 .. num_threads_ - 1

VARIABLES
  label,          \* label_, fixed by Init
  weight,         \* weights_, fixed by Init
  score,          \* the score array of the current GetGradients call
  phase,          \* "idle" between calls, "pass" inside GetGradients
  next,           \* first query of the loop not yet handed to a thread
  chunk,          \* thread -> queries of its current chunk not yet processed
  gradients,      \* output array, one class per document
  hessians,       \* output array, one class per document
  i_costs_buffer, \* buffer thread -> rank -> bag of cost contributions
  j_costs_buffer,
  i_costs,        \* rank -> bag of cost contributions
  j_costs,
  i_biases_pow,   \* rank -> class of the bias power
  j_biases_pow,
  oob,            \* out-of-bounds accesses performed so far
  inits           \* Init calls after the first

vars == <<label, weight, score, phase, next, chunk, gradients, hessians,
          i_costs_buffer, j_costs_buffer, i_costs, j_costs,
          i_biases_pow, j_biases_pow, oob, inits>>

EmptyCosts == [r \in Ranks |-> EmptyBag]

(* A query's labels and scores, renumbered 0 .. cnt-1 (label_ + start). *)
Slice(f, q) == [d \in 0 .. QueryCnt[q] - 1 |-> f[Start(q) + d]]

(* Values an out-of-bounds bias read may return: only a query longer than *)
(* the truncation level can read past the arrays.                         *)
Garbage(q) == IF QueryCnt[q] > TruncationLevel THEN NonNeg ELSE {One}

Result(q, g) ==
  QueryGradients(Slice(label, q), Slice(score, q), QueryCnt[q],
                 i_biases_pow, j_biases_pow, g)

(* A cost contribution of query q, tagged so that equal contributions of   *)
(* different queries stay apart in a bag.                                  *)
Tagged(q, S, r) == SetToBag({[query |-> q, pair |-> <<x.high, x.low>>, c |-> x.c] :
                             x \in {y \in S : y.rank = r}})

(***************************************************************************)
(* LambdarankNDCG::Init (with RankingObjective::Init and                   *)
(* InitPositionBiasesAndGradients): metadata read, biases 1, costs and     *)
(* buffers 0.  The boosting loop has not called GetGradients yet.          *)
(***************************************************************************)
Weights == IF HasWeights THEN [Docs -> WeightSet] ELSE {[d \in Docs |-> One]}

Init ==
  /\ label \in Labelings
  /\ weight \in Weights
  /\ score = [d \in Docs |-> CHOOSE s \in ScoreSet : s # KMinScore]
  /\ phase = "idle"
  /\ next = NumQueries
  /\ chunk = [t \in Threads |-> {}]
  /\ gradients = [d \in Docs |-> Zero]
  /\ hessians = [d \in Docs |-> Zero]
  /\ i_costs_buffer = [t \in BufferThreads |-> EmptyCosts]
  /\ j_costs_buffer = [t \in BufferThreads |-> EmptyCosts]
  /\ i_costs = EmptyCosts
  /\ j_costs = EmptyCosts
  /\ i_biases_pow = [r \in Ranks |-> One]
  /\ j_biases_pow = [r \in Ranks |-> One]
  /\ oob = {}
  /\ inits = 0

(* i_costs_buffer_.emplace_back for each of the num_threads_ threads: the  *)
(* buffers already there are kept.                                         *)
AppendBuffers(buf) ==
  LET n == Cardinality(DOMAIN buf)
  IN [t \in 0 .. n + num_threads_ - 1 |-> IF t < n THEN buf[t] ELSE EmptyCosts]

(* A plausible bug: the resize of the bias arrays without the loop that    *)
(* sets them to 1.0, so an Init keeps the old biases.                      *)
ReInitKeepBiases ==
  /\ phase = "idle"
  /\ inits < MaxInits
  /\ inits' = inits + 1
  /\ label' \in Labelings
  /\ weight' \in Weights
  /\ i_costs_buffer' = AppendBuffers(i_costs_buffer)
  /\ j_costs_buffer' = AppendBuffers(j_costs_buffer)
  /\ i_costs' = EmptyCosts
  /\ j_costs' = EmptyCosts
  /\ UNCHANGED <<score, phase, next, chunk, gradients, hessians, oob, i_biases_pow, j_biases_pow>>

(***************************************************************************)
(* A further LambdarankNDCG::Init between calls (the booster resetting its *)
(* training data): new metadata, inverse_max_dcgs_ recomputed from it, and *)
(* InitPositionBiasesAndGradients, which resets the biases and costs but   *)
(* appends num_threads_ more buffers.  The sigmoid table's part of Init is *)
(* module SigmoidTable.                                                    *)
(***************************************************************************)
ReInit ==
  /\ phase = "idle"
  /\ inits < MaxInits
  /\ inits' = inits + 1
  /\ label' \in Labelings
  /\ weight' \in Weights
  /\ i_costs_buffer' = AppendBuffers(i_costs_buffer)
  /\ j_costs_buffer' = AppendBuffers(j_costs_buffer)
  /\ i_costs' = EmptyCosts
  /\ j_costs' = EmptyCosts
  /\ i_biases_pow' = [r \in Ranks |-> One]
  /\ j_biases_pow' = [r \in Ranks |-> One]
  /\ UNCHANGED <<score, phase, next, chunk, gradients, hessians, oob>>

(* A plausible bug: the loop counter not reset at the start of a call. *)
GetGradientsNoReset ==
  /\ phase = "idle"
  /\ phase' = "pass"
  /\ score' \in [Docs -> ScoreSet]
  /\ UNCHANGED <<label, weight, next, chunk, gradients, hessians, i_costs_buffer,
                 j_costs_buffer, i_costs, j_costs, i_biases_pow, j_biases_pow, oob, inits>>

(* The boosting loop calls GetGradients(score, gradients, hessians). *)
GetGradients ==
  /\ phase = "idle"
  /\ phase' = "pass"
  /\ score' \in [Docs -> ScoreSet]
  /\ next' = 0
  /\ UNCHANGED <<label, weight, chunk, gradients, hessians, i_costs_buffer,
                 j_costs_buffer, i_costs, j_costs, i_biases_pow, j_biases_pow, oob, inits>>

(* Plausible bugs of a hand-written scheduler: a chunk one query too long, *)
(* and a chunk handed out without advancing the shared counter.          *)
TakeChunkOffByOne(t, k) ==
  /\ phase = "pass"
  /\ chunk[t] = {}
  /\ next + k <= NumQueries
  /\ chunk' = [chunk EXCEPT ![t] = next .. next + k]
  /\ next' = next + k
  /\ UNCHANGED <<label, weight, score, phase, gradients, hessians, i_costs_buffer,
                 j_costs_buffer, i_costs, j_costs, i_biases_pow, j_biases_pow, oob, inits>>

(* schedule(guided): an idle thread takes the next k unassigned queries. *)
TakeChunk(t, k) ==
  /\ phase = "pass"
  /\ chunk[t] = {}
  /\ next + k <= NumQueries
  /\ chunk' = [chunk EXCEPT ![t] = next .. next + k - 1]
  /\ next' = next + k
  /\ UNCHANGED <<label, weight, score, phase, gradients, hessians, i_costs_buffer,
                 j_costs_buffer, i_costs, j_costs, i_biases_pow, j_biases_pow, oob, inits>>

(* Adding query q's contributions to thread t's buffer, i_costs_buffer_[tid]. *)
AddCosts(buf, t, q, S) == [buf EXCEPT ![t] = [r \in Ranks |-> @[r] (+) Tagged(q, S, r)]]

(* Out-of-bounds writes of query q's contributions by thread t. *)
CostWritesOOB(bufs, t, S, name) ==
  IF t \in bufs
  THEN {<<name, x.rank>> : x \in {y \in S : y.rank \notin Ranks}}
  ELSE IF S # {} THEN {<<name, t>>} ELSE {}

(***************************************************************************)
(* One iteration of the loop body run by thread t on the first query of    *)
(* its chunk: GetGradientsForOneQuery, then the weight multiplication.     *)
(***************************************************************************)
ProcessQuery(t) ==
  /\ phase = "pass"
  /\ chunk[t] # {}
  /\ LET q == Min(chunk[t]) IN
     \E g \in Garbage(q) :
       LET res == Result(q, g) IN
       /\ chunk' = [chunk EXCEPT ![t] = @ \ {q}]
       /\ gradients' = [d \in Docs |-> IF d \in QueryDocs(q)
                                       THEN Scale(res.lambda[d - Start(q)], weight[d])
                                       ELSE gradients[d]]
       /\ hessians' = [d \in Docs |-> IF d \in QueryDocs(q)
                                      THEN Scale(res.hessian[d - Start(q)], weight[d])
                                      ELSE hessians[d]]
       /\ i_costs_buffer' = IF t \in DOMAIN i_costs_buffer
                            THEN AddCosts(i_costs_buffer, t, q, res.icost)
                            ELSE i_costs_buffer
       /\ j_costs_buffer' = IF t \in DOMAIN j_costs_buffer
                            THEN AddCosts(j_costs_buffer, t, q, res.jcost)
                            ELSE j_costs_buffer
       /\ oob' = oob \cup res.oob
                     \cup CostWritesOOB(DOMAIN i_costs_buffer, t, res.icost, "i_costs_buffer_")
                     \cup CostWritesOOB(DOMAIN j_costs_buffer, t, res.jcost, "j_costs_buffer_")
  /\ UNCHANGED <<label, weight, score, phase, next, i_costs, j_costs,
                 i_biases_pow, j_biases_pow, inits>>

CostClass(bag) == ClassSum({x.c : x \in BagToSet(bag)})

(* The sum over threads of one rank's buffers, added to the accumulator. *)
Reduce(acc, buf) ==
  [r \in Ranks |-> FoldSet(LAMBDA t, b : b (+) buf[t][r], acc[r], BufferThreads)]

(* "clear buffer for next run", for the num_threads_ buffers reduced. *)
ClearBuffers(buf) == [t \in DOMAIN buf |-> IF t \in BufferThreads THEN EmptyCosts ELSE buf[t]]

NewBias(c) == [r \in Ranks |-> BiasPow(CostClass(c[r]), CostClass(c[0]), r)]

(* A plausible bug: the update without "clear buffer for next run". *)
FinishGetGradientsNoClear ==
  /\ phase = "pass"
  /\ next = NumQueries
  /\ \A t \in Threads : chunk[t] = {}
  /\ phase' = "idle"
  /\ IF Unbiased
     THEN LET ic == Reduce(i_costs, i_costs_buffer)
              jc == Reduce(j_costs, j_costs_buffer)
          IN /\ i_biases_pow' = NewBias(ic)
             /\ j_biases_pow' = NewBias(jc)
             /\ i_costs' = EmptyCosts
             /\ j_costs' = EmptyCosts
             /\ UNCHANGED <<i_costs_buffer, j_costs_buffer>>
     ELSE UNCHANGED <<i_costs_buffer, j_costs_buffer, i_biases_pow, j_biases_pow,
                      i_costs, j_costs>>
  /\ UNCHANGED <<label, weight, score, next, chunk, gradients, hessians, oob, inits>>

(***************************************************************************)
(* After the loop's implicit barrier: if unbiased_, the single-threaded    *)
(* UpdatePositionBiasesAndGradients (reduce and clear the buffers, set the *)
(* bias powers, clear the costs); then GetGradients returns.               *)
(***************************************************************************)
FinishGetGradients ==
  /\ phase = "pass"
  /\ next = NumQueries
  /\ \A t \in Threads : chunk[t] = {}
  /\ phase' = "idle"
  /\ IF Unbiased
     THEN LET ic == Reduce(i_costs, i_costs_buffer)
              jc == Reduce(j_costs, j_costs_buffer)
          IN /\ i_costs_buffer' = ClearBuffers(i_costs_buffer)
             /\ j_costs_buffer' = ClearBuffers(j_costs_buffer)
             /\ i_biases_pow' = NewBias(ic)
             /\ j_biases_pow' = NewBias(jc)
             /\ i_costs' = EmptyCosts
             /\ j_costs' = EmptyCosts
     ELSE UNCHANGED <<i_costs_buffer, j_costs_buffer, i_biases_pow, j_biases_pow,
                      i_costs, j_costs>>
  /\ UNCHANGED <<label, weight, score, next, chunk, gradients, hessians, oob, inits>>

Next ==
  \/ ReInit
  \/ GetGradients
  \/ \E t \in Threads, k \in 1 .. NumQueries : TakeChunk(t, k)
  \/ \E t \in Threads : ProcessQuery(t)
  \/ FinishGetGradients

(* A step of the parallel loop or of the code after it. *)
LoopStep ==
  \/ \E t \in Threads, k \in 1 .. NumQueries : TakeChunk(t, k)
  \/ \E t \in Threads : ProcessQuery(t)
  \/ FinishGetGradients

(* Inside GetGradients some thread of the team always moves on while work *)
(* is left (OpenMP threads are never blocked in the loop body, and the    *)
(* calling thread leaves the barrier once all have arrived).  This is     *)
(* weaker than fairness for each thread.  The boosting loop itself may    *)
(* stop calling at any time.                                              *)
(* WF_vars(LoopStep) written out, with ENABLED <<LoopStep>>_vars replaced *)
(* by the state predicate it equals: inside a call, either a query is left *)
(* and a thread without a chunk may take it or a thread with a chunk runs  *)
(* it, or every chunk is done and FinishGetGradients is enabled.           *)
Fairness == []<>(phase # "pass") \/ []<><<LoopStep>>_vars

Spec == Init /\ [][Next]_vars /\ Fairness

-----------------------------------------------------------------------------
(* Every query of the current call has been processed, before the update. *)
PassComplete ==
  phase = "pass" /\ next = NumQueries /\ \A t \in Threads : chunk[t] = {}

CostBag(b) ==
  /\ IsABag(b)
  /\ BagToSet(b) \subseteq [query : Queries, pair : Docs \X Docs, c : NonNeg]

TypeOK ==
  /\ label \in Labelings
  /\ score \in [Docs -> ScoreSet]
  /\ phase \in {"idle", "pass"}
  /\ next \in 0 .. NumQueries
  /\ chunk \in [Threads -> SUBSET Queries]
  /\ gradients \in [Docs -> LambdaVal] /\ hessians \in [Docs -> DocVal]
  /\ i_biases_pow \in [Ranks -> NonNeg] /\ j_biases_pow \in [Ranks -> NonNeg]
  /\ DOMAIN i_costs_buffer = DOMAIN j_costs_buffer
  /\ \A t \in DOMAIN i_costs_buffer, r \in Ranks :
        CostBag(i_costs_buffer[t][r]) /\ CostBag(j_costs_buffer[t][r])
  /\ \A r \in Ranks : CostBag(i_costs[r]) /\ CostBag(j_costs[r])
  /\ oob \subseteq STRING \X Nat
  /\ inits \in 0 .. MaxInits

(* The outputs query q may leave in its documents for the current scores  *)
(* and bias arrays, whichever thread ran it and however the loop was       *)
(* chunked (several only when a bias read falls past the arrays).          *)
ExpectedOutputs(q) ==
  {[d \in QueryDocs(q) |-> <<Scale(res.lambda[d - Start(q)], weight[d]),
                             Scale(res.hessian[d - Start(q)], weight[d])>>] :
     res \in {Result(q, g) : g \in Garbage(q)}}

(***************************************************************************)
(* Memory safety: GetGradients never reads or writes outside an array     *)
(* (sorted_idx, the bias arrays indexed by high_rank / low_rank, the cost  *)
(* buffers indexed by omp_get_thread_num() and by rank).                   *)
(***************************************************************************)
MemorySafe == oob = {}

(***************************************************************************)
(* The documents compared by GetGradientsForOneQuery are exactly the pairs *)
(* the spec names -- distinct labels, no sentinel score, the better ranked *)
(* one inside the truncation window -- and no pair is compared twice.      *)
(***************************************************************************)
PairsMatchReference ==
  \A q \in Queries :
    LET lab == Slice(label, q)
        sc  == Slice(score, q)
    IN /\ ComparedPairs(lab, sc, QueryCnt[q]) = EligiblePairs(lab, sc, QueryCnt[q])
       /\ Cardinality(Pairs(lab, sc, QueryCnt[q]))
            = Cardinality(ComparedPairs(lab, sc, QueryCnt[q]))

(***************************************************************************)
(* When the parallel loop is done, every document holds the gradient and   *)
(* hessian of its own query computed from this call's scores and the bias  *)
(* arrays of the previous update: no query skipped or run twice, no stale  *)
(* output of the previous call, no bias changed under the loop.            *)
(***************************************************************************)
OutputsDeterministic ==
  PassComplete =>
    \A q \in Queries :
      [d \in QueryDocs(q) |-> <<gradients[d], hessians[d]>>] \in ExpectedOutputs(q)

(***************************************************************************)
(* A document carrying the sentinel score kMinScore ends the call with     *)
(* lambda and hessian exactly zero, whatever its place in the sort.        *)
(***************************************************************************)
SentinelGetsZero ==
  PassComplete =>
    \A d \in Docs : score[d] = KMinScore => gradients[d] = Zero /\ hessians[d] = Zero

(***************************************************************************)
(* Every gradient and hessian handed back to the boosting loop is finite:  *)
(* bias powers "must never be permitted to reach exactly zero".            *)
(***************************************************************************)
GradientsFinite ==
  PassComplete => \A d \in Docs : gradients[d] # NonFin /\ hessians[d] # NonFin

CanBeNegative == {Minus, Mixed}
CanBePositive == {Plus, Mixed}

(***************************************************************************)
(* A document with the highest label of its query is the "high" document  *)
(* of every pair it is in, whatever its rank, and each such pair adds the *)
(* negative p_lambda to it (lines 325 and 360): its lambda never pushes   *)
(* its score down.  A document with the lowest label is "low" in every    *)
(* pair, and its lambda never pushes its score up (line 358).              *)
(***************************************************************************)
LambdaSignFollowsLabels ==
  PassComplete =>
    \A q \in Queries : \A d \in QueryDocs(q) :
      /\ (\A e \in QueryDocs(q) : label[e] <= label[d]) => gradients[d] \notin CanBePositive
      /\ (\A e \in QueryDocs(q) : label[e] >= label[d]) => gradients[d] \notin CanBeNegative

(***************************************************************************)
(* Pairwise lambdas are equal and opposite: lines 358 and 360 move the     *)
(* same p_lambda out of one document of the query and into another, and   *)
(* the normalisation rescales the whole query by one factor, so a query's  *)
(* lambdas sum to zero.  Where no weight zeroes a document, a query with a *)
(* lambda that can be negative also has one that can be positive.          *)
(***************************************************************************)
LambdasBalance ==
  PassComplete =>
    \A q \in Queries :
      (\A d \in QueryDocs(q) : weight[d] # Zero /\ gradients[d] # NonFin) =>
        ((\E d \in QueryDocs(q) : gradients[d] \in CanBeNegative)
           <=> (\E d \in QueryDocs(q) : gradients[d] \in CanBePositive))

(***************************************************************************)
(* The bias update at the end of a call is the formula of the spec applied *)
(* to the costs of every pair of every query of that call, each counted    *)
(* once: nothing lost in the thread buffers, nothing left over from an     *)
(* earlier call.                                                           *)
(***************************************************************************)
AllCosts(which) ==
  [r \in Ranks |-> UNION {{x.c : x \in {y \in Result(q, One)[which] : y.rank = r}} :
                            q \in Queries}]

ExpectedBias(which) ==
  [r \in Ranks |-> BiasPow(ClassSum(AllCosts(which)[r]), ClassSum(AllCosts(which)[0]), r)]

BiasUpdateMatchesCosts ==
  [][phase = "pass" /\ phase' = "idle" =>
       /\ i_biases_pow' = ExpectedBias("icost")
       /\ j_biases_pow' = ExpectedBias("jcost")]_vars


(***************************************************************************)
(* Refinement: LambdarankNDCG implements the atomic GetGradients of       *)
(* LambdarankAtomic.  The output arrays are defined (to the caller) only   *)
(* between calls; inside a call they map to Busy.                          *)
(***************************************************************************)
Atomic == INSTANCE LambdarankAtomic WITH
  out <- IF phase = "pass" THEN "busy"
         ELSE [d \in Docs |-> <<gradients[d], hessians[d]>>],
  i_bias <- i_biases_pow,
  j_bias <- j_biases_pow

(***************************************************************************)
(* Every behaviour of the parallel loop, its thread buffers and the bias   *)
(* update is a behaviour of the atomic call: whatever the chunking, a call *)
(* returns with each query computed from the previous call's biases and,   *)
(* when unbiased_, the biases recomputed from exactly this call's costs.   *)
(***************************************************************************)
ImplementsAtomic == Atomic!Spec

=============================================================================
