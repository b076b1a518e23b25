# TLA+ models of the LightGBM ranking objectives

This directory holds TLA+ models of `src/src/objective/rank_objective.hpp`. That file is the
gradient engine of LightGBM's learning-to-rank objectives. The models are checked with TLC.

## The system

| Part | Code | State | Operations |
|---|---|---|---|
| Dispatcher | `RankingObjective::Init`, `RankingObjective::GetGradients` (35-66) | labels, weights, query boundaries, output arrays | `omp parallel for schedule(guided)` over queries; per query, `GetGradientsForOneQuery`, then the weights |
| Pairwise NDCG gradients | `LambdarankNDCG::GetGradientsForOneQuery` (156-375) | none; reads the biases and writes its query's slice and its thread's cost buffer | stable sort; truncated pair loop with kMinScore and equal-label skips; high/low by label; bias reads; cost contributions; normalisation |
| Ideal-DCG cache | `LambdarankNDCG::Init` (126-139) | `inverse_max_dcgs_` | computed once at Init |
| Sigmoid table | constructor check (112-116), `ConstructSigmoidTable`, `GetSigmoid` (377-403) | `sigmoid_table_`, `min_sigmoid_input_`, ... | built at Init; read in the pair loop |
| Position-bias estimator | `InitPositionBiasesAndGradients`, `UpdatePositionBiasesAndGradients` (405-454) | `i/j_biases_pow_`, `i/j_costs_`, `i/j_costs_buffer_[thread][rank]`, `num_threads_` | buffers sized at construction; after the loop, reduce and clear the buffers, set the biases, clear the costs |
| Listwise XE-NDCG | `RankXENDCG` (527-605) | `rands_`, one generator per query | per query: softmax, random `Phi` parameters, gradients |

How the parts interact:

- The booster calls `GetGradients` once per iteration.
- The threads of an OpenMP team take chunks of queries.
- While the loop runs, every query reads the bias powers of the previous update and adds its cost
  contributions to `i_costs_buffer_[tid]`.
- After the loop's implicit barrier, the calling thread runs the bias update when `unbiased_` is set.

Behaviours that are hard to test:

- the thread schedule;
- the buffers sized by a thread count read outside the parallel region;
- ranks past the truncation window;
- zero or non-finite costs feeding the next call;
- sentinel (`kMinScore`) documents;
- state carried from one call to the next.

## Modules

- **`RankPairs`** holds the per-query computation as pure operators.
  - Real numbers are abstracted to their IEEE class: `zero`, `one`, positive finite (`pos`), `inf`
    and `nan`. `Mul`, `Div` and `ClassSum` follow IEEE arithmetic on these classes. A document's
    accumulated hessian is `zero`, `fin` or `nonfin`. Its lambda keeps its sign: `zero`, `minus`
    (negative terms only), `plus` (positive terms only), `mixed` (both, any sum) or `nonfin`.
    `LambdaClass` is lines 358-360: the negative `p_lambda` is added to the high document and
    subtracted from the low one. Magnitudes and the sigmoid value are abstracted: `GetSigmoid`
    always returns a positive finite value.
  - `SortedIdx` is `std::stable_sort` by descending score.
  - `LoopPairs` and `Pairs` are the double loop of lines 212-243.
  - `BiasAt` is an array read. A read past the end returns a value `g` that the caller chooses
    nondeterministically among the non-negative classes, one per query. Real memory past the end
    may hold a negative float, and a negative value would flip the sign of `p_lambda`. So the
    only property checked in a run that reads past the arrays is `MemorySafe`, which flags the
    read itself. The value and sign properties run where no read falls outside an array.
  - `QueryGradients` returns the whole effect of one call of `GetGradientsForOneQuery`: the
    lambdas, the hessians, the cost contributions, and the out-of-bounds accesses made.
  - `EligiblePairs` is an independent reference for the pairs the spec says are compared.
- **`LambdarankNDCG`** is the stateful engine.

  | Action | Code |
  |---|---|
  | `Init` | `RankingObjective::Init`, `LambdarankNDCG::Init` |
  | `GetGradients` | a call from the booster, with any score vector over `ScoreSet` |
  | `TakeChunk(t, k)` | guided schedule: an idle thread claims the next `k` queries |
  | `ProcessQuery(t)` | one loop iteration, including the weight loop and the thread's buffer writes |
  | `FinishGetGradients` | the barrier, then `UpdatePositionBiasesAndGradients` when `Unbiased`, then the return |
  | `ReInit` | a further `Init` between calls (`GBDT::ResetTrainingData`): new labels and weights, biases back to 1.0, costs cleared, and `num_threads_` more buffers appended by `emplace_back` (`AppendBuffers`) |

  - Cost buffers hold bags of tagged contributions, so the model can tell which query and pair each
    contribution came from.
  - `num_threads_` is 1: `omp_get_num_threads()` returns 1 outside a parallel region. `TeamSize` is
    the real team size.
  - The variable `oob` records every access outside an array.
  - One query is one step. This loses no states: a thread writes only its own query's slice and its
    own buffer, and it only reads the biases.
- **`MCLambdarankNDCG`** holds the constants for the runs: query sizes, the label gains `2^l - 1`,
  `kMinScore = -1`, and scores {-1, 0, 1}.

- **`LambdarankAtomic`** is the abstract contract of one `GetGradients` call, with no loop, threads
  or buffers.
  - `Call` takes the scores. The output arrays read as `Busy` until the call returns.
  - `Return` writes every query's result in one step, computed from the previous call's biases.
    When `Unbiased`, it also replaces the biases by the formula applied to the costs of all the
    call's pairs.
  - `ReInit` takes new labels and weights and restarts the biases from 1.0.
  - `LambdarankNDCG` defines `Atomic == INSTANCE LambdarankAtomic WITH out <- ..., i_bias <-
    i_biases_pow, j_bias <- j_biases_pow`. The outputs map to `Busy` while `phase = "pass"`, and to
    the gradient and hessian arrays otherwise. `ImplementsAtomic == Atomic!Spec` is checked as a
    `PROPERTY`.
- **`SigmoidTable`** models the constructor's sigmoid check and the table members, plus
  `ConstructSigmoidTable` and `GetSigmoid` (lines 101-116, 377-403, 492-496).
  - Numbers are exact rationals `<<num, den>>`, normalised by a recursive `GCD`.
  - An entry is identified by the score it was computed at. The sigmoid is strictly decreasing, so
    the score determines the value.
  - The double bin index is the exact product `(x - min) * factor`, plus or minus `RoundErr` bins,
    then truncated (`static_cast<size_t>`).
  - `Init` is the constructor: `phase` is `"fatal"` when `sigmoid_ <= 0`.
  - `ConstructSigmoidTable` is what each `LambdarankNDCG::Init` call does to the table.
    `GetSigmoid` is a lookup of one probe input.
- **`RankXENDCG`** models the listwise objective driven by the same parallel loop.
  - Values are abstracted to finite or non-finite.
  - A generator is abstracted to its position in its own stream. `NextFloat` reads that position
    and advances it.
  - `RhoIsOne` is `Common::Softmax` rounding the leader's probability to exactly 1.0 when it leads
    every other score by `RoundGap`, about 37 for doubles.
  - `Common::Softmax` and `Random` are outside `src/`, so these two are modelled from the spec.
  - Labels enter only through `Phi = 2^l - g`. The module assumes labels of at most 30. Then
    `Common::Pow(2, l)` is exact whether it computes in `int` or `double`, and `Phi` is finite.
    `Common::Pow` is outside `src/`.
  - `ReInit` is a further `Init` with the same query boundaries. It takes new labels and appends
    `NumQueries` generators at their start. The queries keep drawing from the first ones, which are
    never reseeded.
- **`MCSigmoidTable`** and **`MCRankXENDCG`** hold the constants of their runs.

## Runs

| Run | Expect | Checks | What it shows |
|---|---|---|---|
| `truncated` | pass | `TypeOK`, `PairsMatchReference` | T=1 and one query of 3 documents, so pair (1,2) lies past the window. The loop compares exactly the eligible pairs, each once. |
| `parallel` | pass | `OutputsDeterministic`, `GradientsFinite`, `SentinelGetsZero` | 2 threads, queries of 1, 2 and 1 documents, labels 0-1, weights 0 or positive, sentinels, `unbiased_` off. Whatever the chunking, each document holds its own query's result. The outputs are finite, and exactly zero on sentinel documents. |
| `unbiased` | pass | `BiasUpdateMatchesCosts`, `ImplementsAtomic`, `LambdaSignFollowsLabels`, `LambdasBalance` | 1 thread, 2 queries of 2 documents, labels 0-1, T=2, repeated calls and one further `Init`, and no read outside an array. Each update applies `pow(c[r]/c[0], eta)` to exactly the costs of this call. The whole engine refines the atomic call of `LambdarankAtomic`, fairness included, across the `Init` (200k states). The biases change between calls and may become 0, inf or NaN. Whenever the outputs are finite, the best-labelled document's lambda is never positive and the worst one's never negative. A query with a lambda that can be negative also has one that can be positive: the spec's "lambdas sum to zero", in classes. |
| `nonfinite` | violation | `GradientsFinite` | Call 1 puts every query's relevant document at rank 1. Then `i_costs_[0] = 0`, the biases become NaN/0 (so `i_biases_pow_[0]` is not 1.0 either), and call 2 returns NaN gradients. |
| `threadoob` | violation | `MemorySafe` | With 2 threads, thread 1 writes `i_costs_buffer_[1]`, which was never created. |
| `truncoob` | violation | `MemorySafe` | Labels 0,1,0, tied scores, T=2: pair (1,2) has `low_rank = 2`, and line 325 reads `j_biases_pow_[2]` past the vector, which holds `truncation_level_` entries. |
| `emptyquery` | violation | `MemorySafe` | A query with `cnt = 0` reads `score[sorted_idx[0]]` (line 196) from an empty vector. The spec says such a query gets all-zero gradients. |
| `sigmoid` | pass | `TypeOK`, `LookupMatchesSpec` | Sigmoids -1, 1/2, 1, 3/2, 2, up to 3 `Init` calls, 4 bins, exact index. A negative sigmoid stops at the Fatal. Every lookup clamps at the domain ends and reads an entry within one bin width of its input. Whether a lookup stays in the table is the question of `sigmoid_roundoob`, with rounding. |
| `sigmoid_domain` | violation | `DomainAsSpecified` | With sigmoid 2 the domain goes -50, then -25/2, then -25/8. `min_sigmoid_input_` is divided in place on every `Init`, not derived from the fixed raw bound. |
| `sigmoid_roundoob` | violation | `LookupInTable` | With sigmoid 1 and a rounding error of 1/500 bin, an input just below `max_sigmoid_input_` gets index `Bins`, past the table. In IEEE doubles, `score = nextafter(25, 0)` gives index 1048576 = `_sigmoid_bins`. |
| `xendcg` | pass | `TypeOK`, `OwnStreamDraws`, `XEGradientsFinite` | Queries of 2, 1 and 2 documents, 2 threads, 2 calls, one further `Init`, scores 0-2, labels 0-2. Each query draws the next positions of the stream its first `Init` created, whatever the chunking. The one-document query is skipped. The outputs are finite. |
| `xendcg_nonfinite` | violation | `XEGradientsFinite` | A document 40 ahead of the other in its query has `rho = 1.0`, and `term / (1. - rho[i])` (line 579) makes the lambdas non-finite. |

The violations are recorded as findings in `PROJECT.json`. Each property of a passing run has a
mutant: a plausible bug written as an operator just before the definition it replaces. TLC catches
each mutant under the run's own configuration:

- `LambdarankNDCG`: `TakeChunkOffByOne`, `GetGradientsNoReset`,
  `FinishGetGradientsNoClear` and `ReInitKeepBiases` (a further `Init` that keeps the old biases).
- `RankPairs`: `LoopPairsNoTruncation`, `LoopPairsNoSentinelSkip`, `NormFactorUnguarded` and
  `RanksShort`, and `LambdaClassSameSign` and `LambdaClassNoLowUpdate` (line 358 with the wrong
  sign, or dropped). Taking high and low by rank instead of by label is not a sign bug:
  `dcg_gap` turns negative and flips `p_lambda` back, so no sign property catches it.
- `SigmoidTable`: `InitNoFatal` and `ConstructSigmoidTableStaleMin`.
- `RankXENDCG`: `TakeChunkOffByOne`, `GeneratorShared` and `SkippedNever`.

### Bounds

- Two or three queries are enough for two threads to split the work and for a query's result to depend on
  another's.
- Query sizes 1 to 3 cover these cases:
  - the loop bound `cnt - 1`;
  - a rank past a truncation level of 1 or 2;
  - a pair whose more relevant document is ranked second.
- Three labels give gaps of different classes.
- The score set {kMinScore, 0, 1} contains ties, strict orders and sentinels.
- Calls repeat without bound. The state space is still finite because the state between calls is
  only the class of the biases.

- The sigmoid table has 4 bins instead of 2^20. The index arithmetic does not depend on the bin
  count, and the probes include every entry's own point, both domain ends, and a point a
  thousandth of a bin below the upper end.
- XENDCG: the gap 40 exceeds `RoundGap`, the scores 0-2 do not, and a one-document query exercises
  the skip. Two calls show the streams advancing rather than being reseeded.

### Fairness

`Fairness` is weak fairness of the loop and its barrier (`LoopStep`). It is written with the state
predicate that `ENABLED <<LoopStep>>_vars` equals inside a call. OpenMP worker threads never block
inside the loop body, so some thread always makes progress while work is left. No fairness is
assumed of the booster, which may stop calling at any time.

- The fairness is checked through `ImplementsAtomic`: the abstract call must return. A bare
  "every call returns" is not checked, because it holds of any finite loop under this fairness.
- `RankXENDCG` states the same assumption as `WF_vars(LoopStep)`. No property of it depends on
  the assumption.
- `LambdarankAtomic` assumes only that a started call returns. Its weak fairness of `Return` is
  written out as `[]<>(phase # "pass") \/ []<><<Return>>_vars`: `Return` is enabled exactly when
  `phase = "pass"`. Writing it out keeps TLC from evaluating ENABLED through the refinement
  mapping.

## Not modelled

- The sigmoid values themselves. `RankPairs` takes `GetSigmoid` to be a positive finite value, and
  `SigmoidTable` checks which entry is read, not the `exp`.
- Exact sums of lambdas. Signs are classes, so "sum to zero" is checked as "a negative lambda
  implies a positive one", not as an equation.
- `LogDebugPositionBiases`, which only logs.
- A composed model of `LambdarankNDCG` with `SigmoidTable`. The two interact only through the
  value `GetSigmoid` returns. `RankPairs` abstracts that value to a positive finite class, which
  every entry of the table has, so a composition would show nothing that the two modules do not
  show separately. The table's own hazards (the shrinking domain, the index past the end) are
  checked in `SigmoidTable`.
- XENDCG labels above 30. What `Common::Pow(2, l)` does for them depends on code outside `src/`.
- A further `Init` whose metadata has a different number of queries. The query count sizes every
  array of the state, so both models keep it fixed. With more queries, the new queries of
  `RankXENDCG` would draw from appended generators seeded `seed_ + i`, replaying earlier streams.
  This is listed as a hazard without a property.
- The missing-query-boundaries Fatal and the label-gain defaults (configuration).
- Float rounding, overflow and underflow, except the rounding of the sigmoid bin index and of the
  softmax near 1.0.

## Further work

- Larger instances: `TruncationLevel = 3` with queries of 4 documents. The pair loop is cheap,
  but the score vectors of 4 documents and repeated calls grow the state space beyond a
  five-minute run.
