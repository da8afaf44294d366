------------------------------ MODULE Learning ------------------------------
(***************************************************************************)
(* What the prediction stack keeps of the rounds it saw, and how it is     *)
(* used (prediction/): the incremental state, the calibration state with   *)
(* its isotonic fit, the ranking of opportunities and the performance of   *)
(* the models, one part each; the choice of target, action and weights as  *)
(* operators.  Sums and counts stand for the moments and scores that are   *)
(* sums of one term per observation; EWMAs, Platt's descent and the meta   *)
(* model's are left out.                                                   *)
(***************************************************************************)
EXTENDS Integers, Sequences, FiniteSets, SequencesExt

CONSTANTS LagCap, ShortCap,      \* 64, 30
          MaxPoints,             \* bound: crash points since the last reset
          MaxPairs, MaxRegimes,  \* 2000, 32
          RefitEvery, MinFit,    \* 500, 20
          Regimes,               \* regimes other than the global one
          MaxObserved,           \* bound: pairs observed
          MaxWindow,             \* 500
          MaxInserted,           \* bound: opportunities
          RecentCap              \* 200

ASSUME LearningAssumption ==
  /\ {LagCap, ShortCap, MaxPairs, MaxRegimes, RefitEvery} \subseteq Nat \ {0}
  /\ {MinFit, MaxWindow, RecentCap} \subseteq Nat
  /\ MaxPoints \in Nat \ {0, 1} \* a seed has two
  /\ MinFit <= MaxPairs /\ ShortCap <= LagCap /\ "global" \notin Regimes

VARIABLES points,       \* history: crash points since the last reset
          engine,       \* IncrementalStateEngine
          observedPairs,  \* history: the pairs of each regime since it was created
          calibrators,  \* global and byRegime
          regimeOrder,  \* insertion order of byRegime
          sinceRefit,
          ranked, ranks,  \* OpportunityRanker: window and rank of each
          inserted,       \* history: opportunities so far
          recentResults          \* a model's recentCorrect and recentTotal

engineVars == <<points, engine>>
calibrationVars == <<observedPairs, calibrators, regimeOrder, sinceRefit>>
rankVars == <<ranked, ranks, inserted>>
perfVars == <<recentResults>>
learningVars == <<engineVars, calibrationVars, rankVars, perfVars>>

LatestOf(seq, n) == IF Len(seq) > n THEN SubSeq(seq, Len(seq) - n + 1, Len(seq)) ELSE seq
Total(seq) == FoldLeft(LAMBDA a, b : a + b, 0, seq)
Counting(seq, Test(_)) == Cardinality({i \in DOMAIN seq : Test(seq[i])})
-----------------------------------------------------------------------------
(* The incremental state.  A point is 1 (below 1.3), 2 or 3; 0 is refused. *)
Hit(p) == p >= 2

EmptyEngine ==
  [ lag |-> [i \in 0..(LagCap - 1) |-> 0], lagLen |-> 0, lagPos |-> 0,
    short |-> [i \in 0..(ShortCap - 1) |-> 0], shortLen |-> 0, shortPos |-> 0,
    shortSum |-> 0, shortHits |-> 0,
    run |-> [hit |-> 0, miss |-> 0], longest |-> [hit |-> 0, miss |-> 0],
    trans |-> [from \in BOOLEAN |-> [to \in BOOLEAN |-> 0]],
    hits |-> 0, count |-> 0 ]

(* What leaves the short window; NothingEvicted is a mutant.               *)
NothingEvicted(e) == 0
EvictedPoint(e) == IF e.shortLen = ShortCap THEN e.short[e.shortPos] ELSE 0

LastPoint(e) == e.lag[(e.lagPos + LagCap - 1) % LagCap]

LargerRun(run, longest) == IF run > longest THEN run ELSE longest

AfterPoint(e, p) ==
  LET out == EvictedPoint(e)
      runs == [hit |-> IF Hit(p) THEN e.run.hit + 1 ELSE 0, miss |-> IF Hit(p) THEN 0 ELSE e.run.miss + 1]
  IN  [ lag |-> [e.lag EXCEPT ![e.lagPos] = p],
        lagLen |-> IF e.lagLen < LagCap THEN e.lagLen + 1 ELSE e.lagLen,
        lagPos |-> (e.lagPos + 1) % LagCap,
        short |-> [e.short EXCEPT ![e.shortPos] = p],
        shortLen |-> IF e.shortLen < ShortCap THEN e.shortLen + 1 ELSE e.shortLen,
        shortPos |-> (e.shortPos + 1) % ShortCap,
        shortSum |-> e.shortSum - out + p,
        shortHits |-> e.shortHits - (IF Hit(out) THEN 1 ELSE 0) + (IF Hit(p) THEN 1 ELSE 0),
        run |-> runs,
        longest |-> [hit |-> LargerRun(runs.hit, e.longest.hit), miss |-> LargerRun(runs.miss, e.longest.miss)],
        trans |-> IF e.count = 0 THEN e.trans ELSE [e.trans EXCEPT ![Hit(LastPoint(e))][Hit(p)] = @ + 1],
        hits |-> e.hits + (IF Hit(p) THEN 1 ELSE 0), count |-> e.count + 1 ]

LagArray(e) ==
  LET start == IF e.lagLen < LagCap THEN 0 ELSE e.lagPos
  IN [i \in 1..e.lagLen |-> e.lag[(start + i - 1) % LagCap]]

(* getRecentPoints(max): the oldest of the ring, when max is smaller.      *)
RecentPoints(e, max) ==
  LET start == (e.lagPos - e.lagLen + LagCap) % LagCap
      n == IF max < e.lagLen THEN max ELSE e.lagLen
  IN [i \in 1..n |-> e.lag[(start + i - 1) % LagCap]]

UpdateEngine(p) ==
  /\ Len(points) < MaxPoints
  /\ IF p = 0 THEN UNCHANGED engineVars
     ELSE points' = Append(points, p) /\ engine' = AfterPoint(engine, p)

(* seed() resets first.                                                    *)
SeedEngine(seq) == points' = seq /\ engine' = FoldLeft(AfterPoint, EmptyEngine, seq)

EngineNext ==
  \/ \E p \in 0..3 : UpdateEngine(p)
  \/ \E seq \in {<<>>, <<1, 3>>} : SeedEngine(seq)
-----------------------------------------------------------------------------
(* The calibration state.  A pair is a raw probability (its bin, 1 or 2)   *)
(* and the outcome.                                                        *)
PairKinds == {[p |-> 1, y |-> 0], [p |-> 2, y |-> 1]}
NoBins == [b \in 1..2 |-> [count |-> 0, actual |-> 0]]
NewCalibrator ==
  [ pairs |-> [i \in 0..(MaxPairs - 1) |-> <<>>], writeIdx |-> 0, pairCount |-> 0,
    bins |-> NoBins, n |-> 0 ]

UpdateBin(bins, pair) ==
  [bins EXCEPT ![pair.p] = [count |-> @.count + 1, actual |-> @.actual + pair.y]]

RecordPair(c, pair) ==
  [ pairs |-> [c.pairs EXCEPT ![c.writeIdx % MaxPairs] = <<pair>>], writeIdx |-> c.writeIdx + 1,
    pairCount |-> IF c.pairCount < MaxPairs THEN c.pairCount + 1 ELSE c.pairCount,
    bins |-> UpdateBin(c.bins, pair), n |-> c.n + 1 ]

PairsArray(c) ==
  LET start == IF c.pairCount < MaxPairs THEN 0 ELSE c.writeIdx % MaxPairs
  IN [i \in 1..c.pairCount |-> c.pairs[(start + i - 1) % MaxPairs][1]]

(* A refit counts the ring anew; the mutant counts it on top.              *)
CountedOnTop(c) == [c EXCEPT !.bins = FoldLeft(UpdateBin, @, PairsArray(c)), !.n = c.pairCount]
CountedAnew(c) == [c EXCEPT !.bins = FoldLeft(UpdateBin, NoBins, PairsArray(c)), !.n = c.pairCount]
FitOne(c) == IF c.pairCount < MinFit THEN c ELSE CountedAnew(c)

(* A regime that is new takes the place of the oldest one.                 *)
WithRegime(regime) ==
  IF regime \in Range(regimeOrder) THEN regimeOrder
  ELSE Append(IF Len(regimeOrder) >= MaxRegimes THEN Tail(regimeOrder) ELSE regimeOrder, regime)

ObservePair(pair, regime) ==
  LET order == IF regime = "global" THEN regimeOrder ELSE WithRegime(regime)
      kept(r) == r = "global" \/ r \in Range(regimeOrder)
      told(r) == r = "global" \/ r = regime
      before(r) == IF kept(r) THEN calibrators[r] ELSE NewCalibrator
      after(r) == IF told(r) THEN RecordPair(before(r), pair) ELSE before(r)
      seen(r) == IF kept(r) THEN observedPairs[r] ELSE <<>>
      refit == sinceRefit + 1 >= RefitEvery
      alive == {"global"} \cup Range(order)
  IN  /\ Len(observedPairs["global"]) < MaxObserved
      /\ regimeOrder' = order
      /\ calibrators' = [r \in alive |-> IF refit THEN FitOne(after(r)) ELSE after(r)]
      /\ observedPairs' = [r \in alive |-> IF told(r) THEN Append(seen(r), pair) ELSE seen(r)]
      /\ sinceRefit' = IF refit THEN 0 ELSE sinceRefit + 1

CalibrationNext == \E pair \in PairKinds, regime \in Regimes \cup {"global"} : ObservePair(pair, regime)

(* The isotonic fit pools adjacent blocks.  After pooling it looks back,   *)
(* so that the new mean may pool with the block before; the mutant stays.  *)
Block(pair) == [weight |-> 1, sumY |-> pair.y, lo |-> pair.p, hi |-> pair.p]
Higher(a, b) == a.sumY * b.weight > b.sumY * a.weight
Pooled(a, b) == [weight |-> a.weight + b.weight, sumY |-> a.sumY + b.sumY, lo |-> a.lo, hi |-> b.hi]
StaysThere(i) == i
LooksBack(i) == IF i > 1 THEN i - 1 ELSE i

Blocks == [weight : Nat, sumY : Nat, lo : Nat, hi : Nat]
PoolFrom[blocks \in Seq(Blocks), i \in Nat] ==
  IF i >= Len(blocks) THEN blocks
  ELSE IF Higher(blocks[i], blocks[i + 1])
  THEN PoolFrom[ReplaceAt(RemoveAt(blocks, i + 1), i, Pooled(blocks[i], blocks[i + 1])), LooksBack(i)]
  ELSE PoolFrom[blocks, i + 1]

IsotonicFit(sorted) == PoolFrom[[i \in DOMAIN sorted |-> Block(sorted[i])], 1]

(* The block whose mean calibrate() gives: between two blocks the last.    *)
CalibratingBlock(blocks, p) ==
  LET holding == {i \in DOMAIN blocks : blocks[i].lo <= p /\ p <= blocks[i].hi} IN
  IF holding # {} THEN blocks[Min(holding)]
  ELSE IF p < Head(blocks).lo THEN Head(blocks) ELSE Last(blocks)
-----------------------------------------------------------------------------
(* The ranker sorts its window anew for every opportunity: a stable sort   *)
(* by score.                                                               *)
RankIn(window, i) ==
  1 + Cardinality({j \in DOMAIN window : window[j].score > window[i].score
                                         \/ (window[j].score = window[i].score /\ j < i)})

(* A mutant: sorted before the oldest has left.                            *)
RankedBefore(old, rec) ==
  LET all == Append(old, rec) IN LatestOf([i \in DOMAIN all |-> RankIn(all, i)], MaxWindow)
RankedAfter(old, rec) ==
  LET kept == LatestOf(Append(old, rec), MaxWindow) IN [i \in DOMAIN kept |-> RankIn(kept, i)]

ScoreAndInsert(score) ==
  LET rec == [id |-> inserted + 1, score |-> score] IN
  /\ inserted < MaxInserted /\ inserted' = inserted + 1
  /\ ranked' = LatestOf(Append(ranked, rec), MaxWindow)
  /\ ranks' = RankedAfter(ranked, rec)

RankNext == \E score \in 0..2 : ScoreAndInsert(score)
-----------------------------------------------------------------------------
(* A model's recent record is scaled down when it is full; the mutant      *)
(* scales the total only.                                                  *)
ScaledTotal(r) == [r EXCEPT !.total = (9 * @) \div 10]
Scaled(r) == [correct |-> (9 * r.correct) \div 10, total |-> (9 * r.total) \div 10]

ObserveModel(right) ==
  LET r == [correct |-> recentResults.correct + (IF right THEN 1 ELSE 0),
            total |-> recentResults.total + 1] IN
  recentResults' = IF r.total > RecentCap THEN Scaled(r) ELSE r

PerfNext == \E right \in BOOLEAN : ObserveModel(right)
-----------------------------------------------------------------------------
LearningInit ==
  /\ points = <<>> /\ engine = EmptyEngine
  /\ observedPairs = [r \in {"global"} |-> <<>>] /\ calibrators = [r \in {"global"} |-> NewCalibrator]
  /\ regimeOrder = <<>> /\ sinceRefit = 0
  /\ ranked = <<>> /\ ranks = <<>> /\ inserted = 0
  /\ recentResults = [correct |-> 0, total |-> 0]

(* Weights in sixtieths of their sum.  A model is judged after 20 rounds   *)
(* and suppressed after 100 bad ones; if that silences all of them, none   *)
(* is.  The flag of a candidate sets its weight to 0, unless it is the     *)
(* streak model's.                                                         *)
ModelNames == {"frequency", "streak", "markov"}
BaseWeight == [frequency |-> 4, streak |-> 3, markov |-> 0]
ScoreOf == [new |-> 1, good |-> 3, bad |-> 1, hopeless |-> 1]
PerformanceWeights(present, perf) == [m \in present |-> BaseWeight[m] * ScoreOf[perf[m]]]
SumOver(f) == MapThenFoldSet(LAMBDA a, b : a + b, 0, LAMBDA m : f[m],
                             LAMBDA S : CHOOSE x \in S : TRUE, DOMAIN f)

ApplySuppression(weights, perf) ==
  LET out == [m \in DOMAIN weights |-> IF perf[m] = "hopeless" THEN 0 ELSE weights[m]]
  IN IF SumOver(out) = 0 THEN weights ELSE out
FinalWeights(present, enabled, perf) ==
  LET w == ApplySuppression(PerformanceWeights(present, perf), perf)
  IN [m \in present |-> IF m = "markov" /\ m \notin enabled THEN 0 ELSE w[m]]

(* The target: another than the default must qualify and have the margin   *)
(* over the default; ev: shrunk expected values, margin 1.                 *)
Targets == {"1.3", "2.0", "5.0"}
SelectTarget(ev, confident, sampled) ==
  LET better == {t \in Targets \ {"1.3"} : confident /\ sampled /\ ev[t] >= ev["1.3"] + 1}
      best == {t \in better : \A u \in better : ev[t] >= ev[u]}
  IN  IF best = {} THEN "1.3" ELSE IF "2.0" \in best THEN "2.0" ELSE "5.0"

(* The pipeline falls back when the divergence forbids other targets.      *)
TargetOf(ev, confident, sampled, multiAllowed) ==
  IF multiAllowed THEN SelectTarget(ev, confident, sampled) ELSE "1.3"

(* The action: prob and threshold in units of the margin, 0.05; the score  *)
(* is a product with the edge over the threshold.                          *)
OpportunityScore(edge, qualities) == IF edge <= 0 \/ 0 \in qualities THEN 0 ELSE 1
PipelineAction(allowed, prob, threshold, qualities) ==
  IF ~allowed \/ prob < threshold \/ OpportunityScore(prob - threshold, qualities) <= 0 THEN "SKIP"
  ELSE IF prob >= threshold + 1 THEN "ENTRY" ELSE "REDUCED_ENTRY"
-----------------------------------------------------------------------------
LearningTypeOK ==
  /\ points \in Seq(1..3) /\ Len(points) <= MaxPoints
  /\ engine.lagLen \in 0..LagCap /\ engine.shortLen \in 0..ShortCap /\ engine.count \in 0..MaxPoints
  /\ DOMAIN calibrators = {"global"} \cup Range(regimeOrder) /\ Len(regimeOrder) <= MaxRegimes
  /\ sinceRefit \in 0..(RefitEvery - 1)
  /\ Len(ranked) = Len(ranks) /\ Len(ranked) <= MaxWindow
  /\ recentResults.total \in 0..RecentCap

(* Whatever was evicted, seeded or reset: the rings and the running counts *)
(* are those of the history itself.  (incremental-state-engine.ts update)  *)
EngineMatchesHistory ==
  LET n == Len(points)
      run(i) == Max({k \in 0..i : \A j \in (i - k + 1)..i : Hit(points[j]) = Hit(points[i])})
      longest(is) == Max({0} \cup {run(i) : i \in {j \in 1..n : Hit(points[j]) = is}})
  IN  /\ LagArray(engine) = LatestOf(points, LagCap)
      /\ RecentPoints(engine, LagCap) = LagArray(engine)
      /\ engine.shortSum = Total(LatestOf(points, ShortCap))
      /\ engine.shortHits = Counting(LatestOf(points, ShortCap), Hit)
      /\ engine.longest = [hit |-> longest(TRUE), miss |-> longest(FALSE)]
      /\ \A a, b \in BOOLEAN :
           engine.trans[a][b] = Cardinality({i \in 2..n : Hit(points[i - 1]) = a /\ Hit(points[i]) = b})

(* Between refits the reliability of a regime is that of its latest        *)
(* pairs: all of the ring and less than RefitEvery more, each counted      *)
(* once.  (calibration-state.ts record, fitOne)                            *)
ReliabilityIsRecent ==
  \A r \in DOMAIN calibrators :
    LET c == calibrators[r] IN
    /\ PairsArray(c) = LatestOf(observedPairs[r], MaxPairs)
    /\ c.pairCount <= c.n /\ c.n <= Len(observedPairs[r]) /\ c.n < MaxPairs + RefitEvery
    /\ c.bins = FoldLeft(UpdateBin, NoBins, LatestOf(observedPairs[r], c.n))

(* Ranks are 1, 2, ... without gap or tie and follow the scores, also      *)
(* after evictions.  (opportunity-ranker.ts rerank)                        *)
RanksFollowScores ==
  /\ Range(ranks) = 1..Len(ranked)
  /\ \A i, j \in DOMAIN ranked : ranked[i].score > ranked[j].score => ranks[i] < ranks[j]

(* Scaling down never leaves more right answers than answers.              *)
(* (model-performance.ts observe)                                          *)
RecordIsARate == recentResults.correct \in 0..recentResults.total

(* Pooling gives the isotonic regression: the blocks hold the pairs in     *)
(* order, their means do not fall, and no first part of a block has a      *)
(* lower mean than the block (else it could be split).  On the pairs'      *)
(* own probabilities calibrate() is then monotone.  (isotonic-calibrator)  *)
PoolingIsIsotonic ==
  LET kinds == [p : 1..2, y : 0..1]
      sums(seq) == Total([i \in DOMAIN seq |-> seq[i].y])
      ends(blocks, b) == Total([i \in 1..b |-> blocks[i].weight])
      sortedUpTo(n) == {s \in BoundedSeq(kinds, n) : s # <<>> /\ \A i \in 2..Len(s) : s[i - 1].p <= s[i].p}
  IN  \A s \in sortedUpTo(5) :
        LET blocks == IsotonicFit(s) IN
        /\ ends(blocks, Len(blocks)) = Len(s)
        /\ \A b \in 2..Len(blocks) : ~Higher(blocks[b - 1], blocks[b])
        /\ \A b \in DOMAIN blocks :
             LET part == SubSeq(s, ends(blocks, b - 1) + 1, ends(blocks, b)) IN
             /\ blocks[b].sumY = sums(part)
             /\ \A k \in 1..Len(part) :
                  sums(SubSeq(part, 1, k)) * blocks[b].weight >= blocks[b].sumY * k
        /\ \A i, j \in DOMAIN s :
             s[i].p <= s[j].p => ~Higher(CalibratingBlock(blocks, s[i].p), CalibratingBlock(blocks, s[j].p))

(* Suppression never silences the ensemble, and a suppressed model speaks  *)
(* only when every model with a weight is suppressed.                      *)
(* (model-weighting.ts applySuppression)                                   *)
SuppressionNeverSilences ==
  \A present \in SUBSET ModelNames, enabled \in SUBSET {"markov"} :
    \A perf \in [present -> DOMAIN ScoreOf] :
      LET w == FinalWeights(present, enabled, perf) IN
      /\ SumOver(w) > 0 <=> present \cap {"frequency", "streak"} # {}
      /\ \A m \in present : w[m] > 0 /\ perf[m] = "hopeless" =>
           \A k \in present : w[k] > 0 => perf[k] = "hopeless"

(* An entry has an edge: at the threshold itself, which the first check    *)
(* lets through, the score refuses; a switch to another target beats the   *)
(* default by the margin and every other target.  (prediction-pipeline,    *)
(* multi-target-engine)                                                    *)
EntryHasEdge ==
  /\ \A allowed \in BOOLEAN, prob, threshold \in 0..3, qualities \in SUBSET {0, 1} :
       PipelineAction(allowed, prob, threshold, qualities) # "SKIP" =>
         allowed /\ prob > threshold /\ 0 \notin qualities
  /\ \A ev \in [Targets -> 0..2], confident, sampled, multi \in BOOLEAN :
       LET t == TargetOf(ev, confident, sampled, multi) IN
       /\ ev[t] >= ev["1.3"]
       /\ t # "1.3" => multi /\ \A u \in Targets : ev[t] >= ev[u]
=============================================================================
