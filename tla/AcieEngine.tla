------------------------------ MODULE AcieEngine ------------------------------
(***************************************************************************)
(* The learning engine in prediction/acie: every crash is recorded with    *)
(* the prediction made before it, updates the online state and produces    *)
(* the decision for the next round; the heavy validation runs later, from  *)
(* setImmediate.  A crash is whether 1.30 was reached; a probability is a  *)
(* number of thousandths where a decision depends on it and left out where *)
(* it does not.  A call of the engine is synchronous: one step.            *)
(***************************************************************************)
EXTENDS Integers, Sequences, FiniteSets, SequencesExt

CONSTANTS CrashIds,       \* bound: rounds 1..CrashIds
          Remembered,     \* processedRoundIds: 5000
          KeptCrashes,    \* crashPoints: 2000
          HeavyEvery,     \* heavyValidationEvery: 50
          SeedFrom,       \* history needed to seed: 20
          MaxLearned      \* bound: crashes learned by one engine

ASSUME AcieAssumption ==
  /\ {CrashIds, Remembered} \subseteq Nat /\ {KeptCrashes, HeavyEvery} \subseteq Nat \ {0}

VARIABLES acie,       \* the engine of this process
          completed,  \* the rounds in the database, in order
          exported,   \* the snapshot in the file or in Redis, or none
          booting,    \* nothing was observed yet: the time for a snapshot
          spoiled,    \* history: ids remembered although their crash was refused
          heavyOwed   \* history: validation due, and its last run failed or a snapshot was taken

acieVars == <<acie, completed, exported, booting, spoiled, heavyOwed>>

(* A look is the number of crashes a probability was computed from:        *)
(* psiFrom for lastPsiProbability, modelsFrom for lastModelProbabilities,  *)
(* context for the pending prediction.  NoLook: the initial 0.65, no       *)
(* models, nothing pending.                                                *)
NoLook == -1
OnlineInit == [below |-> 0, above |-> 0, regime |-> "unknown", duration |-> 0, sinceHeavy |-> 0,
               psiFrom |-> NoLook]
EngineInit == [processed |-> <<>>, learned |-> <<>>, losses |-> 0, online |-> OnlineInit,
               context |-> NoLook, modelsFrom |-> NoLook, evidence |-> -1, heavy |-> FALSE,
               restored |-> <<>>]   \* history: the rounds of the snapshot it took

AcieInit ==
  /\ acie = EngineInit /\ completed = <<>> /\ exported = <<>>
  /\ booting = TRUE /\ spoiled = {} /\ heavyOwed = FALSE
-----------------------------------------------------------------------------
LastOf(seq, n) == IF Len(seq) > n THEN SubSeq(seq, Len(seq) - n + 1, Len(seq)) ELSE seq

(* TPL: what the sequence looks like.  "volatile" needs 60 rounds and      *)
(* does not occur in a small instance.                                     *)
Streak(crashes, reached) ==
  Max({n \in 0..Len(crashes) : \A i \in (Len(crashes) - n + 1)..Len(crashes) : crashes[i] = reached})

DetectRegime(crashes) ==
  LET low == Streak(crashes, FALSE)
      recent == LastOf(crashes, 100)
      hits == Len(SelectSeq(recent, LAMBDA c : c))
  IN IF low >= 5 THEN "deep-low"
     ELSE IF low >= 3 THEN "low-cluster"
     ELSE IF 4 * hits > 3 * Len(recent) THEN "high-activity"
     ELSE IF 20 * hits < 9 * Len(recent) /\ low >= 2 THEN "deep-low"
     ELSE "normal"

(* learned is all the engine was taught; crashPoints is the end of it.     *)
CrashPoints(learned) ==
  LET recent == LastOf(learned, KeptCrashes) IN [i \in DOMAIN recent |-> recent[i].reached]

ApplyOnlineUpdate(online, look, reached, regime) ==
  [below |-> IF reached THEN 0 ELSE online.below + 1,
   above |-> IF reached THEN online.above + 1 ELSE 0,
   regime |-> regime,
   duration |-> IF regime = online.regime THEN online.duration + 1 ELSE 1,
   sinceHeavy |-> online.sinceHeavy + 1, psiFrom |-> look]

(* The context of the next record is what is known now.                    *)
BuildEvaluation(e) == [e EXCEPT !.context = Len(e.learned), !.modelsFrom = Len(e.learned)]

(* A mutant: a round is looked up under the last id only.                  *)
LastIdOnly(e, id) == e.processed # <<>> /\ Last(e.processed) = id
KnownRound(e, id) == id \in Range(e.processed)

Remember(e, id) == [e EXCEPT !.processed = LastOf(Append(@, id), Remembered)]

(* With no context pending the crash is scored with the probability of the *)
(* crash before it, and the models with their last ones; without models    *)
(* with the probability.                                                   *)
LookOf(e) == IF e.context = NoLook THEN e.online.psiFrom ELSE e.context
ModelsLookOf(e) == IF e.modelsFrom = NoLook THEN LookOf(e) ELSE e.modelsFrom

Learn(e, id, reached) ==
  LET learned == Append(e.learned, [id |-> id, reached |-> reached,
                                    seen |-> LookOf(e), models |-> ModelsLookOf(e)])
      online == ApplyOnlineUpdate(e.online, LookOf(e), reached, DetectRegime(CrashPoints(learned)))
  IN [e EXCEPT !.learned = learned,
               !.losses = IF reached THEN 0 ELSE @ + 1,
               !.online = online,
               !.heavy = @ \/ online.sinceHeavy >= HeavyEvery,
               !.evidence = IF @ = -1 THEN Len(learned) ELSE @,
               !.context = NoLook]

(* ingestCrash of a valid crash point, without the decision.               *)
Ingest(e, id, reached) ==
  IF KnownRound(e, id) THEN e ELSE Learn(Remember(e, id), id, reached)

SeedHistory(e, rounds) ==
  BuildEvaluation(FoldLeft(LAMBDA acc, r : Ingest(acc, r.id, r.reached), e, LastOf(rounds, KeptCrashes)))

(* importSnapshot: the crash points go in under ids of their own, then the *)
(* online state and the losses are the snapshot's.                         *)
Restore(e, crashes) ==
  IF crashes = <<>> THEN e
  ELSE SeedHistory(e, [i \in DOMAIN crashes |-> [id |-> -i, reached |-> crashes[i]]])
ImportSnapshot(e, s) ==
  [Restore(e, s.crashes) EXCEPT !.online = s.online, !.losses = s.losses, !.restored = s.rounds]

(* The round a crash that was learned is of.                               *)
RoundOf(e, crash) == IF crash.id > 0 THEN crash.id ELSE e.restored[-crash.id]
-----------------------------------------------------------------------------
(* ensureAcieSeeded: whatever comes first seeds the engine from the        *)
(* history, whose rows carry the ids of the crashes, whether or not a      *)
(* snapshot has taught the same rounds before.                             *)
Seeded == IF booting /\ Len(completed) >= SeedFrom THEN SeedHistory(acie, completed) ELSE acie

(* observeCrash.  A redelivered crash learns nothing and decides again.    *)
OnCrash(id, reached) ==
  /\ Len(acie.learned) < MaxLearned
  /\ id <= Len(completed) + 1
  /\ acie' = BuildEvaluation(Ingest(Seeded, id, reached))
  /\ completed' = IF id = Len(completed) + 1 THEN Append(completed, [id |-> id, reached |-> reached])
                  ELSE completed
  /\ booting' = FALSE
  /\ UNCHANGED <<exported, spoiled, heavyOwed>>

(* A crash point that is no number: the id is remembered, then it throws.  *)
OnInvalidCrash(id) ==
  /\ id <= Len(completed) + 1 /\ ~KnownRound(Seeded, id)
  /\ acie' = Remember(Seeded, id) /\ spoiled' = spoiled \cup {id}
  /\ booting' = FALSE
  /\ UNCHANGED <<completed, exported, heavyOwed>>

(* evaluateEntry: no evaluation on too little history.                     *)
EvaluateNext ==
  /\ acie' = IF Len(completed) >= SeedFrom \/ Len(CrashPoints(Seeded.learned)) >= SeedFrom
             THEN BuildEvaluation(Seeded) ELSE Seeded
  /\ booting' = FALSE
  /\ UNCHANGED <<completed, exported, spoiled, heavyOwed>>

(* The callback of setImmediate, at most one at a time.                    *)
HeavyEvidence ==
  /\ acie.heavy
  /\ \/ /\ acie' = [acie EXCEPT !.heavy = FALSE, !.evidence = Len(acie.learned), !.online.sinceHeavy = 0]
        /\ heavyOwed' = FALSE
     \/ /\ acie' = [acie EXCEPT !.heavy = FALSE]     \* evaluate() throws
        /\ heavyOwed' = TRUE
  /\ UNCHANGED <<completed, exported, booting, spoiled>>

(* Bound: an engine that took a snapshot makes none.  Without the bound    *)
(* every boot would teach its snapshot's rounds once more than the last.   *)
ExportSnapshot ==
  /\ \A i \in DOMAIN acie.learned : acie.learned[i].id > 0
  /\ exported' = <<[online |-> acie.online, crashes |-> CrashPoints(acie.learned), losses |-> acie.losses,
                    rounds |-> LET recent == LastOf(acie.learned, KeptCrashes)
                               IN [i \in DOMAIN recent |-> recent[i].id]]>>
  /\ UNCHANGED <<acie, completed, booting, spoiled, heavyOwed>>

(* A process ends and another starts; loadPredictionStackOnBoot comes      *)
(* first, if at all, then the prewarm.                                     *)
Restart ==
  /\ acie' = EngineInit /\ booting' = TRUE /\ spoiled' = {} /\ heavyOwed' = FALSE
  /\ UNCHANGED <<completed, exported>>

LoadOnBoot ==
  /\ booting /\ acie = EngineInit /\ exported # <<>>
  /\ acie' = ImportSnapshot(acie, Head(exported))
  /\ heavyOwed' = (Head(exported).online.sinceHeavy >= HeavyEvery)
  /\ UNCHANGED <<completed, exported, booting, spoiled>>

AciePrewarm ==
  /\ booting /\ Len(CrashPoints(acie.learned)) < SeedFrom /\ Len(completed) >= SeedFrom
  /\ acie' = SeedHistory(acie, completed)
  /\ UNCHANGED <<completed, exported, booting, spoiled, heavyOwed>>

AcieNext ==
  \/ EvaluateNext \/ HeavyEvidence \/ ExportSnapshot \/ Restart \/ LoadOnBoot \/ AciePrewarm
  \/ \E id \in 1..CrashIds : OnInvalidCrash(id) \/ (\E reached \in BOOLEAN : OnCrash(id, reached))
-----------------------------------------------------------------------------
(* PSI: seven models and their blend, in thousandths.                      *)
Clamp(x, low, high) == Max({low, Min({high, x})})
ClampP(x) == Clamp(x, 10, 990)

RegimeAdjusted(base, regime, improvement) ==
  IF regime \in {"low-cluster", "deep-low"}
  THEN ClampP(base + (IF improvement > 20 THEN (improvement * 55) \div 100 ELSE 20))
  ELSE IF regime = "volatile" THEN ClampP((base * 97) \div 100)
  ELSE IF regime = "high-activity" THEN ClampP(base + 25)
  ELSE base
Momentum(base, below, above) ==
  IF below >= 1 THEN ClampP(base + Min({15 * below, 120}))
  ELSE IF above >= 4 THEN ClampP(base - 30) ELSE base
ShortBayesian(hits, count) == ClampP((1000 * (8 + hits)) \div (12 + count))
VolatilityAdjusted(base, calm, wild) ==
  IF wild THEN ClampP(base - 40) ELSE IF calm /\ base >= 600 THEN ClampP(base + 20) ELSE base

(* The share of hits among the last records made when the sequence looked  *)
(* much as it does now, unless too few match: then among all of them.      *)
Alike(then, now) ==
  /\ then.below - now.below \in -1..1 /\ then.cluster - now.cluster \in -1..1
  /\ now.cluster <= 1 \/ then.active = now.active
Conditional(records, now, minMatches, scanLimit) ==
  LET scanned == LastOf(records, scanLimit)
      near == SelectSeq(scanned, LAMBDA r : Alike(r.seen, now))
      base == IF Len(near) >= minMatches THEN near ELSE scanned
  IN IF base = <<>> THEN 650 ELSE (1000 * Len(SelectSeq(base, LAMBDA r : r.hit))) \div Len(base)

RunModels(in) ==
  <<ClampP(in.base), ClampP(in.cond), RegimeAdjusted(in.base, in.regime, in.cond - in.base),
    ClampP(in.streakAware), Momentum(in.base, in.below, in.above),
    ShortBayesian(in.hits, in.count), VolatilityAdjusted(in.base, in.calm, ~in.calm)>>

Blend(probabilities, weights) ==
  LET sum(seq) == FoldLeft(LAMBDA a, b : a + b, 0, seq)
  IN ClampP(sum([i \in DOMAIN weights |-> weights[i] * probabilities[i]]) \div sum(weights))

(* The weights after a crash: a model that was nearer keeps more.          *)
(* error in tenths; 0.9 + 0.1 * exp(-3 error^2) falls with the error.      *)
Reweighted(weights, errors) ==
  [i \in DOMAIN weights |-> weights[i] * (900 + Clamp(100 - 3 * errors[i] * errors[i], 5, 100))]
-----------------------------------------------------------------------------
(* The evidence: psiActualFrequency is counted over the same records as    *)
(* naiveFrequency.  MeanAsFrequency is what the comparison might have      *)
(* meant.  good: skill, calibration and no drift; bad: systematically.     *)
MeanAsFrequency(hits, predicted) == predicted
PsiActualFrequency(hits, predicted) == hits
EvidenceStatus(n, hits, predicted, good, bad) ==
  LET improvement == PsiActualFrequency(hits, predicted) - hits
  IN IF n < 150 THEN "INSUFFICIENT"
     ELSE IF bad THEN "DEGRADED"
     ELSE IF n >= 500 /\ good /\ improvement * improvement > 0 THEN "SUPPORTED"
     ELSE IF good \/ improvement > 0 THEN "WEAK"
     ELSE "INSUFFICIENT"

(* Drift takes a step off until the heavy validation sees it.              *)
EffectiveEvidence(status, drift, observations) ==
  IF drift /\ status = "SUPPORTED" THEN "WEAK"
  ELSE IF drift /\ observations > 100 /\ status = "WEAK" THEN "DEGRADED"
  ELSE status

(* The strategy, with the high-frequency policy.                           *)
BaseThreshold(mode, evidence) ==
  IF evidence = "SUPPORTED" THEN 580 ELSE IF evidence = "WEAK" THEN 620
  ELSE IF mode = "frequency_fallback" THEN 570 ELSE Max({620 - 20, 570})
RegimeAdjustedThreshold(base, regime, surely) ==
  Clamp(base + (IF regime \in {"deep-low", "low-cluster"} THEN -25
                ELSE IF regime = "volatile" THEN 20
                ELSE IF regime = "high-activity" THEN -10 ELSE 0)
             - (IF surely THEN 10 ELSE 0), 520, 750)
Pacing(used, limit) ==
  IF limit > 0 /\ 100 * used > 85 * limit THEN 30
  ELSE IF limit > 0 /\ 4 * used < limit THEN -15 ELSE 0
StrategyThreshold(c) ==
  RegimeAdjustedThreshold(BaseThreshold(c.mode, c.evidence), c.regime, c.surely) + Pacing(c.used, 8)

FullStake == 700
ReducedStake == 420
EffectiveProbability(c) ==
  IF c.mode = "frequency_fallback" /\ c.evidence \notin {"SUPPORTED", "WEAK"} THEN c.baseline ELSE c.p

(* A mutant: after a run of losses the stake is what it was.               *)
FullStakeOnly(c) == FALSE
ReduceStake(c) == (c.uncertain /\ c.evidence # "SUPPORTED") \/ c.losses >= 5

StrategyOf(c) ==
  IF c.mode = "strict" /\ c.evidence \in {"DEGRADED", "INSUFFICIENT"} THEN [action |-> "SKIP", stake |-> 0]
  ELSE IF EffectiveProbability(c) < StrategyThreshold(c) THEN [action |-> "SKIP", stake |-> 0]
  ELSE IF ReduceStake(c) THEN [action |-> "REDUCED_ENTRY", stake |-> ReducedStake]
  ELSE [action |-> "ENTRY", stake |-> FullStake]

(* produceSignal: an entry the plan has room for.                          *)
CrashDelivered(c, planned, entered, limit) ==
  StrategyOf(c).action # "SKIP" /\ (planned => entered < limit)

EvidenceLevels == {"SUPPORTED", "WEAK", "INSUFFICIENT", "DEGRADED"}
StrategyContexts ==
  [mode : {"strict", "adaptive", "frequency_fallback"}, evidence : EvidenceLevels,
   regime : {"normal", "deep-low", "volatile"}, surely : BOOLEAN, used : {0, 4, 8},
   p : {500, 570, 600, 660}, baseline : {650}, uncertain : BOOLEAN, losses : {0, 5}]
-----------------------------------------------------------------------------
(* An engine that took no snapshot counts no more than it learned.         *)
AcieTypeOK ==
  /\ acie.losses \in Nat /\ acie.online.duration \in Nat
  /\ (\A i \in DOMAIN acie.learned : acie.learned[i].id > 0) =>
       acie.losses <= Len(acie.learned) /\ acie.online.duration <= Len(acie.learned)
  /\ acie.evidence \in -1..Len(acie.learned) /\ acie.heavy \in BOOLEAN
  /\ Len(acie.processed) <= Remembered /\ Len(completed) <= CrashIds
  /\ spoiled \subseteq 1..CrashIds /\ booting \in BOOLEAN /\ heavyOwed \in BOOLEAN

(* A crash delivered twice is learned once, whatever came between, while   *)
(* its record is still held: ids are forgotten in the order of the         *)
(* records.  Two things the code does not promise.  Ids of refused crashes *)
(* take places of the ring, so the claim is for an engine that refused     *)
(* none.  And the ring knows ids, not rounds: an engine that took a        *)
(* snapshot knows the snapshot's rounds under ids of its own, and the seed *)
(* or the redelivery that follows teaches them a second time.  That is the *)
(* only way to it: of a round held twice the first was out of a snapshot.  *)
(* (engine.ts processedRoundIds, importSnapshot, ensureAcieSeeded)         *)
LearnedOnce ==
  spoiled = {} =>
    LET held == LastOf(acie.learned, Remembered) IN
    \A i, j \in DOMAIN held :
      i < j /\ RoundOf(acie, held[i]) = RoundOf(acie, held[j]) => held[i].id <= 0

(* No crash is scored by a probability made of itself: the look is at all  *)
(* the crashes before it, or, for a crash that is seeded right after       *)
(* another, the look that one was scored by, however old (NoLook: the      *)
(* initial value).  The models that are reweighted were made by the same   *)
(* look.  Between two calls the pending look is at everything learned, so  *)
(* a crash that comes alone is never scored by an older one.               *)
(* (engine.ts pendingContext, lastModelProbabilities, lastPsiProbability)  *)
LookBefore(learned, n) == IF n = 0 THEN NoLook ELSE learned[n].seen
NoLookAhead ==
  /\ \A i \in DOMAIN acie.learned :
       /\ acie.learned[i].seen \in {i - 1, LookBefore(acie.learned, i - 1)}
       /\ acie.learned[i].models = acie.learned[i].seen
  /\ acie.learned = <<>> \/ acie.context = Len(acie.learned)

(* The three counts of losses, of the engine, of the online state and of   *)
(* the sequence, never drift apart, through restarts and snapshots.        *)
(* (engine.ts consecutiveLosses, online-state.ts, tpl.ts)                  *)
AcieStreaksAgree ==
  /\ acie.losses = acie.online.below
  /\ acie.online.below = 0 \/ acie.online.above = 0
  /\ Streak(CrashPoints(acie.learned), FALSE) = Min({acie.online.below, Len(CrashPoints(acie.learned))})
  /\ Streak(CrashPoints(acie.learned), TRUE) = Min({acie.online.above, Len(CrashPoints(acie.learned))})

(* A validation that is due is under way, unless its last run failed or    *)
(* the count came with a snapshot; then the next crash starts one.         *)
(* (engine.ts scheduleHeavyEvidence)                                       *)
ValidationNotForgotten == acie.online.sinceHeavy >= HeavyEvery => acie.heavy \/ heavyOwed

LearningIsSound == LearnedOnce /\ NoLookAhead /\ AcieStreaksAgree /\ ValidationNotForgotten

(* The blend lies between its models, and a better model never loses       *)
(* weight to a worse one.  (psi.ts, online-state.ts)                       *)
BlendIsBetween ==
  \A regime \in {"normal", "deep-low", "volatile", "high-activity"}, base \in {15, 600, 985},
     cond \in {0, 650, 1000}, below \in {0, 9}, calm \in BOOLEAN :
    LET models == RunModels([base |-> base, cond |-> cond, regime |-> regime, streakAware |-> cond,
                             below |-> below, above |-> 4, hits |-> 2, count |-> 3, calm |-> calm])
        weights == <<1, 2, 3, 1, 2, 3, 1>>
        after == Reweighted(weights, <<0, 1, 5, 0, 3, 9, 2>>)
    IN /\ Blend(models, weights) \in Min(Range(models))..Max(Range(models))
       /\ Blend(models, after) \in Min(Range(models))..Max(Range(models))
       /\ after[1] * weights[6] >= after[6] * weights[1]

(* The conditional frequency forgets what is older than its limit, and is  *)
(* beyond doubt when all it looks back on agree.                           *)
(* (tpl.ts computeConditionalProbability)                                  *)
ConditionalIsRecent ==
  LET looks == {[below |-> 0, cluster |-> 0, active |-> FALSE],
                [below |-> 2, cluster |-> 2, active |-> TRUE],
                [below |-> 2, cluster |-> 3, active |-> FALSE]}
  IN \A records \in [1..3 -> [seen : looks, hit : BOOLEAN]], now \in looks, needed \in 1..2 :
       LET share == Conditional(records, now, needed, 2)
       IN /\ share = Conditional(Tail(records), now, needed, 2)
          /\ records[2].hit = records[3].hit => share = (IF records[3].hit THEN 1000 ELSE 0)

(* With the comparison the evidence engine makes no evidence is ever       *)
(* SUPPORTED: both frequencies are the same count.  (safe.ts               *)
(* baselineComparison, evidence.ts)                                        *)
NeverSupported ==
  \A n \in {100, 200, 600}, hits \in {0, 60, 99}, predicted \in {60, 70}, good, bad \in BOOLEAN :
    EvidenceStatus(n, hits, predicted, good, bad) # "SUPPORTED"

(* Strict mode never enters on poor evidence; a full stake never follows   *)
(* five losses, nor uncertain odds without support; more probability never *)
(* turns an entry into a skip; a plan without room gets nothing, and drift *)
(* only ever lowers the evidence.  (strategy.ts, entitlement.ts)           *)
StrategyIsCautious ==
  \A c \in StrategyContexts :
    LET d == StrategyOf(c) IN
    /\ c.mode = "strict" /\ c.evidence \in {"DEGRADED", "INSUFFICIENT"} => d.action = "SKIP"
    /\ d.stake = FullStake => c.losses < 5 /\ (c.uncertain => c.evidence = "SUPPORTED")
    /\ d.action # "SKIP" => StrategyOf([c EXCEPT !.p = 660]).action # "SKIP"
    /\ ~CrashDelivered(c, TRUE, 3, 3)
    /\ EffectiveEvidence(c.evidence, TRUE, 200) # "SUPPORTED"

AcieAlgorithms == BlendIsBetween /\ ConditionalIsRecent /\ NeverSupported /\ StrategyIsCautious
=============================================================================
