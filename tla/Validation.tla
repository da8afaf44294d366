----------------------------- MODULE Validation ------------------------------
(***************************************************************************)
(* How models are validated offline (prediction/backtesting, datasets and  *)
(* validation): a backtest goes through the rounds one by one (one part);  *)
(* data sets are built of rounds, which may repeat an id or be out of      *)
(* order, and the windows of a walk-forward of their places (another); the *)
(* reliability of scores, the protocol and its gates judge pairs of a      *)
(* prediction and an outcome (the third).  The tests' p-values and the     *)
(* models' scores are inputs.                                              *)
(***************************************************************************)
EXTENDS Integers, Sequences, FiniteSets, SequencesExt

CONSTANTS SimBalance, SimStake, WinAmount,  \* initialBalance, stake, a win's gain
          SimDaily, SimDrawdown,            \* maxDailyEntries, maxDrawdownPct
          MaxSimulated, MaxSimDays,         \* bound: rounds simulated and days
          RoundIds, MinHistory, DatasetRounds, \* minHistory; bound: rounds of a set
          MaxScored, ShortRounds            \* bound: pairs; the candidate's window, 500

ASSUME ValidationAssumption ==
  /\ SimStake \in Nat \ {0}
  /\ {SimBalance, WinAmount, SimDaily, SimDrawdown, MaxSimDays, MinHistory} \subseteq Nat

VARIABLES simDay, simEntries,    \* lastDay, dailyEntries
          equity, peakEquity, worstDrawdown,
          curve,                 \* history: the equity after each round
          entriesOn,             \* history: entries per day
          rounds,                \* the rounds a data set is built of
          scored                 \* prediction and outcome, p in tenths

backtestVars == <<simDay, simEntries, equity, peakEquity, worstDrawdown, curve, entriesOn>>
datasetVars == <<rounds>>
scoreVars == <<scored>>
validationVars == <<backtestVars, datasetVars, scoreVars>>

ValidationInit ==
  /\ simDay = 0 /\ simEntries = 0 /\ equity = SimBalance /\ peakEquity = SimBalance
  /\ worstDrawdown = 0 /\ curve = <<SimBalance>> /\ entriesOn = [d \in 1..MaxSimDays |-> 0]
  /\ rounds = <<>> /\ scored = <<>>

LargerOf(a, b) == IF a >= b THEN a ELSE b
Summed(seq) == FoldLeft(LAMBDA a, b : a + b, 0, seq)
-----------------------------------------------------------------------------
(* The backtest.  AnyBalance and PeakForgotten are mutants.                *)
AnyBalance(e) == TRUE
StakeCovered(e) == e >= SimStake
PeakForgotten(e) == e
PeakAfter(e) == LargerOf(peakEquity, e)

(* simulateRisk, for a signal that is good enough or not.                  *)
SimulatedRisk(good, entries) ==
  /\ good /\ entries < SimDaily
  /\ (IF peakEquity > 0 THEN ((peakEquity - equity) * 100) \div peakEquity ELSE 0) < SimDrawdown
  /\ StakeCovered(equity)

(* One round: the day's count starts anew with the day; the entry is made  *)
(* before the outcome is known, the drawdown recorded only after entries.  *)
SimulateRound(day, good, hit) ==
  LET entries == IF day # simDay THEN 0 ELSE simEntries
      entered == SimulatedRisk(good, entries)
      after == IF ~entered THEN equity ELSE IF hit THEN equity + WinAmount ELSE equity - SimStake
  IN
  /\ Len(curve) <= MaxSimulated /\ simDay' = day
  /\ simEntries' = entries + (IF entered THEN 1 ELSE 0)
  /\ equity' = after /\ curve' = Append(curve, after)
  /\ IF entered
     THEN /\ peakEquity' = PeakAfter(after)
          /\ worstDrawdown' = LargerOf(worstDrawdown, PeakAfter(after) - after)
          /\ entriesOn' = [entriesOn EXCEPT ![day] = @ + 1]
     ELSE UNCHANGED <<peakEquity, worstDrawdown, entriesOn>>

BacktestNext ==
  /\ \E day \in {d \in simDay..(simDay + 1) : d \in 1..MaxSimDays}, good, hit \in BOOLEAN :
       SimulateRound(day, good, hit)
  /\ UNCHANGED <<rounds, scored>>
-----------------------------------------------------------------------------
(* Data sets.  A round has its id and its times; 0 for a start unknown.    *)
SimRounds == [id : RoundIds, started : 0..2, crashed : 1..2]
FeatureTime(r) == IF r.started # 0 THEN r.started ELSE r.crashed

AssertChronological(rs) == \A i \in 2..Len(rs) : rs[i - 1].crashed <= rs[i].crashed

(* The features of a round are made of those before it.                    *)
BuildSequence(rs, minHistory) ==
  [i \in 1..LargerOf(0, Len(rs) - minHistory) |->
     [place |-> i + minHistory, id |-> rs[i + minHistory].id, uses |-> 1..(i + minHistory - 1),
      time |-> FeatureTime(rs[i + minHistory])]]

FirstPlace(rs, id) == CHOOSE i \in DOMAIN rs : rs[i].id = id /\ \A j \in 1..(i - 1) : rs[j].id # id
LastPlace(rs, id) == CHOOSE i \in DOMAIN rs : rs[i].id = id /\ \A j \in (i + 1)..Len(rs) : rs[j].id # id

(* The label of a row is its round's, found by its id: the first of it.    *)
Label(rs, row) == rs[FirstPlace(rs, row.id)]

DetectLeakage(rs, rows, minHistory) ==
  \/ \E i \in DOMAIN rows :
       \/ rows[i].time > Label(rs, rows[i]).crashed
       \/ LastPlace(rs, rows[i].id) <= minHistory
       \/ Cardinality(rows[i].uses) > LastPlace(rs, rows[i].id) - 1
  \/ \E i, j \in DOMAIN rows : i # j /\ rows[i].id = rows[j].id

(* What is refused at once: an id twice among the rows, or a row's id that *)
(* the rounds before the rows have as well.  NothingRepeated is a mutant.  *)
NothingRepeated(rs, rows, minHistory) == FALSE
IdsRefused(rs, rows, minHistory) ==
  \/ \E i, j \in DOMAIN rows : i # j /\ rows[i].id = rows[j].id
  \/ \E i \in DOMAIN rows : FirstPlace(rs, rows[i].id) <= minHistory

(* The rows of a data set, or none when it is refused.                     *)
BuildDataset(rs, minHistory) ==
  LET rows == BuildSequence(rs, minHistory) IN
  IF \/ ~AssertChronological(rs)
     \/ IdsRefused(rs, rows, minHistory)
     \/ DetectLeakage(rs, rows, minHistory)
  THEN [built |-> FALSE, rows |-> <<>>]
  ELSE [built |-> TRUE, rows |-> rows]

DatasetNext ==
  /\ Len(rounds) < DatasetRounds
  /\ \E r \in SimRounds : rounds' = Append(rounds, r)
  /\ UNCHANGED <<backtestVars, scored>>
-----------------------------------------------------------------------------
(* Walk-forward: the windows over n rounds, their parts as places.         *)
Starts(n, train, val, test, step) ==
  {s \in {k * step : k \in 0..n} : s + train + val + test <= n}
Places(from, size) == (from + 1)..(from + size)

(* min(20, floor(share of the rounds)), the share in tenths.               *)
HistoryFor(size, tenths) == LET part == (size * tenths) \div 10 IN IF part < 20 THEN part ELSE 20

(* The rows of one window that are scored: the data set of all that comes  *)
(* before and of the part itself, less the rows of the former (RowsOfAll,  *)
(* a mutant, has them all).                                                *)
RowsOfAll(s, before, size, tenths) ==
  {[place |-> i, uses |-> Places(s, i - s - 1)] :
     i \in (s + HistoryFor(before, tenths) + 1)..(s + before + size)}
ScoredRows(s, before, size, tenths) ==
  {r \in RowsOfAll(s, before, size, tenths) : r.place \in Places(s + before, size)}

WindowOf(s, train, val, test) ==
  [ fitted |-> {i \in Places(s, train) : i > s + HistoryFor(train, 4)},
    validated |-> ScoredRows(s, train, val, 5),
    tested |-> ScoredRows(s, train + val, test, 5) ]

(* ACIE's: the test rounds are evaluated one by one and learnt after.      *)
AcieTested(s, train, test) ==
  {[place |-> s + train + i, uses |-> Places(s, train + i - 1)] : i \in 1..test}
-----------------------------------------------------------------------------
(* Reliability.  Pairs have p in units of 1/whole.                         *)
Gap(a, b) == IF a >= b THEN a - b ELSE b - a
BinOf(p, whole) == LET b == (p * 10) \div whole IN IF b > 9 THEN 9 ELSE b

(* The bins' gaps times their counts and the absolute errors, times whole. *)
BinError(pairs, whole, b) ==
  LET inBin == SelectSeq(pairs, LAMBDA x : BinOf(x.p, whole) = b)
  IN Gap(Summed([i \in DOMAIN inBin |-> inBin[i].p]), whole * Summed([i \in DOMAIN inBin |-> inBin[i].y]))
CalibrationError(pairs, whole) == MapThenSumSet(LAMBDA b : BinError(pairs, whole, b), 0..9)
AbsoluteError(pairs, whole) ==
  Summed([i \in DOMAIN pairs |-> Gap(pairs[i].p, whole * pairs[i].y)])

Confusion(pairs, whole) ==
  LET of(pred, y) == Len(SelectSeq(pairs, LAMBDA x : (2 * x.p >= whole) = pred /\ x.y = y))
  IN [tp |-> of(TRUE, 1), fp |-> of(TRUE, 0), tn |-> of(FALSE, 0), fn |-> of(FALSE, 1)]

ScoreNext ==
  /\ Len(scored) < MaxScored
  /\ \E p \in {0, 3, 5, 10}, y \in 0..1 : scored' = Append(scored, [p |-> p, y |-> y])
  /\ UNCHANGED <<backtestVars, rounds>>
-----------------------------------------------------------------------------
(* The protocol.  A rate of h hits in n rounds predicts those rounds: the  *)
(* sum of the squared errors, times the square of n.                       *)
RatePairs(ys) == [i \in DOMAIN ys |-> [p |-> Summed(ys), y |-> ys[i]]]
SquaredErrors(ys) ==
  Summed([i \in DOMAIN ys |-> Gap(Summed(ys), Len(ys) * ys[i]) * Gap(Summed(ys), Len(ys) * ys[i])])

(* evaluateModelGate on the candidate and the baseline, both measured on   *)
(* what they were made of; the log loss of a rate orders as its squared    *)
(* error does.  The candidate's skill is its gain on the baseline's error. *)
ModelGate(candidate, baseline) ==
  LET c == Len(candidate)
      n == Len(baseline)
      better == SquaredErrors(candidate) * n * n * n < SquaredErrors(baseline) * c * c * c
  IN /\ c >= ShortRounds /\ better
     /\ CalibrationError(RatePairs(candidate), c) * 100 <= 5 * c * c

(* The candidate is the rate of the latest rounds.                         *)
(* OldestRounds is a mutant.                                               *)
OldestRounds(ys) == SubSeq(ys, 1, IF Len(ys) < ShortRounds THEN Len(ys) ELSE ShortRounds)
CandidateRounds(ys) == SubSeq(ys, (IF Len(ys) < ShortRounds THEN 1 ELSE Len(ys) - ShortRounds + 1), Len(ys))

(* Accepted, when there are enough rounds and the walk-forward found       *)
(* windows; skipping it for too few rounds is a reason that does not       *)
(* count.                                                                  *)
ProtocolAccepts(ys, minRounds, walkFrom, windowsFound) ==
  /\ Len(ys) >= minRounds
  /\ ModelGate(CandidateRounds(ys), ys)
  /\ Len(ys) >= walkFrom => windowsFound
-----------------------------------------------------------------------------
ValidationTypeOK ==
  /\ simDay \in 0..MaxSimDays /\ simEntries \in 0..SimDaily /\ equity \in Int /\ peakEquity \in Nat
  /\ worstDrawdown \in Nat /\ rounds \in Seq(SimRounds)
  /\ scored \in Seq([p : 0..10, y : 0..1])

(* A backtest never stakes what it does not have nor enters more often a   *)
(* day than allowed; the drawdown it reports is the worst fall of its      *)
(* equity, and passes the limit by less than one stake.                    *)
(* (backtesting/backtest-engine.ts run, simulateRisk)                      *)
BacktestIsBounded ==
  /\ equity >= 0 /\ \A d \in 1..MaxSimDays : entriesOn[d] <= SimDaily
  /\ \A i, j \in DOMAIN curve : i <= j => curve[i] - curve[j] <= worstDrawdown
  /\ \E i, j \in DOMAIN curve : i <= j /\ curve[i] - curve[j] = worstDrawdown
  /\ (peakEquity - equity) * 100 < SimDrawdown * peakEquity + 100 * SimStake

(* A data set that is built, whatever the rounds, labels each row with the *)
(* outcome of its own round, from features of earlier rounds only, known   *)
(* no later than the outcome. (datasets/dataset-builder.ts:2)              *)
DatasetIsSound ==
  LET d == BuildDataset(rounds, MinHistory) IN
  d.built =>
    /\ Len(d.rows) = LargerOf(0, Len(rounds) - MinHistory)
    /\ \A i \in DOMAIN d.rows :
         LET row == d.rows[i] IN
         /\ FirstPlace(rounds, row.id) = row.place /\ LastPlace(rounds, row.id) = row.place
         /\ row.time <= rounds[row.place].crashed
         /\ \A u \in row.uses : u < row.place /\ rounds[u].crashed <= rounds[row.place].crashed

(* Each window scores exactly its validation and test rounds, all after    *)
(* those its model was fitted on and each from earlier rounds; with steps  *)
(* of a test's size no round is tested twice, and ACIE knows of a test     *)
(* round only what came before; evaluated before anything else happens.    *)
(* (backtesting/walk-forward.ts:4)                                         *)
WindowsAreHonest ==
  rounds = <<>> /\ scored = <<>> /\ Len(curve) = 1 =>
    \A n \in 4..8, train \in 1..4, val, test \in 1..2, step \in 1..3 :
      LET starts == Starts(n, train, val, test, step)
          window(s) == WindowOf(s, train, val, test)
          PlacesOf(rows) == {r.place : r \in rows}
      IN
      /\ \A s \in starts :
           /\ PlacesOf(window(s).validated) = Places(s + train, val)
           /\ PlacesOf(window(s).tested) = Places(s + train + val, test)
           /\ \A i \in window(s).fitted, r \in window(s).validated : i < r.place
           /\ \A r \in window(s).validated \cup window(s).tested \cup AcieTested(s, train, test) :
                \A u \in r.uses : u < r.place
      /\ step >= test =>
           \A s, z \in starts : s # z =>
             PlacesOf(window(s).tested) \cap PlacesOf(window(z).tested) = {}

(* Signed residuals cancel only within a bin: the calibration error is     *)
(* between the error of the mean and the mean error.                       *)
(* (validation/statistical-validator.ts:3)                                 *)
ReliabilityIsBetween ==
  LET signed == Gap(Summed([i \in DOMAIN scored |-> scored[i].p]),
                    10 * Summed([i \in DOMAIN scored |-> scored[i].y]))
      c == Confusion(scored, 10)
  IN /\ signed <= CalibrationError(scored, 10)
     /\ CalibrationError(scored, 10) <= AbsoluteError(scored, 10)
     /\ c.tp + c.fp + c.tn + c.fn = Len(scored)
     /\ c.tp + c.fn = Summed([i \in DOMAIN scored |-> scored[i].y])

(* What the protocol accepts: its candidate, a rate measured on the rounds *)
(* it was taken from, is better than the baseline exactly when the latest  *)
(* rounds happened to be more one-sided.                                   *)
(* (validation/walk-forward-protocol.ts runValidationProtocol)             *)
AcceptedIffOneSided ==
  LET ys == [i \in DOMAIN scored |-> scored[i].y]
      late == SubSeq(ys, Len(ys) - ShortRounds + 1, Len(ys))
      OneSided(s) == Gap(2 * Summed(s), Len(s))
  IN Len(ys) >= ShortRounds =>
       (ProtocolAccepts(ys, ShortRounds, MaxScored, TRUE) <=>
          OneSided(late) * Len(ys) > OneSided(ys) * ShortRounds)

ScoresAreTrue == ReliabilityIsBetween /\ AcceptedIffOneSided
=============================================================================
