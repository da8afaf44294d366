------------------------------- MODULE Metrics -------------------------------
(***************************************************************************)
(* The figures reported about the bets: the profit and loss summary        *)
(* (ledger/pnl-calculator.ts), streaks (analytics/metrics/streaks.ts) and  *)
(* drawdown (analytics/metrics/drawdown.ts).  They are one pass over the   *)
(* outcomes each, folds here, and are compared with definitions over the   *)
(* whole sequence.  The outcomes grow one at a time.                       *)
(*                                                                         *)
(* streaks.ts says that failed and unknown bets break streaks; it filters  *)
(* them out, so that they do not.  The calculator's do.                    *)
(***************************************************************************)
EXTENDS Naturals, Integers, Sequences, FiniteSets

LOCAL INSTANCE SequencesExt
LOCAL INSTANCE FiniteSetsExt

CONSTANTS WinPnl, LossPnl,  \* profit of a win, loss of a loss
          MaxOutcomes       \* bound: length of the history

ASSUME MetricsAssumption == {WinPnl, LossPnl, MaxOutcomes} \subseteq Nat

VARIABLE outcomes

OutcomeKinds == {"win", "loss", "failed"}   \* "failed" stands for unknown as well
PnlOf(o) == CASE o = "win" -> WinPnl [] o = "loss" -> -LossPnl [] o = "failed" -> 0
IsResolved(o) == o \in {"win", "loss"}

MetricsInit == outcomes = <<>>

BetEnds ==
  /\ Len(outcomes) < MaxOutcomes
  /\ \E o \in OutcomeKinds : outcomes' = Append(outcomes, o)

MetricsSpec == MetricsInit /\ [][BetEnds]_outcomes

Larger(a, b) == IF a > b THEN a ELSE b
-----------------------------------------------------------------------------
(* computeSummary.                                                         *)
ComputeSummary(s) ==
  FoldLeft(LAMBDA a, o :
      CASE o = "win"  -> [a EXCEPT !.wins = @ + 1, !.net = @ + WinPnl, !.won = @ + 1, !.lost = 0,
                                   !.wonMax = Larger(@, a.won + 1)]
        [] o = "loss" -> [a EXCEPT !.losses = @ + 1, !.net = @ - LossPnl, !.lost = @ + 1, !.won = 0,
                                   !.lostMax = Larger(@, a.lost + 1)]
        [] OTHER      -> [a EXCEPT !.won = 0, !.lost = 0],
    [wins |-> 0, losses |-> 0, net |-> 0, won |-> 0, lost |-> 0, wonMax |-> 0, lostMax |-> 0], s)

(* computeDrawdown of the calculator.                                      *)
ComputeDrawdown(s) ==
  FoldLeft(LAMBDA a, o :
      LET pnl  == a.pnl + PnlOf(o)
          peak == Larger(a.peak, pnl)
      IN [pnl |-> pnl, peak |-> peak, max |-> Larger(a.max, peak - pnl)],
    [pnl |-> 0, peak |-> 0, max |-> 0], s)

(* computeStreakMetrics: of the resolved outcomes.  ended counts the runs  *)
(* that have ended, by kind and length; the last one is added at the end.  *)
NextRun(a, o) ==
  IF a.kind = o THEN [a EXCEPT !.length = @ + 1]
  ELSE [kind |-> o, length |-> 1,
        ended |-> IF a.length = 0 THEN a.ended ELSE [a.ended EXCEPT ![a.kind][a.length] = @ + 1],
        best |-> a.best]

(* The run that goes on at the end is not recorded yet.                    *)
StreaksOpenEnded(s) ==
  FoldLeft(LAMBDA a, o : LET n == NextRun(a, o) IN [n EXCEPT !.best[o] = Larger(@, n.length)],
           [kind |-> "none", length |-> 0,
            ended |-> [k \in {"win", "loss"} |-> [l \in 1..MaxOutcomes |-> 0]],
            best |-> [k \in {"win", "loss"} |-> 0]],
           SelectSeq(s, IsResolved))

ComputeStreaks(s) ==
  LET last == StreaksOpenEnded(s) IN
  IF last.length = 0 THEN last ELSE [last EXCEPT !.ended[last.kind][last.length] = @ + 1]

IsNewPeak(equity, peak) == equity > peak

EquityCurve(s) ==
  FoldLeft(LAMBDA c, o :
      LET before == IF c = <<>> THEN [equity |-> 0, peak |-> 0, under |-> 0] ELSE c[Len(c)]
          equity == before.equity + PnlOf(o)
          peak   == Larger(before.peak, equity)
          reset  == IF IsNewPeak(equity, before.peak) THEN 0 ELSE before.under
      IN Append(c, [equity |-> equity, peak |-> peak,
                    under |-> IF equity < peak THEN reset + 1 ELSE reset]),
    <<>>, s)

Underwater(p) == p.equity < p.peak

(* computeDrawdownMetrics.                                                 *)
DrawdownMetrics(s) ==
  FoldLeft(LAMBDA a, p :
      [max |-> Larger(a.max, p.peak - p.equity), current |-> p.peak - p.equity,
       recoveries |-> a.recoveries + (IF a.was /\ ~Underwater(p) THEN 1 ELSE 0),
       under |-> p.under, underMax |-> Larger(a.underMax, p.under),
       was |-> Underwater(p)],
    [max |-> 0, current |-> 0, recoveries |-> 0, under |-> 0, underMax |-> 0, was |-> FALSE],
    EquityCurve(s))

(* findConsecutiveDrawdowns, as <<first, last, depth>>.                    *)
ConsecutiveDrawdowns(s) ==
  LET c == EquityCurve(s)
      scan == FoldLeft(LAMBDA a, i :
        LET depth == c[i].peak - c[i].equity IN
        CASE Underwater(c[i]) /\ a.from = 0 -> [a EXCEPT !.from = i, !.depth = depth]
          [] Underwater(c[i]) /\ a.from # 0 -> [a EXCEPT !.depth = Larger(@, depth)]
          [] ~Underwater(c[i]) /\ a.from # 0 ->
               [found |-> Append(a.found, <<a.from, i - 1, a.depth>>), from |-> 0, depth |-> 0]
          [] OTHER -> a,
        [found |-> <<>>, from |-> 0, depth |-> 0], [i \in DOMAIN c |-> i])
  IN IF scan.from = 0 THEN scan.found
     ELSE Append(scan.found, <<scan.from, Len(c), scan.depth>>)

(* findRecoveryTime; -1 is its null.  The first of the deepest points.     *)
RecoveryTime(s) ==
  LET c == EquityCurve(s)
      depth(i) == c[i].peak - c[i].equity
      deepest == {i \in DOMAIN c : \A j \in DOMAIN c : depth(i) >= depth(j)}
      at == Min(deepest)
      back == {i \in DOMAIN c : i > at /\ c[i].equity >= c[at].peak}
  IN IF c = <<>> THEN -1 ELSE IF depth(at) = 0 THEN 0 ELSE IF back = {} THEN -1 ELSE Min(back) - at
-----------------------------------------------------------------------------
MetricsTypeOK == outcomes \in Seq(OutcomeKinds) /\ Len(outcomes) <= MaxOutcomes

(* What the figures mean, over the whole sequence.                         *)
Money(s, i) == WinPnl * Cardinality({j \in 1..i : s[j] = "win"})
               - LossPnl * Cardinality({j \in 1..i : s[j] = "loss"})
Fall(s, i) == Max({Money(s, j) : j \in 0..i}) - Money(s, i)
RunsOf(s, kind) ==
  {r \in (DOMAIN s) \X (DOMAIN s) :
     /\ r[1] <= r[2] /\ \A k \in r[1]..r[2] : s[k] = kind
     /\ r[1] = 1 \/ s[r[1] - 1] # kind
     /\ r[2] = Len(s) \/ s[r[2] + 1] # kind}
Lengths(runs) == {r[2] - r[1] + 1 : r \in runs}
Longest(runs) == Max(Lengths(runs) \cup {0})
NewHigh(s, i) == \A j \in 0..(i - 1) : Money(s, i) > Money(s, j)
(* The outcomes under water since the last new high.                       *)
UnderSince(s, i) == Cardinality({j \in 1..i : Fall(s, j) > 0 /\ \A k \in (j + 1)..i : ~NewHigh(s, k)})
LastRun(s, kind) == Longest({r \in RunsOf(s, kind) : r[2] = Len(s)})
Depressions(s) == {d \in (DOMAIN s) \X (DOMAIN s) :
     /\ d[1] <= d[2] /\ \A k \in d[1]..d[2] : Fall(s, k) > 0
     /\ d[1] = 1 \/ Fall(s, d[1] - 1) = 0
     /\ d[2] = Len(s) \/ Fall(s, d[2] + 1) = 0}

SummaryAgrees ==
  LET sum == ComputeSummary(outcomes) IN
  /\ sum.net = Money(outcomes, Len(outcomes))
  /\ sum.wonMax = Longest(RunsOf(outcomes, "win")) /\ sum.won = LastRun(outcomes, "win")
  /\ sum.lostMax = Longest(RunsOf(outcomes, "loss")) /\ sum.lost = LastRun(outcomes, "loss")

StreaksAgree ==
  LET resolved == SelectSeq(outcomes, IsResolved)
      streaks  == ComputeStreaks(outcomes)
  IN \A kind \in {"win", "loss"} :
       /\ streaks.best[kind] = Longest(RunsOf(resolved, kind))
       /\ \A l \in 1..MaxOutcomes :
            streaks.ended[kind][l] = Cardinality({r \in RunsOf(resolved, kind) : r[2] - r[1] + 1 = l})

DrawdownsAgree ==
  LET falls   == {Fall(outcomes, i) : i \in 0..Len(outcomes)}
      metrics == DrawdownMetrics(outcomes)
      found   == ConsecutiveDrawdowns(outcomes)
  IN /\ metrics.max = Max(falls) /\ metrics.current = Fall(outcomes, Len(outcomes))
     /\ ComputeDrawdown(outcomes).max = metrics.max
     /\ {<<found[k][1], found[k][2]>> : k \in DOMAIN found} = Depressions(outcomes)
     /\ metrics.max = Max({found[k][3] : k \in DOMAIN found} \cup {0})
     /\ metrics.recoveries = Cardinality({d \in Depressions(outcomes) : d[2] < Len(outcomes)})
     /\ metrics.under = UnderSince(outcomes, Len(outcomes))
     /\ metrics.underMax = Max({UnderSince(outcomes, i) : i \in 0..Len(outcomes)})
     /\ RecoveryTime(outcomes) = -1 => outcomes = <<>> \/ metrics.current > 0

(* The passes compute what they report: the calculator and drawdown.ts     *)
(* agree on the drawdown, every run of wins or losses is counted once, a   *)
(* drawdown lasts from a peak until the peak is reached again, and its     *)
(* recovery is counted once.  The time under water is another measure: it  *)
(* goes on through a recovery that reaches the old peak exactly, and ends  *)
(* at a new high only.  (drawdown.ts buildEquityCurve, streaks.ts,         *)
(* pnl-calculator.ts)                                                      *)
AlgorithmsAgree == SummaryAgrees /\ StreaksAgree /\ DrawdownsAgree
=============================================================================
