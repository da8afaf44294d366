-------------------------------- MODULE Gates --------------------------------
(***************************************************************************)
(* What stands between a decision and a bet, and what says a bet was       *)
(* placed.  Four independent parts:                                        *)
(*   - the capital guard (capital/in-memory-limits.ts);                    *)
(*   - the safeguards with the balance tracker and the day's counter       *)
(*     (betting/execution-safeguards.ts, ledger/balance-tracker.ts,        *)
(*     ledger/daily-entries.ts);                                           *)
(*   - the ledger's transactions, statement by statement, and the reads of *)
(*     the risk input (ledger/daily-entries.ts,                            *)
(*     betting/risk-state-provider.ts).  DailyEntries takes each           *)
(*     transaction as one step; this is why it may;                        *)
(*   - the confirmation observer (betting/confirmation.ts).                *)
(* Only the mode gate is wired by the composition; the callers of the rest *)
(* are assumed to do what its comments ask for.                            *)
(***************************************************************************)
EXTENDS Integers, Sequences, FiniteSets

LOCAL INSTANCE SequencesExt
LOCAL INSTANCE Functions

CONSTANTS Bankroll,        \* bound: balances are 0..Bankroll
          PanicFloor, MaxDrawdown, MaxStake,   \* of the capital guard
          MaxSnapshots,    \* maxHistorySize (1000)
          MaxLatencies,    \* maxLatencyHistory (100)
          EntryNeeds,      \* minimum, buffer and stake
          MaxPlacements,   \* bound, and the day's limit
          MaxDays,         \* bound: days
          Writers,         \* transactions under way at once
          SlotLimit,       \* maxEntries
          MaxAttempts      \* of a serializable transaction

ASSUME GateAssumption ==
  /\ {Bankroll, MaxSnapshots, MaxLatencies, MaxPlacements, MaxDays, SlotLimit} \subseteq Nat
  /\ MaxAttempts \in Nat \ {0}
  /\ IsFiniteSet(Writers)

VARIABLES peak, bankroll, capitalLocked,   \* InMemoryCapitalGuard
          breached,                        \* history: a limit was passed since the last unlock
          snapshots, unparseable,          \* BalanceTracker; lastKnownBalance is the last snapshot's
          latencies,                       \* latencyHistory: operation and whether it was too slow
          today, counterDay, entryCount,   \* DailyEntryCounter
          enteredToday,                    \* history: entries since midnight
          txAt, txWants, txTries,         \* each transaction: statement, operation, attempt
          outdated,                        \* transactions whose snapshot is older than the row
          rowLock,                         \* holder of the day's row
          slotsReserved, slotsConfirmed,   \* the day's row
          taken,                           \* history: slots each writer took
          readAt, readConfirmed, riskCount,  \* refreshDailyEntries, lastConfirmedEntries
          slotsAtRead,                     \* history: slots in use when the second query answered
          strict,                          \* requireAuthoritativeConfirmation
          accepted,                        \* the server has the bet
          indicator,                       \* the page shows an active bet
          hooked,                          \* the WebSocket is wrapped: "no", "next page", "yes"
          wsBuffer,                        \* what the wrapper recorded in the last 30 s
          observed                         \* "polling", "confirmed", "unknown"

capitalVars == <<peak, bankroll, capitalLocked, breached>>
safeVars == <<snapshots, unparseable, latencies, today, counterDay, entryCount, enteredToday>>
slotVars == <<txAt, txWants, txTries, outdated, rowLock, slotsReserved, slotsConfirmed, taken,
              readAt, readConfirmed, riskCount, slotsAtRead>>
confirmVars == <<strict, accepted, indicator, hooked, wsBuffer, observed>>
gateVars == <<capitalVars, safeVars, slotVars, confirmVars>>
-----------------------------------------------------------------------------
(* The capital guard.                                                      *)
CapitalInit == peak = Bankroll /\ bankroll = Bankroll /\ capitalLocked = FALSE /\ breached = FALSE

Breach(top, b) == b <= PanicFloor \/ top - b >= MaxDrawdown

(* evaluate() sets the lock and never takes it back; Reevaluated is a      *)
(* mutant that does.                                                       *)
Reevaluated(top, b) == Breach(top, b)
CapitalEvaluated(top, b) == capitalLocked \/ Breach(top, b)

UpdateBalance(b) ==
  /\ bankroll' = b /\ peak' = IF b > peak THEN b ELSE peak
  /\ capitalLocked' = CapitalEvaluated(peak', b)
  /\ breached' = (breached \/ Breach(peak', b))

CanPlaceBet(stake) ==
  /\ ~capitalLocked /\ stake <= MaxStake /\ stake <= bankroll
  /\ bankroll - stake >= PanicFloor

(* A bet that is lost: the next balance is what is left.                   *)
LoseBet(stake) == CanPlaceBet(stake) /\ UpdateBalance(bankroll - stake)

Unlock == capitalLocked' = FALSE /\ breached' = FALSE /\ UNCHANGED <<peak, bankroll>>

CapitalNext ==
  \/ Unlock
  \/ \E b \in 0..Bankroll : UpdateBalance(b) \/ (b > 0 /\ LoseBet(b))
-----------------------------------------------------------------------------
(* The safeguards.  Only the balances' relation to what an entry needs     *)
(* matters to them; the trend needs the numbers.                           *)
SafeInit ==
  /\ snapshots = <<>> /\ unparseable = FALSE /\ latencies = <<>>
  /\ today = 0 /\ counterDay = 0 /\ entryCount = 0 /\ enteredToday = 0

KeepLast(seq, n) == IF Len(seq) > n THEN SubSeq(seq, Len(seq) - n + 1, Len(seq)) ELSE seq

RecordBalance(b) ==
  /\ snapshots' = KeepLast(Append(snapshots, b), MaxSnapshots) /\ unparseable' = FALSE
  /\ UNCHANGED <<latencies, today, counterDay, entryCount, enteredToday>>

MarkUnparseable(is) ==
  /\ unparseable' = is
  /\ UNCHANGED <<snapshots, latencies, today, counterDay, entryCount, enteredToday>>

(* clear() leaves the mark.                                                *)
ClearTracker ==
  /\ snapshots' = <<>>
  /\ UNCHANGED <<unparseable, latencies, today, counterDay, entryCount, enteredToday>>

ConservativeBalance == IF snapshots = <<>> \/ unparseable THEN -1 ELSE Last(snapshots)

Slow(op) == Len(SelectSeq(latencies, LAMBDA l : l.op = op /\ l.slow))
All(op) == Len(SelectSeq(latencies, LAMBDA l : l.op = op))
Health ==
  IF \E op \in {"PLACED", "CASHED_OUT"} : 2 * Slow(op) > All(op) THEN "critical"
  ELSE IF \E op \in {"PLACED", "CASHED_OUT"} : 5 * Slow(op) > All(op) THEN "degraded"
  ELSE "healthy"

(* The counter starts again at the first look on another day.  StaleCount  *)
(* is a mutant: the new day is seen by increment() only.                   *)
StaleCount == entryCount
CountToday == IF counterDay = today THEN entryCount ELSE 0

CheckPreFlight ==
  /\ ~unparseable
  /\ ConservativeBalance # -1 /\ ConservativeBalance >= EntryNeeds
  /\ CountToday < MaxPlacements
  /\ Health # "critical"

CheckPostFlight(op, slow) ==
  latencies' = KeepLast(Append(latencies, [op |-> op, slow |-> slow]), MaxLatencies)

Enter(slow) ==
  /\ CheckPreFlight
  /\ counterDay' = today /\ entryCount' = CountToday + 1 /\ enteredToday' = enteredToday + 1
  /\ CheckPostFlight("PLACED", slow)
  /\ UNCHANGED <<snapshots, unparseable, today>>

LeaveBet(slow) ==
  /\ CheckPostFlight("CASHED_OUT", slow)
  /\ UNCHANGED <<snapshots, unparseable, today, counterDay, entryCount, enteredToday>>

Midnight ==
  /\ today < MaxDays /\ today' = today + 1 /\ enteredToday' = 0
  /\ UNCHANGED <<snapshots, unparseable, latencies, counterDay, entryCount>>

ClearLatencyHistory ==
  /\ latencies' = <<>>
  /\ UNCHANGED <<snapshots, unparseable, today, counterDay, entryCount, enteredToday>>

SafeNext ==
  \/ ClearTracker \/ Midnight \/ ClearLatencyHistory
  \/ \E b \in {EntryNeeds - 1, EntryNeeds} : RecordBalance(b)
  \/ \E is \in BOOLEAN : MarkUnparseable(is) \/ Enter(is) \/ LeaveBet(is)
-----------------------------------------------------------------------------
(* Serializable transactions on the day's row.  A transaction sees the     *)
(* database as of its first statement; when it gets to the row and that    *)
(* was updated since, PostgreSQL refuses it (40001), as it may at COMMIT.  *)
SlotInit ==
  /\ txAt = [w \in Writers |-> "idle"] /\ txWants = [w \in Writers |-> "reserve"]
  /\ txTries = [w \in Writers |-> 0] /\ outdated = {}
  /\ rowLock = "free" /\ slotsReserved = 0 /\ slotsConfirmed = 0
  /\ taken = [w \in Writers |-> 0]
  /\ readAt = "idle" /\ readConfirmed = 0 /\ riskCount = 0 /\ slotsAtRead = 0

noRead == <<readAt, readConfirmed, riskCount, slotsAtRead>>
noRow == <<outdated, slotsReserved, slotsConfirmed, taken>>

BeginTx(w) ==
  /\ txAt[w] = "idle" /\ txAt' = [txAt EXCEPT ![w] = "waiting"]
  /\ outdated' = outdated \ {w} /\ txTries' = [txTries EXCEPT ![w] = @ + 1]
  /\ UNCHANGED <<txWants, rowLock, slotsReserved, slotsConfirmed, taken, noRead>>

(* Rolled back; 40001 is tried again, everything else is the caller's.     *)
AfterRollback(w, serialization) ==
  txAt' = [txAt EXCEPT ![w] = IF serialization /\ txTries[w] < MaxAttempts THEN "idle" ELSE "thrown"]

LockDailyStats(w) ==
  /\ txAt[w] = "waiting" /\ rowLock = "free"
  /\ IF w \in outdated
     THEN AfterRollback(w, TRUE) /\ UNCHANGED rowLock
     ELSE rowLock' = w /\ txAt' = [txAt EXCEPT ![w] = "holds"]
  /\ UNCHANGED <<txWants, txTries, noRow, noRead>>

SlotFree == slotsReserved + slotsConfirmed < SlotLimit

(* What a transaction did to the row, once it has committed.               *)
Applied(w) ==
  /\ outdated' = {v \in Writers : txAt[v] = "waiting"}
  /\ slotsReserved' = IF txWants[w] = "reserve" THEN slotsReserved + 1 ELSE slotsReserved - 1
  /\ slotsConfirmed' = IF txWants[w] = "confirm" THEN slotsConfirmed + 1 ELSE slotsConfirmed
  /\ taken' = [taken EXCEPT ![w] = IF txWants[w] = "reserve" THEN @ + 1
                                   ELSE IF txWants[w] = "release" THEN @ - 1 ELSE @]

Commit(w) ==
  /\ txAt[w] = "holds" /\ rowLock' = "free"
  /\ IF txWants[w] = "reserve" /\ ~SlotFree
     THEN /\ txAt' = [txAt EXCEPT ![w] = "refused"]
          /\ UNCHANGED <<txWants, noRow>>
     ELSE /\ Applied(w)
          /\ txAt' = [txAt EXCEPT ![w] = IF txWants[w] = "reserve" THEN "placing" ELSE "done"]
          /\ UNCHANGED txWants
  /\ UNCHANGED <<txTries, noRead>>

(* A mutant: every error is tried again.                                   *)
AnyErrorAgain(w, serialization) == AfterRollback(w, TRUE)
OnError(w, serialization) == AfterRollback(w, serialization)

CommitFails(w) ==
  /\ txAt[w] = "holds" /\ rowLock' = "free"
  /\ \/ OnError(w, TRUE) /\ UNCHANGED noRow          \* serialization failure
     \/ OnError(w, FALSE) /\ UNCHANGED noRow         \* connection lost before it
     \/ /\ OnError(w, FALSE)                         \* and after it
        /\ txWants[w] = "reserve" => SlotFree
        /\ Applied(w)
  /\ UNCHANGED <<txWants, txTries, noRead>>

(* The bet was placed, or was not.                                         *)
AfterPlacing(w) ==
  /\ txAt[w] = "placing" /\ txAt' = [txAt EXCEPT ![w] = "idle"]
  /\ txTries' = [txTries EXCEPT ![w] = 0]
  /\ \E op \in {"confirm", "release"} : txWants' = [txWants EXCEPT ![w] = op]
  /\ UNCHANGED <<rowLock, noRow, noRead>>

(* refreshDailyEntries: two queries, the confirmed entries first.          *)
(* ReservedFirst is a mutant.                                              *)
ReservedFirst == slotsReserved
FirstRead == slotsConfirmed
SecondRead == slotsReserved

ReadConfirmed ==
  /\ readAt = "idle" /\ readAt' = "between" /\ readConfirmed' = FirstRead
  /\ UNCHANGED <<txAt, txWants, txTries, rowLock, noRow, riskCount, slotsAtRead>>

ReadReserved ==
  /\ readAt = "between" /\ readAt' = "idle"
  /\ \/ riskCount' = readConfirmed + SecondRead
        /\ slotsAtRead' = slotsReserved + slotsConfirmed
     \/ UNCHANGED <<riskCount, slotsAtRead>>   \* a query fails, and there is no counter to ask
  /\ readConfirmed' = 0
  /\ UNCHANGED <<txAt, txWants, txTries, rowLock, noRow>>

SlotsNext ==
  \/ ReadConfirmed \/ ReadReserved
  \/ \E w \in Writers : BeginTx(w) \/ LockDailyStats(w) \/ Commit(w) \/ CommitFails(w) \/ AfterPlacing(w)
-----------------------------------------------------------------------------
(* The confirmation of one bet or cash-out; the page may still show the    *)
(* last bet, and the WebSocket speaks of every bet.                        *)
ConfirmInit ==
  /\ strict \in BOOLEAN /\ accepted = FALSE /\ indicator = FALSE
  /\ hooked = "no" /\ wsBuffer = {} /\ observed = "polling"

Frames == {"this bet", "this bet, no multiplier", "another bet"}

AttachWebSocketListener ==
  /\ hooked = "no" /\ hooked' = "next page"
  /\ UNCHANGED <<strict, accepted, indicator, wsBuffer, observed>>

PageNavigated ==
  /\ hooked' = IF hooked = "no" THEN "no" ELSE "yes"
  /\ wsBuffer' = {} /\ indicator' \in BOOLEAN
  /\ UNCHANGED <<strict, accepted, observed>>

ServerAccepts ==
  /\ ~accepted /\ accepted' = TRUE
  /\ UNCHANGED <<strict, indicator, hooked, wsBuffer, observed>>

PageShows(is) == indicator' = is /\ UNCHANGED <<strict, accepted, hooked, wsBuffer, observed>>

(* Frames about this bet come once the server has it.                      *)
CrashFrameArrives(f) ==
  /\ f # "another bet" => accepted
  /\ wsBuffer' = IF hooked = "yes" THEN wsBuffer \cup {f} ELSE wsBuffer
  /\ UNCHANGED <<strict, accepted, indicator, hooked, observed>>

BufferEmptied == wsBuffer' = {} /\ UNCHANGED <<strict, accepted, indicator, hooked, observed>>

(* One look in the loop until the deadline.  The reader answers, says      *)
(* nothing or fails; without one strict mode waits.  Otherwise the page    *)
(* counts, or a frame that names the bet and, for a cash-out, how much.    *)
(* In SignalsAlways, a mutant, they do in strict mode too.                 *)
SignalsAlways == TRUE
SignalsCount == ~strict

Poll ==
  /\ observed = "polling"
  /\ \/ strict /\ accepted
     \/ SignalsCount /\ (indicator \/ "this bet" \in wsBuffer)
  /\ observed' = "confirmed"
  /\ UNCHANGED <<strict, accepted, indicator, hooked, wsBuffer>>

Deadline ==
  /\ observed = "polling" /\ observed' = "unknown"
  /\ UNCHANGED <<strict, accepted, indicator, hooked, wsBuffer>>

ConfirmNext ==
  \/ AttachWebSocketListener \/ PageNavigated \/ ServerAccepts \/ BufferEmptied \/ Poll \/ Deadline
  \/ \E is \in BOOLEAN : PageShows(is)
  \/ \E f \in Frames : CrashFrameArrives(f)
-----------------------------------------------------------------------------
GateInit == CapitalInit /\ SafeInit /\ SlotInit /\ ConfirmInit

(* Whether real money may be staked is asked in two ways: yes or no, and   *)
(* why not.  The mode is the caller's, or the environment's.               *)
Modes == {"live", "dry-run", "observe-only"}
Environments == [given : Modes \cup {"none"}, env : Modes \cup {"none"}, dryRun : BOOLEAN,
                 asked : BOOLEAN, allowReal : BOOLEAN]
IsDryRunMode(e) == e.env = "dry-run" \/ e.dryRun \/ e.asked
EffectiveMode(e) == IF e.given = "none" THEN e.env ELSE e.given
IsRealExecutionAllowed(e) == ~IsDryRunMode(e) /\ EffectiveMode(e) = "live" /\ e.allowReal
RealExecutionBlockReason(e) ==
  IF IsDryRunMode(e) THEN "dry run"
  ELSE IF EffectiveMode(e) # "live" \/ ~e.allowReal THEN "not enabled"
  ELSE "none"
ResolvePlacementPath(mode, liveBound, mockBound) ==
  IF mode = "live" /\ liveBound THEN "live-bet-executor"
  ELSE IF mode = "dry-run" /\ mockBound THEN "mock-bet-executor"
  ELSE "none"

(* computeExpectedBalance: from the last snapshot, or from the newest      *)
(* bet's balance_before, plus the result of every settled bet created      *)
(* after the snapshot.  pnls are the results of the bets in order, the     *)
(* snapshot was taken after the first k (none: k = -1).                    *)
SumOf(seq) ==
  LET sum[i \in 0..Len(seq)] == IF i = 0 THEN 0 ELSE sum[i - 1] + seq[i]
  IN sum[Len(seq)]
ActualAfter(start, pnls, k) == start + SumOf(SubSeq(pnls, 1, k))
ExpectedBalance(start, pnls, k) ==
  IF k >= 0 THEN ActualAfter(start, pnls, k) + SumOf(SubSeq(pnls, k + 1, Len(pnls)))
  ELSE ActualAfter(start, pnls, Len(pnls) - 1) + SumOf(pnls)

(* getTrend over the last n snapshots: the sum of the changes.             *)
TrendOf(balances, n) ==
  LET recent == KeepLast(balances, n) IN
  IF Len(recent) < 2 THEN 0
  ELSE SumOf([i \in 1..(Len(recent) - 1) |-> recent[i + 1] - recent[i]])

(* ReconciliationEngine.reconcile, and canAutoReconcile, for a bet of      *)
(* stake 1 and target 3.                                                   *)
Evidence == [api : {"cash-out", "no multiplier", "lost", "silent"}, change : {2, -1, 0, 5},
             isolated : BOOLEAN, crash : {"none", "below", "above"}]
Resolution(e) ==
  IF e.api = "cash-out" THEN "CASHED_OUT"
  ELSE IF e.api = "lost" THEN "LOST"
  ELSE IF ~e.isolated THEN "UNKNOWN"
  ELSE IF e.change = 2 THEN "CASHED_OUT"
  ELSE IF e.change = -1 THEN "LOST"
  ELSE IF e.change = 0 THEN "FAILED"
  ELSE "UNKNOWN"
CanAutoReconcile(e) == e.api \in {"cash-out", "lost"} \/ (e.isolated /\ e.change # 0)
-----------------------------------------------------------------------------
GateTypeOK ==
  /\ peak \in 0..Bankroll /\ bankroll \in 0..peak /\ capitalLocked \in BOOLEAN
  /\ Len(snapshots) <= MaxSnapshots /\ unparseable \in BOOLEAN /\ Len(latencies) <= MaxLatencies
  /\ counterDay \in 0..today /\ entryCount \in 0..MaxPlacements
  /\ txAt \in [Writers -> {"idle", "waiting", "holds", "placing", "done", "refused", "thrown"}]
  /\ txTries \in [Writers -> 0..MaxAttempts] /\ rowLock \in Writers \cup {"free"}
  /\ slotsReserved \in 0..SlotLimit /\ slotsConfirmed \in 0..SlotLimit
  /\ readAt \in {"idle", "between"} /\ wsBuffer \subseteq Frames
  /\ hooked \in {"no", "next page", "yes"} /\ observed \in {"polling", "confirmed", "unknown"}

(* Once a balance was at the floor or too far below the peak, no bet is    *)
(* allowed until an operator unlocks, even when the balance is back.       *)
(* (in-memory-limits.ts evaluate, unlock)                                  *)
CapitalLockHolds == breached => \A stake \in 1..MaxStake : ~CanPlaceBet(stake)

(* The limit of a day is a limit of entries on that day, wherever midnight *)
(* falls between the look at the counter and its increment.                *)
(* (daily-entries.ts DailyEntryCounter)                                    *)
CounterIsToday == enteredToday = CountToday /\ enteredToday <= MaxPlacements

(* However many writers, attempts and lost answers: a bet takes at most    *)
(* one slot, the row counts the slots taken, and they are within the       *)
(* limit.  A refused one took none.  (withSerializableTransaction)         *)
SlotsOnce ==
  /\ \A w \in Writers : taken[w] \in 0..1 /\ (txAt[w] = "refused" => taken[w] = 0)
  /\ slotsReserved + slotsConfirmed = Cardinality({w \in Writers : taken[w] = 1})
  /\ slotsReserved + slotsConfirmed <= SlotLimit

(* The risk check never sees more entries than there are, so it refuses    *)
(* none that has room: an entry confirmed between its two queries is       *)
(* missed, never counted twice.  (risk-state-provider.ts                   *)
(* refreshDailyEntries)                                                    *)
ReadNeverOvercounts == riskCount <= slotsAtRead

(* In strict mode nothing but the server's answer confirms: no indicator   *)
(* left over from another bet, no frame.  (confirmation.ts)                *)
ConfirmedOnlyByReader == strict /\ observed = "confirmed" => accepted

(* Both gates of the mode say the same, and no other mode is live.         *)
GatesAgree ==
  \A e \in Environments :
    /\ IsRealExecutionAllowed(e) <=> RealExecutionBlockReason(e) = "none"
    /\ IsRealExecutionAllowed(e) =>
         ResolvePlacementPath(EffectiveMode(e), TRUE, TRUE) = "live-bet-executor"

(* The expected balance is the actual one from a snapshot on; without one  *)
(* only for a first bet, since the results of earlier bets are in its      *)
(* balance_before and are added again.                                     *)
ExpectedIsActual ==
  \A pnls \in BoundedSeq({-1, 2}, 3) : \A k \in -1..Len(pnls) :
    (k >= 0 \/ Len(pnls) = 1) => ExpectedBalance(5, pnls, k) = ActualAfter(5, pnls, Len(pnls))

(* The trend is the difference of the ends of the window.                  *)
TrendIsEndToEnd ==
  \A balances \in BoundedSeq(0..2, 4) : \A n \in 2..3 :
    LET recent == KeepLast(balances, n) IN
    TrendOf(balances, n) = IF recent = <<>> THEN 0 ELSE Last(recent) - Head(recent)

(* What the crash point was settles no bet; what can be resolved without   *)
(* an operator is resolved only with an authoritative answer, or with a    *)
(* change that is the bet's alone.  (reconciliation.ts)                    *)
NeverByCrashPoint ==
  \A e \in Evidence :
    /\ \A c \in {"none", "below", "above"} : Resolution([e EXCEPT !.crash = c]) = Resolution(e)
    /\ Resolution(e) \in {"CASHED_OUT", "LOST"} => CanAutoReconcile(e)
=============================================================================
