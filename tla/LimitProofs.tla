----------------------------- MODULE LimitProofs -----------------------------
(***************************************************************************)
(* What is limited and what is reported: the execution gates, the          *)
(* backtest, the login and the repositories of ticks and outcomes, as      *)
(* ControlProofs has the others.  Most of these modules take operators of  *)
(* the community modules by LOCAL INSTANCE and are kept apart from those   *)
(* that do not.                                                            *)
(***************************************************************************)
EXTENDS Gates, Validation, LoginPipeline, Repositories, Metrics, FiniteSetTheorems,
        SequenceTheorems, TLAPS
-----------------------------------------------------------------------------
(* The gates: capital, the counter of a day, its slots, confirmations.     *)
\* A breach locks, and only an operator unlocks.
CapitalInv == breached => capitalLocked

\* The day that the counter counts is not in the future.
SafeInv ==
  /\ today \in Nat /\ counterDay \in Nat /\ entryCount \in Nat /\ enteredToday \in Nat
  /\ counterDay <= today /\ CounterIsToday

\* Writers whose slot is reserved and neither confirmed nor released yet.
Owed == {w \in Writers : \/ txAt[w] = "placing"
                         \/ txWants[w] # "reserve" /\ txAt[w] \in {"idle", "waiting", "holds"}}

\* Writers that hold a slot.
Took == {w \in Writers : taken[w] = 1}

\* What a writer wants and how far it has come says what it took.
TxSteps == {"idle", "waiting", "holds", "placing", "done", "refused", "thrown"}
\* What a writer wants of the counters of a day.
TxOperations == {"reserve", "confirm", "release"}

\* Where a writer stands, what it wants and whether it holds a slot.
TakenFits(at, wants, took) ==
  /\ wants = "reserve" /\ at \in {"idle", "waiting", "holds", "refused"} => took = 0
  /\ at = "placing" => wants = "reserve" /\ took = 1
  /\ at = "refused" => wants = "reserve"
  /\ at = "done" => wants # "reserve"
  /\ wants = "confirm" => took = 1
  /\ wants = "release" /\ at \in {"idle", "waiting", "holds"} => took = 1

\* Inductive: the counters count the slots held, at most as many as there are,
\* and cover every placement under way.
SlotInv ==
  /\ txAt \in [Writers -> TxSteps] /\ txWants \in [Writers -> TxOperations]
  /\ taken \in [Writers -> 0..1]
  /\ \A w \in Writers : TakenFits(txAt[w], txWants[w], taken[w])
  /\ slotsReserved \in Nat /\ slotsConfirmed \in Nat
  /\ slotsReserved + slotsConfirmed = Cardinality(Took)
  /\ slotsReserved + slotsConfirmed <= SlotLimit
  /\ Cardinality(Owed) <= slotsReserved
  /\ readConfirmed \in Nat /\ readConfirmed <= slotsConfirmed
  /\ riskCount \in Nat /\ slotsAtRead \in Nat /\ riskCount <= slotsAtRead

\* Capital is not locked at first, and nothing is breached.
LEMMA CapitalInitInv == CapitalInit => CapitalInv
BY DEF CapitalInit, CapitalInv

\* What breaches a limit also locks.
LEMMA CapitalNextInv ==
  ASSUME CapitalInv, [CapitalNext]_capitalVars
  PROVE  CapitalInv'
<1>1. ASSUME NEW b, UpdateBalance(b) PROVE CapitalInv'
  BY <1>1 DEF UpdateBalance, CapitalEvaluated, CapitalInv
<1>2. CASE Unlock
  BY <1>2 DEF Unlock, CapitalInv
<1>3. CASE UNCHANGED capitalVars
  BY <1>3 DEF capitalVars, CapitalInv
<1> QED BY <1>1, <1>2, <1>3 DEF CapitalNext, LoseBet

\* Hence nothing is placed once a limit is breached.
LEMMA LockedPlacesNothing == CapitalInv => CapitalLockHolds
BY DEF CapitalInv, CapitalLockHolds, CanPlaceBet

\* The counter starts at zero, for the first day.
LEMMA SafeInitInv == SafeInit => SafeInv
BY GateAssumption DEF SafeInit, SafeInv, CounterIsToday, CountToday, GateAssumption

\* Entries, midnights and reads keep the counter that of its day.
LEMMA SafeNextInv ==
  ASSUME SafeInv, [SafeNext]_safeVars
  PROVE  SafeInv'
<1> USE GateAssumption DEF SafeInv, CounterIsToday, CountToday, GateAssumption
<1>1. ASSUME UNCHANGED <<today, counterDay, entryCount, enteredToday>> PROVE SafeInv'
  BY <1>1
<1>2. CASE ClearTracker \/ ClearLatencyHistory
  BY <1>1, <1>2 DEF ClearTracker, ClearLatencyHistory
<1>3. CASE Midnight
  BY <1>3 DEF Midnight
<1>4. ASSUME NEW b, RecordBalance(b) PROVE SafeInv'
  BY <1>1, <1>4 DEF RecordBalance
<1>5. ASSUME NEW is \in BOOLEAN, MarkUnparseable(is) \/ LeaveBet(is) PROVE SafeInv'
  BY <1>1, <1>5 DEF MarkUnparseable, LeaveBet
<1>6. ASSUME NEW is \in BOOLEAN, Enter(is) PROVE SafeInv'
  <2>1. /\ CountToday < MaxPlacements
        /\ counterDay' = today /\ entryCount' = CountToday + 1 /\ enteredToday' = enteredToday + 1
        /\ today' = today
    BY <1>6 DEF Enter, CheckPreFlight
  <2> QED BY <2>1
<1>7. CASE UNCHANGED safeVars
  BY <1>1, <1>7 DEF safeVars
<1> QED BY <1>2, <1>3, <1>4, <1>5, <1>6, <1>7 DEF SafeNext

\* Writers are finitely many, so their classes can be counted.
LEMMA OwedIsFinite == IsFiniteSet(Owed) /\ IsFiniteSet(Took)
BY GateAssumption, FS_Subset DEF Owed, Took, GateAssumption

\* A transaction that leaves the row alone.
LEMMA RowUntouched ==
  ASSUME SlotInv, NEW w \in Writers, NEW s \in TxSteps,
         txAt' = [txAt EXCEPT ![w] = s],
         UNCHANGED <<txWants, slotsReserved, slotsConfirmed, taken, noRead>>,
         TakenFits(s, txWants[w], taken[w]),
         \/ w \in Owed
         \/ s # "placing" /\ (txWants[w] # "reserve" => s \notin {"idle", "waiting", "holds"})
  PROVE  SlotInv'
<1>1. Owed' \subseteq Owed
  <2> SUFFICES ASSUME NEW v \in Owed' PROVE v \in Owed
    OBVIOUS
  <2>1. CASE v = w
    BY <2>1 DEF Owed, SlotInv
  <2>2. CASE v # w
    BY <2>2 DEF Owed, SlotInv
  <2> QED BY <2>1, <2>2
<1>2. Cardinality(Owed') <= Cardinality(Owed) /\ Cardinality(Owed) \in Nat /\ Cardinality(Owed') \in Nat
  BY <1>1, OwedIsFinite, FS_Subset, FS_CardinalityType
<1>3. \A v \in Writers : TakenFits(txAt'[v], txWants'[v], taken'[v])
  BY DEF SlotInv
<1>4. txAt' \in [Writers -> TxSteps]
  BY DEF SlotInv
<1>5. Took' = Took
  BY DEF Took
<1> HIDE DEF TakenFits
<1> QED BY <1>2, <1>3, <1>4, <1>5 DEF SlotInv, noRead

\* A transaction that commits does to the row what its writer wants, once.
LEMMA RowApplied ==
  ASSUME SlotInv, NEW w \in Writers, txAt[w] = "holds", Applied(w),
         txWants[w] = "reserve" => SlotFree,
         NEW s \in {"placing", "done", "thrown"},
         s = "placing" => txWants[w] = "reserve",
         s = "done" => txWants[w] # "reserve",
         txAt' = [txAt EXCEPT ![w] = s], UNCHANGED <<txWants, noRead>>
  PROVE  SlotInv'
<1>1. /\ TakenFits("holds", txWants[w], taken[w])
      /\ IsFiniteSet(Owed) /\ IsFiniteSet(Took)
      /\ Cardinality(Owed) \in Nat /\ Cardinality(Took) \in Nat
  BY OwedIsFinite, FS_CardinalityType DEF SlotInv
<1>2. txWants[w] \in {"reserve", "confirm", "release"}
  BY DEF SlotInv, TxOperations
<1>3. CASE txWants[w] = "reserve"
  <2>1. /\ taken[w] = 0 /\ taken' = [taken EXCEPT ![w] = 1]
        /\ slotsReserved' = slotsReserved + 1 /\ slotsConfirmed' = slotsConfirmed
    BY <1>1, <1>3 DEF Applied, TakenFits, SlotInv
  <2>2. Took' = Took \cup {w} /\ w \notin Took
    BY <2>1 DEF SlotInv, Took
  <2>3. Owed' \subseteq Owed \cup {w} /\ w \notin Owed
    BY <1>3 DEF Owed, SlotInv
  <2>4. /\ Cardinality(Took') = Cardinality(Took) + 1
        /\ Cardinality(Owed \cup {w}) = Cardinality(Owed) + 1
        /\ IsFiniteSet(Owed \cup {w})
    BY <1>1, <2>2, <2>3, FS_AddElement
  <2>5. Cardinality(Owed') <= Cardinality(Owed) + 1 /\ Cardinality(Owed') \in Nat
    BY <2>3, <2>4, FS_Subset, FS_CardinalityType
  <2>6. \A v \in Writers : TakenFits(txAt'[v], txWants'[v], taken'[v])
    BY <1>1, <1>3, <2>1 DEF SlotInv, TakenFits
  <2>7. txAt' \in [Writers -> TxSteps] /\ taken' \in [Writers -> 0..1]
    BY <2>1 DEF SlotInv, TxSteps
  <2>8. slotsReserved' + slotsConfirmed' <= SlotLimit
    BY <1>3, <2>1, GateAssumption DEF SlotFree, SlotInv, GateAssumption
  <2>9. slotsReserved' + slotsConfirmed' = Cardinality(Took')
    BY <2>1, <2>4 DEF SlotInv
  <2> QED BY <1>1, <2>1, <2>5, <2>6, <2>7, <2>8, <2>9 DEF SlotInv, noRead
<1>4. CASE txWants[w] # "reserve"
  <2>1. s \in {"done", "thrown"} /\ w \in Owed
    BY <1>4 DEF Owed
  <2>2. Owed' = Owed \ {w}
    BY <1>4, <2>1 DEF Owed, SlotInv
  <2>3. Cardinality(Owed') = Cardinality(Owed) - 1
    BY <1>1, <2>1, <2>2, FS_RemoveElement
  <2>4. IsFiniteSet(Owed') /\ Cardinality(Owed') \in Nat /\ txAt' \in [Writers -> TxSteps]
    BY <1>1, <2>2, FS_RemoveElement, FS_CardinalityType DEF SlotInv, TxSteps
  <2>5. taken[w] = 1 /\ slotsReserved' = slotsReserved - 1 /\ slotsReserved' \in Nat
    BY <1>1, <1>2, <1>4, <2>3, <2>4 DEF Applied, TakenFits, SlotInv
  <2>6. CASE txWants[w] = "confirm"
    <3>1. taken' = taken /\ Took' = Took /\ slotsConfirmed' = slotsConfirmed + 1
      BY <2>6 DEF Applied, SlotInv, Took
    <3>2. \A v \in Writers : TakenFits(txAt'[v], txWants'[v], taken'[v])
      BY <1>1, <2>1, <2>6, <3>1 DEF SlotInv, TakenFits
    <3>3. slotsReserved' + slotsConfirmed' = Cardinality(Took')
      BY <2>5, <3>1 DEF SlotInv
    <3> QED BY <1>1, <2>3, <2>4, <2>5, <3>1, <3>2, <3>3 DEF SlotInv, noRead
  <2>7. CASE txWants[w] = "release"
    <3>1. taken' = [taken EXCEPT ![w] = 0] /\ slotsConfirmed' = slotsConfirmed
      BY <2>5, <2>7 DEF Applied, SlotInv
    <3>2. \A v \in Writers : TakenFits(txAt'[v], txWants'[v], taken'[v])
      BY <1>1, <2>1, <2>7, <3>1 DEF SlotInv, TakenFits
    <3>3. Took' = Took \ {w} /\ w \in Took
      BY <2>5, <3>1 DEF SlotInv, Took
    <3>4. Cardinality(Took') = Cardinality(Took) - 1
      BY <1>1, <3>3, FS_RemoveElement
    <3>5. slotsReserved' + slotsConfirmed' = Cardinality(Took')
      BY <2>5, <3>1, <3>4 DEF SlotInv
    <3>6. taken' \in [Writers -> 0..1]
      BY <3>1 DEF SlotInv
    <3> QED BY <1>1, <2>3, <2>4, <2>5, <3>1, <3>2, <3>5, <3>6, GateAssumption
           DEF SlotInv, noRead, GateAssumption
  <2> QED BY <1>2, <1>4, <2>6, <2>7
<1> QED BY <1>3, <1>4

\* Nobody holds a slot at first.
LEMMA SlotInitInv == SlotInit => SlotInv
<1> SUFFICES ASSUME SlotInit PROVE SlotInv
  OBVIOUS
<1>1. Owed = {} /\ Took = {}
  BY DEF SlotInit, Owed, Took
<1>2. Cardinality(Owed) = 0 /\ Cardinality(Took) = 0
  BY <1>1, FS_EmptySet
<1>3. \A w \in Writers : TakenFits(txAt[w], txWants[w], taken[w])
  BY DEF SlotInit, TakenFits
<1>4. /\ txAt \in [Writers -> TxSteps] /\ txWants \in [Writers -> TxOperations]
      /\ taken \in [Writers -> 0..1]
  BY DEF SlotInit, TxSteps, TxOperations
<1> QED BY <1>2, <1>3, <1>4, GateAssumption DEF SlotInit, SlotInv, GateAssumption

\* Reservations, confirmations, releases and reads keep it.
LEMMA SlotNextInv ==
  ASSUME SlotInv, [SlotsNext]_slotVars
  PROVE  SlotInv'
<1>1. \A w \in Writers : TakenFits(txAt[w], txWants[w], taken[w])
  BY DEF SlotInv
<1>r. ASSUME NEW w \in Writers, NEW again, AfterRollback(w, again), txAt[w] \in {"waiting", "holds"},
             UNCHANGED <<txWants, slotsReserved, slotsConfirmed, taken, noRead>>
      PROVE  SlotInv'
  <2>1. PICK s \in {"idle", "thrown"} : txAt' = [txAt EXCEPT ![w] = s]
    BY <1>r DEF AfterRollback
  <2>2. TakenFits(s, txWants[w], taken[w])
    BY <1>1, <1>r DEF TakenFits
  <2>3. w \in Owed \/ (s # "placing" /\ (txWants[w] # "reserve" => s \notin {"idle", "waiting", "holds"}))
    BY <1>r DEF Owed
  <2> QED BY <1>r, <2>1, <2>2, <2>3, RowUntouched DEF TxSteps
<1>2. ASSUME NEW w \in Writers, BeginTx(w) PROVE SlotInv'
  <2>1. TakenFits("waiting", txWants[w], taken[w]) /\ (w \in Owed \/ txWants[w] = "reserve")
    BY <1>1, <1>2 DEF BeginTx, TakenFits, Owed
  <2> QED BY <1>2, <2>1, RowUntouched DEF BeginTx, noRead, TxSteps
<1>3. ASSUME NEW w \in Writers, LockDailyStats(w) PROVE SlotInv'
  <2>1. TakenFits("holds", txWants[w], taken[w]) /\ (w \in Owed \/ txWants[w] = "reserve")
    BY <1>1, <1>3 DEF LockDailyStats, TakenFits, Owed
  <2>2. CASE w \in outdated
    BY <1>3, <1>r, <2>2 DEF LockDailyStats, noRow, noRead
  <2>3. CASE w \notin outdated
    BY <1>3, <2>1, <2>3, RowUntouched DEF LockDailyStats, noRow, noRead, TxSteps
  <2> QED BY <2>2, <2>3
<1>4. ASSUME NEW w \in Writers, Commit(w) PROVE SlotInv'
  <2>1. CASE txWants[w] = "reserve" /\ ~SlotFree
    <3>1. TakenFits("refused", txWants[w], taken[w])
      BY <1>1, <1>4, <2>1 DEF Commit, TakenFits
    <3> QED BY <1>4, <2>1, <3>1, RowUntouched DEF Commit, noRow, noRead, TxSteps
  <2>2. CASE ~(txWants[w] = "reserve" /\ ~SlotFree)
    BY <1>4, <2>2, RowApplied DEF Commit
  <2> QED BY <2>1, <2>2
<1>5. ASSUME NEW w \in Writers, CommitFails(w) PROVE SlotInv'
  <2>1. CASE UNCHANGED noRow /\ \E again : OnError(w, again)
    BY <1>5, <1>r, <2>1 DEF CommitFails, OnError, noRow, noRead
  <2>2. CASE OnError(w, FALSE) /\ (txWants[w] = "reserve" => SlotFree) /\ Applied(w)
    BY <1>5, <2>2, RowApplied DEF CommitFails, OnError, AfterRollback
  <2> QED BY <1>5, <2>1, <2>2 DEF CommitFails
<1>6. ASSUME NEW w \in Writers, AfterPlacing(w) PROVE SlotInv'
  <2>1. PICK op \in {"confirm", "release"} : txWants' = [txWants EXCEPT ![w] = op]
    BY <1>6 DEF AfterPlacing
  <2>2. txAt[w] = "placing" /\ txAt' = [txAt EXCEPT ![w] = "idle"]
    BY <1>6 DEF AfterPlacing
  <2>3. \A v \in Writers : TakenFits(txAt'[v], txWants'[v], taken'[v])
    BY <1>1, <1>6, <2>1, <2>2 DEF AfterPlacing, noRow, TakenFits, SlotInv
  <2>4. Owed' = Owed
    BY <2>1, <2>2 DEF Owed, SlotInv
  <2>5. txAt' \in [Writers -> TxSteps] /\ txWants' \in [Writers -> TxOperations] /\ Took' = Took
    BY <1>6, <2>1, <2>2 DEF AfterPlacing, noRow, SlotInv, TxSteps, TxOperations, Took
  <2> QED BY <1>6, <2>3, <2>4, <2>5 DEF AfterPlacing, SlotInv, noRow, noRead
<1>7. CASE ReadConfirmed
  BY <1>1, <1>7 DEF ReadConfirmed, FirstRead, SlotInv, noRow, Owed, Took
<1>8. CASE ReadReserved
  BY <1>1, <1>8 DEF ReadReserved, SecondRead, SlotInv, noRow, Owed, Took
<1>9. CASE UNCHANGED slotVars
  BY <1>1, <1>9 DEF slotVars, SlotInv, Owed, Took
<1> QED BY <1>2, <1>3, <1>4, <1>5, <1>6, <1>7, <1>8, <1>9 DEF SlotsNext

\* Hence a slot is taken once, and a read never counts too many.
LEMMA SlotsAreSound == SlotInv => SlotsOnce /\ ReadNeverOvercounts
BY DEF SlotInv, Took, SlotsOnce, ReadNeverOvercounts, TakenFits

\* Nothing is confirmed at first.
LEMMA ConfirmInitInv == ConfirmInit => ConfirmedOnlyByReader
BY DEF ConfirmInit, ConfirmedOnlyByReader

\* Clicks, readers and timeouts keep it.
LEMMA ConfirmNextInv ==
  ASSUME ConfirmedOnlyByReader, [ConfirmNext]_confirmVars
  PROVE  ConfirmedOnlyByReader'
BY DEF ConfirmNext, ConfirmedOnlyByReader, AttachWebSocketListener, PageNavigated, ServerAccepts,
       BufferEmptied, Poll, SignalsCount, Deadline, PageShows, CrashFrameArrives, confirmVars

\* Hence no day has more entries than its limit.
LEMMA CounterHolds == SafeInv => CounterIsToday
BY DEF SafeInv, CounterIsToday
-----------------------------------------------------------------------------
(* The backtest: its curve, its falls and its entries of a day.            *)
\* The falls of a curve: none above worst, and one of exactly that.
Falls(s, worst) ==
  /\ \A i, j \in 1..Len(s) : i <= j => s[i] - s[j] <= worst
  /\ \E i, j \in 1..Len(s) : i <= j /\ s[i] - s[j] = worst
\* Its end is the equity, and its highest point the peak.
EndsAt(s, e, top) ==
  /\ s \in Seq(Nat) /\ Len(s) >= 1 /\ s[Len(s)] = e
  /\ \A i \in 1..Len(s) : s[i] <= top
  /\ \E i \in 1..Len(s) : s[i] = top
\* The fall from the peak passes the limit by less than a stake.
FallLimited(e, top) == (top - e) * 100 < SimDrawdown * top + 100 * SimStake

\* Inductive: the curve ends at the equity and peaks at the peak, its falls
\* are recorded, and the last day counts the last entries.
SimulatedInv ==
  /\ simDay \in Nat /\ simEntries \in 0..SimDaily
  /\ equity \in Nat /\ peakEquity \in Nat /\ worstDrawdown \in Nat
  /\ entriesOn \in [1..MaxSimDays -> 0..SimDaily]
  /\ simDay \in 1..MaxSimDays => entriesOn[simDay] = simEntries
  /\ \A d \in 1..MaxSimDays : d > simDay => entriesOn[d] = 0
  /\ EndsAt(curve, equity, peakEquity) /\ Falls(curve, worstDrawdown)
  /\ FallLimited(equity, peakEquity)

\* A share, rounded down, below c is a part below c times the whole.
LEMMA ShareBelow ==
  ASSUME NEW a \in Nat, NEW b \in Nat, b > 0, NEW c \in Nat, a \div b < c
  PROVE  a < c * b
<1>1. PICK q \in Int : q = a \div b
  OBVIOUS
<1>2. PICK r \in Int : r = a % b /\ 0 <= r /\ r < b
  OBVIOUS
<1>3. a = q * b + r
  BY <1>1, <1>2
<1>4. q + 1 <= c
  BY <1>1
<1>5. (q + 1) * b <= c * b
  BY <1>4
<1> QED BY <1>2, <1>3, <1>5

\* A curve of one point has not fallen.
LEMMA NothingFallen ==
  ASSUME NEW e \in Nat
  PROVE  EndsAt(<<e>>, e, e) /\ Falls(<<e>>, 0)
BY DEF EndsAt, Falls

\* At the peak the limit is kept.
LEMMA LimitedAtPeak ==
  ASSUME NEW e \in Nat
  PROVE  FallLimited(e, e)
<1>1. SimDrawdown \in Nat /\ SimStake \in Nat /\ SimStake >= 1
  BY ValidationAssumption DEF ValidationAssumption
<1>2. PICK p \in Nat : p = SimDrawdown * e
  BY <1>1
<1>3. FallLimited(e, e) <=> (e - e) * 100 < p + 100 * SimStake
  BY <1>2 DEF FallLimited
<1> QED BY <1>1, <1>3

\* A backtest starts with its balance, at its peak.
LEMMA SimulatedInitInv == ValidationInit => SimulatedInv
<1> SUFFICES ASSUME ValidationInit PROVE SimulatedInv
  OBVIOUS
<1>1. SimBalance \in Nat /\ SimDaily \in Nat /\ MaxSimDays \in Nat
  BY ValidationAssumption DEF ValidationAssumption
<1>2. EndsAt(<<SimBalance>>, SimBalance, SimBalance) /\ Falls(<<SimBalance>>, 0)
  BY <1>1, NothingFallen
<1>3. FallLimited(SimBalance, SimBalance)
  BY <1>1, LimitedAtPeak
<1> QED BY <1>1, <1>2, <1>3 DEF ValidationInit, SimulatedInv

\* A point more: the peak and the worst fall are those of the new curve.
LEMMA CurveGrows ==
  ASSUME NEW s, NEW e \in Nat, NEW top \in Nat, NEW worst \in Nat, NEW f \in Nat,
         EndsAt(s, e, top), Falls(s, worst)
  PROVE  /\ EndsAt(Append(s, f), f, LargerOf(top, f))
         /\ Falls(Append(s, f), LargerOf(worst, LargerOf(top, f) - f))
<1>1. PICK n \in Nat : n = Len(s)
  BY DEF EndsAt
<1>2. PICK t : t = Append(s, f)
  OBVIOUS
<1>3. s \in Seq(Nat) /\ n >= 1 /\ \A i \in 1..n : s[i] \in Nat
  BY <1>1 DEF EndsAt
<1>4. t \in Seq(Nat) /\ Len(t) = n + 1 /\ t[n + 1] = f /\ \A i \in 1..n : t[i] = s[i]
  BY <1>1, <1>2, <1>3
<1>5. PICK q \in Nat : q = LargerOf(top, f) /\ q >= top /\ q >= f /\ (q = top \/ q = f)
  BY DEF LargerOf
<1>d. PICK g \in Nat : g = q - f
  BY <1>5
<1>e. PICK w \in Nat : w = LargerOf(worst, g) /\ w >= worst /\ w >= g /\ (w = worst \/ w = g)
  BY DEF LargerOf
<1>6. w = LargerOf(worst, q - f) /\ w >= worst /\ w >= q - f /\ (w = worst \/ w = q - f)
  BY <1>d, <1>e
<1>a. \A i \in 1..n : s[i] <= top
  BY <1>1 DEF EndsAt
<1>b. PICK k \in 1..n : s[k] = top
  BY <1>1 DEF EndsAt
<1>7. ASSUME NEW i \in 1..(n + 1) PROVE t[i] \in Nat /\ t[i] <= q
  <2>1. CASE i = n + 1
    BY <2>1, <1>4, <1>5
  <2>2. CASE i # n + 1
    <3>1. i \in 1..n
      BY <2>2
    <3>2. t[i] = s[i] /\ s[i] \in Nat /\ s[i] <= top
      BY <3>1, <1>3, <1>4, <1>a, <1>1
    <3> QED BY <3>2, <1>5
  <2> QED BY <2>1, <2>2
<1>8. \E i \in 1..(n + 1) : t[i] = q
  BY <1>4, <1>5, <1>b
<1>9. EndsAt(t, f, q)
  <2>1. Len(t) = n + 1 /\ Len(t) >= 1 /\ t[Len(t)] = f
    BY <1>4
  <2>2. \A i \in 1..Len(t) : t[i] <= q
    BY <1>7, <2>1
  <2>3. \E i \in 1..Len(t) : t[i] = q
    BY <1>8, <2>1
  <2> QED BY <1>4, <2>1, <2>2, <2>3 DEF EndsAt
<1>10. \A i, j \in 1..n : i <= j => s[i] - s[j] <= worst
  BY <1>1 DEF Falls
<1>11. PICK c \in 1..n, d \in 1..n : c <= d /\ s[c] - s[d] = worst
  BY <1>1 DEF Falls
<1>12. ASSUME NEW i \in 1..(n + 1), NEW j \in 1..(n + 1), i <= j PROVE t[i] - t[j] <= w
  <2>1. CASE j = n + 1
    BY <2>1, <1>4, <1>6, <1>7, SMTT(30)
  <2>2. CASE j # n + 1
    <3>1. i \in 1..n /\ j \in 1..n
      BY <2>2, <1>12
    <3>2. s[i] - s[j] <= worst /\ s[i] \in Nat /\ s[j] \in Nat /\ t[i] = s[i] /\ t[j] = s[j]
      BY <3>1, <1>12, <1>10, <1>3, <1>4
    <3> QED BY <3>2, <1>6
  <2> QED BY <2>1, <2>2
<1>13. \E i, j \in 1..(n + 1) : i <= j /\ t[i] - t[j] = w
  <2>1. CASE w = worst
    <3>1. c \in 1..(n + 1) /\ d \in 1..(n + 1) /\ t[c] - t[d] = w
      BY <2>1, <1>4, <1>11
    <3> QED BY <3>1, <1>11
  <2>2. CASE w = q - f
    <3>1. PICK i \in 1..(n + 1) : t[i] = q
      BY <1>8
    <3>2. n + 1 \in 1..(n + 1) /\ i <= n + 1 /\ t[i] - t[n + 1] = w
      BY <3>1, <2>2, <1>4
    <3> QED BY <3>2
  <2> QED BY <2>1, <2>2, <1>6
<1>14. Falls(t, w)
  BY <1>4, <1>12, <1>13 DEF Falls
<1> QED BY <1>2, <1>5, <1>6, <1>9, <1>14

\* A round without an entry repeats the last point.
LEMMA CurveStays ==
  ASSUME NEW s, NEW e \in Nat, NEW top \in Nat, NEW worst \in Nat,
         EndsAt(s, e, top), Falls(s, worst)
  PROVE  EndsAt(Append(s, e), e, top) /\ Falls(Append(s, e), worst)
<1>1. /\ EndsAt(Append(s, e), e, LargerOf(top, e))
      /\ Falls(Append(s, e), LargerOf(worst, LargerOf(top, e) - e))
  BY CurveGrows
<1>2. e <= top
  BY DEF EndsAt
<1>3. LargerOf(top, e) = top
  BY <1>2 DEF LargerOf
<1>4. PICK i \in 1..Len(s) : s[i] = top
  BY DEF EndsAt
<1>5. Len(s) \in 1..Len(s) /\ i <= Len(s) /\ s[Len(s)] = e
  BY <1>4 DEF EndsAt
<1>6. top - e <= worst
  BY <1>4, <1>5 DEF Falls
<1>7. LargerOf(worst, top - e) = worst
  BY <1>6 DEF LargerOf
<1> QED BY <1>1, <1>3, <1>7

\* One entry, allowed below the limit, passes it by less than a stake.
LEMMA LimitKept ==
  ASSUME NEW e \in Nat, NEW top \in Nat, NEW f \in Nat, e <= top, e >= SimStake,
         (IF top > 0 THEN ((top - e) * 100) \div top ELSE 0) < SimDrawdown,
         f = e - SimStake \/ f = e + WinAmount
  PROVE  FallLimited(f, LargerOf(top, f))
<1>1. SimDrawdown \in Nat /\ SimStake \in Nat /\ SimStake >= 1 /\ WinAmount \in Nat
  BY ValidationAssumption DEF ValidationAssumption
<1>2. top > 0
  BY <1>1
<1>3. PICK a \in Nat : a = (top - e) * 100
  OBVIOUS
<1>4. PICK p \in Nat : p = SimDrawdown * top
  BY <1>1
<1>5. a < p
  BY <1>1, <1>2, <1>3, <1>4, ShareBelow
<1>6. CASE f > top
  <2>1. LargerOf(top, f) = f
    BY <1>6 DEF LargerOf
  <2> QED BY <2>1, LimitedAtPeak
<1>7. CASE f <= top
  <2>1. LargerOf(top, f) = top
    BY <1>7 DEF LargerOf
  <2>2. (top - f) * 100 <= a + 100 * SimStake
    BY <1>1, <1>3
  <2>3. (top - f) * 100 < p + 100 * SimStake
    BY <2>2, <1>5, <1>1
  <2> QED BY <2>1, <2>3, <1>4 DEF FallLimited
<1> QED BY <1>6, <1>7

\* Each round simulated keeps it.
LEMMA SimulatedNextInv == SimulatedInv /\ [BacktestNext]_backtestVars => SimulatedInv'
<1> SUFFICES ASSUME SimulatedInv, [BacktestNext]_backtestVars PROVE SimulatedInv'
  OBVIOUS
<1>t. SimDaily \in Nat /\ SimStake \in Nat /\ WinAmount \in Nat /\ MaxSimDays \in Nat
  BY ValidationAssumption DEF ValidationAssumption
<1>1. CASE UNCHANGED backtestVars
  BY <1>1 DEF SimulatedInv, backtestVars
<1>2. ASSUME NEW day \in {d \in simDay..(simDay + 1) : d \in 1..MaxSimDays},
             NEW good \in BOOLEAN, NEW hit \in BOOLEAN, SimulateRound(day, good, hit)
      PROVE  SimulatedInv'
  <2>1. PICK n : n = IF day # simDay THEN 0 ELSE simEntries
    OBVIOUS
  <2>2. /\ simDay \in Nat /\ day \in 1..MaxSimDays /\ day \in Nat /\ simDay <= day
        /\ n \in 0..SimDaily /\ equity \in Nat /\ peakEquity \in Nat /\ worstDrawdown \in Nat
    BY <1>t, <2>1 DEF SimulatedInv
  <2>3. entriesOn \in [1..MaxSimDays -> 0..SimDaily] /\ entriesOn[day] = n
    BY <2>1, <2>2 DEF SimulatedInv
  <2>4. \A d \in 1..MaxSimDays : d > day => entriesOn[d] = 0
    BY <2>2 DEF SimulatedInv
  <2>5. EndsAt(curve, equity, peakEquity) /\ Falls(curve, worstDrawdown)
    BY DEF SimulatedInv
  <2>6. CASE SimulatedRisk(good, n)
    <3>1. equity >= SimStake /\ n < SimDaily
      BY <2>6 DEF SimulatedRisk, StakeCovered
    <3>2. PICK f : f = IF hit THEN equity + WinAmount ELSE equity - SimStake
      OBVIOUS
    <3>3. f \in Nat /\ (f = equity - SimStake \/ f = equity + WinAmount)
      BY <1>t, <2>2, <3>1, <3>2
    <3>4. /\ simDay' = day /\ simEntries' = n + 1 /\ equity' = f /\ curve' = Append(curve, f)
          /\ peakEquity' = LargerOf(peakEquity, f)
          /\ worstDrawdown' = LargerOf(worstDrawdown, LargerOf(peakEquity, f) - f)
          /\ entriesOn' = [entriesOn EXCEPT ![day] = @ + 1]
      BY <1>2, <2>1, <2>6, <3>2 DEF SimulateRound, PeakAfter
    <3>5. /\ EndsAt(Append(curve, f), f, LargerOf(peakEquity, f))
          /\ Falls(Append(curve, f), LargerOf(worstDrawdown, LargerOf(peakEquity, f) - f))
      BY <2>2, <2>5, <3>3, CurveGrows
    <3>6. LargerOf(peakEquity, f) \in Nat /\ LargerOf(worstDrawdown, LargerOf(peakEquity, f) - f) \in Nat
      BY <2>2, <3>3 DEF LargerOf
    <3>7. equity <= peakEquity
      BY <2>5 DEF EndsAt
    <3>8. (IF peakEquity > 0 THEN ((peakEquity - equity) * 100) \div peakEquity ELSE 0) < SimDrawdown
      BY <2>6 DEF SimulatedRisk
    <3>9. FallLimited(f, LargerOf(peakEquity, f))
      BY <2>2, <3>1, <3>3, <3>7, <3>8, LimitKept
    <3>10. /\ EndsAt(curve, equity, peakEquity)' /\ Falls(curve, worstDrawdown)'
           /\ FallLimited(equity, peakEquity)'
      BY <3>4, <3>5, <3>9 DEF EndsAt, Falls, FallLimited
    <3>11. /\ entriesOn' \in [1..MaxSimDays -> 0..SimDaily] /\ entriesOn'[day] = n + 1
           /\ \A d \in 1..MaxSimDays : d > day => entriesOn'[d] = 0
      BY <1>t, <2>2, <2>3, <2>4, <3>1, <3>4
    <3> QED BY <1>t, <2>2, <3>1, <3>3, <3>4, <3>6, <3>10, <3>11 DEF SimulatedInv
  <2>7. CASE ~SimulatedRisk(good, n)
    <3>1. /\ simDay' = day /\ simEntries' = n /\ equity' = equity /\ curve' = Append(curve, equity)
          /\ UNCHANGED <<peakEquity, worstDrawdown, entriesOn>>
      BY <1>2, <2>1, <2>2, <2>7 DEF SimulateRound
    <3>2. EndsAt(Append(curve, equity), equity, peakEquity) /\ Falls(Append(curve, equity), worstDrawdown)
      BY <2>2, <2>5, CurveStays
    <3>3. /\ EndsAt(curve, equity, peakEquity)' /\ Falls(curve, worstDrawdown)'
          /\ FallLimited(equity, peakEquity)'
      BY <3>1, <3>2 DEF EndsAt, Falls, FallLimited, SimulatedInv
    <3> QED BY <2>2, <2>3, <2>4, <3>1, <3>3 DEF SimulatedInv
  <2> QED BY <2>6, <2>7
<1> QED BY <1>1, <1>2 DEF BacktestNext

\* Hence the backtest stays in its bounds.
LEMMA SimulatedMeans == SimulatedInv => BacktestIsBounded
<1> SUFFICES ASSUME SimulatedInv PROVE BacktestIsBounded
  OBVIOUS
<1>1. SimDaily \in Nat
  BY ValidationAssumption DEF ValidationAssumption
<1>2. DOMAIN curve = 1..Len(curve)
  BY DEF SimulatedInv, EndsAt
<1>3. /\ \A i, j \in DOMAIN curve : i <= j => curve[i] - curve[j] <= worstDrawdown
      /\ \E i, j \in DOMAIN curve : i <= j /\ curve[i] - curve[j] = worstDrawdown
  BY <1>2 DEF SimulatedInv, Falls
<1>4. equity >= 0 /\ \A d \in 1..MaxSimDays : entriesOn[d] <= SimDaily
  BY <1>1 DEF SimulatedInv
<1> QED BY <1>3, <1>4 DEF BacktestIsBounded, SimulatedInv, FallLimited

\* The days of a backtest.
DayTypes == simDay \in 0..MaxSimDays

\* No day was simulated at first.
LEMMA DayTypesInit == ValidationInit => DayTypes
BY ValidationAssumption DEF ValidationInit, DayTypes

\* Days are counted up to their bound.
LEMMA DayTypesNext ==
  ASSUME DayTypes, [BacktestNext]_backtestVars
  PROVE  DayTypes'
<1>1. UNCHANGED simDay \/ \E day \in {d \in simDay..(simDay + 1) : d \in 1..MaxSimDays} : simDay' = day
  BY Zenon DEF BacktestNext, SimulateRound, backtestVars
<1> QED BY <1>1, ValidationAssumption DEF DayTypes

\* The pairs that are judged.
ScoreTypes == scored \in Seq([p : 0..10, y : 0..1])

\* No pair was judged at first.
LEMMA ScoreTypesInit == ValidationInit => ScoreTypes
BY DEF ValidationInit, ScoreTypes

\* A pair is a decile and an outcome.
LEMMA ScoreTypesNext ==
  ASSUME ScoreTypes, [ScoreNext]_scoreVars
  PROVE  ScoreTypes'
<1>1. ASSUME NEW p \in {0, 3, 5, 10}, NEW y \in 0..1, scored' = Append(scored, [p |-> p, y |-> y])
      PROVE  ScoreTypes'
  <2>1. [p |-> p, y |-> y] \in [p : 0..10, y : 0..1]
    OBVIOUS
  <2> QED BY <1>1, <2>1 DEF ScoreTypes
<1>2. UNCHANGED scored \/ \E p \in {0, 3, 5, 10}, y \in 0..1 : scored' = Append(scored, [p |-> p, y |-> y])
  BY Zenon DEF ScoreNext, scoreVars
<1>3. CASE UNCHANGED scored
  BY <1>3, Zenon DEF ScoreTypes
<1> QED BY <1>1, <1>2, <1>3, Zenon
-----------------------------------------------------------------------------
(* The login: what is typed, seen and claimed, and the report of it.       *)
\* The steps before the credentials are typed.
BeforeTyping == {"start", "navigate", "classify", "region", "form", "settle", "settled",
                 "settled restricted", "url", "submit navigate", "wait", "submit classify",
                 "fields", "type"}

\* Until the form was submitted nothing was typed.
TypedInv == typed \in 0..1 /\ (loginStep \in BeforeTyping => typed = 0)

\* Nothing is typed at first.
LEMMA TypedInit == LoginInit => TypedInv
BY DEF LoginInit, TypedInv

\* They are typed once, at their step.
LEMMA TypedNext ==
  ASSUME TypedInv, [LoginNext]_loginVars
  PROVE  TypedInv'
<1> USE DEF TypedInv, BeforeTyping, Go, Answers, Step
<1>1. CASE PageChanges
  BY <1>1 DEF PageChanges
<1>2. CASE StartTest \/ StartClosed \/ StartLive \/ StartLoginWorker
  BY <1>2 DEF StartTest, StartClosed, StartLive, StartLoginWorker, Fails, LoginOver
<1>3. CASE OpenLoginUrl
  BY <1>3 DEF OpenLoginUrl, NavRetry, NavArrives, Passes, Fails, LoginOver
<1>4. CASE Classify \/ Region
  BY <1>4 DEF Classify, Region, Passes, Fails, LoginOver
<1>5. CASE Form
  BY <1>5 DEF Form, Passes, Fails, LoginOver
<1>6. CASE Settle \/ Reclassify
  BY <1>6 DEF Settle, Reclassify, Passes, Fails, LoginOver
<1>7. CASE SubmitUrl \/ SubmitWait \/ SubmitClassify \/ SubmitFields
  BY <1>7 DEF SubmitUrl, SubmitWait, SubmitClassify, SubmitFields
<1>8. CASE SubmitNavigate
  BY <1>8 DEF SubmitNavigate, NavRetry, NavArrives
<1>9. CASE SubmitType
  <2>1. CASE NoPassword(loginPage)
    BY <1>9, <2>1 DEF SubmitType
  <2>2. CASE ~NoPassword(loginPage)
    BY <1>9, <2>2 DEF SubmitType
  <2> QED BY <2>1, <2>2
<1>10. CASE SubmitPoll \/ SubmitRead \/ SubmitLook
  BY <1>10 DEF SubmitPoll, SubmitRead, SubmitLook, WhenTimeIsUp
<1>11. CASE PipelineAnswered \/ WorkerAnswered \/ LiveAnswered
  BY <1>11 DEF PipelineAnswered, WorkerAnswered, LiveAnswered, Passes, Fails, LoginOver
<1>12. CASE Verify \/ CheckAccount
  BY <1>12 DEF Verify, CheckAccount, Verified, Passes, Fails, LoginOver
<1>13. CASE NothingToKeep \/ Capture \/ Save
  BY <1>13 DEF NothingToKeep, Capture, Save, Fails, LoginOver
<1>14. CASE UNCHANGED loginVars
  BY <1>14 DEF loginVars
<1> QED BY <1>1, <1>2, <1>3, <1>4, <1>5, <1>6, <1>7, <1>8, <1>9, <1>10, <1>11, <1>12, <1>13, <1>14
        DEF LoginNext, LoginSteps

\* An account on a page that was read was seen.
SeenInv ==
  /\ loginStep \notin {"start", "navigate"} /\ caller = "pipeline" =>
       /\ Shown(loginPage) = "account" /\ loginStep # "over" => sawAccount
       /\ loginStep \in {"persist", "save"} /\ withSession => sawAccount
       /\ (answer = "SUCCESS" \/ sessionFile) /\ withSession => sawAccount
       /\ pageState = "AUTHENTICATED" => sawAccount
  /\ loginStep \in {"start", "navigate"} => answer = "none" /\ ~sessionFile /\ pageState = "UNKNOWN"

\* Nothing was seen at first.
LEMMA SeenInit == LoginInit => SeenInv
BY DEF LoginInit, SeenInv

\* What a look at a page leaves in the histories.
LEMMA LookTells ==
  ASSUME NEW p, SeenOn(p)
  PROVE  /\ loginPage' = p /\ (sawAccount => sawAccount')
         /\ Shown(p) = "account" => sawAccount'
         /\ alwaysGeo' => alwaysGeo /\ Shown(p) = "geo"
<1>1. loginPage' = p /\ (sawAccount \/ Shown(p) = "account" => sawAccount')
  BY Zenon DEF SeenOn
<1>2. alwaysGeo' => alwaysGeo /\ Shown(p) = "geo"
  BY Zenon DEF SeenOn
<1> QED BY <1>1, <1>2

\* A page that arrives is looked at.
LEMMA ArrivalTells ==
  ASSUME NEW next, NavArrives(next)
  PROVE  /\ next /\ (sawAccount => sawAccount')
         /\ Shown(loginPage') = "account" => sawAccount'
         /\ alwaysGeo' => alwaysGeo /\ Shown(loginPage') = "geo"
<1>1. PICK p \in {q \in Pages : q.open} : SeenOn(p)
  BY DEF NavArrives
<1>2. next
  BY DEF NavArrives
<1> QED BY <1>1, <1>2, LookTells, Zenon

\* Only the page of an account is classified as authenticated.
LEMMA ClassifiedIs ==
  ASSUME NEW p, Classified(loginPage, p) = "AUTHENTICATED"
  PROVE  Shown(p) = "account"
BY DEF Classified

\* What a classification leaves in the histories and in the page's state.
LEMMA ClassifiedTells ==
  ASSUME NEW p, ReadUntil(p), pageState' = Classified(loginPage, p) \/ UNCHANGED pageState
  PROVE  /\ (sawAccount => sawAccount')
         /\ Shown(loginPage)' = "account" => sawAccount'
         /\ pageState' = "AUTHENTICATED" => sawAccount' \/ UNCHANGED pageState
         /\ alwaysGeo' => alwaysGeo /\ Shown(loginPage)' = "geo"
<1>1. SeenOn(p)
  BY DEF ReadUntil
<1>2. Shown(loginPage)' = Shown(p)
  BY <1>1, LookTells DEF Shown
<1> QED BY <1>1, <1>2, LookTells, ClassifiedIs, Zenon

\* Who asked for the login does not change.
LEMMA CallerStays == [LoginNext]_loginVars => UNCHANGED <<caller, withSession>>
BY DEF LoginNext, loginVars, PageChanges

\* A step that looks at nothing new: what is persisted was verified.
LEMMA SeenQuiet ==
  ASSUME SeenInv, UNCHANGED <<caller, withSession, loginPage, sawAccount, sessionFile, pageState>>,
         loginStep \notin {"start", "navigate", "over"}, loginStep' \notin {"start", "navigate"},
         loginStep' \in {"persist", "save"} =>
           \/ loginStep \in {"persist", "save"} \/ pageState = "AUTHENTICATED"
           \/ Shown(loginPage) = "account" \/ ~withSession,
         caller = "pipeline" /\ answer' = "SUCCESS" =>
           answer = "SUCCESS" \/ loginStep \in {"persist", "save"}
  PROVE  SeenInv'
BY Zenon DEF SeenInv, Shown

\* What was claimed of an account was seen of it.
LEMMA SeenNext ==
  ASSUME SeenInv, [LoginNext]_loginVars
  PROVE  SeenInv'
<1>1. UNCHANGED <<caller, withSession>>
  BY CallerStays
<1> USE <1>1 DEF Go, Answers, Step, pageSeen
<1>2. CASE PageChanges
  <2>1. PICK p \in Pages : SeenOn(p)
    BY <1>2 DEF PageChanges
  <2>2. UNCHANGED <<loginStep, pageState, answer, sessionFile>>
        /\ loginStep \notin {"start", "navigate", "over"}
    BY <1>2 DEF PageChanges
  <2> QED BY <2>1, <2>2, LookTells, Zenon DEF SeenInv, Shown
<1>3. CASE StartTest \/ StartLive \/ StartLoginWorker
  <2>1. /\ UNCHANGED <<pageState, sessionFile>> /\ loginStep = "start"
        /\ caller = "pipeline" => loginStep' = "navigate" /\ UNCHANGED answer
        /\ loginStep' \in {"start", "navigate"} => UNCHANGED answer
    BY <1>3 DEF StartTest, StartLive, StartLoginWorker, LoginOver
  <2> QED BY <2>1, Zenon DEF SeenInv
<1>4. CASE StartClosed
  <2>1. UNCHANGED <<pageState, sessionFile, sawAccount>> /\ answer' = "BROWSER_FAILED"
        /\ loginStep = "start" /\ loginStep' = "over"
    BY <1>4 DEF StartClosed, Fails, LoginOver
  <2>2. loginPage' = [loginPage EXCEPT !.open = FALSE]
    BY <1>4 DEF StartClosed
  <2>3. Shown(loginPage)' # "account"
    BY <2>2 DEF Shown
  <2> QED BY <2>1, <2>3 DEF SeenInv
<1>5. CASE OpenLoginUrl
  <2>1. loginStep = "navigate" /\ UNCHANGED <<pageState, sessionFile>>
    BY <1>5 DEF OpenLoginUrl
  <2>2. CASE NavRetry
    <3>1. UNCHANGED <<loginStep, answer>>
      BY <2>2 DEF NavRetry
    <3> QED BY <2>1, <3>1, Zenon DEF SeenInv
  <2>3. CASE NavArrives(Passes("BrowserNavigation", "classify"))
    <3>1. loginStep' = "classify" /\ UNCHANGED answer
      BY <2>3, ArrivalTells DEF Passes
    <3>2. (sawAccount => sawAccount') /\ (Shown(loginPage') = "account" => sawAccount')
      BY <2>3, ArrivalTells
    <3>3. Shown(loginPage)' = Shown(loginPage')
      BY DEF Shown
    <3>4. answer' = "none" /\ ~sessionFile' /\ pageState' = "UNKNOWN"
      BY <2>1, <3>1, Zenon DEF SeenInv
    <3> QED BY <3>1, <3>2, <3>3, <3>4 DEF SeenInv
  <2>4. CASE Fails("BrowserNavigation", "NAVIGATION_FAILED") /\ UNCHANGED pageSeen
    <3>1. loginStep' = "over" /\ answer' = "NAVIGATION_FAILED"
      BY <2>4 DEF Fails, LoginOver
    <3> QED BY <2>1, <3>1, Zenon DEF SeenInv
  <2> QED BY <1>5, <2>2, <2>3, <2>4 DEF OpenLoginUrl
<1> HIDE DEF Step
<1>6. CASE Classify
  <2>1. /\ UNCHANGED <<sessionFile, answer>> /\ loginStep = "classify" /\ loginStep' = "region"
    BY <1>6 DEF Classify, Passes
  <2>2. PICK p \in Pages : ReadUntil(p) /\ pageState' = Classified(loginPage, p)
    BY <1>6 DEF Classify
  <2> QED BY <2>1, <2>2, ClassifiedTells, Zenon DEF SeenInv
<1>7. CASE Region \/ Form \/ Settle
  <2>1. /\ loginStep \in {"region", "form", "settle"}
        /\ loginStep' \in {"form", "settle", "url", "verify", "settled", "settled restricted", "over"}
        /\ answer' # "SUCCESS" \/ UNCHANGED answer
        /\ UNCHANGED <<loginPage, sawAccount, sessionFile, pageState>>
    BY <1>7 DEF Region, Form, Settle, Passes, Fails, LoginOver
  <2> QED BY <2>1, SeenQuiet
<1>8. CASE Reclassify
  <2>1. /\ loginStep \in {"settled", "settled restricted"} /\ loginStep' \in {"url", "verify", "over"}
        /\ answer' # "SUCCESS" \/ UNCHANGED answer
        /\ UNCHANGED sessionFile
    BY <1>8 DEF Reclassify, Passes, Fails, LoginOver
  <2>2. PICK p \in Pages : ReadUntil(p) /\ (pageState' = Classified(loginPage, p) \/ UNCHANGED pageState)
    BY <1>8, Zenon DEF Reclassify
  <2> QED BY <2>1, <2>2, ClassifiedTells, Zenon DEF SeenInv
<1>9. CASE SubmitUrl \/ SubmitWait \/ SubmitFields \/ SubmitType
  <2>1. /\ loginStep \in {"url", "wait", "fields", "type"}
        /\ loginStep' \notin {"start", "navigate", "persist", "save"}
        /\ UNCHANGED <<answer, loginPage, sawAccount, sessionFile, pageState>>
    BY <1>9 DEF SubmitUrl, SubmitWait, SubmitFields, SubmitType, Step
  <2> QED BY <2>1, SeenQuiet
<1>b. CASE SubmitClassify \/ SubmitRead
  <2>1. /\ loginStep \in {"submit classify", "polled"}
        /\ loginStep' \in {"answered", "fields", "look"}
        /\ UNCHANGED <<answer, sessionFile, pageState>>
    BY <1>b DEF SubmitClassify, SubmitRead, Step
  <2>2. PICK p \in Pages : ReadUntil(p)
    BY <1>b, Zenon DEF SubmitClassify, SubmitRead
  <2> QED BY <2>1, <2>2, ClassifiedTells, Zenon DEF SeenInv
<1>10. CASE SubmitNavigate
  <2>1. loginStep = "submit navigate" /\ UNCHANGED <<pageState, answer, sessionFile>>
    BY <1>10 DEF SubmitNavigate
  <2>2. CASE NavArrives(Go("wait"))
    <3>1. /\ loginStep' = "wait" /\ (sawAccount => sawAccount')
          /\ Shown(loginPage') = "account" => sawAccount'
      BY <2>2, ArrivalTells
    <3>2. Shown(loginPage)' = Shown(loginPage')
      BY DEF Shown
    <3> QED BY <2>1, <3>1, <3>2, Zenon DEF SeenInv
  <2>3. CASE ~NavArrives(Go("wait"))
    <3>1. loginStep' \in {"submit navigate", "answered"} /\ UNCHANGED <<loginPage, sawAccount>>
      BY <1>10, <2>1, <2>3 DEF SubmitNavigate, NavRetry
    <3> QED BY <2>1, <3>1, SeenQuiet
  <2> QED BY <2>2, <2>3
<1>11. CASE SubmitPoll \/ SubmitLook
  <2>1. /\ loginStep \in {"poll", "look"}
        /\ loginStep' \in {"poll", "polled", "look", "answered"}
        /\ UNCHANGED <<answer, loginPage, sawAccount, sessionFile, pageState>>
    BY <1>11 DEF SubmitPoll, SubmitLook, WhenTimeIsUp, Step
  <2> QED BY <2>1, SeenQuiet
<1>12. CASE PipelineAnswered \/ WorkerAnswered \/ LiveAnswered
  <2>1. /\ loginStep = "answered" /\ loginStep' \in {"verify", "over"}
        /\ caller = "pipeline" => answer' # "SUCCESS" \/ UNCHANGED answer
        /\ UNCHANGED <<loginPage, sawAccount, sessionFile, pageState>>
    BY <1>12 DEF PipelineAnswered, WorkerAnswered, LiveAnswered, Passes, Fails, LoginOver, RejectedAs
  <2> QED BY <2>1, SeenQuiet
<1>13. CASE Verify
  <2>1. /\ loginStep = "verify" /\ loginStep' \in {"check account", "persist", "over"}
        /\ loginStep' = "persist" => ~withSession \/ pageState = "AUTHENTICATED"
        /\ answer' # "SUCCESS" \/ UNCHANGED answer
        /\ UNCHANGED <<loginPage, sawAccount, sessionFile, pageState>>
    BY <1>13 DEF Verify, Verified, Passes, Fails, LoginOver
  <2> QED BY <2>1, SeenQuiet
<1>14. CASE CheckAccount
  <2>1. /\ loginStep = "check account" /\ loginStep' \in {"persist", "over"}
        /\ loginStep' = "persist" => Shown(loginPage) = "account" \/ pageState = "AUTHENTICATED"
        /\ answer' # "SUCCESS" \/ UNCHANGED answer
        /\ UNCHANGED <<loginPage, sawAccount, sessionFile, pageState>>
    BY <1>14 DEF CheckAccount, AccountShown, Verified, Passes, Fails, LoginOver
  <2> QED BY <2>1, SeenQuiet
<1>15. CASE NothingToKeep \/ Capture
  <2>1. /\ loginStep = "persist" /\ loginStep' \in {"save", "over"}
        /\ UNCHANGED <<loginPage, sawAccount, sessionFile, pageState>>
    BY <1>15 DEF NothingToKeep, Capture, Fails, LoginOver
  <2> QED BY <2>1, SeenQuiet
<1>16. CASE Save
  <2>1. /\ loginStep = "save" /\ loginStep' = "over"
        /\ UNCHANGED <<loginPage, sawAccount, pageState>>
    BY <1>16 DEF Save, Fails, LoginOver
  <2> QED BY <2>1, Zenon DEF SeenInv
<1>17. CASE UNCHANGED loginVars
  <2>1. UNCHANGED <<loginPage, loginStep, answer, sawAccount, sessionFile, pageState>>
    BY <1>17 DEF loginVars
  <2> QED BY <2>1, Zenon DEF SeenInv, Shown
<1> QED BY <1>2, <1>3, <1>4, <1>5, <1>6, <1>7, <1>8, <1>9, <1>b, <1>10, <1>11, <1>12, <1>13, <1>14,
           <1>15, <1>16, <1>17 DEF LoginNext, LoginSteps

\* A run whose page showed its region all along came to the region's detector.
GeoInv ==
  caller = "pipeline" /\ alwaysGeo =>
    /\ loginStep \in {"start", "navigate", "classify", "region", "over"}
    /\ loginStep \in {"classify", "region"} => Shown(loginPage) = "geo"
    /\ loginStep = "over" => answer \in {"REGION_RESTRICTION", "NAVIGATION_FAILED"}

\* Nothing is restricted at first.
LEMMA GeoInit == LoginInit => GeoInv
BY DEF LoginInit, GeoInv

\* Without a restriction all the time there is nothing to show.
LEMMA GeoGone ==
  ASSUME caller = "pipeline" /\ alwaysGeo => FALSE, UNCHANGED <<caller, alwaysGeo>>
  PROVE  GeoInv'
BY Zenon DEF GeoInv

\* A region that is always restricted is always reported so.
LEMMA GeoNext ==
  ASSUME GeoInv, [LoginNext]_loginVars
  PROVE  GeoInv'
<1>1. UNCHANGED caller
  BY CallerStays
<1> USE <1>1 DEF Go, Answers, pageSeen
<1>a. ASSUME caller = "pipeline",
             loginStep \in {"form", "settle", "settled", "settled restricted", "url", "submit navigate",
                            "wait", "submit classify", "fields", "type", "poll", "polled", "look",
                            "answered", "verify", "check account", "persist", "save"}
      PROVE  ~alwaysGeo
  BY <1>a, Zenon DEF GeoInv
<1>2. CASE PageChanges
  <2>1. PICK p \in Pages : SeenOn(p)
    BY <1>2 DEF PageChanges
  <2>2. UNCHANGED <<loginStep, answer>> /\ loginStep \notin {"start", "navigate", "over"}
    BY <1>2 DEF PageChanges
  <2>3. alwaysGeo' => alwaysGeo /\ Shown(p) = "geo" /\ loginPage' = p
    BY <2>1, LookTells
  <2> QED BY <2>2, <2>3, Zenon DEF GeoInv, Shown
<1>3. CASE StartTest \/ StartLive \/ StartLoginWorker
  <2>1. caller = "pipeline" => loginStep' = "navigate"
    BY <1>3 DEF StartTest, StartLive, StartLoginWorker
  <2> QED BY <2>1 DEF GeoInv
<1>4. CASE StartClosed
  <2>1. alwaysGeo' = FALSE
    BY <1>4 DEF StartClosed
  <2> QED BY <2>1, Zenon DEF GeoInv
<1>5. CASE OpenLoginUrl
  <2>1. loginStep = "navigate"
    BY <1>5 DEF OpenLoginUrl
  <2>2. CASE NavRetry
    <3>1. UNCHANGED <<loginStep, answer, loginPage, alwaysGeo>>
      BY <2>2 DEF NavRetry
    <3> QED BY <2>1, <3>1, Zenon DEF GeoInv
  <2>3. CASE NavArrives(Passes("BrowserNavigation", "classify"))
    <3>1. loginStep' = "classify" /\ (alwaysGeo' => alwaysGeo /\ Shown(loginPage') = "geo")
      BY <2>3, ArrivalTells DEF Passes
    <3>2. Shown(loginPage)' = Shown(loginPage')
      BY DEF Shown
    <3> QED BY <3>1, <3>2, Zenon DEF GeoInv
  <2>4. CASE Fails("BrowserNavigation", "NAVIGATION_FAILED") /\ UNCHANGED pageSeen
    <3>1. loginStep' = "over" /\ answer' = "NAVIGATION_FAILED"
      BY <2>4 DEF Fails, LoginOver
    <3> QED BY <3>1 DEF GeoInv
  <2> QED BY <1>5, <2>2, <2>3, <2>4 DEF OpenLoginUrl
<1>6. CASE Classify
  <2>1. loginStep = "classify" /\ loginStep' = "region"
    BY <1>6 DEF Classify, Passes
  <2>2. PICK p \in Pages : ReadUntil(p) /\ pageState' = Classified(loginPage, p)
    BY <1>6 DEF Classify
  <2> QED BY <2>1, <2>2, ClassifiedTells, Zenon DEF GeoInv
<1>7. CASE Region
  <2>1. UNCHANGED <<loginPage, alwaysGeo>> /\ loginStep = "region"
    BY <1>7 DEF Region
  <2>2. CASE Shown(loginPage) = "geo"
    <3>1. RegionRestricted(loginPage)
      BY <2>2 DEF RegionRestricted, GeoShown
    <3>2. loginStep' = "over" /\ answer' = "REGION_RESTRICTION"
      BY <1>7, <3>1 DEF Region, Fails, LoginOver
    <3> QED BY <3>2 DEF GeoInv
  <2>3. CASE Shown(loginPage) # "geo"
    <3>1. caller = "pipeline" => ~alwaysGeo
      BY <2>1, <2>3, Zenon DEF GeoInv
    <3> QED BY <2>1, <3>1, GeoGone
  <2> QED BY <2>2, <2>3
<1>8. CASE Form \/ Settle
  <2>1. UNCHANGED alwaysGeo /\ loginStep \in {"form", "settle"}
    BY <1>8 DEF Form, Settle
  <2> QED BY <1>a, <2>1, GeoGone
<1>b. CASE Reclassify \/ SubmitClassify \/ SubmitRead
  <2>1. loginStep \in {"settled", "settled restricted", "submit classify", "polled"}
    BY <1>b DEF Reclassify, SubmitClassify, SubmitRead, Step
  <2>2. PICK p \in Pages : SeenOn(p)
    BY <1>b, Zenon DEF Reclassify, SubmitClassify, SubmitRead, ReadUntil
  <2>3. alwaysGeo' => alwaysGeo
    BY <2>2, LookTells
  <2> QED BY <1>a, <2>1, <2>3, Zenon DEF GeoInv
<1>9. CASE SubmitUrl \/ SubmitWait \/ SubmitFields \/ SubmitType \/ SubmitPoll \/ SubmitLook
  <2>1. /\ UNCHANGED alwaysGeo
        /\ loginStep \in {"url", "wait", "fields", "type", "poll", "look"}
    BY <1>9 DEF SubmitUrl, SubmitWait, SubmitFields, SubmitType, SubmitPoll, SubmitLook, Step
  <2> QED BY <1>a, <2>1, GeoGone
<1>10. CASE SubmitNavigate
  <2>1. loginStep = "submit navigate"
    BY <1>10 DEF SubmitNavigate
  <2>2. alwaysGeo' => alwaysGeo
    <3>1. CASE NavArrives(Go("wait"))
      BY <3>1, ArrivalTells
    <3>2. CASE ~NavArrives(Go("wait"))
      BY <1>10, <3>2 DEF SubmitNavigate, NavRetry
    <3> QED BY <3>1, <3>2
  <2> QED BY <1>a, <2>1, <2>2, Zenon DEF GeoInv
<1>11. CASE PipelineAnswered \/ WorkerAnswered \/ LiveAnswered
  <2>1. UNCHANGED alwaysGeo /\ loginStep = "answered"
    BY <1>11 DEF PipelineAnswered, WorkerAnswered, LiveAnswered
  <2> QED BY <1>a, <2>1, GeoGone
<1>12. CASE Verify \/ CheckAccount \/ NothingToKeep \/ Capture \/ Save
  <2>1. UNCHANGED alwaysGeo /\ loginStep \in {"verify", "check account", "persist", "save"}
    BY <1>12 DEF Verify, CheckAccount, NothingToKeep, Capture, Save
  <2> QED BY <1>a, <2>1, GeoGone
<1>13. CASE UNCHANGED loginVars
  <2>1. UNCHANGED <<loginPage, loginStep, answer, alwaysGeo>>
    BY <1>13 DEF loginVars
  <2> QED BY <2>1, Zenon DEF GeoInv, Shown
<1> QED BY <1>2, <1>3, <1>4, <1>5, <1>6, <1>7, <1>8, <1>b, <1>9, <1>10, <1>11, <1>12, <1>13
        DEF LoginNext, LoginSteps

\* The stages of a login.
StageNames == {"BrowserNavigation", "LoginPageDetector", "RegionRestrictionDetector",
               "LoginFormDetector", "CredentialSubmission", "AuthenticationVerifier",
               "SessionPersistence"}
\* The place of a stage in the pipeline.
PlaceOf(name) == CHOOSE k \in 1..Len(LoginStages) : LoginStages[k] = name
StageReports == [stage : StageNames, ok : BOOLEAN]
StageReport(name, good) == [stage |-> name, ok |-> good]

\* In order, and well but for the last.
InOrder(s) ==
  /\ s \in Seq(StageReports)
  /\ \A i \in 1..(Len(s) - 1) : s[i].ok = TRUE /\ PlaceOf(s[i].stage) <= PlaceOf(s[i + 1].stage)

\* The stages that may have been reported when the run is at a step.
Upto(at) ==
  IF at \in {"start", "navigate"} THEN 0
  ELSE IF at = "classify" THEN 1
  ELSE IF at = "region" THEN 2
  ELSE IF at \in {"form", "settle", "settled", "settled restricted"} THEN 3
  ELSE IF at \in {"verify", "check account", "persist", "save"} THEN 6
  ELSE 4

\* A report of stages all passed, none beyond top.
Going(s, top) == InOrder(s) /\ \A i \in 1..Len(s) : s[i].ok = TRUE /\ PlaceOf(s[i].stage) <= top
\* A report that ended, in success or with the stage that failed.
Ended(s, code, failed) ==
  /\ InOrder(s) /\ Len(s) >= 1
  /\ IF code = "SUCCESS" THEN s[Len(s)] = StageReport("SessionPersistence", TRUE) /\ failed = "none"
     ELSE s[Len(s)] = StageReport(failed, FALSE)

\* Inductive: the report is that of the stages gone through so far.
ReportInv ==
  caller = "pipeline" =>
    IF loginStep = "over" THEN Ended(stages, answer, failedStage)
    ELSE Going(stages, Upto(loginStep)) /\ failedStage = "none"

\* The stages in their order.
LEMMA PlacesAre ==
  /\ PlaceOf("BrowserNavigation") = 1 /\ PlaceOf("LoginPageDetector") = 2
  /\ PlaceOf("RegionRestrictionDetector") = 3 /\ PlaceOf("LoginFormDetector") = 4
  /\ PlaceOf("CredentialSubmission") = 5 /\ PlaceOf("AuthenticationVerifier") = 6
  /\ PlaceOf("SessionPersistence") = 7
<1>1. /\ Len(LoginStages) = 7 /\ 1..7 = {1, 2, 3, 4, 5, 6, 7}
      /\ LoginStages[1] = "BrowserNavigation" /\ LoginStages[2] = "LoginPageDetector"
      /\ LoginStages[3] = "RegionRestrictionDetector" /\ LoginStages[4] = "LoginFormDetector"
      /\ LoginStages[5] = "CredentialSubmission" /\ LoginStages[6] = "AuthenticationVerifier"
      /\ LoginStages[7] = "SessionPersistence"
  BY DEF LoginStages
<1>2. ASSUME NEW n \in 1..7 PROVE PlaceOf(LoginStages[n]) = n
  <2>1. \E k \in 1..Len(LoginStages) : LoginStages[k] = LoginStages[n]
    BY <1>1
  <2>2. PICK p : p = PlaceOf(LoginStages[n])
    OBVIOUS
  <2>3. p \in 1..Len(LoginStages) /\ LoginStages[p] = LoginStages[n]
    BY <2>1, <2>2 DEF PlaceOf
  <2> QED BY <1>1, <2>2, <2>3
<1>3. /\ PlaceOf(LoginStages[1]) = 1 /\ PlaceOf(LoginStages[2]) = 2 /\ PlaceOf(LoginStages[3]) = 3
      /\ PlaceOf(LoginStages[4]) = 4 /\ PlaceOf(LoginStages[5]) = 5 /\ PlaceOf(LoginStages[6]) = 6
      /\ PlaceOf(LoginStages[7]) = 7
  BY <1>2
<1> QED BY <1>1, <1>3, Zenon

\* Places are numbers.
LEMMA PlaceIsNat == \A name \in StageNames : PlaceOf(name) \in 1..7
BY PlacesAre DEF StageNames

\* A stage more, not before those already there.
LEMMA StageAdded ==
  ASSUME NEW s, NEW top \in 0..6, Going(s, top), NEW name \in StageNames, PlaceOf(name) >= top,
         NEW good \in BOOLEAN, NEW t, t = Append(s, StageReport(name, good))
  PROVE  /\ InOrder(t) /\ Len(t) >= 1 /\ t[Len(t)] = StageReport(name, good)
         /\ \A i \in 1..(Len(t) - 1) : t[i].ok = TRUE /\ PlaceOf(t[i].stage) <= PlaceOf(name)
<1>1. PICK e \in StageReports : e = StageReport(name, good) /\ e.stage = name
  BY DEF StageReports, StageReport
<1>2. s \in Seq(StageReports) /\ Len(s) \in Nat
  BY DEF Going, InOrder
<1>3. /\ t \in Seq(StageReports) /\ Len(t) = Len(s) + 1 /\ t[Len(t)] = e
      /\ \A i \in 1..Len(s) : t[i] = s[i]
  BY <1>1, <1>2
<1>4. \A i \in 1..Len(s) : s[i].ok = TRUE /\ s[i].stage \in StageNames /\ PlaceOf(s[i].stage) <= top
  <2>1. \A i \in 1..Len(s) : s[i] \in StageReports
    BY <1>2
  <2> QED BY <2>1 DEF Going, StageReports
<1>5. \A i \in 1..Len(s) : t[i].ok = TRUE /\ PlaceOf(t[i].stage) <= PlaceOf(name)
  <2>1. PlaceOf(name) \in Nat /\ \A i \in 1..Len(s) : PlaceOf(s[i].stage) \in Nat
    BY <1>4, PlaceIsNat
  <2> QED BY <1>3, <1>4, <2>1
<1>6. \A i \in 1..(Len(t) - 1) : PlaceOf(t[i].stage) <= PlaceOf(t[i + 1].stage)
  <2> SUFFICES ASSUME NEW i \in 1..Len(s) PROVE PlaceOf(t[i].stage) <= PlaceOf(t[i + 1].stage)
    BY <1>2, <1>3
  <2>1. CASE i = Len(s)
    BY <1>1, <1>3, <1>5, <2>1
  <2>2. CASE i # Len(s)
    <3>1. i \in 1..(Len(s) - 1) /\ i + 1 \in 1..Len(s)
      BY <1>2, <2>2
    <3> QED BY <1>3, <3>1 DEF Going, InOrder
  <2> QED BY <2>1, <2>2
<1> QED BY <1>1, <1>2, <1>3, <1>5, <1>6 DEF InOrder

\* Where a step stands is before the last stage.
LEMMA UptoIs == \A at : Upto(at) \in 0..6
BY DEF Upto

\* Where some of the steps stand.
LEMMA UptoOf ==
  /\ \A at \in {"settled", "settled restricted"} : at # "over" /\ Upto(at) = 3
  /\ \A at \in {"verify", "check account", "persist", "save"} : at # "over" /\ Upto(at) = 6
  /\ Upto("url") = 4
BY DEF Upto

\* What is not beyond a place is not beyond a later one.
LEMMA GoingOn ==
  ASSUME NEW s, NEW a \in 0..6, NEW b \in 0..6, a <= b, Going(s, a)
  PROVE  Going(s, b)
<1>1. \A i \in 1..Len(s) : s[i].stage \in StageNames
  <2>1. \A i \in 1..Len(s) : s[i] \in StageReports
    BY DEF Going, InOrder
  <2> QED BY <2>1 DEF StageReports
<1> QED BY <1>1, PlaceIsNat DEF Going

\* A stage that passes is added as passed.
LEMMA ReportPasses ==
  ASSUME ReportInv, UNCHANGED caller, NEW name \in StageNames, NEW next, Passes(name, next),
         loginStep # "over", next # "over", PlaceOf(name) >= Upto(loginStep),
         PlaceOf(name) <= Upto(next)
  PROVE  ReportInv'
<1> SUFFICES ASSUME caller = "pipeline"
             PROVE  Going(stages', Upto(next)) /\ failedStage' = "none" /\ loginStep' = next
  BY Zenon DEF ReportInv, Going, InOrder
<1>1. Going(stages, Upto(loginStep)) /\ failedStage = "none"
  BY Zenon DEF ReportInv
<1>2. stages' = Append(stages, StageReport(name, TRUE)) /\ UNCHANGED failedStage /\ loginStep' = next
  BY DEF Passes, Reported, StageReport, Go
<1>3. PICK t : t = Append(stages, StageReport(name, TRUE))
  OBVIOUS
<1>4. /\ InOrder(t) /\ Len(t) >= 1 /\ t[Len(t)] = StageReport(name, TRUE)
      /\ \A i \in 1..(Len(t) - 1) : t[i].ok = TRUE /\ PlaceOf(t[i].stage) <= PlaceOf(name)
  BY <1>1, <1>3, StageAdded, UptoIs
<1>5. Going(t, PlaceOf(name))
  <2>1. t[Len(t)].ok = TRUE /\ t[Len(t)].stage = name
    BY <1>4 DEF StageReport
  <2>2. Len(t) \in Nat
    BY <1>4 DEF InOrder
  <2>3. PlaceOf(name) <= PlaceOf(name)
    BY PlaceIsNat
  <2>4. ASSUME NEW i \in 1..Len(t) PROVE t[i].ok = TRUE /\ PlaceOf(t[i].stage) <= PlaceOf(name)
    <3>1. CASE i = Len(t)
      BY <2>1, <2>3, <3>1
    <3>2. CASE i # Len(t)
      <4>1. i \in 1..(Len(t) - 1)
        BY <2>2, <3>2
      <4> QED BY <1>4, <4>1
    <3> QED BY <3>1, <3>2
  <2> QED BY <1>4, <2>4 DEF Going
<1>6. Going(t, Upto(next))
  BY <1>5, UptoIs, PlaceIsNat, GoingOn
<1> QED BY <1>1, <1>2, <1>3, <1>6

\* A run that ends: its report ends with the stage it names, or with a success.
LEMMA ReportEnds ==
  ASSUME ReportInv, UNCHANGED caller, NEW name \in StageNames, NEW good \in BOOLEAN,
         NEW code, NEW failed,
         Reported(name, good), LoginOver(code, failed), loginStep # "over",
         PlaceOf(name) >= Upto(loginStep),
         \/ ~good /\ code # "SUCCESS" /\ failed = name
         \/ good /\ code = "SUCCESS" /\ failed = "none" /\ name = "SessionPersistence"
  PROVE  ReportInv'
<1> SUFFICES ASSUME caller = "pipeline"
             PROVE  Ended(stages', code, failed) /\ loginStep' = "over" /\ answer' = code
                    /\ failedStage' = failed
  BY Zenon DEF ReportInv, Ended, InOrder
<1>1. Going(stages, Upto(loginStep))
  BY Zenon DEF ReportInv
<1>2. /\ stages' = Append(stages, StageReport(name, good)) /\ loginStep' = "over" /\ answer' = code
      /\ failedStage' = failed
  BY DEF Reported, LoginOver, StageReport, Go
<1>3. PICK t : t = Append(stages, StageReport(name, good))
  OBVIOUS
<1>4. InOrder(t) /\ Len(t) >= 1 /\ t[Len(t)] = StageReport(name, good)
  BY <1>1, <1>3, StageAdded, UptoIs
<1>5. CASE ~good /\ code # "SUCCESS" /\ failed = name
  BY <1>2, <1>3, <1>4, <1>5 DEF Ended
<1>6. CASE good /\ code = "SUCCESS" /\ failed = "none" /\ name = "SessionPersistence"
  BY <1>2, <1>3, <1>4, <1>6 DEF Ended
<1> QED BY <1>5, <1>6

\* A stage that fails is added as failed, and ends the report.
LEMMA ReportFails ==
  ASSUME ReportInv, UNCHANGED caller, NEW name \in StageNames, NEW code, Fails(name, code),
         code # "SUCCESS", loginStep # "over", PlaceOf(name) >= Upto(loginStep)
  PROVE  ReportInv'
BY ReportEnds DEF Fails

\* A step that reports nothing may go on to a later place.
LEMMA ReportStays ==
  ASSUME ReportInv, UNCHANGED <<caller, stages, answer, failedStage>>,
         \/ UNCHANGED loginStep
         \/ loginStep # "over" /\ loginStep' # "over" /\ Upto(loginStep) <= Upto(loginStep')
  PROVE  ReportInv'
<1>1. CASE UNCHANGED loginStep
  BY <1>1, Zenon DEF ReportInv, Going, Ended, InOrder, Upto
<1>2. CASE loginStep # "over" /\ loginStep' # "over" /\ Upto(loginStep) <= Upto(loginStep')
  <2> SUFFICES ASSUME caller = "pipeline" PROVE Going(stages', Upto(loginStep')) /\ failedStage' = "none"
    BY <1>2, Zenon DEF ReportInv, Going, InOrder
  <2>1. Going(stages, Upto(loginStep)) /\ failedStage = "none"
    BY <1>2, Zenon DEF ReportInv
  <2>2. Going(stages, Upto(loginStep'))
    BY <1>2, <2>1, UptoIs, GoingOn
  <2> QED BY <2>1, <2>2, Zenon
<1> QED BY <1>1, <1>2

\* The same, with the step it goes on to named.
LEMMA ReportGoes ==
  ASSUME ReportInv, UNCHANGED <<caller, stages, answer, failedStage>>, NEW next, loginStep' = next,
         loginStep # "over", next # "over", Upto(loginStep) <= Upto(next)
  PROVE  ReportInv'
<1>1. Upto(loginStep') = Upto(next)
  OBVIOUS
<1> QED BY <1>1, ReportStays

\* The report is empty at first.
LEMMA ReportInit == LoginInit => ReportInv
<1> SUFFICES ASSUME LoginInit PROVE ReportInv
  OBVIOUS
<1>1. stages = <<>> /\ failedStage = "none" /\ loginStep = "start"
  BY DEF LoginInit
<1>2. Going(<<>>, 0)
  BY DEF Going, InOrder
<1> QED BY <1>1, <1>2 DEF ReportInv, Upto

\* A function of three places is a sequence of three.
LEMMA ThreeInARow ==
  ASSUME NEW S, NEW u \in [1..3 -> S]
  PROVE  u \in Seq(S) /\ Len(u) = 3
<1>1. u \in UNION {[1..n -> S] : n \in Nat}
  OBVIOUS
<1>2. u \in Seq(S)
  BY <1>1, SeqDef, Zenon
<1>3. Len(u) \in Nat /\ DOMAIN u = 1..Len(u) /\ DOMAIN u = 1..3
  BY <1>2, LenProperties
<1>4. Len(u) = 3
  <2>1. 3 \in 1..Len(u) /\ Len(u) + 1 \notin 1..3
    BY <1>3
  <2> QED BY <1>3, <2>1
<1> QED BY <1>2, <1>4

\* The step that looks for the form can pass three stages at once.
LEMMA ReportForm ==
  ASSUME ReportInv, UNCHANGED caller, Form
  PROVE  ReportInv'
<1>1. loginStep = "form" /\ Upto("form") = 3 /\ Upto("url") = 4 /\ Upto("verify") = 6
  BY DEF Form, Upto
<1>2. CASE pageState = "SECURITY_CHALLENGE"
  <2>1. Fails("LoginFormDetector", "SECURITY_CHALLENGE")
    BY <1>2 DEF Form
  <2> QED BY <1>1, <2>1, PlacesAre, ReportFails DEF StageNames
<1>3. CASE pageState = "LOGIN_FORM"
  <2>1. Passes("LoginFormDetector", "url")
    BY <1>3 DEF Form
  <2> QED BY <1>1, <2>1, PlacesAre, ReportPasses DEF StageNames
<1>4. CASE pageState \notin {"SECURITY_CHALLENGE", "LOGIN_FORM"}
  <2>1. /\ stages' = stages \o [i \in 1..3 |-> [stage |-> LoginStages[i + 3], ok |-> TRUE]]
        /\ loginStep' = "verify" /\ UNCHANGED <<answer, failedStage>>
    BY <1>4 DEF Form, Go
  <2> SUFFICES ASSUME caller = "pipeline" PROVE Going(stages', 6) /\ failedStage' = "none"
    <3>1. loginStep' = "verify" /\ Upto(loginStep)' = 6
      BY <2>1 DEF Upto
    <3> QED BY <3>1, Zenon DEF ReportInv, Going, InOrder
  <2>2. Going(stages, 3) /\ failedStage = "none"
    BY <1>1, Zenon DEF ReportInv
  <2>3. PICK n \in Nat : n = Len(stages)
    BY <2>2 DEF Going, InOrder
  <2>4. PICK u : u = [i \in 1..3 |-> [stage |-> LoginStages[i + 3], ok |-> TRUE]]
    OBVIOUS
  <2>5. /\ u \in Seq(StageReports) /\ Len(u) = 3
        /\ u[1] = StageReport("LoginFormDetector", TRUE)
          /\ u[2] = StageReport("CredentialSubmission", TRUE)
        /\ u[3] = StageReport("AuthenticationVerifier", TRUE)
    <3>1. /\ LoginStages[4] = "LoginFormDetector" /\ LoginStages[5] = "CredentialSubmission"
          /\ LoginStages[6] = "AuthenticationVerifier"
      BY DEF LoginStages
    <3>2. /\ u[1] = StageReport("LoginFormDetector", TRUE)
          /\ u[2] = StageReport("CredentialSubmission", TRUE)
          /\ u[3] = StageReport("AuthenticationVerifier", TRUE)
      <4>1. /\ u[1] = [stage |-> LoginStages[1 + 3], ok |-> TRUE]
            /\ u[2] = [stage |-> LoginStages[2 + 3], ok |-> TRUE]
            /\ u[3] = [stage |-> LoginStages[3 + 3], ok |-> TRUE]
        BY <2>4
      <4>2. 1 + 3 = 4 /\ 2 + 3 = 5 /\ 3 + 3 = 6
        OBVIOUS
      <4> QED BY <3>1, <4>1, <4>2, Zenon DEF StageReport
    <3>3. \A i \in 1..3 : u[i] \in StageReports
      <4>1. \A name \in StageNames : StageReport(name, TRUE) \in StageReports
        BY DEF StageReport, StageReports
      <4>2. 1..3 = {1, 2, 3}
        OBVIOUS
      <4> QED BY <3>2, <4>1, <4>2 DEF StageNames
    <3>4. u \in [1..3 -> StageReports]
      <4>1. u = [i \in 1..3 |-> u[i]]
        BY <2>4
      <4> QED BY <3>3, <4>1
    <3>5. u \in Seq(StageReports) /\ Len(u) = 3
      BY <3>4, ThreeInARow
    <3> QED BY <3>2, <3>5, Zenon
  <2>6. PICK t : t = stages \o u
    OBVIOUS
  <2>7. /\ t \in Seq(StageReports) /\ Len(t) = n + 3 /\ \A i \in 1..n : t[i] = stages[i]
        /\ t[n + 1] = u[1] /\ t[n + 2] = u[2] /\ t[n + 3] = u[3]
    <3>1. stages \in Seq(StageReports)
      BY <2>2 DEF Going, InOrder
    <3>2. u \in Seq(StageReports) /\ Len(u) = 3
      BY <2>5
    <3>3. PICK s \in Seq(StageReports) : s = stages
      BY <3>1
    <3>4. PICK w \in Seq(StageReports) : w = u
      BY <3>2
    <3>5. /\ s \o w \in Seq(StageReports) /\ Len(s \o w) = Len(s) + Len(w)
          /\ \A i \in 1..Len(s) + Len(w) : (s \o w)[i] = IF i <= Len(s) THEN s[i] ELSE w[i - Len(s)]
      BY ConcatProperties, Zenon
    <3>6. t = s \o w /\ n = Len(s) /\ Len(w) = 3
      BY <2>3, <2>6, <3>2, <3>3, <3>4, Zenon
    <3>7. /\ t \in Seq(StageReports) /\ Len(t) = n + 3
          /\ \A i \in 1..(n + 3) : t[i] = IF i <= n THEN s[i] ELSE w[i - n]
      BY <3>5, <3>6
    <3>8. /\ n + 1 \in 1..(n + 3) /\ n + 2 \in 1..(n + 3) /\ n + 3 \in 1..(n + 3)
          /\ (n + 1) - n = 1 /\ (n + 2) - n = 2 /\ (n + 3) - n = 3
          /\ ~(n + 1 <= n) /\ ~(n + 2 <= n) /\ ~(n + 3 <= n)
      OBVIOUS
    <3>9. t[n + 1] = w[(n + 1) - n] /\ t[n + 2] = w[(n + 2) - n] /\ t[n + 3] = w[(n + 3) - n]
      BY <3>7, <3>8, Zenon
    <3>10. t[n + 1] = u[1] /\ t[n + 2] = u[2] /\ t[n + 3] = u[3]
      BY <3>4, <3>8, <3>9, Zenon
    <3>11. \A i \in 1..n : t[i] = stages[i]
      BY <3>3, <3>7
    <3> QED BY <3>7, <3>10, <3>11
  <2>8. /\ t[n + 1].ok = TRUE /\ t[n + 2].ok = TRUE /\ t[n + 3].ok = TRUE
        /\ PlaceOf(t[n + 1].stage) = 4 /\ PlaceOf(t[n + 2].stage) = 5 /\ PlaceOf(t[n + 3].stage) = 6
    BY <2>5, <2>7, PlacesAre DEF StageReport
  <2>9. \A i \in 1..n : t[i].ok = TRUE /\ PlaceOf(t[i].stage) \in 1..3
    <3>1. \A i \in 1..n : stages[i] \in StageReports
      BY <2>2, <2>3 DEF Going, InOrder
    <3>2. \A i \in 1..n : PlaceOf(stages[i].stage) \in 1..7
      BY <3>1, PlaceIsNat DEF StageReports
    <3> QED BY <2>2, <2>3, <2>7, <3>2 DEF Going
  <2>10. \A i \in 1..(n + 3) : t[i].ok = TRUE /\ PlaceOf(t[i].stage) <= 6
    <3>1. \A i \in 1..(n + 3) : i \in 1..n \/ i = n + 1 \/ i = n + 2 \/ i = n + 3
      OBVIOUS
    <3> QED BY <2>8, <2>9, <3>1
  <2>11. \A i \in 1..(n + 2) : PlaceOf(t[i].stage) <= PlaceOf(t[i + 1].stage)
    <3> SUFFICES ASSUME NEW i \in 1..(n + 2) PROVE PlaceOf(t[i].stage) <= PlaceOf(t[i + 1].stage)
      OBVIOUS
    <3>1. CASE i \in 1..(n - 1)
      <4>1. i \in 1..(Len(stages) - 1) /\ i \in 1..n /\ i + 1 \in 1..n
        BY <2>3, <3>1
      <4> QED BY <2>2, <2>7, <4>1 DEF Going, InOrder
    <3>2. CASE i = n
      BY <2>8, <2>9, <3>2
    <3>3. CASE i = n + 1
      BY <2>8, <3>3
    <3>4. CASE i = n + 2
      BY <2>8, <3>4
    <3> QED BY <3>1, <3>2, <3>3, <3>4
  <2>12. Going(t, 6)
    BY <2>7, <2>10, <2>11 DEF Going, InOrder
  <2> QED BY <2>1, <2>2, <2>4, <2>6, <2>12
<1> QED BY <1>2, <1>3, <1>4

\* Every step of a login keeps it.
LEMMA ReportNext ==
  ASSUME ReportInv, [LoginNext]_loginVars
  PROVE  ReportInv'
<1>1. UNCHANGED caller
  BY CallerStays
<1> USE <1>1
<1>2. CASE PageChanges \/ UNCHANGED loginVars
  BY <1>2, ReportStays DEF PageChanges, loginVars
<1>3. CASE StartTest
  BY <1>3, ReportStays DEF StartTest, Go, Upto
<1>4. CASE StartClosed
  <2>1. loginStep = "start" /\ Upto(loginStep) = 0 /\ Fails("BrowserNavigation", "BROWSER_FAILED")
    BY <1>4 DEF StartClosed, Upto
  <2> QED BY <2>1, PlacesAre, ReportFails DEF StageNames
<1>5. CASE StartLive \/ StartLoginWorker
  <2>1. caller # "pipeline"
    BY <1>5 DEF StartLive, StartLoginWorker
  <2> QED BY <2>1 DEF ReportInv
<1>6. CASE OpenLoginUrl
  <2>1. loginStep = "navigate" /\ Upto(loginStep) = 0 /\ Upto("classify") = 1
    BY <1>6 DEF OpenLoginUrl, Upto
  <2>2. CASE NavRetry
    BY <2>2, ReportStays DEF NavRetry
  <2>3. CASE NavArrives(Passes("BrowserNavigation", "classify"))
    <3>1. Passes("BrowserNavigation", "classify")
      BY <2>3 DEF NavArrives
    <3> QED BY <2>1, <3>1, PlacesAre, ReportPasses DEF StageNames
  <2>4. CASE Fails("BrowserNavigation", "NAVIGATION_FAILED")
    BY <2>1, <2>4, PlacesAre, ReportFails DEF StageNames
  <2> QED BY <1>6, <2>2, <2>3, <2>4 DEF OpenLoginUrl
<1>7. CASE Classify
  <2>1. /\ loginStep = "classify" /\ Upto(loginStep) = 1 /\ Upto("region") = 2
        /\ Passes("LoginPageDetector", "region")
    BY <1>7 DEF Classify, Upto
  <2> QED BY <2>1, PlacesAre, ReportPasses DEF StageNames
<1>8. CASE Region
  <2>1. loginStep = "region" /\ Upto(loginStep) = 2 /\ Upto("form") = 3 /\ Upto("settle") = 3
    BY <1>8 DEF Region, Upto
  <2>2. \/ Fails("RegionRestrictionDetector", "REGION_RESTRICTION")
        \/ Passes("RegionRestrictionDetector", "form") \/ Passes("RegionRestrictionDetector", "settle")
    BY <1>8 DEF Region
  <2> QED BY <2>1, <2>2, PlacesAre, ReportPasses, ReportFails DEF StageNames
<1>9. CASE Form
  BY <1>9, ReportForm
<1>10. CASE Settle
  <2>1. loginStep = "settle" /\ Upto(loginStep) = 3
    BY <1>10 DEF Settle, Upto
  <2>2. CASE Fails("LoginFormDetector", "LOGIN_FORM_UNAVAILABLE")
    BY <2>1, <2>2, PlacesAre, ReportFails DEF StageNames
  <2>3. CASE loginStep' \in {"settled", "settled restricted"} /\ UNCHANGED <<stages, answer, failedStage>>
    <3>1. PICK next : next = loginStep'
      OBVIOUS
    <3>2. Upto(next) = 3 /\ next # "over"
      BY <2>3, <3>1 DEF Upto
    <3>3. loginStep # "over" /\ loginStep' = next /\ Upto(loginStep) <= Upto(next)
      BY <2>1, <3>1, <3>2
    <3>4. UNCHANGED <<caller, stages, answer, failedStage>>
      BY <1>1, <2>3
    <3> QED BY <3>2, <3>3, <3>4, ReportGoes, Zenon
  <2> QED BY <1>10, <2>2, <2>3 DEF Settle, Go
<1>11. CASE Reclassify
  <2>1. /\ loginStep # "over" /\ Upto(loginStep) = 3 /\ 3 <= 4 /\ 4 <= 6
        /\ Upto("url") = 4 /\ Upto("verify") = 6
    <3>1. loginStep \in {"settled", "settled restricted"}
      BY <1>11 DEF Reclassify
    <3>2. loginStep # "over" /\ Upto(loginStep) = 3 /\ Upto("url") = 4 /\ Upto("verify") = 6
      BY <3>1, UptoOf, Zenon
    <3> QED BY <3>2
  <2>2. \/ \E code \in {"REGION_RESTRICTION", "SECURITY_CHALLENGE", "LOGIN_FORM_UNAVAILABLE"} :
             Fails("LoginFormDetector", code)
        \/ Passes("LoginFormDetector", "url") \/ Passes("LoginFormDetector", "verify")
    BY <1>11 DEF Reclassify
  <2>3. CASE Passes("LoginFormDetector", "url")
    BY <2>1, <2>3, PlacesAre, ReportPasses DEF StageNames
  <2>4. CASE Passes("LoginFormDetector", "verify")
    BY <2>1, <2>4, PlacesAre, ReportPasses DEF StageNames
  <2>5. ASSUME NEW code \in {"REGION_RESTRICTION", "SECURITY_CHALLENGE", "LOGIN_FORM_UNAVAILABLE"},
               Fails("LoginFormDetector", code)
        PROVE  ReportInv'
    BY <2>1, <2>5, PlacesAre, ReportFails DEF StageNames
  <2> QED BY <2>2, <2>3, <2>4, <2>5
<1>12. CASE SubmitUrl \/ SubmitNavigate \/ SubmitWait \/ SubmitClassify \/ SubmitFields \/ SubmitType
            \/ SubmitPoll \/ SubmitRead \/ SubmitLook
  <2> DEFINE submitting == {"url", "submit navigate", "wait", "submit classify", "fields", "type", "poll",
                            "polled", "look", "answered"}
  <2>1. /\ UNCHANGED <<stages, answer, failedStage>>
        /\ loginStep \in submitting /\ loginStep' \in submitting
    BY <1>12 DEF SubmitUrl, SubmitNavigate, SubmitWait, SubmitClassify, SubmitFields, SubmitType,
                SubmitPoll,
                 SubmitRead, SubmitLook, Step, Go, Answers, NavRetry, NavArrives, WhenTimeIsUp
  <2>2. \A at \in submitting : Upto(at) = 4
    BY DEF Upto
  <2>3. PICK next \in submitting : next = loginStep'
    BY <2>1
  <2>4. Upto(loginStep) = 4 /\ Upto(next) = 4
    BY <2>1, <2>2
  <2>5. loginStep # "over" /\ next # "over"
    BY <2>1
  <2> HIDE DEF submitting
  <2> QED BY <2>1, <2>3, <2>4, <2>5, ReportGoes
<1>13. CASE PipelineAnswered
  <2>1. loginStep = "answered" /\ Upto(loginStep) = 4 /\ Upto("verify") = 6
    BY <1>13 DEF PipelineAnswered, Upto
  <2>2. \/ Passes("CredentialSubmission", "verify")
        \/ Fails("CredentialSubmission", RejectedAs(typedIn))
    BY <1>13 DEF PipelineAnswered
  <2>3. RejectedAs(typedIn) # "SUCCESS"
    BY DEF RejectedAs
  <2> QED BY <2>1, <2>2, <2>3, PlacesAre, ReportPasses, ReportFails DEF StageNames
<1>14. CASE WorkerAnswered \/ LiveAnswered
  <2>1. caller # "pipeline"
    BY <1>14 DEF WorkerAnswered, LiveAnswered
  <2> QED BY <2>1 DEF ReportInv
<1>15. CASE Verify \/ CheckAccount
  <2>1. /\ loginStep # "over" /\ Upto(loginStep) = 6
        /\ Upto("check account") = 6 /\ Upto("persist") = 6
    <3>1. loginStep \in {"verify", "check account"}
      BY <1>15 DEF Verify, CheckAccount
    <3>2. loginStep # "over" /\ Upto(loginStep) = 6 /\ Upto("check account") = 6 /\ Upto("persist") = 6
      BY <3>1, UptoOf, Zenon
    <3> QED BY <3>2
  <2>2. \/ Passes("AuthenticationVerifier", "persist")
        \/ \E code \in {"REGION_RESTRICTION", "AUTH_VERIFICATION_FAILED"} :
             Fails("AuthenticationVerifier", code)
        \/ loginStep' = "check account" /\ UNCHANGED <<stages, answer, failedStage>>
    BY <1>15 DEF Verify, CheckAccount, Verified, Go
  <2>3. /\ PlaceOf("AuthenticationVerifier") >= Upto(loginStep)
        /\ PlaceOf("AuthenticationVerifier") <= Upto("persist")
        /\ Upto(loginStep) <= Upto("check account")
        /\ "AuthenticationVerifier" \in StageNames
    <3>1. 6 <= 6 /\ 6 >= 6
      OBVIOUS
    <3> QED BY <2>1, <3>1, PlacesAre, Zenon DEF StageNames
  <2>4. CASE Passes("AuthenticationVerifier", "persist")
    BY <2>3, <2>1, <2>4, ReportPasses
  <2>5. ASSUME NEW code \in {"REGION_RESTRICTION", "AUTH_VERIFICATION_FAILED"},
               Fails("AuthenticationVerifier", code)
        PROVE  ReportInv'
    BY <2>3, <2>1, <2>5, ReportFails
  <2>6. CASE loginStep' = "check account" /\ UNCHANGED <<stages, answer, failedStage>>
    BY <2>3, <2>1, <2>6, ReportGoes
  <2> QED BY <2>2, <2>4, <2>5, <2>6
<1>16. CASE NothingToKeep \/ Capture \/ Save
  <2>1. loginStep # "over" /\ Upto(loginStep) = 6 /\ Upto("save") = 6 /\ 6 <= 6 /\ 6 <= 7
    <3>1. loginStep \in {"persist", "save"}
      BY <1>16 DEF NothingToKeep, Capture, Save
    <3>2. loginStep # "over" /\ Upto(loginStep) = 6 /\ Upto("save") = 6
      BY <3>1, UptoOf, Zenon
    <3> QED BY <3>2
  <2>2. \/ Reported("SessionPersistence", TRUE) /\ LoginOver("SUCCESS", "none")
        \/ Fails("SessionPersistence", "SESSION_PERSISTENCE_FAILED")
        \/ loginStep' = "save" /\ UNCHANGED <<stages, answer, failedStage>>
    BY <1>16 DEF NothingToKeep, Capture, Save, Go
  <2>3. CASE Reported("SessionPersistence", TRUE) /\ LoginOver("SUCCESS", "none")
    BY <2>1, <2>3, PlacesAre, ReportEnds DEF StageNames
  <2>4. CASE Fails("SessionPersistence", "SESSION_PERSISTENCE_FAILED")
    BY <2>1, <2>4, PlacesAre, ReportFails DEF StageNames
  <2>5. CASE loginStep' = "save" /\ UNCHANGED <<stages, answer, failedStage>>
    BY <2>1, <2>5, ReportGoes
  <2> QED BY <2>2, <2>3, <2>4, <2>5
<1> QED BY <1>2, <1>3, <1>4, <1>5, <1>6, <1>7, <1>8, <1>9, <1>10, <1>11, <1>12, <1>13, <1>14, <1>15,
           <1>16 DEF LoginNext, LoginSteps

\* Hence the report matches the stages.
LEMMA ReportTells == ReportInv => ReportMatchesStages
<1> SUFFICES ASSUME ReportInv, loginStep = "over", caller = "pipeline"
             PROVE  ReportMatchesStages
  BY DEF ReportMatchesStages
<1>1. Ended(stages, answer, failedStage)
  BY DEF ReportInv
<1>2. \A i \in 1..(Len(stages) - 1) :
         stages[i].ok = TRUE /\ PlaceOf(stages[i].stage) <= PlaceOf(stages[i + 1].stage)
  BY <1>1 DEF Ended, InOrder
<1>3. CASE answer = "SUCCESS"
  BY <1>1, <1>2, <1>3 DEF ReportMatchesStages, Ended, StageReport, PlaceOf
<1>4. CASE answer # "SUCCESS"
  <2>1. stages[Len(stages)].ok = FALSE /\ failedStage = stages[Len(stages)].stage
    BY <1>1, <1>4 DEF Ended, StageReport
  <2> QED BY <1>2, <1>4, <2>1 DEF ReportMatchesStages, PlaceOf
<1> QED BY <1>3, <1>4

\* All that a login keeps.
LoginInv == TypedInv /\ SeenInv /\ GeoInv /\ ReportInv

\* Hence its report claims nothing that was not seen.
LEMMA HonestLogin == LoginInv => LoginIsHonest
<1> SUFFICES ASSUME LoginInv PROVE LoginIsHonest
  OBVIOUS
<1>1. CredentialsOnce
  BY DEF LoginInv, TypedInv, CredentialsOnce
<1>2. SuccessWasSeen
  BY Zenon DEF LoginInv, SeenInv, SuccessWasSeen
<1>3. GeoIsNamed
  BY Zenon DEF LoginInv, GeoInv, GeoIsNamed
<1> QED BY <1>1, <1>2, <1>3, ReportTells DEF LoginInv, LoginIsHonest

PageStates == {"LOGIN_FORM", "AUTHENTICATED", "GEO_RESTRICTED", "SECURITY_CHALLENGE", "UNKNOWN"}

\* The stages of a report are those of the pipeline.
LEMMA StagesAreNamed ==
  /\ {LoginStages[i] : i \in DOMAIN LoginStages} = StageNames
  /\ \A i \in 1..7 : LoginStages[i] \in StageNames
<1>1. DOMAIN LoginStages = 1..7
  BY DEF LoginStages
<1>2. \A i \in 1..7 : i = 1 \/ i = 2 \/ i = 3 \/ i = 4 \/ i = 5 \/ i = 6 \/ i = 7
  OBVIOUS
<1>3. /\ LoginStages[1] = "BrowserNavigation" /\ LoginStages[2] = "LoginPageDetector"
      /\ LoginStages[3] = "RegionRestrictionDetector" /\ LoginStages[4] = "LoginFormDetector"
      /\ LoginStages[5] = "CredentialSubmission" /\ LoginStages[6] = "AuthenticationVerifier"
      /\ LoginStages[7] = "SessionPersistence"
  BY DEF LoginStages
<1>4. \A i \in 1..7 : LoginStages[i] \in StageNames
  BY <1>2, <1>3 DEF StageNames
<1>5. \A s \in StageNames : \E i \in 1..7 : LoginStages[i] = s
  <2>1. 1 \in 1..7 /\ 2 \in 1..7 /\ 3 \in 1..7 /\ 4 \in 1..7 /\ 5 \in 1..7 /\ 6 \in 1..7 /\ 7 \in 1..7
    OBVIOUS
  <2> QED BY <1>3, <2>1, Zenon DEF StageNames
<1> QED BY <1>1, <1>4, <1>5, Zenon

\* A Boolean is one of the two.
LEMMA EitherHolds ==
  ASSUME NEW a, NEW b, NEW x, x = (a \/ b) \/ x = (a /\ b)
  PROVE  x \in BOOLEAN
OBVIOUS

\* The types of the login, its page and histories, its counters, its report.
LookTypes == loginPage \in Pages /\ sawAccount \in BOOLEAN /\ alwaysGeo \in BOOLEAN
TryTypes == tries \in 0..MaxRetries /\ urls \in 0..LoginUrls
ReportTypes ==
  /\ caller \in {"pipeline", "live", "worker"} /\ withSession \in BOOLEAN
  /\ pageState \in PageStates /\ stages \in Seq(StageReports)
  /\ failedStage \in StageNames \cup {"none"} /\ sessionFile \in BOOLEAN
LoginTypes == LookTypes /\ TryTypes /\ ReportTypes

\* With TypedInv, the types of the login.
LEMMA LoginTypesMean == TypedInv /\ LoginTypes => LoginTypeOK
<1> SUFFICES ASSUME TypedInv, LoginTypes PROVE LoginTypeOK
  OBVIOUS
<1>1. typed \in Nat
  BY DEF TypedInv
<1>2. {LoginStages[i] : i \in DOMAIN LoginStages} = StageNames
  BY StagesAreNamed
<1> QED BY <1>1, <1>2, Zenon
        DEF LoginTypeOK, LoginTypes, LookTypes, TryTypes, ReportTypes, PageStates, StageReports

\* The page is any, and nothing is reported.
LEMMA LoginTypesInit == LoginInit => LoginTypes
<1> SUFFICES ASSUME LoginInit PROVE LoginTypes
  OBVIOUS
<1>1. LookTypes
  BY DEF LoginInit, LookTypes
<1>2. TryTypes
  BY LoginAssumption DEF LoginInit, TryTypes, LoginAssumption
<1>3. ReportTypes
  <2>1. stages = <<>> /\ failedStage = "none" /\ sessionFile = FALSE /\ withSession \in BOOLEAN
        /\ caller \in {"pipeline", "live", "worker"} /\ pageState = "UNKNOWN"
    BY Zenon DEF LoginInit
  <2>2. stages \in Seq(StageReports)
    BY <2>1
  <2>3. pageState \in PageStates /\ failedStage \in StageNames \cup {"none"} /\ sessionFile \in BOOLEAN
    BY <2>1, Zenon DEF PageStates
  <2> QED BY <2>1, <2>2, <2>3, Zenon DEF ReportTypes
<1> QED BY <1>1, <1>2, <1>3 DEF LoginTypes

\* What the page shows and what was seen of it.
LEMMA LookFits ==
  ASSUME LookTypes, [LoginNext]_loginVars
  PROVE  LookTypes'
<1>1. ASSUME NEW p \in Pages, SeenOn(p) PROVE LookTypes'
  <2>1. /\ loginPage' = p
        /\ sawAccount' = (sawAccount \/ Shown(p) = "account")
        /\ alwaysGeo' = (alwaysGeo /\ Shown(p) = "geo")
    BY <1>1, Zenon DEF SeenOn
  <2>2. sawAccount' \in BOOLEAN /\ alwaysGeo' \in BOOLEAN
    BY <2>1, EitherHolds, Zenon
  <2> QED BY <2>1, <2>2 DEF LookTypes
<1>2. ASSUME UNCHANGED <<loginPage, sawAccount, alwaysGeo>> PROVE LookTypes'
  BY <1>2 DEF LookTypes
<1>3. ASSUME StartClosed PROVE LookTypes'
  <2>1. /\ loginPage' = [loginPage EXCEPT !.open = FALSE] /\ alwaysGeo' = FALSE
        /\ UNCHANGED sawAccount
    BY <1>3 DEF StartClosed
  <2>2. loginPage' \in Pages
    BY <2>1 DEF LookTypes, Pages
  <2> QED BY <2>1, <2>2 DEF LookTypes
<1>4. ASSUME NEW next, NavArrives(next) PROVE LookTypes'
  <2>1. PICK p \in {q \in Pages : q.open} : SeenOn(p)
    BY <1>4 DEF NavArrives
  <2> QED BY <1>1, <2>1
<1>5. ASSUME OpenLoginUrl \/ SubmitNavigate PROVE LookTypes'
  <2>1. UNCHANGED <<loginPage, sawAccount, alwaysGeo>> \/ \E next : NavArrives(next)
    BY <1>5, Zenon DEF OpenLoginUrl, SubmitNavigate, NavRetry, pageSeen
  <2> QED BY <1>2, <1>4, <2>1, Zenon
<1>6. CASE PageChanges
  BY <1>1, <1>6 DEF PageChanges
<1>7. CASE LoginSteps
  <2>1. \/ OpenLoginUrl \/ SubmitNavigate \/ StartClosed \/ UNCHANGED <<loginPage, sawAccount, alwaysGeo>>
        \/ \E p \in Pages : SeenOn(p)
    BY <1>7, Zenon DEF LoginSteps, StartTest, Classify, Region, Form, Settle, Reclassify, StartLive,
         StartLoginWorker, SubmitUrl, SubmitWait, SubmitClassify, SubmitFields, SubmitType, SubmitPoll,
         SubmitRead, SubmitLook, PipelineAnswered, WorkerAnswered, LiveAnswered, Verify, CheckAccount,
         NothingToKeep, Capture, Save, pageSeen, ReadUntil
  <2> QED BY <1>1, <1>2, <1>3, <1>5, <2>1, Zenon
<1>8. CASE UNCHANGED loginVars
  BY <1>2, <1>8, Zenon DEF loginVars
<1> QED BY <1>6, <1>7, <1>8 DEF LoginNext

\* Tries and addresses are counted in their bounds.
LEMMA TriesFit ==
  ASSUME TryTypes, [LoginNext]_loginVars
  PROVE  TryTypes'
<1> DEFINE Tried == \/ UNCHANGED tries
                    \/ tries' = 0
                    \/ tries < MaxRetries /\ tries' = tries + 1
           Left == \/ UNCHANGED urls
                   \/ urls' = LoginUrls
                   \/ urls > 1 /\ urls' = urls - 1
<1>1. ASSUME PageChanges \/ UNCHANGED loginVars PROVE Tried /\ Left
  BY <1>1, Zenon DEF PageChanges, loginVars
<1>2. ASSUME OpenLoginUrl \/ SubmitNavigate PROVE Tried /\ Left
  BY <1>2, Zenon DEF OpenLoginUrl, SubmitNavigate, NavRetry, NavArrives
<1>3. ASSUME LoginSteps, ~OpenLoginUrl, ~SubmitNavigate PROVE Tried /\ Left
  BY <1>3, Zenon DEF LoginSteps, StartTest, StartClosed, Classify, Region, Form, Settle, Reclassify,
       StartLive, StartLoginWorker, SubmitUrl, SubmitWait, SubmitClassify, SubmitFields, SubmitType,
       SubmitPoll, SubmitRead, SubmitLook, PipelineAnswered, WorkerAnswered, LiveAnswered, Verify,
       CheckAccount, NothingToKeep, Capture, Save
<1>4. Tried /\ Left
  <2> HIDE DEF Tried, Left
  <2> QED BY <1>1, <1>2, <1>3, Zenon DEF LoginNext
<1> QED BY <1>4, LoginAssumption DEF TryTypes, LoginAssumption

\* A stage that is reported is one of the seven, once or, signed in already,
\* the last three at a time.
LEMMA ReportGrows ==
  ASSUME NEW s \in Seq(StageReports), NEW stage \in StageNames, NEW ok \in BOOLEAN
  PROVE  /\ Append(s, [stage |-> stage, ok |-> ok]) \in Seq(StageReports)
         /\ s \o [i \in 1..3 |-> [stage |-> LoginStages[i + 3], ok |-> TRUE]] \in Seq(StageReports)
<1>1. [stage |-> stage, ok |-> ok] \in StageReports
  BY DEF StageReports
<1>2. Append(s, [stage |-> stage, ok |-> ok]) \in Seq(StageReports)
  <2>1. PICK e \in StageReports : e = [stage |-> stage, ok |-> ok]
    BY <1>1
  <2> HIDE DEF StageReports
  <2> QED BY <2>1
<1>3. \A i \in 1..3 : [stage |-> LoginStages[i + 3], ok |-> TRUE] \in StageReports
  <2>1. ASSUME NEW i \in 1..3 PROVE [stage |-> LoginStages[i + 3], ok |-> TRUE] \in StageReports
    <3>1. i + 3 \in 1..7
      OBVIOUS
    <3>2. PICK n \in StageNames : n = LoginStages[i + 3]
      BY <3>1, StagesAreNamed, Zenon
    <3> QED BY <3>2 DEF StageReports
  <2> QED BY <2>1
<1>4. [i \in 1..3 |-> [stage |-> LoginStages[i + 3], ok |-> TRUE]] \in Seq(StageReports)
  <2>1. PICK f : f = [i \in 1..3 |-> [stage |-> LoginStages[i + 3], ok |-> TRUE]]
    OBVIOUS
  <2>2. f \in [1..3 -> StageReports]
    <3> HIDE DEF StageReports
    <3> QED BY <1>3, <2>1
  <2>3. f \in Seq(StageReports)
    <3>1. 3 \in Nat
      OBVIOUS
    <3> QED BY <2>2, <3>1, SeqDef, Zenon
  <2> QED BY <2>1, <2>3, Zenon
<1>5. s \o [i \in 1..3 |-> [stage |-> LoginStages[i + 3], ok |-> TRUE]] \in Seq(StageReports)
  BY <1>4, ConcatProperties, Zenon
<1> QED BY <1>2, <1>5

\* A page is classified as one of five.
LEMMA ClassifiedFits == \A p : Classified(loginPage, p) \in PageStates
BY DEF Classified, PageStates

\* What is reported is of stages in their order.
LEMMA ReportFits ==
  ASSUME ReportTypes, [LoginNext]_loginVars
  PROVE  ReportTypes'
<1> DEFINE Staged == \/ UNCHANGED stages
                     \/ \E stage \in StageNames, ok \in BOOLEAN :
                          stages' = Append(stages, [stage |-> stage, ok |-> ok])
                     \/ stages' = stages \o [i \in 1..3 |-> [stage |-> LoginStages[i + 3], ok |-> TRUE]]
           Blamed == UNCHANGED failedStage \/ failedStage' \in StageNames \cup {"none"}
           Seen == UNCHANGED pageState \/ \E p : pageState' = Classified(loginPage, p)
           Written == UNCHANGED sessionFile \/ sessionFile' = TRUE
           Fits == Staged /\ Blamed /\ Seen /\ Written
<1>1. ASSUME NEW stage \in StageNames, NEW code, Fails(stage, code)
      PROVE  Staged /\ Blamed
  BY <1>1 DEF Fails, Reported, LoginOver
<1>2. ASSUME NEW stage \in StageNames, NEW next, Passes(stage, next)
      PROVE  Staged /\ Blamed
  BY <1>2 DEF Passes, Reported
<1>3. ASSUME NEW ok, Verified(ok) PROVE Staged /\ Blamed
  BY <1>1, <1>2, <1>3 DEF Verified, StageNames
<1>4. /\ "BrowserNavigation" \in StageNames /\ "LoginPageDetector" \in StageNames
      /\ "RegionRestrictionDetector" \in StageNames /\ "LoginFormDetector" \in StageNames
      /\ "CredentialSubmission" \in StageNames /\ "AuthenticationVerifier" \in StageNames
      /\ "SessionPersistence" \in StageNames
  BY DEF StageNames
<1>5. ASSUME \/ StartClosed \/ OpenLoginUrl \/ Classify \/ Region \/ Settle \/ Reclassify
             \/ PipelineAnswered \/ Verify \/ CheckAccount \/ Capture
      PROVE  Fits
  <2>1. Staged /\ Blamed
    <3>1. \/ UNCHANGED <<stages, failedStage>>
          \/ \E stage \in StageNames : \E x : Fails(stage, x) \/ Passes(stage, x)
          \/ \E ok : Verified(ok)
      BY <1>4, <1>5, Zenon DEF StartClosed, OpenLoginUrl, Classify, Region, Settle, Reclassify,
         PipelineAnswered, Verify, CheckAccount, Capture, NavRetry, NavArrives
    <3> HIDE DEF Staged, Blamed
    <3>2. UNCHANGED <<stages, failedStage>> => Staged /\ Blamed
      BY DEF Staged, Blamed
    <3> QED BY <1>1, <1>2, <1>3, <3>1, <3>2, Zenon
  <2>2. Seen /\ Written
    BY <1>5, Zenon DEF StartClosed, OpenLoginUrl, Classify, Region, Settle, Reclassify,
       PipelineAnswered, Verify, CheckAccount, Capture
  <2> QED BY <2>1, <2>2
<1>6. ASSUME Form PROVE Fits
  <2>1. Staged /\ Blamed
    <3>1. \/ \E stage \in StageNames : \E x : Fails(stage, x) \/ Passes(stage, x)
          \/ /\ stages' = stages \o [i \in 1..3 |-> [stage |-> LoginStages[i + 3], ok |-> TRUE]]
             /\ UNCHANGED failedStage
      BY <1>4, <1>6, Zenon DEF Form
    <3> QED BY <1>1, <1>2, <3>1, Zenon
  <2>2. Seen /\ Written
    BY <1>6, Zenon DEF Form
  <2> QED BY <2>1, <2>2
<1>7. ASSUME NothingToKeep \/ Save PROVE Fits
  <2>1. Staged /\ Blamed
    <3>1. CASE Fails("SessionPersistence", "SESSION_PERSISTENCE_FAILED")
      BY <1>1, <1>4, <3>1
    <3>2. CASE Reported("SessionPersistence", TRUE) /\ LoginOver("SUCCESS", "none")
      BY <1>4, <3>2, Zenon DEF Reported, LoginOver
    <3> QED BY <1>7, <3>1, <3>2, Zenon DEF NothingToKeep, Save
  <2>2. Seen /\ Written
    BY <1>7, Zenon DEF NothingToKeep, Save
  <2> QED BY <2>1, <2>2
<1>8. ASSUME \/ PageChanges \/ UNCHANGED loginVars \/ StartTest \/ StartLive \/ StartLoginWorker
             \/ SubmitUrl \/ SubmitNavigate \/ SubmitWait \/ SubmitClassify \/ SubmitFields \/ SubmitType
             \/ SubmitPoll \/ SubmitRead \/ SubmitLook \/ WorkerAnswered \/ LiveAnswered
      PROVE  Fits
  <2>1. UNCHANGED <<stages, pageState, sessionFile>> /\ (UNCHANGED failedStage \/ failedStage' = "none")
    BY <1>8, Zenon DEF PageChanges, loginVars, StartTest, StartLive, StartLoginWorker,
       SubmitUrl, SubmitNavigate, SubmitWait, SubmitClassify, SubmitFields, SubmitType, SubmitPoll,
       SubmitRead, SubmitLook, WorkerAnswered, LiveAnswered, Step, LoginOver
  <2> QED BY <2>1, Zenon
<1>9. Fits
  <2> HIDE DEF Fits
  <2> QED BY <1>5, <1>6, <1>7, <1>8, Zenon DEF LoginNext, LoginSteps
<1>10. stages' \in Seq(StageReports)
  <2>1. stages \in Seq(StageReports)
    BY DEF ReportTypes
  <2>2. Staged
    BY <1>9
  <2>3. "SessionPersistence" \in StageNames /\ TRUE \in BOOLEAN
    BY <1>4
  <2> QED BY <2>1, <2>2, <2>3, ReportGrows, Zenon
<1>11. pageState' \in PageStates /\ failedStage' \in StageNames \cup {"none"} /\ sessionFile' \in BOOLEAN
  BY <1>9, ClassifiedFits DEF ReportTypes
<1>12. UNCHANGED <<caller, withSession>>
  BY CallerStays
<1> QED BY <1>10, <1>11, <1>12, Zenon DEF ReportTypes

\* So each step of the login keeps the types.
LEMMA LoginTypesNext ==
  ASSUME LoginTypes, [LoginNext]_loginVars
  PROVE  LoginTypes'
BY LookFits, TriesFit, ReportFits DEF LoginTypes

\* What the invariants of the four parts leave open.
CapitalTypes == peak \in 0..Bankroll /\ bankroll \in 0..peak /\ capitalLocked \in BOOLEAN
LatencyRecord == [op : {"PLACED", "CASHED_OUT"}, slow : BOOLEAN]
SafeTypes ==
  /\ snapshots \in Seq({EntryNeeds - 1, EntryNeeds}) /\ Len(snapshots) <= MaxSnapshots
  /\ latencies \in Seq(LatencyRecord) /\ Len(latencies) <= MaxLatencies
  /\ unparseable \in BOOLEAN /\ entryCount <= MaxPlacements
SlotTypes ==
  /\ txTries \in [Writers -> 0..MaxAttempts]
  /\ \A w \in Writers : txAt[w] = "idle" => txTries[w] < MaxAttempts
  /\ rowLock \in Writers \cup {"free"} /\ readAt \in {"idle", "between"}
ConfirmTypes ==
  /\ wsBuffer \subseteq Frames /\ hooked \in {"no", "next page", "yes"}
  /\ observed \in {"polling", "confirmed", "unknown"}

\* With the invariants of two of them, the types of the gates.
LEMMA GateTypesMean ==
  CapitalTypes /\ SafeInv /\ SafeTypes /\ SlotInv /\ SlotTypes /\ ConfirmTypes => GateTypeOK
<1> SUFFICES ASSUME CapitalTypes, SafeInv, SafeTypes, SlotInv, SlotTypes, ConfirmTypes PROVE GateTypeOK
  OBVIOUS
<1>1. counterDay \in 0..today /\ entryCount \in 0..MaxPlacements
  <2>1. /\ counterDay \in Nat /\ today \in Nat /\ counterDay <= today /\ entryCount \in Nat
        /\ entryCount <= MaxPlacements
    BY Zenon DEF SafeInv, SafeTypes
  <2> QED BY <2>1, GateAssumption DEF GateAssumption
<1>2. slotsReserved \in 0..SlotLimit /\ slotsConfirmed \in 0..SlotLimit
  BY GateAssumption DEF SlotInv, GateAssumption
<1>3. txAt \in [Writers -> {"idle", "waiting", "holds", "placing", "done", "refused", "thrown"}]
  BY Zenon DEF SlotInv, TxSteps
<1> QED BY <1>1, <1>2, <1>3, Zenon DEF GateTypeOK, CapitalTypes, SafeTypes, SlotTypes, ConfirmTypes

\* The bankroll starts at its peak.
LEMMA CapitalTypesInit == CapitalInit => CapitalTypes
<1>1. CapitalInit => peak = Bankroll /\ bankroll = Bankroll /\ capitalLocked = FALSE
  BY Zenon DEF CapitalInit
<1>2. Bankroll \in 0..Bankroll
  BY GateAssumption DEF GateAssumption
<1> QED BY <1>1, <1>2 DEF CapitalTypes

\* It stays below the highest it was, and that within the bound.
LEMMA CapitalTypesNext ==
  ASSUME CapitalTypes, [CapitalNext]_capitalVars
  PROVE  CapitalTypes'
<1>0. Bankroll \in Nat /\ peak \in 0..Bankroll /\ bankroll \in 0..peak /\ capitalLocked \in BOOLEAN
  BY GateAssumption DEF CapitalTypes, GateAssumption
<1>1. ASSUME NEW b \in 0..Bankroll, UpdateBalance(b) PROVE CapitalTypes'
  <2>1. bankroll' = b /\ peak' = IF b > peak THEN b ELSE peak
    BY <1>1, Zenon DEF UpdateBalance
  <2>2. peak' \in 0..Bankroll /\ bankroll' \in 0..peak'
    BY <1>0, <2>1
  <2>3. capitalLocked' = (capitalLocked \/ Breach(peak', b))
    BY <1>1, Zenon DEF UpdateBalance, CapitalEvaluated
  <2>4. capitalLocked' \in BOOLEAN
    BY <2>3, EitherHolds, Zenon
  <2> QED BY <2>2, <2>4, Zenon DEF CapitalTypes
<1>2. ASSUME NEW b \in 0..Bankroll, b > 0, LoseBet(b) PROVE CapitalTypes'
  <2>1. b <= bankroll /\ UpdateBalance(bankroll - b)
    BY <1>2, Zenon DEF LoseBet, CanPlaceBet
  <2>2. bankroll - b \in 0..Bankroll
    BY <1>0, <1>2, <2>1
  <2> QED BY <1>1, <2>1, <2>2, Zenon
<1>3. CASE Unlock \/ UNCHANGED capitalVars
  <2>1. UNCHANGED <<peak, bankroll>> /\ (capitalLocked' = FALSE \/ UNCHANGED capitalLocked)
    BY <1>3, Zenon DEF Unlock, capitalVars
  <2>2. capitalLocked' \in BOOLEAN
    BY <1>0, <2>1
  <2> QED BY <1>0, <2>1, <2>2, Zenon DEF CapitalTypes
<1> QED BY <1>1, <1>2, <1>3, Zenon DEF CapitalNext

\* The last of the records and one more are no more than are kept.
LEMMA KeepLastFits ==
  ASSUME NEW S, NEW s \in Seq(S), NEW e \in S, NEW n \in Nat
  PROVE  KeepLast(Append(s, e), n) \in Seq(S) /\ Len(KeepLast(Append(s, e), n)) <= n
<1>1. PICK t : t = Append(s, e)
  OBVIOUS
<1>2. t \in Seq(S)
  BY <1>1
<1>3. PICK l \in Nat : l = Len(t)
  BY <1>2
<1>4. CASE l > n
  <2>1. KeepLast(t, n) = SubSeq(t, l - n + 1, l)
    BY <1>3, <1>4 DEF KeepLast
  <2>2. PICK a \in 1..(l + 1) : a = l - n + 1
    BY <1>4
  <2>3. SubSeq(t, a, l) \in Seq(S) /\ Len(SubSeq(t, a, l)) = IF a <= l THEN l - a + 1 ELSE 0
    <3>1. /\ SubSeq(t, a, l) \in Seq(S)
          /\ Len(SubSeq(t, a, l)) = IF a <= l THEN l - a + 1 ELSE 0
      BY <1>2, <1>3
    <3> QED BY <3>1
  <2>4. PICK u : u = SubSeq(t, a, l)
    OBVIOUS
  <2>5. u \in Seq(S) /\ Len(u) = IF a <= l THEN l - a + 1 ELSE 0
    BY <2>3, <2>4, Zenon
  <2>6. Len(u) <= n
    BY <1>4, <2>2, <2>5
  <2>7. KeepLast(t, n) = u
    BY <2>1, <2>2, <2>4, Zenon
  <2>8. KeepLast(Append(s, e), n) = u
    BY <1>1, <2>7, Zenon
  <2> QED BY <2>5, <2>6, <2>8, Zenon
<1>5. CASE ~(l > n)
  <2>1. KeepLast(t, n) = t
    BY <1>3, <1>5 DEF KeepLast
  <2> QED BY <1>1, <1>2, <1>3, <1>5, <2>1
<1> QED BY <1>4, <1>5

\* No latency was recorded at first.
LEMMA SafeTypesInit == SafeInit => SafeTypes
<1>1. SafeInit => snapshots = <<>> /\ latencies = <<>> /\ unparseable = FALSE /\ entryCount = 0
  BY Zenon DEF SafeInit
<1>2. SafeInit => /\ snapshots \in Seq({EntryNeeds - 1, EntryNeeds}) /\ Len(snapshots) <= MaxSnapshots
                  /\ latencies \in Seq(LatencyRecord) /\ Len(latencies) <= MaxLatencies
                  /\ entryCount <= MaxPlacements
  BY <1>1, GateAssumption DEF GateAssumption
<1> QED BY <1>1, <1>2 DEF SafeTypes

\* Records, entries and days keep the types.
LEMMA SafeTypesNext ==
  ASSUME SafeInv, SafeTypes, [SafeNext]_safeVars
  PROVE  SafeTypes'
<1> DEFINE Balances == {EntryNeeds - 1, EntryNeeds}
<1>0. MaxSnapshots \in Nat /\ MaxLatencies \in Nat
  BY GateAssumption DEF GateAssumption
<1>1. snapshots' \in Seq(Balances) /\ Len(snapshots') <= MaxSnapshots
  <2>1. \/ UNCHANGED snapshots \/ snapshots' = <<>>
        \/ \E b \in Balances : snapshots' = KeepLast(Append(snapshots, b), MaxSnapshots)
    BY Zenon DEF SafeNext, ClearTracker, Midnight, ClearLatencyHistory, RecordBalance,
         MarkUnparseable, Enter, LeaveBet, safeVars
  <2> HIDE DEF Balances
  <2>2. snapshots \in Seq(Balances) /\ Len(snapshots) <= MaxSnapshots
    BY DEF SafeTypes, Balances
  <2>3. CASE UNCHANGED snapshots \/ snapshots' = <<>>
    <3>1. <<>> \in Seq(Balances) /\ Len(<<>>) <= MaxSnapshots
      BY <1>0
    <3> QED BY <2>2, <2>3, <3>1, Zenon
  <2>4. ASSUME NEW b \in Balances, snapshots' = KeepLast(Append(snapshots, b), MaxSnapshots)
        PROVE  snapshots' \in Seq(Balances) /\ Len(snapshots') <= MaxSnapshots
    <3>1. /\ KeepLast(Append(snapshots, b), MaxSnapshots) \in Seq(Balances)
          /\ Len(KeepLast(Append(snapshots, b), MaxSnapshots)) <= MaxSnapshots
      BY <1>0, <2>2, KeepLastFits, Zenon
    <3> QED BY <2>4, <3>1, Zenon
  <2> QED BY <2>1, <2>3, <2>4, Zenon
<1>2. latencies' \in Seq(LatencyRecord) /\ Len(latencies') <= MaxLatencies
  <2>1. \/ UNCHANGED latencies \/ latencies' = <<>>
        \/ \E l \in LatencyRecord : latencies' = KeepLast(Append(latencies, l), MaxLatencies)
    <3>1. ASSUME NEW op \in {"PLACED", "CASHED_OUT"}, NEW slow \in BOOLEAN, CheckPostFlight(op, slow)
          PROVE  \E l \in LatencyRecord : latencies' = KeepLast(Append(latencies, l), MaxLatencies)
      <4>1. [op |-> op, slow |-> slow] \in LatencyRecord
        BY DEF LatencyRecord
      <4> QED BY <3>1, <4>1, Zenon DEF CheckPostFlight
    <3>2. \/ UNCHANGED latencies \/ latencies' = <<>>
          \/ \E op \in {"PLACED", "CASHED_OUT"}, slow \in BOOLEAN : CheckPostFlight(op, slow)
      BY Zenon DEF SafeNext, ClearTracker, Midnight, ClearLatencyHistory, RecordBalance,
           MarkUnparseable, Enter, LeaveBet, safeVars
    <3> QED BY <3>1, <3>2, Zenon
  <2>2. latencies \in Seq(LatencyRecord) /\ Len(latencies) <= MaxLatencies
    BY DEF SafeTypes
  <2>3. CASE UNCHANGED latencies \/ latencies' = <<>>
    <3>1. <<>> \in Seq(LatencyRecord) /\ Len(<<>>) <= MaxLatencies
      BY <1>0
    <3> QED BY <2>2, <2>3, <3>1, Zenon
  <2>4. ASSUME NEW l \in LatencyRecord, latencies' = KeepLast(Append(latencies, l), MaxLatencies)
        PROVE  latencies' \in Seq(LatencyRecord) /\ Len(latencies') <= MaxLatencies
    <3>1. /\ KeepLast(Append(latencies, l), MaxLatencies) \in Seq(LatencyRecord)
          /\ Len(KeepLast(Append(latencies, l), MaxLatencies)) <= MaxLatencies
      BY <1>0, <2>2, KeepLastFits, Zenon
    <3> QED BY <2>4, <3>1, Zenon
  <2> QED BY <2>1, <2>3, <2>4, Zenon
<1>3. unparseable' \in BOOLEAN
  <2>1. UNCHANGED unparseable \/ unparseable' = FALSE \/ \E is \in BOOLEAN : unparseable' = is
    BY Zenon DEF SafeNext, ClearTracker, Midnight, ClearLatencyHistory, RecordBalance,
         MarkUnparseable, Enter, LeaveBet, safeVars
  <2> QED BY <2>1 DEF SafeTypes
<1>4. entryCount' <= MaxPlacements
  <2>1. UNCHANGED entryCount \/ (entryCount' = CountToday + 1 /\ CountToday < MaxPlacements)
    BY Zenon DEF SafeNext, ClearTracker, Midnight, ClearLatencyHistory, RecordBalance,
         MarkUnparseable, Enter, LeaveBet, CheckPreFlight, safeVars
  <2>2. CountToday \in Nat /\ entryCount <= MaxPlacements
    BY DEF SafeInv, SafeTypes, CountToday
  <2> QED BY <2>1, <2>2, GateAssumption DEF GateAssumption
<1> QED BY <1>1, <1>2, <1>3, <1>4, Zenon DEF SafeTypes

\* No slot is taken at first.
LEMMA SlotTypesInit == SlotInit => SlotTypes
BY GateAssumption DEF SlotInit, SlotTypes, GateAssumption

\* Writers take slots and rows within the bounds.
LEMMA SlotTypesNext ==
  ASSUME SlotInv, SlotTypes, [SlotsNext]_slotVars
  PROVE  SlotTypes'
<1> DEFINE TriesOfWriters(at, tried) ==
             /\ tried \in [Writers -> 0..MaxAttempts]
             /\ \A w \in Writers : at[w] = "idle" => tried[w] < MaxAttempts
<1>0. txAt \in [Writers -> TxSteps] /\ TriesOfWriters(txAt, txTries) /\ MaxAttempts \in Nat \ {0}
  BY GateAssumption DEF SlotInv, SlotTypes, GateAssumption
<1>1. rowLock' \in Writers \cup {"free"} /\ readAt' \in {"idle", "between"}
  <2>1. /\ UNCHANGED rowLock \/ rowLock' = "free" \/ \E w \in Writers : rowLock' = w
        /\ UNCHANGED readAt \/ readAt' = "idle" \/ readAt' = "between"
    BY Zenon DEF SlotsNext, ReadConfirmed, ReadReserved, BeginTx, LockDailyStats, Commit, CommitFails,
         AfterPlacing, slotVars, noRead
  <2> QED BY <2>1 DEF SlotTypes
<1>2. CASE ReadConfirmed \/ ReadReserved \/ UNCHANGED slotVars
  <2>1. UNCHANGED <<txAt, txTries>>
    BY <1>2, Zenon DEF ReadConfirmed, ReadReserved, slotVars
  <2> QED BY <1>0, <1>1, <2>1 DEF SlotTypes
<1>3. ASSUME NEW w \in Writers, NEW at,
             txAt' = [txAt EXCEPT ![w] = at], UNCHANGED txTries, at = "idle" => txTries[w] < MaxAttempts
      PROVE  SlotTypes'
  <2>1. TriesOfWriters(txAt', txTries')
    BY <1>0, <1>3
  <2> QED BY <1>1, <2>1 DEF SlotTypes
<1>4. ASSUME NEW w \in Writers, BeginTx(w) PROVE SlotTypes'
  <2>1. /\ txAt[w] = "idle" /\ txAt' = [txAt EXCEPT ![w] = "waiting"]
        /\ txTries' = [txTries EXCEPT ![w] = @ + 1]
    BY <1>4 DEF BeginTx
  <2>2. PICK n \in 0..MaxAttempts : n = txTries[w] + 1
    BY <1>0, <2>1
  <2>3. txTries' = [txTries EXCEPT ![w] = n]
    BY <2>1, <2>2
  <2>4. TriesOfWriters(txAt', txTries')
    BY <1>0, <2>1, <2>2, <2>3
  <2> QED BY <1>1, <2>4 DEF SlotTypes
<1>5. ASSUME NEW w \in Writers, AfterPlacing(w) PROVE SlotTypes'
  <2>1. txAt' = [txAt EXCEPT ![w] = "idle"] /\ txTries' = [txTries EXCEPT ![w] = 0]
    BY <1>5 DEF AfterPlacing
  <2>2. TriesOfWriters(txAt', txTries')
    BY <1>0, <2>1
  <2> QED BY <1>1, <2>2 DEF SlotTypes
<1>6. ASSUME NEW w \in Writers, LockDailyStats(w) \/ Commit(w) \/ CommitFails(w) PROVE SlotTypes'
  <2>1. UNCHANGED txTries
    BY <1>6, Zenon DEF LockDailyStats, Commit, CommitFails, noRow, noRead
  <2>2. \/ \E again : AfterRollback(w, again)
        \/ \E at \in {"holds", "refused", "placing", "done"} : txAt' = [txAt EXCEPT ![w] = at]
    <3>1. CASE LockDailyStats(w)
      BY <3>1, Zenon DEF LockDailyStats
    <3>2. CASE Commit(w)
      BY <3>2, Zenon DEF Commit
    <3>3. CASE CommitFails(w)
      BY <3>3, Zenon DEF CommitFails, OnError
    <3> QED BY <1>6, <3>1, <3>2, <3>3
  <2>3. \E at : txAt' = [txAt EXCEPT ![w] = at] /\ (at = "idle" => txTries[w] < MaxAttempts)
    <3>1. ASSUME NEW again, AfterRollback(w, again)
          PROVE  \E at : txAt' = [txAt EXCEPT ![w] = at] /\ (at = "idle" => txTries[w] < MaxAttempts)
      <4>1. txAt' = [txAt EXCEPT ![w] = IF again /\ txTries[w] < MaxAttempts THEN "idle" ELSE "thrown"]
        BY <3>1, Zenon DEF AfterRollback
      <4>2. CASE again /\ txTries[w] < MaxAttempts
        BY <4>1, <4>2, Zenon
      <4>3. CASE ~(again /\ txTries[w] < MaxAttempts)
        <5>1. txAt' = [txAt EXCEPT ![w] = "thrown"] /\ "thrown" # "idle"
          BY <4>1, <4>3
        <5> QED BY <5>1, Zenon
      <4> QED BY <4>2, <4>3, Zenon
    <3>2. ASSUME NEW at \in {"holds", "refused", "placing", "done"}, txAt' = [txAt EXCEPT ![w] = at]
          PROVE  at # "idle"
      OBVIOUS
    <3> QED BY <2>2, <3>1, <3>2, Zenon
  <2> QED BY <1>3, <2>1, <2>3, Zenon
<1> QED BY <1>2, <1>4, <1>5, <1>6, Zenon DEF SlotsNext

\* Nothing was confirmed at first.
LEMMA ConfirmTypesInit == ConfirmInit => ConfirmTypes
BY DEF ConfirmInit, ConfirmTypes

\* Frames are buffered and cleared; the hook and the verdict are among their
\* values.
LEMMA ConfirmTypesNext ==
  ASSUME ConfirmTypes, [ConfirmNext]_confirmVars
  PROVE  ConfirmTypes'
<1>1. /\ UNCHANGED wsBuffer \/ wsBuffer' = {} \/ \E f \in Frames : wsBuffer' = wsBuffer \cup {f}
      /\ UNCHANGED hooked \/ hooked' \in {"no", "next page", "yes"}
      /\ UNCHANGED observed \/ observed' \in {"polling", "confirmed", "unknown"}
  BY DEF ConfirmNext, AttachWebSocketListener, PageNavigated, ServerAccepts, BufferEmptied, Poll,
     Deadline, PageShows, CrashFrameArrives, confirmVars
<1> QED BY <1>1 DEF ConfirmTypes
-----------------------------------------------------------------------------
(* The ticks: batched, sent, written, reported or deleted.                 *)
\* The ticks of the batches on their way.
OnTheWay == UNION {TicksOf(f.ticks) : f \in flights}

\* Inductive: every tick observed is somewhere, and what is sent is a batch.
TicksInv ==
  /\ produced \in Nat /\ batchBuffer \in Seq(Nat)
  /\ \A f \in flights : f.ticks \in Seq(Nat)
  /\ 1..produced = TicksOf(batchBuffer) \cup OnTheWay \cup ticks \cup reported \cup deleted

\* Of no tick and of one.
LEMMA TicksOfFew ==
  /\ TicksOf(<<>>) = {}
  /\ \A t \in Nat : TicksOf(<<t>>) = {t}
BY DEF TicksOf

\* An appended tick is one more.
LEMMA TicksOfMore ==
  ASSUME NEW s \in Seq(Nat), NEW t \in Nat
  PROVE  Append(s, t) \in Seq(Nat) /\ TicksOf(Append(s, t)) = TicksOf(s) \cup {t}
<1>1. Append(s, t) \in Seq(Nat) /\ Len(Append(s, t)) = Len(s) + 1 /\ Len(s) \in Nat
  OBVIOUS
<1>2. Append(s, t)[Len(s) + 1] = t /\ \A k \in 1..Len(s) : Append(s, t)[k] = s[k]
  OBVIOUS
<1>3. 1..Len(s) + 1 = 1..Len(s) \cup {Len(s) + 1}
  BY <1>1
<1> QED BY <1>1, <1>2, <1>3 DEF TicksOf

\* A batch put before another has the ticks of both.
LEMMA TicksOfBoth ==
  ASSUME NEW s \in Seq(Nat), NEW t \in Seq(Nat)
  PROVE  s \o t \in Seq(Nat) /\ TicksOf(s \o t) = TicksOf(s) \cup TicksOf(t)
<1>1. /\ s \o t \in Seq(Nat) /\ Len(s \o t) = Len(s) + Len(t) /\ Len(s) \in Nat /\ Len(t) \in Nat
      /\ \A k \in 1..Len(s) + Len(t) : (s \o t)[k] = IF k <= Len(s) THEN s[k] ELSE t[k - Len(s)]
  OBVIOUS
<1>2. ASSUME NEW k \in 1..Len(s) PROVE s[k] \in TicksOf(s \o t)
  BY <1>1 DEF TicksOf
<1>3. ASSUME NEW k \in 1..Len(t) PROVE t[k] \in TicksOf(s \o t)
  <2>1. k + Len(s) \in 1..Len(s) + Len(t) /\ (s \o t)[k + Len(s)] = t[k]
    BY <1>1
  <2> QED BY <1>1, <2>1 DEF TicksOf
<1>4. ASSUME NEW k \in 1..Len(s) + Len(t) PROVE (s \o t)[k] \in TicksOf(s) \cup TicksOf(t)
  <2>1. CASE k <= Len(s)
    BY <1>1, <2>1 DEF TicksOf
  <2>2. CASE k > Len(s)
    <3>1. k - Len(s) \in 1..Len(t) /\ (s \o t)[k] = t[k - Len(s)]
      BY <1>1, <2>2
    <3> QED BY <3>1 DEF TicksOf
  <2> QED BY <1>1, <2>1, <2>2
<1> QED BY <1>1, <1>2, <1>3, <1>4 DEF TicksOf

\* No tick is observed at first.
LEMMA TicksInitInv == TicksInit => TicksInv
BY TicksOfFew DEF TicksInit, TicksInv, OnTheWay

\* A batch that is sent takes its ticks on their way.
LEMMA FlightsGrow ==
  ASSUME NEW b \in Seq(Nat), NEW single, flights' = flights \cup {[ticks |-> b, single |-> single]},
         \A f \in flights : f.ticks \in Seq(Nat)
  PROVE  OnTheWay' = OnTheWay \cup TicksOf(b) /\ \A f \in flights' : f.ticks \in Seq(Nat)
<1>1. PICK batch : batch = [ticks |-> b, single |-> single]
  OBVIOUS
<1>2. batch.ticks = b
  BY <1>1
<1>3. flights' = flights \cup {batch}
  BY <1>1
<1> QED BY <1>2, <1>3 DEF OnTheWay

\* A batch that ends takes no other off the way.
LEMMA FlightsEnd ==
  ASSUME NEW f \in flights, flights' = flights \ {f}
  PROVE  OnTheWay = OnTheWay' \cup TicksOf(f.ticks)
BY DEF OnTheWay

\* A flush empties the buffer and loses none of it.
LEMMA FlushKeeps ==
  ASSUME TicksInv, NEW b \in Seq(Nat), Flush(b)
  PROVE  /\ batchBuffer' \in Seq(Nat) /\ \A f \in flights' : f.ticks \in Seq(Nat)
         /\ TicksOf(batchBuffer') \cup OnTheWay' = TicksOf(b) \cup OnTheWay
<1>1. OnTheWay' = OnTheWay \cup TicksOf(b) /\ \A f \in flights' : f.ticks \in Seq(Nat)
  BY FlightsGrow DEF Flush, TicksInv
<1> QED BY <1>1, TicksOfFew DEF Flush

\* Ticks, flushes, their answers and failures, and the sweep keep it.
LEMMA TicksNextInv ==
  ASSUME TicksInv, [TicksNext]_tickVars
  PROVE  TicksInv'
<1>1. CASE InsertTick
  <2>1. /\ produced' = produced + 1 /\ produced' \in Nat /\ UNCHANGED <<ticks, reported, deleted>>
        /\ 1..produced' = 1..produced \cup {produced'}
    BY <1>1 DEF InsertTick, TicksInv
  <2>2. /\ batchBuffer' \in Seq(Nat) /\ \A f \in flights' : f.ticks \in Seq(Nat)
        /\ TicksOf(batchBuffer') \cup OnTheWay' = TicksOf(batchBuffer) \cup OnTheWay \cup {produced'}
    <3>1. CASE batching
      <4>1. Buffered(Append(batchBuffer, produced'))
        BY <1>1, <3>1 DEF InsertTick
      <4>2. PICK b : b = Append(batchBuffer, produced')
        OBVIOUS
      <4>3. b \in Seq(Nat) /\ TicksOf(b) = TicksOf(batchBuffer) \cup {produced'}
        BY <2>1, <4>2, TicksOfMore DEF TicksInv
      <4>4. Flush(b) \/ (batchBuffer' = b /\ UNCHANGED flights)
        BY <4>1, <4>2 DEF Buffered
      <4>5. CASE Flush(b)
        BY <4>3, <4>5, FlushKeeps
      <4>6. CASE batchBuffer' = b /\ UNCHANGED flights
        BY <4>3, <4>6 DEF OnTheWay, TicksInv
      <4> QED BY <4>4, <4>5, <4>6
    <3>2. CASE ~batching
      <4>1. InsertSingle(produced')
        BY <1>1, <3>2 DEF InsertTick
      <4>2. TicksOf(<<produced'>>) = {produced'} /\ <<produced'>> \in Seq(Nat)
        BY <2>1, TicksOfFew
      <4>3. /\ flights' = flights \cup {[ticks |-> <<produced'>>, single |-> TRUE]}
            /\ UNCHANGED batchBuffer
        BY <4>1 DEF InsertSingle
      <4>4. PICK b : b = <<produced'>>
        OBVIOUS
      <4>5. OnTheWay' = OnTheWay \cup TicksOf(b) /\ \A f \in flights' : f.ticks \in Seq(Nat)
        BY <4>2, <4>3, <4>4, FlightsGrow DEF TicksInv
      <4> QED BY <4>2, <4>3, <4>4, <4>5 DEF TicksInv
    <3> QED BY <3>1, <3>2
  <2> QED BY <2>1, <2>2 DEF TicksInv
<1>2. CASE FlushTimer
  BY <1>2, FlushKeeps DEF FlushTimer, TicksInv
<1>3. CASE StopBatching
  <2>1. CASE Flush(batchBuffer)
    BY <1>3, <2>1, FlushKeeps DEF StopBatching, TicksInv
  <2>2. CASE UNCHANGED <<batchBuffer, flights>>
    BY <1>3, <2>2 DEF StopBatching, TicksInv, OnTheWay
  <2> QED BY <1>3, <2>1, <2>2 DEF StopBatching
<1>4. ASSUME NEW f \in flights, Flushed(f) PROVE TicksInv'
  <2>1. OnTheWay = OnTheWay' \cup TicksOf(f.ticks)
    BY <1>4, FlightsEnd DEF Flushed
  <2> QED BY <1>4, <2>1 DEF Flushed, TicksInv
<1>5. ASSUME NEW f \in flights, FlushFails(f) PROVE TicksInv'
  <2>1. OnTheWay = OnTheWay' \cup TicksOf(f.ticks)
    BY <1>5, FlightsEnd DEF FlushFails
  <2>2. PICK kept \in {{}, TicksOf(f.ticks)} : ticks' = ticks \cup kept
    BY <1>5 DEF FlushFails
  <2>3. UNCHANGED <<produced, deleted>> /\ flights' = flights \ {f}
    BY <1>5 DEF FlushFails
  <2>4. CASE f.single
    <3>1. batchBuffer' = batchBuffer /\ reported' = reported \cup TicksOf(f.ticks)
      BY <1>5, <2>4 DEF FlushFails
    <3> QED BY <2>1, <2>2, <2>3, <3>1 DEF TicksInv
  <2>5. CASE ~f.single
    <3>1. batchBuffer' = f.ticks \o batchBuffer /\ reported' = reported
      BY <1>5, <2>5 DEF FlushFails, ForRetry
    <3>2. batchBuffer' \in Seq(Nat) /\ TicksOf(batchBuffer') = TicksOf(f.ticks) \cup TicksOf(batchBuffer)
      BY <3>1, TicksOfBoth DEF TicksInv
    <3> QED BY <2>1, <2>2, <2>3, <3>1, <3>2 DEF TicksInv
  <2> QED BY <2>4, <2>5
<1>6. ASSUME NEW r \in {0, 1}, DeleteTicks(r) PROVE TicksInv'
  BY <1>6 DEF DeleteTicks, TicksInv, OnTheWay
<1>7. CASE StartBatching \/ UNCHANGED tickVars
  BY <1>7 DEF StartBatching, tickVars, TicksInv, OnTheWay
<1> QED BY <1>1, <1>2, <1>3, <1>4, <1>5, <1>6, <1>7 DEF TicksNext

\* Hence every tick is written, on its way, reported as lost or deleted.
LEMMA TicksMean == TicksInv => NoTickLost
BY DEF TicksInv, OnTheWay, NoTickLost
-----------------------------------------------------------------------------
(* The outcomes: one row, written by who knows the verdict and who knows   *)
(* the crash.                                                              *)
\* What a row says, of the crash point it has and the prediction.
RowFits(row) ==
  /\ row.hit = Hits(row.crash)
  /\ row.error # Null => row.error = ErrorOf(prediction, row.hit)
  /\ row.absolute = Magnitude(row.error)

\* What holds of the row and of what was written.
RowKept(row, last) ==
  /\ DOMAIN last = {"approved", "crash"}
  /\ row = NoOutcome => last.approved = Null /\ last.crash = Null
  /\ row # NoOutcome =>
       /\ prediction = Probability
       /\ row.approved = last.approved /\ row.crash = last.crash
       /\ RowFits(row)
       /\ row.crash \in Points \cup {Null}

\* Inductive: what was read of the prediction is what it is, and a crash point
\* that is about to be written without it is the first.
OutcomesInv ==
  /\ prediction \in {Null, Probability}
  /\ persisting \in [at : {"create", "find", "write", "done"}, seen : {Null, prediction}]
  /\ crashing \in [at : {"find", "write"}, seen : {Null, prediction}]
  /\ persisting.at = "create" => prediction = Null
  /\ RowKept(outcome, written)
  /\ crashing.at = "write" /\ crashing.seen = Null => outcome = NoOutcome \/ outcome.error = Null

\* There is neither a prediction nor a row at first.
LEMMA OutcomesInitInv == OutcomesInit => OutcomesInv
BY DEF OutcomesInit, OutcomesInv, RowKept

\* What a caller writes, from what it has found.
LEMMA GivenIs ==
  ASSUME NEW approved, NEW executed, NEW point, NEW seen
  PROVE  LET new == Given(approved, executed, point, seen) IN
         /\ DOMAIN new = {"approved", "executed", "crash", "hit", "error", "absolute"}
         /\ new.approved = approved /\ new.crash = point /\ new.hit = Hits(point)
         /\ new.error = ErrorOf(seen, Hits(point))
         /\ new.absolute = Magnitude(ErrorOf(seen, Hits(point)))
BY DEF Given

\* What is not given again stays as it was.
LEMMA MergedIs ==
  ASSUME NEW old, NEW new,
         DOMAIN new = {"approved", "executed", "crash", "hit", "error", "absolute"}
  PROVE  LET row == Merged(old, new) IN
         /\ row.approved = IF new.approved = Null THEN old.approved ELSE new.approved
         /\ row.crash = IF new.crash = Null THEN old.crash ELSE new.crash
         /\ row.hit = IF new.hit = Null THEN old.hit ELSE new.hit
         /\ row.error = IF new.error = Null THEN old.error ELSE new.error
         /\ row.absolute = IF new.absolute = Null THEN old.absolute ELSE new.absolute
BY DEF Merged

\* A write keeps it, if what it has found of the prediction is so.
LEMMA UpsertKeeps ==
  ASSUME prediction \in {Null, Probability}, RowKept(outcome, written), UNCHANGED prediction,
         NEW approved, NEW executed, NEW point \in Points \cup {Null}, NEW seen \in {Null, prediction},
         Upsert(Given(approved, executed, point, seen)),
         outcome # NoOutcome /\ point # Null /\ seen = Null => outcome.error = Null
  PROVE  /\ RowKept(outcome, written)'
         /\ outcome' # NoOutcome /\ outcome'.error # Null =>
              \/ outcome # NoOutcome /\ outcome.error # Null
              \/ point # Null /\ seen # Null
<1>1. CASE prediction = Null
  BY <1>1 DEF Upsert, RowKept, RowFits
<1> DEFINE new == Given(approved, executed, point, seen)
<1>2. CASE prediction # Null
  <2>1. prediction = Probability /\ prediction' = Probability
    BY <1>2
  <2>2. PICK last : last = [f \in DOMAIN written |-> IF new[f] = Null THEN written[f] ELSE new[f]]
    OBVIOUS
  <2>3. PICK row : row = IF outcome = NoOutcome THEN new ELSE Merged(outcome, new)
    OBVIOUS
  <2>4. outcome' = row /\ written' = last
    BY <1>2, <2>2, <2>3 DEF Upsert
  <2>5. /\ DOMAIN new = {"approved", "executed", "crash", "hit", "error", "absolute"}
        /\ new.approved = approved /\ new.crash = point /\ new.hit = Hits(point)
        /\ new.error = ErrorOf(seen, Hits(point))
        /\ new.absolute = Magnitude(ErrorOf(seen, Hits(point)))
    BY GivenIs
  <2>6. /\ DOMAIN last = {"approved", "crash"}
        /\ last.approved = IF approved = Null THEN written.approved ELSE approved
        /\ last.crash = IF point = Null THEN written.crash ELSE point
    <3> HIDE DEF new
    <3> QED BY <2>2, <2>5 DEF RowKept
  <2>7. Hits(Null) = Null /\ (point # Null => Hits(point) \in {0, 1})
    BY DEF Hits, Null, Points, Target
  <2>8. \A h : ErrorOf(Null, h) = Null
    BY DEF ErrorOf
  <2>9. /\ \A s : ErrorOf(s, Null) = Null
        /\ Magnitude(Null) = Null
        /\ \A h \in {0, 1} : ErrorOf(Probability, h) # Null /\ Magnitude(ErrorOf(Probability, h)) # Null
    BY DEF ErrorOf, Magnitude, Null, Probability
  <2>10. CASE outcome = NoOutcome
    <3>1. row = new
      BY <2>3, <2>10
    <3>2. new # NoOutcome
      <4>1. DOMAIN NoOutcome = {"approved"}
        BY DEF NoOutcome
      <4> HIDE DEF new
      <4> QED BY <4>1, <2>5
    <3> HIDE DEF new
    <3> QED BY <2>1, <2>4, <2>5, <2>6, <2>7, <2>8, <2>9, <2>10, <3>1, <3>2 DEF RowKept, RowFits
  <2>11. CASE outcome # NoOutcome
    <3>1. row = Merged(outcome, new)
      BY <2>3, <2>11
    <3>2. /\ row.approved = IF approved = Null THEN outcome.approved ELSE approved
          /\ row.crash = IF point = Null THEN outcome.crash ELSE point
          /\ row.hit = IF new.hit = Null THEN outcome.hit ELSE new.hit
          /\ row.error = IF new.error = Null THEN outcome.error ELSE new.error
          /\ row.absolute = IF new.absolute = Null THEN outcome.absolute ELSE new.absolute
      <4> HIDE DEF new
      <4> QED BY <2>5, <3>1, MergedIs
    <3>3. row # NoOutcome
      <4>1. DOMAIN NoOutcome = {"approved"}
        BY DEF NoOutcome
      <4>2. DOMAIN row = DOMAIN new
        BY <3>1 DEF Merged
      <4> HIDE DEF new
      <4> QED BY <4>1, <4>2, <2>5
    <3>4. CASE point = Null
      <4>1. new.hit = Null /\ new.error = Null /\ new.absolute = Null
        <5> HIDE DEF new
        <5> QED BY <2>5, <2>7, <2>9, <3>4
      <4> HIDE DEF new
      <4> QED BY <2>1, <2>4, <2>6, <2>11, <3>2, <3>3, <3>4, <4>1 DEF RowKept, RowFits
    <3>5. CASE point # Null /\ seen = Null
      <4>1. new.hit = Hits(point) /\ new.error = Null /\ new.absolute = Null /\ outcome.error = Null
        <5> HIDE DEF new
        <5> QED BY <2>5, <2>7, <2>8, <2>9, <2>11, <3>5
      <4>2. row.hit = Hits(row.crash) /\ row.error = Null /\ row.absolute = Null
        <5> HIDE DEF new
        <5> QED BY <2>7, <2>9, <2>11, <3>2, <3>5, <4>1 DEF RowKept, RowFits, Null
      <4> HIDE DEF new
      <4> QED BY <2>1, <2>4, <2>6, <2>9, <2>11, <3>2, <3>3, <3>5, <4>2 DEF RowKept, RowFits
    <3>6. CASE point # Null /\ seen # Null
      <4>1. /\ row.hit = Hits(point) /\ row.error = ErrorOf(Probability, row.hit)
            /\ row.absolute = Magnitude(row.error) /\ row.crash = point
        <5> HIDE DEF new
        <5> QED BY <2>1, <2>5, <2>7, <2>9, <3>2, <3>6 DEF Null
      <4> HIDE DEF new
      <4> QED BY <2>1, <2>4, <2>6, <2>11, <3>2, <3>3, <3>6, <4>1 DEF RowKept, RowFits
    <3> QED BY <3>4, <3>5, <3>6
  <2> QED BY <2>10, <2>11
<1> QED BY <1>1, <1>2

\* It stays so while nothing is written.
LEMMA RowKeptStays ==
  ASSUME RowKept(outcome, written), UNCHANGED <<prediction, outcome, written>>
  PROVE  RowKept(outcome, written)'
BY DEF RowKept, RowFits

\* The writers of the verdict and of the crash, in any order, keep it.
LEMMA OutcomesNextInv ==
  ASSUME OutcomesInv, [OutcomesNext]_outcomeVars
  PROVE  OutcomesInv'
<1>1. CASE PersistPrediction
  <2>1. prediction = Null /\ UNCHANGED <<outcome, written, crashing>> /\ prediction' \in {Null, Probability}
    BY <1>1 DEF PersistPrediction, OutcomesInv
  <2>2. outcome = NoOutcome
    BY <2>1 DEF OutcomesInv, RowKept, Null, Probability
  <2>3. /\ persisting' \in [at : {"create", "find", "write", "done"}, seen : {Null}]
        /\ persisting'.at # "create"
    BY <1>1, <2>1 DEF PersistPrediction, OutcomesInv
  <2>4. crashing \in [at : {"find", "write"}, seen : {Null, prediction'}]
    BY <2>1 DEF OutcomesInv
  <2>5. persisting' \in [at : {"create", "find", "write", "done"}, seen : {Null, prediction'}]
    BY <2>3
  <2> QED BY <2>1, <2>2, <2>3, <2>4, <2>5 DEF OutcomesInv, RowKept
<1>2. CASE FindPrediction
  <2>1. UNCHANGED <<prediction, outcome, written>>
    BY <1>2 DEF FindPrediction
  <2>2. RowKept(outcome, written)'
    BY <2>1, RowKeptStays DEF OutcomesInv
  <2>3. /\ persisting' \in [at : {"create", "find", "write", "done"}, seen : {Null, prediction}]
        /\ persisting'.at = "create" => persisting.at = "create"
    BY <1>2 DEF FindPrediction, OutcomesInv
  <2>4. \/ UNCHANGED crashing
        \/ crashing' = [at |-> "write", seen |-> prediction]
    BY <1>2 DEF FindPrediction
  <2>5. crashing' \in [at : {"find", "write"}, seen : {Null, prediction}]
    BY <2>4 DEF OutcomesInv
  <2>6. prediction = Null => outcome = NoOutcome
    BY DEF OutcomesInv, RowKept, Null, Probability
  <2>7. crashing'.at = "write" /\ crashing'.seen = Null => outcome = NoOutcome \/ outcome.error = Null
    BY <2>4, <2>6 DEF OutcomesInv
  <2> QED BY <2>1, <2>2, <2>3, <2>5, <2>7 DEF OutcomesInv
<1>3. CASE WriteVerdict
  <2>1. /\ UNCHANGED <<prediction, crashing>>
        /\ persisting' = [persisting EXCEPT !.at = "done"]
    BY <1>3 DEF WriteVerdict
  <2>2. persisting' \in [at : {"create", "find", "write", "done"}, seen : {Null, prediction}]
        /\ persisting'.at = "done"
    BY <2>1 DEF OutcomesInv
  <2>3. persisting.seen \in {Null, prediction}
    BY DEF OutcomesInv
  <2>4. PICK approved \in {0, 1} :
          Upsert(Given(approved, 0, Null, persisting.seen)) \/ UNCHANGED <<outcome, written>>
    BY <1>3 DEF WriteVerdict
  <2>5. CASE UNCHANGED <<outcome, written>>
    <3>1. RowKept(outcome, written)'
      BY <2>1, <2>5, RowKeptStays DEF OutcomesInv
    <3> QED BY <2>1, <2>2, <2>5, <3>1 DEF OutcomesInv
  <2>6. CASE Upsert(Given(approved, 0, Null, persisting.seen))
    <3>1. /\ RowKept(outcome, written)'
          /\ outcome' # NoOutcome /\ outcome'.error # Null => outcome # NoOutcome /\ outcome.error # Null
      BY <2>1, <2>3, <2>6, UpsertKeeps DEF OutcomesInv
    <3> QED BY <2>1, <2>2, <3>1 DEF OutcomesInv
  <2> QED BY <2>4, <2>5, <2>6
<1>4. CASE WriteCrash
  <2>1. /\ UNCHANGED <<prediction, persisting>>
        /\ crashing.at = "write" /\ crashing' = [crashing EXCEPT !.at = "find"]
    BY <1>4 DEF WriteCrash
  <2>2. crashing' \in [at : {"find", "write"}, seen : {Null, prediction}] /\ crashing'.at = "find"
    BY <2>1 DEF OutcomesInv
  <2>3. /\ crashing.seen \in {Null, prediction}
        /\ crashing.seen = Null => outcome = NoOutcome \/ outcome.error = Null
    BY <2>1 DEF OutcomesInv
  <2>4. PICK point \in Points, executed \in {0, 1} :
          Upsert(Given(Null, executed, point, crashing.seen)) \/ UNCHANGED <<outcome, written>>
    BY <1>4 DEF WriteCrash
  <2>5. RowKept(outcome, written)'
    BY <2>1, <2>3, <2>4, UpsertKeeps, RowKeptStays DEF OutcomesInv
  <2> QED BY <2>1, <2>2, <2>5 DEF OutcomesInv
<1>5. CASE UNCHANGED outcomeVars
  <2>1. UNCHANGED <<prediction, persisting, crashing, outcome, written>>
    BY <1>5 DEF outcomeVars
  <2>2. RowKept(outcome, written)'
    BY <2>1, RowKeptStays DEF OutcomesInv
  <2> QED BY <2>1, <2>2 DEF OutcomesInv
<1> QED BY <1>1, <1>2, <1>3, <1>4, <1>5 DEF OutcomesNext

\* Hence the row agrees with all that was written.
LEMMA OutcomesMean == OutcomesInv => OutcomeKept
BY DEF OutcomesInv, RowKept, RowFits, OutcomeKept

\* What TicksInv and OutcomesInv leave open, and the table.
TickTypes ==
  /\ produced <= MaxTicks /\ batching \in BOOLEAN
  /\ \A f \in flights : f.single => Len(f.ticks) = 1
RoundRows == [table : {"rounds"}, key : {"a", "b"}, lag : Lags]
BetRows == [table : {"bets"}, state : StoredStates, pnl : Profits]
RowTypes == RoundRows \cup BetRows \cup {Gone}
TableTypes == stored \in Seq(RowTypes) /\ Len(stored) <= MaxStored
OutcomeTypes ==
  outcome # NoOutcome => outcome.approved \in {0, 1, Null} /\ outcome.executed \in {0, 1}

\* With the two invariants, the types of the repositories.
LEMMA RepoTypesMean ==
  TicksInv /\ TickTypes /\ TableTypes /\ OutcomesInv /\ OutcomeTypes => RepoTypeOK
<1> SUFFICES ASSUME TicksInv, TickTypes, TableTypes, OutcomesInv, OutcomeTypes PROVE RepoTypeOK
  OBVIOUS
<1>1. produced \in 0..MaxTicks
  BY RepoAssumption DEF TicksInv, TickTypes, RepoAssumption
<1>2. TicksOf(batchBuffer) \cup ticks \cup reported \cup deleted \subseteq 1..produced
  BY Zenon DEF TicksInv
<1>3. batching \in BOOLEAN /\ \A f \in flights : f.single => Len(f.ticks) = 1
  BY Zenon DEF TickTypes
<1>4. /\ prediction \in {Null, Probability}
      /\ persisting.at \in {"create", "find", "write", "done"} /\ crashing.at \in {"find", "write"}
  BY DEF OutcomesInv
<1> QED BY <1>1, <1>2, <1>3, <1>4, Zenon DEF RepoTypeOK, TableTypes, OutcomeTypes

\* No tick was taken at first.
LEMMA TickTypesInit == TicksInit => TickTypes
<1>1. TicksInit => produced = 0 /\ batching = FALSE /\ flights = {}
  BY Zenon DEF TicksInit
<1>2. TicksInit => produced <= MaxTicks
  BY <1>1, RepoAssumption DEF RepoAssumption
<1> QED BY <1>1, <1>2 DEF TickTypes

\* Ticks are taken, flushed, refused and put back within the bounds.
LEMMA TickTypesNext ==
  ASSUME TicksInv, TickTypes, [TicksNext]_tickVars
  PROVE  TickTypes'
<1>1. produced' <= MaxTicks
  <2>1. UNCHANGED produced \/ (produced < MaxTicks /\ produced' = produced + 1)
    BY Zenon DEF TicksNext, StartBatching, InsertTick, FlushTimer, StopBatching, Flushed, FlushFails,
         DeleteTicks, tickVars
  <2>2. produced \in Nat /\ produced <= MaxTicks
    BY DEF TicksInv, TickTypes
  <2> QED BY <2>1, <2>2, RepoAssumption DEF RepoAssumption
<1>2. batching' \in BOOLEAN
  <2>1. UNCHANGED batching \/ batching' = TRUE \/ batching' = FALSE
    BY Zenon DEF TicksNext, StartBatching, InsertTick, FlushTimer, StopBatching, Flushed, FlushFails,
         DeleteTicks, tickVars
  <2> QED BY <2>1 DEF TickTypes
<1>3. \A f \in flights' : f.single => Len(f.ticks) = 1
  <2>1. \/ flights' \subseteq flights
        \/ \E b : flights' = flights \cup {[ticks |-> b, single |-> FALSE]}
        \/ \E t : flights' = flights \cup {[ticks |-> <<t>>, single |-> TRUE]}
    <3>1. UNCHANGED flights \/ (\E b : Flush(b)) \/ (\E t : InsertSingle(t)) \/ (\E f : flights' = flights \ {f})
      BY Zenon DEF TicksNext, StartBatching, InsertTick, FlushTimer, StopBatching, Flushed, FlushFails,
           DeleteTicks, tickVars, Buffered
    <3> QED BY <3>1, Zenon DEF Flush, InsertSingle
  <2>2. ASSUME NEW b, NEW f, f = [ticks |-> b, single |-> FALSE] PROVE ~f.single
    BY <2>2
  <2>3. ASSUME NEW t, NEW f, f = [ticks |-> <<t>>, single |-> TRUE] PROVE Len(f.ticks) = 1
    BY <2>3
  <2>4. \A f \in flights : f.single => Len(f.ticks) = 1
    BY DEF TickTypes
  <2>5. ASSUME NEW f \in flights', f.single PROVE Len(f.ticks) = 1
    <3>1. CASE f \in flights
      BY <2>4, <2>5, <3>1
    <3>2. CASE f \notin flights
      <4>1. \/ \E b : f = [ticks |-> b, single |-> FALSE]
            \/ \E t : f = [ticks |-> <<t>>, single |-> TRUE]
        BY <2>1, <3>2, Zenon
      <4> QED BY <2>2, <2>3, <2>5, <4>1, Zenon
    <3> QED BY <3>1, <3>2
  <2> QED BY <2>5
<1> QED BY <1>1, <1>2, <1>3, Zenon DEF TickTypes

\* The table is empty at first.
LEMMA TableTypesInit == TableInit => TableTypes
BY RepoAssumption DEF TableInit, TableTypes, RepoAssumption

\* Rows are stored, changed and deleted; what is gone stays in its place.
LEMMA TableTypesNext ==
  ASSUME TableTypes, [TableNext]_stored
  PROVE  TableTypes'
<1>1. stored \in Seq(RowTypes) /\ Len(stored) <= MaxStored
  BY DEF TableTypes
<1>2. ASSUME NEW row \in RowTypes, Len(stored) < MaxStored, stored' = Append(stored, row)
      PROVE  TableTypes'
  <2>1. stored' \in Seq(RowTypes) /\ Len(stored') = Len(stored) + 1 /\ Len(stored) \in Nat
    BY <1>1, <1>2
  <2> QED BY <1>2, <2>1, RepoAssumption DEF TableTypes, RepoAssumption
<1>3. ASSUME NEW i \in 1..Len(stored), NEW row \in RowTypes, stored' = [stored EXCEPT ![i] = row]
      PROVE  TableTypes'
  <2>1. stored' \in Seq(RowTypes) /\ Len(stored') = Len(stored)
    BY <1>1, <1>3
  <2> QED BY <1>1, <2>1 DEF TableTypes
<1>4. ASSUME NEW i \in 1..Len(stored) PROVE stored[i] \in RowTypes
  BY <1>1, <1>4
<1>5. CASE CreateRow
  <2>1. ASSUME NEW k \in {"a", "b"} PROVE [table |-> "rounds", key |-> k, lag |-> 0] \in RowTypes
    BY <2>1 DEF RowTypes, RoundRows, Lags
  <2>2. [table |-> "bets", state |-> "RESERVED", pnl |-> Null] \in RowTypes
    BY DEF RowTypes, BetRows, StoredStates, Profits
  <2> QED BY <1>2, <1>5, <2>1, <2>2, Zenon DEF CreateRow
<1>6. ASSUME NEW i \in 1..Len(stored), UpdateBet(i) PROVE TableTypes'
  <2>1. PICK s \in StoredStates, p \in Profits : stored' = [stored EXCEPT ![i].state = s, ![i].pnl = p]
    BY <1>6 DEF UpdateBet
  <2>2. stored[i] \in BetRows
    BY <1>4, <1>6 DEF UpdateBet, RowTypes, RoundRows, Gone
  <2>3. PICK row \in RowTypes : row = [stored[i] EXCEPT !.state = s, !.pnl = p]
    BY <2>2 DEF RowTypes, BetRows
  <2>4. stored' = [stored EXCEPT ![i] = row]
    BY <1>1, <2>1, <2>3
  <2> QED BY <1>3, <2>4
<1>7. ASSUME NEW i \in 1..Len(stored), UpdateRound(i) PROVE TableTypes'
  <2>1. PICK l \in Lags : stored' = [stored EXCEPT ![i].lag = l]
    BY <1>7 DEF UpdateRound
  <2>2. stored[i] \in RoundRows
    BY <1>4, <1>7 DEF UpdateRound, RowTypes, BetRows, Gone
  <2>3. PICK row \in RowTypes : row = [stored[i] EXCEPT !.lag = l]
    BY <2>2 DEF RowTypes, RoundRows
  <2>4. stored' = [stored EXCEPT ![i] = row]
    BY <2>1, <2>3
  <2> QED BY <1>3, <2>4
<1>8. ASSUME NEW i \in 1..Len(stored), DeleteRow(i) PROVE TableTypes'
  <2>1. Gone \in RowTypes
    BY DEF RowTypes
  <2> QED BY <1>3, <1>8, <2>1 DEF DeleteRow
<1>9. CASE UNCHANGED stored
  BY <1>9 DEF TableTypes
<1> QED BY <1>5, <1>6, <1>7, <1>8, <1>9 DEF TableNext

\* No outcome waits at first.
LEMMA OutcomeTypesInit == OutcomesInit => OutcomeTypes
BY DEF OutcomesInit, OutcomeTypes

\* Outcomes wait, are tried again and written within the bounds.
LEMMA OutcomeTypesNext ==
  ASSUME OutcomeTypes, [OutcomesNext]_outcomeVars
  PROVE  OutcomeTypes'
<1>1. ASSUME NEW approved \in {0, 1, Null}, NEW executed \in {0, 1}, NEW point, NEW seen,
             Upsert(Given(approved, executed, point, seen))
      PROVE  OutcomeTypes'
  <2>1. PICK new : new = Given(approved, executed, point, seen)
    OBVIOUS
  <2>2. /\ new.approved \in {0, 1, Null} /\ new.executed \in {0, 1}
        /\ DOMAIN new = {"approved", "executed", "crash", "hit", "error", "absolute"}
    BY <2>1 DEF Given
  <2>3. UNCHANGED outcome \/ outcome' = IF outcome = NoOutcome THEN new ELSE Merged(outcome, new)
    BY <1>1, <2>1, Zenon DEF Upsert
  <2>4. /\ Merged(outcome, new).approved = IF new.approved = Null THEN outcome.approved ELSE new.approved
        /\ Merged(outcome, new).executed = IF new.executed = Null THEN outcome.executed ELSE new.executed
    BY <2>2 DEF Merged
  <2>5. CASE UNCHANGED outcome
    BY <2>5 DEF OutcomeTypes
  <2>6. CASE outcome = NoOutcome /\ outcome' = new
    BY <2>2, <2>6 DEF OutcomeTypes
  <2>7. CASE outcome # NoOutcome /\ outcome' = Merged(outcome, new)
    <3>1. outcome'.approved \in {0, 1, Null} /\ outcome'.executed \in {0, 1}
      BY <2>2, <2>4, <2>7 DEF OutcomeTypes, Null
    <3> QED BY <3>1 DEF OutcomeTypes
  <2> QED BY <2>3, <2>5, <2>6, <2>7
<1>2. CASE WriteVerdict
  <2>1. PICK approved \in {0, 1} :
          Upsert(Given(approved, 0, Null, persisting.seen)) \/ UNCHANGED <<outcome, written>>
    BY <1>2 DEF WriteVerdict
  <2> QED BY <1>1, <2>1 DEF OutcomeTypes
<1>3. CASE WriteCrash
  <2>1. PICK point \in Points, executed \in {0, 1} :
          Upsert(Given(Null, executed, point, crashing.seen)) \/ UNCHANGED <<outcome, written>>
    BY <1>3 DEF WriteCrash
  <2> QED BY <1>1, <2>1 DEF OutcomeTypes
<1>4. CASE PersistPrediction \/ FindPrediction \/ UNCHANGED outcomeVars
  <2>1. UNCHANGED outcome
    BY <1>4 DEF PersistPrediction, FindPrediction, outcomeVars
  <2> QED BY <2>1 DEF OutcomeTypes
<1> QED BY <1>2, <1>3, <1>4 DEF OutcomesNext

\* The figures: the outcomes they are of.
LEMMA MetricsTypesInit == MetricsInit => MetricsTypeOK
BY MetricsAssumption DEF MetricsInit, MetricsTypeOK

\* A bet that ends is won or lost.
LEMMA MetricsTypesNext ==
  ASSUME MetricsTypeOK, [BetEnds]_outcomes
  PROVE  MetricsTypeOK'
<1>0. outcomes \in Seq(OutcomeKinds) /\ Len(outcomes) <= MaxOutcomes /\ MaxOutcomes \in Nat
  BY MetricsAssumption DEF MetricsTypeOK
<1>1. ASSUME NEW o \in OutcomeKinds, Len(outcomes) < MaxOutcomes, outcomes' = Append(outcomes, o)
      PROVE  MetricsTypeOK'
  <2>1. Append(outcomes, o) \in Seq(OutcomeKinds) /\ Len(Append(outcomes, o)) = Len(outcomes) + 1
    BY <1>0
  <2>2. Len(Append(outcomes, o)) <= MaxOutcomes
    BY <1>0, <1>1, <2>1
  <2> QED BY <1>1, <2>1, <2>2, Zenon DEF MetricsTypeOK
<1> QED BY <1>0, <1>1, Zenon DEF BetEnds, MetricsTypeOK
=============================================================================
