---------------------------- MODULE ControlProofs ----------------------------
(***************************************************************************)
(* What runs and what may stop it: the feed and the dry run, the cash-out, *)
(* the process, its browser, the browser worker, the supervisor, the       *)
(* workers, the jobs and the notices; and the daily entries, the sheath,   *)
(* recovery, the instance lock, the divergence monitor, the rollout of     *)
(* models and the way to live mode.  Each component has an inductive       *)
(* invariant, with a lemma that its initial states satisfy it and one that *)
(* its steps keep it, and a theorem of the specification it has of its     *)
(* own.  ServicesProofs composes them.                                     *)
(***************************************************************************)
EXTENDS DailyEntries, Observation, CashOut, GameSources, Application, Browser, Workers, Supervisor,
        BrowserWorker, SheathMode, Recovery, Leases, EntryDecision, ModelRollout, OperatorControl,
        JobQueue, Notices, FiniteSetTheorems, SequenceTheorems, WellFoundedInduction, TLAPS
-----------------------------------------------------------------------------
(* The feed and the dry run: what the observer published last agrees with  *)
(* its phase, and the money with the trades.                               *)
\* An observer whose last word was a crash has seen it.
CrashIsSeen ==
  /\ DOMAIN observer = {"phase", "round", "mult"}
  /\ lastKind = "RoundCrashed" => observer.phase = "crashed"

\* What a step of the feed may do to the observer and the bus.
ObserverStep ==
  \/ UNCHANGED <<observer, bus, lastKind>>
  \/ \E r : SeesStart(r)
  \/ \E r, m : SeesTick(r, m)
  \/ \E r, cp : SeesCrash(r, cp)

\* Such a step keeps it, and a crash is followed by a start.
LEMMA ObserverStepHolds ==
  ASSUME CrashIsSeen, ObserverStep
  PROVE  /\ CrashIsSeen'
         /\ lastKind = "RoundCrashed" /\ bus = <<>> /\ bus' # <<>> => bus'[1].kind = "RoundStarted"
<1>1. ASSUME NEW r, SeesStart(r)
      PROVE  CrashIsSeen' /\ bus'[1].kind = "RoundStarted"
  BY <1>1 DEF SeesStart, Publish, CrashIsSeen
<1>2. ASSUME NEW r, NEW m, SeesTick(r, m)
      PROVE  CrashIsSeen' /\ UNCHANGED bus
  BY <1>2 DEF SeesTick, CrashIsSeen
<1>3. ASSUME NEW r, NEW cp, SeesCrash(r, cp)
      PROVE  /\ CrashIsSeen'
             /\ lastKind = "RoundCrashed" => UNCHANGED bus
  BY <1>3 DEF SeesCrash, PublishCrash, Publish, CrashIsSeen
<1>4. CASE UNCHANGED <<observer, bus, lastKind>>
  BY <1>4 DEF CrashIsSeen
<1> QED BY <1>1, <1>2, <1>3, <1>4 DEF ObserverStep

\* A change of the page, processed, is such a step.
LEMMA ProcessIsObserverStep ==
  ASSUME NEW s, ProcessStateChange(s)
  PROVE  ObserverStep
BY DEF ProcessStateChange, RoundBegins, Ticks, RoundEnds, PhaseMoves, CrashReported, Unheard, ObserverStep

\* And so is everything the feed does.
LEMMA FeedWorksIsObserverStep ==
  ASSUME FeedWorks
  PROVE  ObserverStep
<1>1. CASE PollReads
  BY <1>1 DEF PollReads, ObserverStep
<1>2. CASE PollAnswers
  BY <1>2, ProcessIsObserverStep DEF PollAnswers
<1>3. CASE FrameArrives
  BY <1>3, ProcessIsObserverStep DEF FrameArrives
<1>4. CASE PageLookedAt
  BY <1>4 DEF PageLookedAt, CrashReported, Unheard, ObserverStep
<1> QED BY <1>1, <1>2, <1>3, <1>4 DEF FeedWorks

\* An observer that is reset saw nothing.
LEMMA ResetHolds ==
  ASSUME observer' = FreshObserver, lastKind' = "none"
  PROVE  CrashIsSeen'
BY DEF CrashIsSeen, FreshObserver

\* Every step of feed, bridge and process keeps it.
LEMMA CrashIsSeenStep ==
  ASSUME CrashIsSeen, [ObsNext]_obsVars
  PROVE  /\ CrashIsSeen'
         /\ lastKind = "RoundCrashed" /\ bus = <<>> /\ bus' # <<>> => bus'[1].kind = "RoundStarted"
<1>1. CASE Game \/ UNCHANGED obsVars
  <2>1. UNCHANGED <<observer, bus, lastKind>>
    BY <1>1 DEF Game, GameRuns, obsVars, feedVars
  <2> QED BY <2>1, ObserverStepHolds DEF ObserverStep
<1>2. CASE Feed
  BY <1>2, FeedWorksIsObserverStep, ObserverStepHolds DEF Feed
<1>3. CASE DispatchStart \/ DispatchCrash
  BY <1>3 DEF DispatchStart, DispatchCrash, Dispatch, CrashIsSeen
<1>4. CASE PauseSystem
  BY <1>4, ResetHolds DEF PauseSystem, FeedStops
<1>5. CASE ResumeSystem
  BY <1>5, ResetHolds DEF ResumeSystem, AdapterStarts, feedVars, CrashIsSeen
<1>6. CASE SupervisorObserves
  BY <1>6 DEF SupervisorObserves, ObserverStarts, feedVars, CrashIsSeen
<1> QED BY <1>1, <1>2, <1>3, <1>4, <1>5, <1>6 DEF ObsNext

\* Nothing is seen at first.
LEMMA CrashIsSeenInit == FeedInit => CrashIsSeen
BY DEF FeedInit, CrashIsSeen, FreshObserver

\* The virtual money agrees with a ledger of trades.
Trades(R) == [round : R, status : TradeStatuses]
\* The trades of the ledger in a status.
Having(kind) == {i \in DOMAIN ledger : ledger[i].status = kind}

\* Inductive: the money is that of the trades in each status.
DryInv ==
  /\ \E R : ledger \in Seq(Trades(R))
  /\ balance \in Nat /\ netPnl \in Int /\ wins \in Nat /\ losses \in Nat
  /\ wins = Cardinality(Having("WIN")) /\ losses = Cardinality(Having("LOSS"))
  /\ netPnl = Stake * wins - Stake * losses
  /\ balance = InitialBalance + netPnl - Stake * Cardinality(Having("OPEN"))

\* This is what the virtual ledger promises.
LEMMA DryInvMeans == DryInv => VirtualMoney
BY DEF DryInv, VirtualMoney, With, Having

\* A ledger is a sequence, so its trades can be counted.
LEMMA HavingIsFinite ==
  ASSUME DryInv, NEW s
  PROVE  IsFiniteSet(Having(s)) /\ Cardinality(Having(s)) \in Nat
<1>1. PICK R : ledger \in Seq(Trades(R))
  BY DEF DryInv
<1>2. DOMAIN ledger = 1..Len(ledger) /\ Len(ledger) \in Nat
  BY <1>1
<1>3. IsFiniteSet(DOMAIN ledger)
  BY <1>2, FS_Interval
<1> QED BY <1>3, FS_Subset, FS_CardinalityType DEF Having

\* The ledger starts empty.
LEMMA DryInitInv == DryInit => DryInv
<1> SUFFICES ASSUME DryInit PROVE DryInv
  OBVIOUS
<1>1. ledger \in Seq(Trades({})) /\ DOMAIN ledger = {}
  BY DEF DryInit
<1>2. Having("WIN") = {} /\ Having("LOSS") = {} /\ Having("OPEN") = {}
  BY <1>1 DEF Having
<1>3. /\ Cardinality(Having("WIN")) = 0 /\ Cardinality(Having("LOSS")) = 0
      /\ Cardinality(Having("OPEN")) = 0
  BY <1>2, FS_EmptySet
<1>4. Stake * 0 = 0
  BY DryRunAssumption DEF DryRunAssumption
<1>5. \E R : ledger \in Seq(Trades(R))
  BY <1>1
<1> HIDE DEF Having
<1> QED BY <1>3, <1>4, <1>5, DryRunAssumption DEF DryInit, DryInv, DryRunAssumption

\* An opened trade adds its stake to what is out.
LEMMA OpenTradeHolds ==
  ASSUME DryInv, NEW r, NEW counted, OpenTrade(r, counted)
  PROVE  DryInv'
<1>1. PICK R : ledger \in Seq(Trades(R))
  BY DEF DryInv
<1> DEFINE all == Trades(R \cup {r})
           trade == [round |-> r, status |-> "OPEN"]
           n == Len(ledger)
<1>2. ledger \in Seq(all) /\ trade \in all /\ n \in Nat /\ DOMAIN ledger = 1..n
  <2>1. Trades(R) \subseteq all
    BY DEF Trades
  <2>2. trade \in all
    BY DEF Trades, TradeStatuses
  <2>3. n \in Nat /\ DOMAIN ledger = 1..n /\ ledger \in [1..n -> Trades(R)]
    BY <1>1
  <2>4. ledger \in [1..n -> all]
    BY <2>1, <2>3
  <2> HIDE DEF all, trade, n
  <2> QED BY <2>2, <2>3, <2>4
<1>3. ledger' = Append(ledger, trade) /\ trade.status = "OPEN"
  BY DEF OpenTrade
<1> HIDE DEF all, trade
<1>4. /\ ledger' \in Seq(all) /\ DOMAIN ledger' = 1..(n + 1)
      /\ \A i \in 1..n : ledger'[i] = ledger[i]
      /\ ledger'[n + 1] = trade
  BY <1>2, <1>3
<1>5. /\ Having("WIN")' = Having("WIN") /\ Having("LOSS")' = Having("LOSS")
      /\ Having("OPEN")' = Having("OPEN") \cup {n + 1} /\ n + 1 \notin Having("OPEN")
  BY <1>2, <1>3, <1>4 DEF Having
<1>6. Cardinality(Having("OPEN")') = Cardinality(Having("OPEN")) + 1
  BY <1>5, HavingIsFinite, FS_AddElement
<1>7. \E Q : ledger' \in Seq(Trades(Q))
  BY <1>4 DEF all
<1>8. Cardinality(Having("OPEN")) \in Nat
  BY HavingIsFinite
<1>9. /\ balance' = balance - Stake /\ Stake <= balance
      /\ UNCHANGED <<netPnl, wins, losses>>
  BY DEF OpenTrade
<1>10. \A k \in Nat : Stake * (k + 1) = Stake * k + Stake
  BY DryRunAssumption DEF DryRunAssumption
<1> HIDE DEF Having
<1>11. Stake * Cardinality(Having("OPEN")') = Stake * Cardinality(Having("OPEN")) + Stake
  BY <1>6, <1>8, <1>10
<1>12. Stake * Cardinality(Having("OPEN")) \in Nat /\ Stake \in Nat /\ InitialBalance \in Nat
  BY <1>8, DryRunAssumption DEF DryRunAssumption
<1>13. /\ balance' \in Nat
       /\ balance' = InitialBalance + netPnl' - Stake * Cardinality(Having("OPEN")')
  <2>1. PICK so \in Nat : so = Stake * Cardinality(Having("OPEN"))
    BY <1>12
  <2>2. balance \in Nat /\ netPnl \in Int /\ balance = InitialBalance + netPnl - so
    BY <2>1 DEF DryInv
  <2>3. balance' \in Nat /\ balance' = InitialBalance + netPnl' - (so + Stake)
    BY <1>9, <1>12, <2>2
  <2> QED BY <1>11, <2>1, <2>3
<1>14. /\ wins' = Cardinality(Having("WIN")') /\ losses' = Cardinality(Having("LOSS")')
       /\ netPnl' = Stake * wins' - Stake * losses'
       /\ netPnl' \in Int /\ wins' \in Nat /\ losses' \in Nat
  BY <1>5, <1>9 DEF DryInv
<1> QED BY <1>7, <1>13, <1>14 DEF DryInv

\* A crash pays out or writes off trades that are open, each once.
LEMMA ResolveHolds ==
  ASSUME DryInv, NEW hit \in SUBSET Having("OPEN"), NEW cp, Resolve(hit, cp)
  PROVE  DryInv'
<1>1. PICK R : ledger \in Seq(Trades(R))
  BY DEF DryInv
<1> DEFINE n == Len(ledger)
           result == Outcome(cp)
<1>2. n \in Nat /\ DOMAIN ledger = 1..n /\ ledger \in [1..n -> Trades(R)]
  BY <1>1
<1>3. result \in {"WIN", "LOSS"}
  BY DEF Outcome
<1>4. ledger' = [i \in DOMAIN ledger |-> IF i \in hit THEN [ledger[i] EXCEPT !.status = result]
                                         ELSE ledger[i]]
  BY DEF Resolve
<1> HIDE DEF result, n
<1>5. \A i \in 1..n : /\ ledger'[i] \in Trades(R)
                     /\ ledger'[i].status = IF i \in hit THEN result ELSE ledger[i].status
  BY <1>2, <1>3, <1>4 DEF Trades, TradeStatuses
<1>6. ledger' \in [1..n -> Trades(R)] /\ DOMAIN ledger' = 1..n
  BY <1>2, <1>4, <1>5
<1>7. ledger' \in Seq(Trades(R))
  BY <1>2, <1>6
<1>8. Having("OPEN")' = Having("OPEN") \ hit
  BY <1>2, <1>3, <1>5, <1>6 DEF Having
<1>9. /\ Having(result)' = Having(result) \cup hit
      /\ Having(result) \cap hit = {}
  BY <1>2, <1>3, <1>5, <1>6 DEF Having
<1>10. \A s \in {"WIN", "LOSS"} : s # result => Having(s)' = Having(s)
  BY <1>2, <1>3, <1>5, <1>6 DEF Having
<1>11. IsFiniteSet(hit) /\ Cardinality(hit) \in Nat
  BY HavingIsFinite, FS_Subset, FS_CardinalityType
<1> HIDE DEF Having
<1> DEFINE k == Cardinality(hit)
           open == Cardinality(Having("OPEN"))
<1>12. /\ Cardinality(Having("OPEN")') = open - k /\ open - k \in Nat /\ open \in Nat
  <2>1. Having("OPEN") \cap hit = hit
    OBVIOUS
  <2>2. IsFiniteSet(Having("OPEN")) /\ open \in Nat
    BY HavingIsFinite
  <2>3. Cardinality(Having("OPEN") \ hit) = open - k
    BY <1>11, <2>1, <2>2, FS_Difference
  <2>4. Cardinality(Having("OPEN") \ hit) \in Nat
    BY <2>2, FS_Difference, FS_CardinalityType
  <2> QED BY <1>8, <2>2, <2>3, <2>4
<1>13. Cardinality(Having(result)') = Cardinality(Having(result)) + k
  <2>1. IsFiniteSet(Having(result)) /\ Cardinality(Having(result)) \in Nat
    BY HavingIsFinite
  <2>2. Cardinality(Having(result) \cap hit) = 0
    BY <1>9, FS_EmptySet
  <2>3. Cardinality(Having(result) \cup hit)
          = Cardinality(Having(result)) + k - Cardinality(Having(result) \cap hit)
    BY <1>11, <2>1, FS_Union
  <2> QED BY <1>9, <1>11, <2>1, <2>2, <2>3
<1>14. \A a, b \in Nat : /\ Stake * (a + b) = Stake * a + Stake * b
                       /\ Stake * a \in Nat /\ 2 * Stake * a = Stake * a + Stake * a
  BY DryRunAssumption DEF DryRunAssumption
<1>15. Stake * open = Stake * (open - k) + Stake * k
  <2>1. Stake * ((open - k) + k) = Stake * (open - k) + Stake * k
    BY <1>11, <1>12, <1>14
  <2>2. (open - k) + k = open
    BY <1>11, <1>12
  <2> QED BY <2>1, <2>2
<1>16. /\ Stake * wins \in Nat /\ Stake * losses \in Nat /\ Stake * k \in Nat
       /\ Stake * (open - k) \in Nat /\ InitialBalance \in Nat
       /\ Stake * (wins + k) = Stake * wins + Stake * k
       /\ Stake * (losses + k) = Stake * losses + Stake * k
       /\ 2 * Stake * k = Stake * k + Stake * k
  BY <1>11, <1>12, <1>14, DryRunAssumption DEF DryInv, DryRunAssumption
<1> HIDE DEF k, open
<1>a. PICK sw \in Nat, sl \in Nat, sk \in Nat, so \in Nat :
        /\ sw = Stake * wins /\ sl = Stake * losses /\ sk = Stake * k /\ so = Stake * (open - k)
  BY <1>16
<1>b. /\ balance \in Nat /\ netPnl \in Int /\ wins \in Nat /\ losses \in Nat
      /\ netPnl = sw - sl /\ balance = InitialBalance + netPnl - (so + sk)
  BY <1>15, <1>a DEF DryInv, open
<1>c. /\ Stake * (wins + k) = sw + sk /\ Stake * (losses + k) = sl + sk
      /\ 2 * Stake * k = sk + sk
  BY <1>16, <1>a
<1>17. CASE result = "WIN"
  <2>1. /\ balance' = balance + (sk + sk) /\ netPnl' = netPnl + sk
        /\ wins' = wins + k /\ losses' = losses
    BY <1>17, <1>a, <1>c DEF Resolve, result, k
  <2>2. wins' = Cardinality(Having("WIN")') /\ losses' = Cardinality(Having("LOSS")')
    BY <1>10, <1>13, <1>17, <2>1 DEF DryInv
  <2>3. netPnl' \in Int /\ netPnl' = (sw + sk) - sl
    BY <1>b, <2>1
  <2>4. balance' \in Nat /\ balance' = InitialBalance + netPnl' - so
    BY <1>16, <1>b, <2>1
  <2>5. wins' \in Nat /\ losses' \in Nat
    BY <1>11, <1>b, <2>1 DEF k
  <2>6. netPnl' = Stake * wins' - Stake * losses'
    BY <1>a, <1>c, <2>1, <2>3
  <2> QED BY <1>7, <1>12, <1>a, <2>2, <2>3, <2>4, <2>5, <2>6 DEF DryInv
<1>18. CASE result = "LOSS"
  <2>1. /\ balance' = balance /\ netPnl' = netPnl - sk
        /\ wins' = wins /\ losses' = losses + k
    BY <1>18, <1>a DEF Resolve, result, k
  <2>2. wins' = Cardinality(Having("WIN")') /\ losses' = Cardinality(Having("LOSS")')
    BY <1>10, <1>13, <1>18, <2>1 DEF DryInv
  <2>3. netPnl' \in Int /\ netPnl' = sw - (sl + sk)
    BY <1>b, <2>1
  <2>4. balance' \in Nat /\ balance' = InitialBalance + netPnl' - so
    BY <1>16, <1>b, <2>1
  <2>5. wins' \in Nat /\ losses' \in Nat
    BY <1>11, <1>b, <2>1 DEF k
  <2>6. netPnl' = Stake * wins' - Stake * losses'
    BY <1>a, <1>c, <2>1, <2>3
  <2> QED BY <1>7, <1>12, <1>a, <2>2, <2>3, <2>4, <2>5, <2>6 DEF DryInv
<1> QED BY <1>3, <1>17, <1>18

\* A step that leaves the ledger alone keeps it.
LEMMA MoneyStays ==
  ASSUME DryInv, UNCHANGED <<ledger, balance, netPnl, wins, losses>>
  PROVE  DryInv'
BY DEF DryInv, Having

\* Every step of the feed and of the bridge keeps it.
LEMMA DryStep ==
  ASSUME DryInv, [ObsNext]_obsVars
  PROVE  DryInv'
<1>1. CASE Game \/ Feed \/ UNCHANGED obsVars
  BY <1>1, MoneyStays DEF Game, Feed, obsVars, dryVars
<1>2. CASE DispatchStart
  BY <1>2, OpenTradeHolds, MoneyStays DEF DispatchStart, BridgeRoundStarted, Refuse
<1>3. CASE DispatchCrash
  BY <1>3, ResolveHolds, MoneyStays
     DEF DispatchCrash, BridgeRoundCrashed, ResolveRound, Having
<1>4. CASE PauseSystem \/ ResumeSystem \/ SupervisorObserves
  BY <1>4, MoneyStays DEF PauseSystem, ResumeSystem, SupervisorObserves, ControllerSet, dryVars
<1> QED BY <1>1, <1>2, <1>3, <1>4 DEF ObsNext

(* The balance, profit, wins and losses of the dry run are those of its    *)
(* trades, however often the start and the crash of a round are heard, for *)
(* any stake and balance. (virtual-ledger.ts openTrade, resolveRound)      *)
THEOREM VirtualMoneyAgrees == ObsSpec => []VirtualMoney
<1>1. ObsInit => DryInv
  BY DryInitInv DEF ObsInit
<1> QED BY <1>1, DryStep, DryInvMeans, PTL DEF ObsSpec

(* A crash is followed by no other crash before a start: no round is ended *)
(* twice, whatever the page shows. (game/observer.ts)                      *)
THEOREM CrashEndsOneRound == ObsSpec => CrashNeedsStart
<1>1. ObsInit => CrashIsSeen
  BY CrashIsSeenInit DEF ObsInit
<1>2. CrashIsSeen /\ [ObsNext]_obsVars => CrashIsSeen'
  BY CrashIsSeenStep
<1>3. CrashIsSeen /\ [ObsNext]_obsVars =>
        [lastKind = "RoundCrashed" /\ bus = <<>> /\ bus' # <<>>
           => bus'[1].kind = "RoundStarted"]_feedVars
  BY CrashIsSeenStep
<1> QED BY <1>1, <1>2, <1>3, PTL DEF ObsSpec, CrashNeedsStart

\* What the feed keeps, with the answers of the polls and the copies in full.
RoundsOrNone == 0..MaxRound
ShownMults == {None} \cup Multipliers
ReadingType == [phase : AdapterPhases, round : RoundsOrNone, mult : ShownMults, crash : ShownMults]
CopyType == [round : RoundsOrNone, mult : ShownMults]
AdapterType == [phase : AdapterPhases, round : RoundsOrNone, mult : ShownMults]
ObserverType == [phase : {"idle", "running", "crashed"}, round : RoundsOrNone, mult : Multipliers]
PageType == [round : 1..MaxRound, phase : {"starting", "running", "crashed"}, mult : Multipliers]
EventKinds == {"none", "RoundStarted", "RoundCrashed"}

FeedTypes ==
  /\ page \in PageType /\ feed \in {"off", "adapter", "observing"}
  /\ polls \in Seq(ReadingType) /\ looking \in Seq(CopyType)
  /\ Len(polls) + Len(looking) <= MaxPending
  /\ adapter \in AdapterType /\ observer \in ObserverType /\ lastKind \in EventKinds

\* Hence the types of the feed as Observation states them.
LEMMA FeedTypesMean == FeedTypes => FeedTypeOK
<1> SUFFICES ASSUME FeedTypes PROVE FeedTypeOK
  OBVIOUS
<1>1. \A i \in DOMAIN looking : looking[i] \in CopyType
  BY DEF FeedTypes
<1> QED BY <1>1 DEF FeedTypes, FeedTypeOK, RoundsOrNone, ShownMults, CopyType, AdapterType,
                    ObserverType, PageType, EventKinds

\* What an adapter and an observer begin with is of their types.
LEMMA FreshTypes ==
  FreshAdapter \in AdapterType /\ FreshObserver \in ObserverType
BY FeedAssumption DEF FeedAssumption, FreshAdapter, FreshObserver, AdapterType, ObserverType,
   AdapterPhases, RoundsOrNone, ShownMults, None, Multipliers

\* The feed begins within its types.
LEMMA FeedTypesInit == FeedInit => FeedTypes
BY FreshTypes, FeedAssumption DEF FeedAssumption, FeedInit, FeedTypes, PageType, Multipliers,
   EventKinds

\* Whatever the page shows, what one look returns is a reading.
LEMMA ReadingsFit ==
  ASSUME FeedTypes, NEW s \in Readings
  PROVE  s \in ReadingType
<1>1. PICK r \in 1..MaxRound, p \in {"starting", "running", "crashed"}, m \in Multipliers :
        page.round = r /\ page.phase = p /\ page.mult = m
  BY DEF FeedTypes, PageType
<1>2. r \in RoundsOrNone /\ None \in RoundsOrNone /\ p \in AdapterPhases /\ "idle" \in AdapterPhases
      /\ m \in ShownMults /\ None \in ShownMults
  BY <1>1, FeedAssumption DEF FeedAssumption, RoundsOrNone, AdapterPhases, ShownMults, None
<1>3. CASE s = [phase |-> "idle", round |-> None, mult |-> None, crash |-> None]
  BY <1>2, <1>3 DEF ReadingType
<1>4. CASE s # [phase |-> "idle", round |-> None, mult |-> None, crash |-> None]
  <2> DEFINE M == IF page.phase = "running" THEN {None, page.mult} ELSE {None}
             C == IF page.phase = "crashed" THEN {None, page.mult} ELSE {None}
  <2>1. s \in [phase : {page.phase}, round : {None, page.round}, mult : M, crash : C]
    BY <1>4 DEF Readings
  <2>2. M \subseteq ShownMults /\ C \subseteq ShownMults
    BY <1>1, <1>2
  <2> HIDE DEF M, C
  <2>3. {page.phase} \subseteq AdapterPhases /\ {None, page.round} \subseteq RoundsOrNone
    BY <1>1, <1>2
  <2> QED BY <2>1, <2>2, <2>3 DEF ReadingType
<1> QED BY <1>3, <1>4

\* Either a value that is there or the one kept.
LEMMA OrelseFits ==
  ASSUME NEW a \in ShownMults, NEW b \in ShownMults
  PROVE  Orelse(a, b) \in ShownMults /\ (b \in Multipliers => Orelse(a, b) \in Multipliers)
BY DEF Orelse, ShownMults, None, Multipliers

\* What the observer may learn from an event.
LEMMA SeesFits ==
  ASSUME observer \in ObserverType, lastKind \in EventKinds,
         \/ UNCHANGED <<observer, bus, lastKind>>
         \/ \E r \in RoundsOrNone : SeesStart(r)
         \/ \E r \in RoundsOrNone, m \in ShownMults : SeesTick(r, m)
         \/ \E r \in RoundsOrNone, m \in ShownMults : SeesCrash(r, m)
  PROVE  observer' \in ObserverType /\ lastKind' \in EventKinds
<1>1. CASE UNCHANGED <<observer, bus, lastKind>>
  BY <1>1
<1>2. ASSUME NEW r \in RoundsOrNone, SeesStart(r) PROVE observer' \in ObserverType /\ lastKind' \in EventKinds
  BY <1>2 DEF SeesStart, Publish, ObserverType, EventKinds, Multipliers
<1>3. observer.mult \in Multipliers /\ Multipliers \subseteq ShownMults /\ 1 \in Multipliers
  BY DEF ObserverType, Multipliers, ShownMults
<1>4. ASSUME NEW m \in Multipliers
      PROVE  /\ [observer EXCEPT !.mult = m] \in ObserverType
             /\ [observer EXCEPT !.phase = "crashed", !.mult = m] \in ObserverType
  BY DEF ObserverType
<1>5. ASSUME NEW r \in RoundsOrNone, NEW m \in ShownMults, SeesTick(r, m)
      PROVE  observer' \in ObserverType /\ lastKind' \in EventKinds
  <2>1. UNCHANGED observer \/ observer' = [observer EXCEPT !.mult = Orelse(m, observer.mult)]
    BY <1>5 DEF SeesTick
  <2>2. Orelse(m, observer.mult) \in Multipliers
    BY <1>3, OrelseFits
  <2> QED BY <1>4, <1>5, <2>1, <2>2 DEF SeesTick
<1>6. ASSUME NEW r \in RoundsOrNone, NEW m \in ShownMults, SeesCrash(r, m)
      PROVE  observer' \in ObserverType /\ lastKind' \in EventKinds
  <2> DEFINE point == Orelse(m, Orelse(observer.mult, 1))
  <2>1. \/ UNCHANGED <<observer, lastKind>>
        \/ /\ observer' = [observer EXCEPT !.phase = "crashed", !.mult = point]
           /\ lastKind' = "RoundCrashed"
    BY <1>6 DEF SeesCrash, PublishCrash, Publish
  <2>2. Orelse(observer.mult, 1) \in Multipliers
    BY <1>3, OrelseFits
  <2>3. point \in Multipliers
    BY <1>3, <2>2, OrelseFits
  <2> HIDE DEF point
  <2> QED BY <1>4, <2>1, <2>3 DEF EventKinds
<1> QED BY <1>1, <1>2, <1>5, <1>6

\* The end of a round may keep a copy, if there is room; the rest is the adapter's and
\* the observer's.
LEMMA ProcessFits ==
  ASSUME FeedTypes, NEW s \in ReadingType, ProcessStateChange(s)
  PROVE  /\ adapter' \in AdapterType /\ observer' \in ObserverType /\ lastKind' \in EventKinds
         /\ \/ UNCHANGED looking
            \/ /\ Len(looking) + Len(polls') < MaxPending
               /\ \E c \in CopyType : looking' = Append(looking, c)
<1>0. adapter \in AdapterType /\ observer \in ObserverType /\ lastKind \in EventKinds
  BY DEF FeedTypes
<1>1. /\ s.phase \in AdapterPhases /\ s.round \in RoundsOrNone
      /\ s.mult \in ShownMults /\ s.crash \in ShownMults
      /\ adapter.phase \in AdapterPhases /\ adapter.round \in RoundsOrNone /\ adapter.mult \in ShownMults
  BY <1>0 DEF ReadingType, AdapterType
<1>2. /\ None \in ShownMults /\ 1 \in ShownMults /\ {"running", "crashed"} \subseteq AdapterPhases
  BY DEF ShownMults, Multipliers, AdapterPhases
<1>3. CASE RoundBegins(s)
  <2>1. /\ adapter' = [phase |-> "running", round |-> s.round, mult |-> Orelse(s.mult, 1)]
        /\ UNCHANGED <<observer, bus, lastKind>> \/ SeesStart(s.round)
        /\ UNCHANGED looking
    BY <1>3 DEF RoundBegins, Unheard
  <2>2. Orelse(s.mult, 1) \in ShownMults
    BY <1>1, <1>2, OrelseFits
  <2>3. adapter' \in AdapterType
    BY <1>1, <1>2, <2>1, <2>2 DEF AdapterType
  <2> QED BY <1>0, <1>1, <2>1, <2>3, SeesFits
<1>4. CASE Ticks(s)
  <2>1. /\ adapter' = [adapter EXCEPT !.phase = "running", !.mult = Orelse(s.mult, adapter.mult)]
        /\ UNCHANGED <<observer, bus, lastKind>> \/ SeesTick(adapter.round, s.mult)
        /\ UNCHANGED looking
    BY <1>4 DEF Ticks, Unheard
  <2>2. Orelse(s.mult, adapter.mult) \in ShownMults
    BY <1>1, OrelseFits
  <2>3. adapter' \in AdapterType
    BY <1>0, <1>2, <2>1, <2>2 DEF AdapterType
  <2> QED BY <1>0, <1>1, <2>1, <2>3, SeesFits
<1>5. CASE RoundEnds(s)
  <2>1. CASE CrashReported(adapter.round, s.crash, s.crash) /\ UNCHANGED looking
    <3>1. /\ adapter' = [phase |-> "crashed", round |-> adapter.round, mult |-> s.crash]
          /\ UNCHANGED <<observer, bus, lastKind>> \/ SeesCrash(adapter.round, s.crash)
      BY <2>1 DEF CrashReported, Unheard
    <3>2. adapter' \in AdapterType
      BY <1>1, <1>2, <3>1 DEF AdapterType
    <3> QED BY <1>0, <1>1, <2>1, <3>1, <3>2, SeesFits
  <2>2. CASE ~(CrashReported(adapter.round, s.crash, s.crash) /\ UNCHANGED looking)
    <3>1. /\ Len(looking) + Len(polls') < MaxPending
          /\ looking' = Append(looking, [round |-> adapter.round, mult |-> adapter.mult])
          /\ UNCHANGED <<adapter, observer, bus, lastKind>>
      BY <1>5, <2>2, Zenon DEF RoundEnds
    <3>2. [round |-> adapter.round, mult |-> adapter.mult] \in CopyType
      BY <1>1 DEF CopyType
    <3> QED BY <1>0, <3>1, <3>2
  <2> QED BY <2>1, <2>2
<1>6. CASE PhaseMoves(s)
  <2>1. PICK m \in {None, adapter.mult} :
          /\ adapter' = [adapter EXCEPT !.phase = s.phase, !.mult = m]
          /\ UNCHANGED <<looking, observer, bus, lastKind>>
    BY <1>6 DEF PhaseMoves
  <2>2. m \in ShownMults
    BY <1>1, <1>2
  <2>3. adapter' \in AdapterType
    BY <1>0, <1>1, <2>1, <2>2 DEF AdapterType
  <2> QED BY <1>0, <2>1, <2>3
<1> QED BY <1>3, <1>4, <1>5, <1>6 DEF ProcessStateChange

\* What waits for the page stays within its bound.
LEMMA PendingFits ==
  ASSUME NEW p, NEW q, NEW R, NEW C, p \in Seq(R), q \in Seq(C), Len(p) + Len(q) <= MaxPending
  PROVE  /\ p # <<>> => /\ Head(p) \in R /\ Tail(p) \in Seq(R)
                        /\ Len(Tail(p)) + Len(q) < MaxPending
         /\ q # <<>> => /\ Head(q) \in C /\ Tail(q) \in Seq(C)
                        /\ Len(p) + Len(Tail(q)) <= MaxPending
         /\ Len(p) + Len(q) < MaxPending =>
              /\ \A s \in R : Append(p, s) \in Seq(R) /\ Len(Append(p, s)) + Len(q) <= MaxPending
              /\ \A c \in C : Append(q, c) \in Seq(C) /\ Len(p) + Len(Append(q, c)) <= MaxPending
BY FeedAssumption DEF FeedAssumption

\* A step of the feed, taken apart by the variables it changes.
LEMMA FeedWorksFits ==
  ASSUME FeedTypes, FeedWorks
  PROVE  FeedTypes'
<1>0. /\ page \in PageType /\ feed \in {"off", "adapter", "observing"}
      /\ polls \in Seq(ReadingType) /\ looking \in Seq(CopyType)
      /\ Len(polls) + Len(looking) <= MaxPending
      /\ adapter \in AdapterType /\ observer \in ObserverType /\ lastKind \in EventKinds
  BY DEF FeedTypes
<1>1. CASE PollReads
  <2>1. PICK s \in Readings : polls' = Append(polls, s)
    BY <1>1 DEF PollReads
  <2>2. /\ Len(polls) + Len(looking) < MaxPending
        /\ UNCHANGED <<page, feed, looking, adapter, observer, lastKind>>
    BY <1>1 DEF PollReads
  <2>3. polls' \in Seq(ReadingType) /\ Len(polls') + Len(looking) <= MaxPending
    BY <1>0, <2>1, <2>2, ReadingsFit, PendingFits
  <2> QED BY <1>0, <2>2, <2>3 DEF FeedTypes
<1>2. ASSUME NEW s \in ReadingType, ProcessStateChange(s), UNCHANGED <<page, feed>>,
             polls' \in Seq(ReadingType), Len(polls') + Len(looking) <= MaxPending
      PROVE  FeedTypes'
  <2>1. /\ adapter' \in AdapterType /\ observer' \in ObserverType /\ lastKind' \in EventKinds
        /\ \/ UNCHANGED looking
           \/ /\ Len(looking) + Len(polls') < MaxPending
              /\ \E c \in CopyType : looking' = Append(looking, c)
    BY <1>2, ProcessFits
  <2>2. looking' \in Seq(CopyType) /\ Len(polls') + Len(looking') <= MaxPending
    <3>1. CASE UNCHANGED looking
      BY <1>0, <1>2, <3>1
    <3>2. CASE ~UNCHANGED looking
      <4>1. PICK c \in CopyType : looking' = Append(looking, c)
        BY <2>1, <3>2
      <4>2. PICK a \in Nat, b \in Nat : a = Len(looking) /\ b = Len(polls') /\ a + b < MaxPending
        BY <1>0, <1>2, <2>1, <3>2
      <4>3. looking' \in Seq(CopyType) /\ Len(looking') = a + 1
        BY <1>0, <4>1, <4>2
      <4> QED BY <4>2, <4>3, FeedAssumption DEF FeedAssumption
    <3> QED BY <3>1, <3>2
  <2> QED BY <1>0, <1>2, <2>1, <2>2 DEF FeedTypes
<1>3. CASE PollAnswers
  <2>1. /\ polls # <<>> /\ polls' = Tail(polls) /\ ProcessStateChange(Head(polls))
        /\ UNCHANGED <<page, feed>>
    BY <1>3 DEF PollAnswers
  <2>2. /\ Head(polls) \in ReadingType /\ polls' \in Seq(ReadingType)
        /\ Len(polls') + Len(looking) <= MaxPending
    <3>1. /\ Head(polls) \in ReadingType /\ Tail(polls) \in Seq(ReadingType)
          /\ Len(Tail(polls)) \in Nat /\ Len(Tail(polls)) + 1 = Len(polls)
      BY <1>0, <2>1
    <3> QED BY <1>0, <2>1, <3>1, FeedAssumption DEF FeedAssumption
  <2> QED BY <1>2, <2>1, <2>2
<1>4. CASE FrameArrives
  <2>1. PICK s \in Readings : ProcessStateChange(s)
    BY <1>4 DEF FrameArrives
  <2>2. s \in ReadingType
    BY <2>1, ReadingsFit
  <2>3. UNCHANGED <<page, feed, polls>>
    BY <1>4 DEF FrameArrives
  <2> QED BY <1>0, <1>2, <2>1, <2>2, <2>3
<1>5. CASE PageLookedAt
  <2>1. looking # <<>> /\ looking' = Tail(looking) /\ UNCHANGED <<page, feed, polls>>
    BY <1>5 DEF PageLookedAt
  <2>2. Head(looking) \in CopyType /\ looking' \in Seq(CopyType) /\ Len(polls') + Len(looking') <= MaxPending
    BY <1>0, <2>1, PendingFits
  <2> DEFINE c == Head(looking)
  <2>3. c.round \in RoundsOrNone /\ c.mult \in ShownMults
    BY <2>2 DEF CopyType
  <2>4. adapter' \in AdapterType /\ observer' \in ObserverType /\ lastKind' \in EventKinds
    <3>1. CASE UNCHANGED <<adapter, observer, bus, lastKind>>
      BY <1>0, <3>1
    <3>2. CASE ~UNCHANGED <<adapter, observer, bus, lastKind>>
      <4>1. PICK shown \in IF page.phase = "crashed" THEN {None, page.mult} ELSE {None} :
              CrashReported(c.round, Orelse(shown, c.mult), c.mult)
        BY <1>5, <3>2 DEF PageLookedAt
      <4>2. shown \in ShownMults
        BY <1>0, <4>1 DEF PageType, ShownMults
      <4> DEFINE cp == Orelse(shown, c.mult)
      <4>3. cp \in ShownMults
        BY <2>3, <4>2, OrelseFits
      <4> HIDE DEF c, cp
      <4>4. /\ adapter' = [phase |-> "crashed", round |-> c.round, mult |-> c.mult]
            /\ UNCHANGED <<observer, bus, lastKind>> \/ SeesCrash(c.round, cp)
        BY <4>1 DEF CrashReported, Unheard, cp
      <4>5. adapter' \in AdapterType
        BY <2>3, <4>4 DEF AdapterType, AdapterPhases
      <4> QED BY <1>0, <2>3, <4>3, <4>4, <4>5, SeesFits
    <3> QED BY <3>1, <3>2
  <2> QED BY <1>0, <2>1, <2>2, <2>4 DEF FeedTypes
<1> QED BY <1>1, <1>3, <1>4, <1>5 DEF FeedWorks

\* So each step of the feed keeps its types.
LEMMA FeedTypesNext ==
  ASSUME FeedTypes, [ObsNext]_obsVars
  PROVE  FeedTypes'
<1>1. CASE Game
  <2>1. UNCHANGED <<feed, polls, looking, adapter, observer, lastKind>>
    BY <1>1 DEF Game, GameRuns
  <2>2. page' \in PageType
    BY <1>1, FeedAssumption DEF Game, GameRuns, FeedTypes, PageType, Multipliers, FeedAssumption
  <2> QED BY <2>1, <2>2 DEF FeedTypes
<1>2. CASE Feed
  BY <1>2, FeedWorksFits DEF Feed
<1>3. CASE DispatchStart \/ DispatchCrash
  BY <1>3 DEF DispatchStart, DispatchCrash, Dispatch, FeedTypes
<1>4. ASSUME UNCHANGED page, feed' \in {"off", "adapter"}, adapter' = FreshAdapter,
             observer' = FreshObserver, polls' = <<>>, looking' = <<>>, lastKind' = "none"
      PROVE  FeedTypes'
  <2>1. /\ <<>> \in Seq(ReadingType) /\ <<>> \in Seq(CopyType)
        /\ Len(<<>>) + Len(<<>>) <= MaxPending
    BY FeedAssumption DEF FeedAssumption
  <2> QED BY <1>4, <2>1, FreshTypes DEF FeedTypes, EventKinds
<1>5. CASE PauseSystem
  BY <1>4, <1>5 DEF PauseSystem, FeedStops
<1>6. ASSUME UNCHANGED feedVars PROVE FeedTypes'
  BY <1>6 DEF feedVars, FeedTypes
<1>7. CASE ResumeSystem
  BY <1>4, <1>6, <1>7 DEF ResumeSystem, AdapterStarts
<1>8. CASE SupervisorObserves
  <2>1. CASE ObserverStarts
    BY <2>1 DEF ObserverStarts, FeedTypes
  <2> QED BY <1>6, <1>8, <2>1 DEF SupervisorObserves
<1>9. CASE UNCHANGED obsVars
  BY <1>6, <1>9 DEF obsVars
<1> QED BY <1>1, <1>2, <1>3, <1>5, <1>7, <1>8, <1>9 DEF ObsNext

\* The dry run besides its money: the day's trades and all of them are limited.
DryTypes ==
  /\ running \in BOOLEAN /\ resuming \in BOOLEAN /\ failed \in BOOLEAN
  /\ dailyTrades \in 0..MaxDaily /\ Len(ledger) <= MaxTrades

\* With the money of the dry run, the types of the whole.
LEMMA ObsTypesMean == FeedTypes /\ DryInv /\ DryTypes => ObsTypeOK
<1> SUFFICES ASSUME FeedTypes, DryInv, DryTypes PROVE ObsTypeOK
  OBVIOUS
<1>1. FeedTypeOK
  BY FeedTypesMean
<1>2. \A i \in DOMAIN ledger : ledger[i].status \in TradeStatuses
  <2>1. PICK R : ledger \in Seq(Trades(R))
    BY DEF DryInv
  <2>2. \A i \in DOMAIN ledger : ledger[i] \in Trades(R)
    BY <2>1
  <2> QED BY <2>2 DEF Trades
<1>3. balance \in Int /\ netPnl \in Int /\ wins \in Nat /\ losses \in Nat
  BY DEF DryInv
<1> QED BY <1>1, <1>2, <1>3 DEF DryTypes, DryTypeOK, ObsTypeOK

\* No trade at first.
LEMMA DryTypesInit == ObsInit => DryTypes
<1>1. DryInit => dailyTrades \in 0..MaxDaily /\ Len(ledger) <= MaxTrades
  BY DryRunAssumption DEF DryRunAssumption, DryInit
<1>2. DryInit => running = TRUE
  BY DEF DryInit
<1> QED BY <1>1, <1>2 DEF ObsInit, DryTypes

\* A trade is opened below the limits and settled once; a day starts with
\* none.
LEMMA DryTypesNext ==
  ASSUME DryInv, DryTypes, [ObsNext]_obsVars
  PROVE  DryTypes'
<1>0. /\ running \in BOOLEAN /\ resuming \in BOOLEAN /\ failed \in BOOLEAN
      /\ dailyTrades \in 0..MaxDaily /\ Len(ledger) <= MaxTrades
  BY DEF DryTypes
<1>1. ASSUME UNCHANGED <<dailyTrades, ledger>>,
             running' \in BOOLEAN /\ resuming' \in BOOLEAN /\ failed' \in BOOLEAN
      PROVE  DryTypes'
  BY <1>0, <1>1 DEF DryTypes
<1>2. CASE Game \/ Feed \/ UNCHANGED obsVars
  BY <1>0, <1>1, <1>2 DEF Game, Feed, obsVars, dryVars
<1>3. CASE DispatchStart
  <2>1. UNCHANGED <<running, resuming, failed>>
    BY <1>3 DEF DispatchStart, BridgeRoundStarted
  <2>2. PICK counted \in {0, dailyTrades} : OpenTrade(bus[1].round, counted) \/ Refuse(counted)
    BY <1>3 DEF DispatchStart, BridgeRoundStarted
  <2>3. counted \in 0..MaxDaily
    BY <1>0, DryRunAssumption DEF DryRunAssumption
  <2>4. dailyTrades' \in 0..MaxDaily /\ Len(ledger') <= MaxTrades
    <3>1. CASE Refuse(counted)
      BY <1>0, <2>3, <3>1 DEF Refuse
    <3>2. CASE OpenTrade(bus[1].round, counted)
      <4>1. counted < MaxDaily /\ dailyTrades' = counted + 1
        BY <3>2 DEF OpenTrade, UnderDailyLimit
      <4>2. PICK x : ledger' = Append(ledger, x)
        BY <3>2 DEF OpenTrade
      <4>3. PICK R : ledger \in Seq(Trades(R))
        BY DEF DryInv
      <4>4. PICK n \in Nat : n = Len(ledger) /\ n < MaxTrades
        BY <3>2, <4>3 DEF OpenTrade
      <4>5. Len(ledger') = n + 1
        BY <4>2, <4>3, <4>4
      <4> QED BY <2>3, <4>1, <4>4, <4>5, DryRunAssumption DEF DryRunAssumption
    <3> QED BY <2>2, <3>1, <3>2
  <2> QED BY <1>0, <2>1, <2>4 DEF DryTypes
<1>4. CASE DispatchCrash
  <2>1. UNCHANGED <<running, dailyTrades, resuming, failed>>
    BY <1>4 DEF DispatchCrash, BridgeRoundCrashed
  <2>2. Len(ledger') <= MaxTrades
    <3>1. CASE UNCHANGED ledger
      BY <1>0, <3>1
    <3>2. CASE ~UNCHANGED ledger
      <4>1. PICK hit, cp : Resolve(hit, cp)
        BY <1>4, <3>2 DEF DispatchCrash, BridgeRoundCrashed, ResolveRound
      <4>2. PICK F : ledger' = [i \in DOMAIN ledger |-> F[i]]
        <5> DEFINE G == [i \in DOMAIN ledger |-> IF i \in hit THEN [ledger[i] EXCEPT !.status = Outcome(cp)]
                                                 ELSE ledger[i]]
        <5>1. ledger' = G
          BY <4>1 DEF Resolve
        <5>2. G = [i \in DOMAIN ledger |-> G[i]]
          OBVIOUS
        <5> QED BY <5>1, <5>2
      <4>3. PICK R : ledger \in Seq(Trades(R))
        BY DEF DryInv
      <4>4. PICK n \in Nat : n = Len(ledger) /\ DOMAIN ledger = 1..n
        BY <4>3
      <4>5. DOMAIN ledger' = 1..n
        BY <4>2, <4>4
      <4>6. Len(ledger') = n
        <5>1. PICK Q : ledger' \in Seq(Trades(Q))
          BY <1>4, DryStep DEF ObsNext, DryInv
        <5>2. PICK k \in Nat : k = Len(ledger') /\ DOMAIN ledger' = 1..k
          BY <5>1
        <5> QED BY <4>5, <5>2
      <4> QED BY <1>0, <4>4, <4>6
    <3> QED BY <3>1, <3>2
  <2> QED BY <1>0, <2>1, <2>2 DEF DryTypes
<1>5. CASE PauseSystem
  BY <1>0, <1>1, <1>5 DEF PauseSystem, ControllerSet
<1>6. CASE ResumeSystem
  <2>1. UNCHANGED <<dailyTrades, ledger>> /\ running' \in {running, TRUE} /\ resuming' \in {resuming, TRUE}
    BY <1>6 DEF ResumeSystem, ControllerSet, dryVars
  <2>2. failed' = failed \/ failed' = (feed = "off")
    BY <1>6 DEF ResumeSystem
  <2>3. failed' \in BOOLEAN
    BY <1>0, <2>2
  <2> QED BY <1>0, <1>1, <2>1, <2>3
<1>7. CASE SupervisorObserves
  BY <1>0, <1>1, <1>7 DEF SupervisorObserves, ControllerSet, ObserverStarts
<1> QED BY <1>2, <1>3, <1>4, <1>5, <1>6, <1>7 DEF ObsNext
-----------------------------------------------------------------------------
(* The cash-out monitor.                                                   *)
\* How far the request has come tells of the click, and the click of the bet.
OutInv ==
  /\ OutTypeOK
  /\ triggered <=> request # "none"
  /\ clicks = IF request \in {"none", "clicking"} THEN 0 ELSE 1
  /\ flight = "over" => wager # "riding"
  /\ wager = "paid" => clicks = 1
  /\ verdict = "LOST" => ~triggered /\ wager = "lost"
  /\ verdict = "CASHED_OUT" => request = "done" /\ wager # "riding"
  /\ verdict = "FAILED" => request = "done"

\* The monitor starts with nothing on the table.
LEMMA OutInitInv == OutInit => OutInv
<1> SUFFICES ASSUME OutInit PROVE OutInv
  OBVIOUS
<1>1. peaked \in BOOLEAN /\ triggered \in BOOLEAN /\ aborted \in BOOLEAN
  BY DEF OutInit
<1>2. /\ flight \in {"up", "over"} /\ wager \in {"riding", "paid", "lost"} /\ clicks \in Nat
      /\ request \in {"none", "clicking", "confirming", "done"}
  BY DEF OutInit
<1>3. verdict \in {"none", "CASHED_OUT", "FAILED", "LOST", "UNKNOWN"}
  BY DEF OutInit
<1>4. OutTypeOK
  BY <1>1, <1>2, <1>3 DEF OutTypeOK
<1>5. clicks = IF request \in {"none", "clicking"} THEN 0 ELSE 1
  BY DEF OutInit
<1>6. ~triggered /\ request = "none" /\ flight # "over" /\ wager # "paid" /\ verdict = "none"
  BY DEF OutInit
<1> QED BY <1>4, <1>5, <1>6 DEF OutInv

\* Clicks, crashes, timeouts and disposals keep it.
LEMMA OutNextInv ==
  ASSUME OutInv, [OutNext]_outVars
  PROVE  OutInv'
<1> USE DEF OutInv, OutTypeOK, ResolveOnce, Resolved
<1>1. CASE ReachesTarget
  BY <1>1 DEF ReachesTarget
<1>2. CASE Crashes
  BY <1>2 DEF Crashes
<1>3. CASE HearsTarget
  BY <1>3 DEF HearsTarget
<1>4. CASE HearsCrash
  BY <1>4 DEF HearsCrash, CrashVerdict, CrashUnlessInFlight
<1>5. CASE SafetyTimeout
  BY <1>5 DEF SafetyTimeout
<1>6. CASE Abort
  BY <1>6 DEF Abort
<1>7. CASE ClickCashOut
  BY <1>7 DEF ClickCashOut
<1>8. CASE ConfirmCashOut
  BY <1>8 DEF ConfirmCashOut
<1>9. CASE UNCHANGED outVars
  BY <1>9 DEF outVars
<1> QED BY <1>1, <1>2, <1>3, <1>4, <1>5, <1>6, <1>7, <1>8, <1>9 DEF OutNext

\* Hence the verdict is what the table can bear.
LEMMA OutInvMeans == OutInv => OutTypeOK /\ VerdictMatchesTable
BY DEF OutInv, OutTypeOK, VerdictMatchesTable

(* The verdict of a cash-out is what the table can bear: one click, LOST   *)
(* only unclicked and unpaid, CASHED_OUT only clicked and no longer        *)
(* riding. (game/cashout.ts runMonitor, resolveOnce)                       *)
THEOREM MonitorVerdictIsTrue == OutSpec => [](OutTypeOK /\ VerdictMatchesTable)
BY OutInvMeans, OutInitInv, OutNextInv, PTL DEF OutSpec
-----------------------------------------------------------------------------
(* The three sources of the game and their aggregation.                    *)
\* Inductive: a round that is not known to the API adapter was not reported by
\* it, and one that is was reported once.
ApiInv ==
  /\ apiCrashes \in [1..GameRounds -> {0, 1}]
  /\ \A r \in 1..GameRounds : r \notin knownRounds => apiCrashes[r] = 0

\* Inductive: the DOM adapter names the round on the page, or an earlier one
\* as long as no two polls saw that on the page come to run.
DomInv ==
  /\ gameRound \in Nat /\ domRound \in Nat /\ domRound <= gameRound
  /\ gamePhase # "idle" => gameRound > 0
  /\ ~missedRun => domRound = gameRound
  /\ DomCrashIsThisRound

\* Inductive: the observation is that of the snapshots as they are.
AgreeInv ==
  /\ subscribed \subseteq Sources /\ freshSources \subseteq Sources
  /\ lastSeen \in [Sources -> Snapshots \cup {NoReading}]
  /\ \A s \in freshSources : lastSeen[s] \in Snapshots
  /\ observation.sources \subseteq Sources
  /\ HighMeansAgreed

\* Inductive: a document is both wrapped and listened to only if the page was
\* navigated between the two steps of the first start.
HeardInv ==
  /\ ~exposed => ~wsHeard /\ (scripted => wsStage = "injected") /\ (patched => navigatedInStart)
  /\ wsStage = "started" => exposed
  /\ wsHeard /\ patched => navigatedInStart
  /\ HeardOnlyByChance

\* Nothing was reported at first.
LEMMA ApiInitInv == SourceInit => ApiInv
BY DEF SourceInit, ApiInv

\* A round that comes a second time is known already.
LEMMA ApiNextInv ==
  ASSUME ApiInv, [PageNext]_pageVars
  PROVE  ApiInv'
<1>1. ASSUME NEW r \in 1..GameRounds, ApiRound(r) PROVE ApiInv'
  <2>1. apiCrashes[r] = 0
    BY <1>1 DEF ApiRound, Known, ApiInv
  <2>2. /\ knownRounds' = knownRounds \cup {r}
        /\ apiCrashes' = [apiCrashes EXCEPT ![r] = apiCrashes[r] + 1]
    BY <1>1 DEF ApiRound
  <2>3. apiCrashes' = [apiCrashes EXCEPT ![r] = 1]
    BY <2>1, <2>2
  <2> QED BY <2>2, <2>3 DEF ApiInv
<1>2. CASE UNCHANGED <<knownRounds, apiCrashes>>
  BY <1>2 DEF ApiInv
<1> QED BY <1>1, <1>2 DEF PageNext, GameMoves, DomPoll, pageVars

\* The adapter has seen no round yet.
LEMMA DomInitInv == SourceInit => DomInv
BY DEF SourceInit, DomInv, NoRound, DomCrashIsThisRound

\* A poll that sees a round come to run learns which it is.
LEMMA DomNextInv ==
  ASSUME DomInv, [PageNext]_pageVars
  PROVE  DomInv'
<1>1. CASE GameMoves
  <2>1. UNCHANGED <<domRound, domCrashes>>
    BY <1>1 DEF GameMoves
  <2>2. missedRun' = IF gamePhase = "idle" THEN TRUE ELSE missedRun
    BY <1>1, Zenon DEF GameMoves
  <2>3. ~missedRun' => gamePhase # "idle" /\ ~missedRun
    BY <2>2
  <2>4. /\ gamePhase # "idle" => gameRound' = gameRound
        /\ gamePhase = "idle" => gameRound' = gameRound + 1
        /\ gamePhase' # "idle" => gamePhase # "idle" \/ gameRound' > 0
    BY <1>1 DEF GameMoves, DomInv
  <2> QED BY <2>1, <2>3, <2>4 DEF DomInv, DomCrashIsThisRound
<1>2. ASSUME NEW shown \in {NoRound, gameRound}, NEW mult, DomPoll(shown, mult) PROVE DomInv'
  <2>1. UNCHANGED <<gamePhase, gameRound>>
    BY <1>2 DEF DomPoll
  <2>2. domRound' = IF StartSeen(gamePhase, shown) THEN shown ELSE domRound
    BY <1>2 DEF DomPoll
  <2>3. missedRun' = (missedRun /\ ~(/\ gamePhase = "running" /\ shown # NoRound
                                     /\ domPrev \in {"idle", "starting", "crashed"}))
    BY <1>2, Zenon DEF DomPoll
  <2>4. StartSeen(gamePhase, shown) => shown = gameRound
    BY DEF StartSeen
  <2>5. ~missedRun' => ~missedRun \/ StartSeen(gamePhase, shown)
    BY <2>3, Zenon DEF StartSeen
  <2>6. domRound' \in Nat /\ domRound' <= gameRound /\ (~missedRun' => domRound' = gameRound)
    BY <2>2, <2>4, <2>5 DEF DomInv
  <2>7. \/ domCrashes' = domCrashes
        \/ /\ domCrashes' = domCrashes \cup {<<CrashedRound(shown), gameRound, missedRun>>}
           /\ gamePhase = "crashed"
    BY <1>2 DEF DomPoll, CrashSeen
  <2>8. ASSUME gamePhase = "crashed"
        PROVE  CrashedRound(shown) = gameRound \/ (CrashedRound(shown) < gameRound /\ missedRun)
    BY <2>8 DEF CrashedRound, DomInv, NoRound
  <2>9. DomCrashIsThisRound'
    BY <2>7, <2>8 DEF DomInv, DomCrashIsThisRound
  <2> QED BY <2>1, <2>6, <2>9 DEF DomInv
<1>3. CASE UNCHANGED <<gamePhase, gameRound, domRound, missedRun, domCrashes>>
  BY <1>3 DEF DomInv, DomCrashIsThisRound
<1>4. CASE UNCHANGED pageVars
  BY <1>3, <1>4 DEF pageVars
<1>5. ASSUME NEW r \in 1..GameRounds, ApiRound(r) PROVE DomInv'
  BY <1>3, <1>5 DEF ApiRound
<1> QED BY <1>1, <1>2, <1>4, <1>5 DEF PageNext

\* Without a conflict two snapshots agree on round, phase and crash point.
LEMMA NoConflict ==
  ASSUME NEW a \in Snapshots, NEW b \in Snapshots
  PROVE  /\ Conflicts(a, b) \in Nat
         /\ Conflicts(a, b) = 0 => a.round = b.round /\ a.phase = b.phase /\ a.crash = b.crash
BY DEF Snapshots, Conflicts, ConflictsByRound, NoRound

\* Without any conflict the sources that count agree.
LEMMA NoneConflict ==
  ASSUME NEW S \in SUBSET Sources, NEW seen, \A s \in S : seen[s] \in Snapshots,
         AllConflicts(seen, S) = 0
  PROVE  \A s, t \in S : seen[s].round = seen[t].round /\ seen[s].phase = seen[t].phase /\ seen[s].crash = seen[t].crash
<1> DEFINE between(s, t) == IF {s, t} \subseteq S THEN Conflicts(seen[s], seen[t]) ELSE 0
<1>1. \A s, t \in Sources : between(s, t) \in Nat
  BY NoConflict
<1>2. between("dom", "websocket") + between("dom", "api") + between("websocket", "api") = 0
  BY DEF AllConflicts
<1>3. /\ between("dom", "websocket") \in Nat /\ between("dom", "api") \in Nat
      /\ between("websocket", "api") \in Nat
  BY <1>1 DEF Sources
<1>4. between("dom", "websocket") = 0 /\ between("dom", "api") = 0 /\ between("websocket", "api") = 0
  <2> HIDE DEF between
  <2> QED BY <1>2, <1>3
<1>5. ASSUME NEW s \in S, NEW t \in S, between(s, t) = 0
      PROVE  seen[s].round = seen[t].round /\ seen[s].phase = seen[t].phase /\ seen[s].crash = seen[t].crash
  BY <1>5, NoConflict
<1>6. \A s, t \in S : s # t => between(s, t) = 0 \/ between(t, s) = 0
  <2> HIDE DEF between
  <2> QED BY <1>4 DEF Sources
<1> QED BY <1>5, <1>6

\* Nothing was observed at first.
LEMMA AgreeInitInv == SourceInit => AgreeInv
BY DEF SourceInit, AgreeInv, HighMeansAgreed

\* Every snapshot is counted with the others as they are.
LEMMA AgreeNextInv ==
  ASSUME AgreeInv, [AggNext]_aggVars
  PROVE  AgreeInv'
<1>1. ASSUME NEW src \in Sources, NEW snap \in Snapshots, HandleSourceEvent(src, snap)
      PROVE  AgreeInv'
  <2>1. PICK seen : seen = [lastSeen EXCEPT ![src] = snap]
    OBVIOUS
  <2>2. PICK S : S = freshSources \cup {src}
    OBVIOUS
  <2>3. lastSeen' = seen /\ freshSources' = S /\ UNCHANGED subscribed
    BY <1>1, <2>1, <2>2 DEF HandleSourceEvent
  <2>4. /\ S \in SUBSET Sources /\ seen \in [Sources -> Snapshots \cup {NoReading}]
        /\ \A s \in S : seen[s] \in Snapshots
    BY <2>1, <2>2 DEF AgreeInv
  <2>5. PICK lag, round, shown :
          observation' = [round |-> round, phase |-> shown,
                          confidence |-> ConfidenceOf(freshSources', AllConflicts(lastSeen', freshSources'), lag),
                          sources |-> freshSources']
    BY <1>1, Zenon DEF HandleSourceEvent
  <2>6. observation' = [round |-> round, phase |-> shown,
                        confidence |-> ConfidenceOf(S, AllConflicts(seen, S), lag), sources |-> S]
    BY <2>5, <2>3, Zenon
  <2>7. /\ observation'.sources = S
        /\ observation'.confidence = ConfidenceOf(S, AllConflicts(seen, S), lag)
    BY <2>6, Zenon
  <2>8. ASSUME observation'.confidence = "high"
        PROVE  Cardinality(S) >= MinAgreeing /\ AllConflicts(seen, S) = 0
    BY <2>7, <2>8 DEF ConfidenceOf
  <2>9. IsFiniteSet(S) /\ Cardinality(S) \in Nat
    <3>1. IsFiniteSet({}) /\ Sources = (({} \cup {"dom"}) \cup {"websocket"}) \cup {"api"}
      BY FS_EmptySet DEF Sources
    <3>2. IsFiniteSet(({} \cup {"dom"}) \cup {"websocket"})
      BY <3>1, FS_AddElement
    <3>3. IsFiniteSet(Sources)
      BY <3>1, <3>2, FS_AddElement
    <3> QED BY <2>4, <3>3, FS_Subset, FS_CardinalityType
  <2>10. HighMeansAgreed'
    <3> SUFFICES ASSUME observation'.confidence = "high"
                 PROVE  /\ Cardinality(S) >= 2
                        /\ \A s, t \in S : seen[s].round = seen[t].round /\ seen[s].phase = seen[t].phase /\ seen[s].crash = seen[t].crash
      BY <2>3, <2>7 DEF HighMeansAgreed
    <3>1. Cardinality(S) >= 2
      BY <2>8, <2>9, SourcesAssumption DEF SourcesAssumption
    <3>2. \A s, t \in S : seen[s].round = seen[t].round /\ seen[s].phase = seen[t].phase /\ seen[s].crash = seen[t].crash
      BY <2>4, <2>8, NoneConflict
    <3> QED BY <3>1, <3>2
  <2> QED BY <2>3, <2>4, <2>7, <2>10 DEF AgreeInv
<1>2. CASE UNCHANGED <<lastSeen, observation>> /\ subscribed' \subseteq Sources
           /\ freshSources' \subseteq freshSources
  BY <1>2 DEF AgreeInv, HighMeansAgreed
<1> QED BY <1>1, <1>2
        DEF AggNext, AggregatorStart, AggregatorStop, AdapterRestarts, GoesStale, aggVars, AgreeInv

\* Nothing was heard at first.
LEMMA HeardInitInv == SourceInit => HeardInv
BY DEF SourceInit, HeardInv, HeardOnlyByChance

\* Scripts, listeners and navigations in any order keep it.
LEMMA HeardNextInv ==
  ASSUME HeardInv, [WsNext]_wsVars
  PROVE  HeardInv'
<1> USE DEF HeardInv, HeardOnlyByChance
<1>1. CASE WsInject
  BY <1>1 DEF WsInject
<1>2. CASE WsListen
  BY <1>2, Zenon DEF WsListen
<1>3. CASE WsStop
  BY <1>3 DEF WsStop
<1>4. CASE GameNavigates
  BY <1>4, Zenon DEF GameNavigates, HeardAfterNavigation
<1>5. ASSUME NEW type, NEW round, WsMessage(type, round) PROVE HeardInv'
  BY <1>5 DEF WsMessage
<1>6. CASE UNCHANGED wsVars
  BY <1>6 DEF wsVars
<1> QED BY <1>1, <1>2, <1>3, <1>4, <1>5, <1>6 DEF WsNext

\* Hence what the sources tell is so.
LEMMA SourcesTell == ApiInv /\ DomInv /\ AgreeInv /\ HeardInv => SourcesAreTrue
BY DEF ApiInv, DomInv, AgreeInv, HeardInv, SourcesAreTrue, ApiCrashOnce

\* The ranges of what the page shows, of where the interceptor is and of what the
\* aggregator counts.
PageTypes ==
  /\ gamePhase \in {"idle", "starting", "running", "crashed"} /\ gameRound \in 0..GameRounds
  /\ domPrev \in {"none", "idle", "starting", "running", "crashed"} /\ domRound \in 0..GameRounds
  /\ knownRounds \subseteq 1..GameRounds
StageTypes == wsStage \in {"stopped", "injected", "started"}
AggTypes ==
  /\ subscribed \subseteq Sources /\ freshSources \subseteq Sources /\ observation.sources \subseteq Sources
  /\ observation.confidence \in {"low", "medium", "high"}

\* Together, the types of the sources.
LEMMA SourceTypesMean == PageTypes /\ StageTypes /\ AggTypes => SourceTypeOK
BY DEF PageTypes, StageTypes, AggTypes, SourceTypeOK

\* They begin within them.
LEMMA SourceTypesInit == SourceInit => PageTypes /\ StageTypes /\ AggTypes
<1> SUFFICES ASSUME SourceInit PROVE PageTypes /\ StageTypes /\ AggTypes
  OBVIOUS
<1>1. PageTypes /\ StageTypes
  BY SourcesAssumption DEF SourceInit, PageTypes, StageTypes, NoRound
<1>2. observation.sources = {} /\ observation.confidence = "low" /\ subscribed = {} /\ freshSources = {}
  BY DEF SourceInit
<1> QED BY <1>1, <1>2 DEF AggTypes

\* The page shows the phases of rounds in the bound.
LEMMA PageTypesNext ==
  ASSUME PageTypes, [PageNext]_pageVars
  PROVE  PageTypes'
<1>1. CASE GameMoves
  BY <1>1, SourcesAssumption DEF GameMoves, PageTypes
<1>2. ASSUME NEW r \in 1..GameRounds, ApiRound(r) PROVE PageTypes'
  <2>1. /\ UNCHANGED <<gamePhase, gameRound, domPrev, domRound>>
        /\ knownRounds' = knownRounds \cup {r}
    BY <1>2, Zenon DEF ApiRound
  <2>2. knownRounds' \subseteq 1..GameRounds
    BY <2>1, Zenon DEF PageTypes
  <2> QED BY <2>1, <2>2, Zenon DEF PageTypes
<1>3. ASSUME NEW shown \in {NoRound, gameRound}, NEW mult \in {0, gameMult}, DomPoll(shown, mult)
      PROVE  PageTypes'
  <2>1. /\ UNCHANGED <<gamePhase, gameRound, knownRounds>> /\ domPrev' = gamePhase
        /\ domRound' = shown \/ UNCHANGED domRound
    BY <1>3, Zenon DEF DomPoll
  <2>2. shown \in 0..GameRounds
    BY SourcesAssumption DEF PageTypes, NoRound
  <2> QED BY <2>1, <2>2 DEF PageTypes
<1>4. CASE UNCHANGED pageVars
  BY <1>4 DEF pageVars, PageTypes
<1> QED BY <1>1, <1>2, <1>3, <1>4, Zenon DEF PageNext

\* The interceptor is stopped, injected or started.
LEMMA StageTypesNext ==
  ASSUME StageTypes, [WsNext]_wsVars
  PROVE  StageTypes'
<1>1. UNCHANGED wsStage \/ wsStage' = "injected" \/ wsStage' = "started" \/ wsStage' = "stopped"
  BY Zenon DEF WsNext, WsInject, WsListen, WsStop, GameNavigates, WsMessage, wsVars
<1> QED BY <1>1 DEF StageTypes

\* The aggregator knows sources, and grades what they say in three.
LEMMA AggTypesNext ==
  ASSUME AggTypes, [AggNext]_aggVars
  PROVE  AggTypes'
<1>1. /\ UNCHANGED subscribed \/ subscribed' = Sources \/ subscribed' = {}
           \/ \E src \in Sources : subscribed' = subscribed \ {src}
      /\ UNCHANGED freshSources
           \/ \E src \in Sources : freshSources' = freshSources \cup {src} \/ freshSources' = freshSources \ {src}
  BY Zenon DEF AggNext, AggregatorStart, AggregatorStop, AdapterRestarts, GoesStale, HandleSourceEvent, aggVars
<1>2. subscribed' \subseteq Sources /\ freshSources' \subseteq Sources
  BY <1>1 DEF AggTypes
<1>3. ASSUME NEW src \in Sources, NEW s \in Snapshots, HandleSourceEvent(src, s)
      PROVE  /\ observation'.sources = freshSources'
             /\ observation'.confidence \in {"low", "medium", "high"}
  <2>1. PICK round, ph, conflicts, lag :
          observation' = [round |-> round, phase |-> ph,
                          confidence |-> ConfidenceOf(freshSources', conflicts, lag),
                          sources |-> freshSources']
    BY <1>3, Zenon DEF HandleSourceEvent
  <2>2. ConfidenceOf(freshSources', conflicts, lag) \in {"low", "medium", "high"}
    BY Zenon DEF ConfidenceOf
  <2> QED BY <2>1, <2>2
<1>4. UNCHANGED observation \/ \E src \in Sources, s \in Snapshots : HandleSourceEvent(src, s)
  BY Zenon DEF AggNext, AggregatorStart, AggregatorStop, AdapterRestarts, GoesStale, aggVars
<1>5. observation'.sources \subseteq Sources /\ observation'.confidence \in {"low", "medium", "high"}
  <2>1. CASE UNCHANGED observation
    BY <2>1, Zenon DEF AggTypes
  <2>2. ASSUME NEW src \in Sources, NEW s \in Snapshots, HandleSourceEvent(src, s)
        PROVE  observation'.sources \subseteq Sources /\ observation'.confidence \in {"low", "medium", "high"}
    BY <1>2, <1>3, <2>2, Zenon
  <2> QED BY <1>4, <2>1, <2>2, Zenon
<1> QED BY <1>2, <1>5, Zenon DEF AggTypes
-----------------------------------------------------------------------------
(* The start and the stop of the process.                                  *)
\* Stages of the start before the bridges are wired.
BeforeWiring == {"boot", "recovery", "wiring"}

\* From the wiring to the shutdown the bridges that were not skipped are
\* subscribed, and before it nothing observes rounds and no operator can make anything do so.
AppInv ==
  /\ appStage \in StartStages \cup StopStages
  /\ appStage \in BeforeWiring => wired = {} /\ started \cap {"observation", "bot"} = {}
  /\ appStage \in StartStages \ BeforeWiring => Bridges \ skipped \subseteq wired
  /\ appStage \in StopStages => wired = {}

\* The process is not started at first.
LEMMA AppInitInv == AppInit => AppInv
BY DEF AppInit, AppInv, BeforeWiring, StartStages, StopStages

\* Stages, failures, stops and rounds keep it.
LEMMA AppNextInv ==
  ASSUME AppInv, [AppNext]_appVars
  PROVE  AppInv'
<1> USE DEF AppInv, BeforeWiring, StartStages, StopStages, Goes
<1>1. CASE Bootstrap
  BY <1>1 DEF Bootstrap
<1>2. CASE Recovers \/ Wire \/ Observes \/ SupervisorStarted \/ Prewarmed
  BY <1>2 DEF Recovers, Wire, WireAll, Observes, SupervisorStarted, Prewarmed, MovesOn, StartFeeds
<1>3. CASE FleetStarted \/ Started
  BY <1>3 DEF FleetStarted, Started, WireAll
<1>4. CASE Shutdown \/ ShutdownStep
  BY <1>4 DEF Shutdown, ShutdownStep, Unwired
<1>5. CASE Operator
  BY <1>5 DEF Operator
<1>6. ASSUME NEW r \in AppRounds, StartsRound(r) \/ EndsRound(r) \/ PlacementReturns(r)
      PROVE  AppInv'
  BY <1>6 DEF StartsRound, EndsRound, PlacementReturns
<1>7. CASE UNCHANGED appVars
  BY <1>7 DEF appVars
<1> QED BY <1>1, <1>2, <1>3, <1>4, <1>5, <1>6, <1>7 DEF AppNext

\* Hence no round is lost on its way.
LEMMA BridgesAreReached == AppInv => RoundsReachBridges
BY DEF AppInv, RoundsReachBridges, ShuttingDown, BeforeWiring

(* While rounds are observed every bridge is wired but those whose wiring  *)
(* failed and was skipped, and none is wired once the shutdown has begun,  *)
(* for every order of start, stop and commands. (app/composition.ts start, *)
(* stop)                                                                   *)
THEOREM BridgesHearEveryRound == AppSpec => []RoundsReachBridges
BY AppInitInv, AppNextInv, BridgesAreReached, PTL DEF AppSpec

\* Bounds of a set of trades: each is of a round, opened by a bridge.
MirrorOf(R) == [round : R, path : Bridges, status : {"OPEN", "CLOSED"}]
AppTypes == AppTypeOK /\ recent \in Seq(MirrorOf(AppRounds))

\* Nothing was traded at first.
LEMMA AppTypesInit == AppInit => AppTypes
BY AppAssumption DEF AppInit, AppTypes, AppTypeOK, AppAssumption, StartStages, CrashFeeds

\* The latest of trades and one more, of which as many are kept as may be.
LEMMA LatestFits ==
  ASSUME NEW S, NEW t \in Seq(S), NEW x \in S
  PROVE  Latest(<<x>> \o t) \in Seq(S) /\ Len(Latest(<<x>> \o t)) <= MaxRecent
<1>1. PICK m \in Nat : m = MaxRecent
  BY AppAssumption DEF AppAssumption
<1>2. PICK u \in Seq(S) : u = <<x>> \o t
  <2>1. <<x>> \in Seq(S)
    OBVIOUS
  <2> QED BY <2>1, ConcatProperties
<1>3. PICK n \in Nat : n = (IF Len(u) < m THEN Len(u) ELSE m) /\ n <= Len(u) /\ n <= m
  BY <1>1, <1>2
<1>4. SubSeq(u, 1, n) \in Seq(S) /\ Len(SubSeq(u, 1, n)) = n
  <2>1. \A i \in 1..n : u[i] \in S
    BY <1>2, <1>3
  <2> QED BY <1>2, <1>3, <2>1
<1> QED BY <1>1, <1>2, <1>3, <1>4 DEF Latest

\* A trade that is opened is one of the trades there may be.
LEMMA MirrorFits ==
  ASSUME AppTypes, NEW r \in AppRounds, NEW p \in Bridges, Mirror(r, p)
  PROVE  recent' \in Seq(MirrorOf(AppRounds)) /\ Len(recent') <= MaxRecent
<1>1. PICK x \in MirrorOf(AppRounds) : x = [round |-> r, path |-> p, status |-> "OPEN"]
  BY DEF MirrorOf
<1>2. recent' = Latest(<<x>> \o recent)
  BY <1>1 DEF Mirror
<1> QED BY <1>2, LatestFits DEF AppTypes

\* A sequence over a set is one over a larger set.
LEMMA IsSequence ==
  ASSUME NEW S, NEW n \in Nat, NEW f \in [1..n -> S]
  PROVE  f \in Seq(S) /\ Len(f) = n
OBVIOUS

\* A round that ends closes its trades where they are.
LEMMA ClosedFits ==
  ASSUME NEW r, recent \in Seq(MirrorOf(AppRounds)),
         recent' = [i \in DOMAIN recent |-> IF recent[i].round = r
                      THEN [recent[i] EXCEPT !.status = "CLOSED"] ELSE recent[i]]
  PROVE  recent' \in Seq(MirrorOf(AppRounds)) /\ Len(recent') = Len(recent)
<1> DEFINE Q == MirrorOf(AppRounds)
<1>1. PICK n \in Nat : n = Len(recent) /\ DOMAIN recent = 1..n
  OBVIOUS
<1>2. \A x \in Q : [x EXCEPT !.status = "CLOSED"] \in Q
  BY DEF MirrorOf
<1> HIDE DEF Q
<1>3. \A i \in 1..n : recent[i] \in Q
  BY <1>1 DEF Q
<1>4. recent' \in [1..n -> Q]
  BY <1>1, <1>2, <1>3
<1>5. recent' \in Seq(Q) /\ Len(recent') = n
  BY <1>4, IsSequence, Zenon
<1> QED BY <1>1, <1>5 DEF Q

\* Each event of a round and each trade of a bridge keeps them.
LEMMA AppTypesNext ==
  ASSUME AppTypes, [AppNext]_appVars
  PROVE  AppTypes'
<1> USE DEF AppTypes, AppTypeOK, Goes, NoRounds, StartStages, StopStages
<1>1. CASE Bootstrap
  BY <1>1 DEF Bootstrap
<1>2. CASE Recovers \/ Wire \/ Observes \/ SupervisorStarted \/ Prewarmed
  BY <1>2 DEF Recovers, Wire, WireAll, Observes, SupervisorStarted, Prewarmed, MovesOn,
               StartFeeds, CrashFeeds
<1>3. CASE FleetStarted \/ Started
  BY <1>3 DEF FleetStarted, Started, WireAll, CrashFeeds
<1>4. CASE Shutdown \/ ShutdownStep
  BY <1>4 DEF Shutdown, ShutdownStep, Unwired
<1>5. CASE Operator
  BY <1>5 DEF Operator
<1>6. ASSUME NEW feeds, Hear(feeds)
      PROVE  reached' \subseteq CrashFeeds
  BY <1>6 DEF Hear
<1>7. ASSUME NEW r \in AppRounds, StartsRound(r) PROVE AppTypes'
  <2>1. reached' \subseteq CrashFeeds
    BY <1>6, <1>7 DEF StartsRound
  <2>2. recent' \in Seq(MirrorOf(AppRounds)) /\ Len(recent') <= MaxRecent
    <3>1. UNCHANGED recent \/ Mirror(r, "dry-run")
      BY <1>7 DEF StartsRound
    <3> QED BY <3>1, MirrorFits DEF Bridges
  <2> QED BY <1>7, <2>1, <2>2 DEF StartsRound
<1>8. ASSUME NEW r \in AppRounds, EndsRound(r) PROVE AppTypes'
  <2>1. reached' \subseteq CrashFeeds
    BY <1>6, <1>8 DEF EndsRound
  <2>2. recent' \in Seq(MirrorOf(AppRounds)) /\ Len(recent') <= MaxRecent
    <3>1. CASE "dry-run" \in wired
      <4>1. recent' = [i \in DOMAIN recent |-> IF recent[i].round = r
                         THEN [recent[i] EXCEPT !.status = "CLOSED"] ELSE recent[i]]
        BY <1>8, <3>1, Zenon DEF EndsRound
      <4>2. recent' \in Seq(MirrorOf(AppRounds)) /\ Len(recent') = Len(recent)
        <5>1. recent \in Seq(MirrorOf(AppRounds))
          OBVIOUS
        <5> QED BY <4>1, <5>1, ClosedFits
      <4> QED BY <4>2
    <3>2. CASE "dry-run" \notin wired
      BY <1>8, <3>2 DEF EndsRound
    <3> QED BY <3>1, <3>2
  <2> QED BY <1>8, <2>1, <2>2 DEF EndsRound
<1>9. ASSUME NEW r \in AppRounds, PlacementReturns(r) PROVE AppTypes'
  <2>1. UNCHANGED recent \/ Mirror(r, "live")
    BY <1>9 DEF PlacementReturns
  <2>2. recent' \in Seq(MirrorOf(AppRounds)) /\ Len(recent') <= MaxRecent
    BY <2>1, MirrorFits DEF Bridges
  <2> QED BY <1>9, <2>2 DEF PlacementReturns
<1>10. CASE UNCHANGED appVars
  BY <1>10 DEF appVars
<1> QED BY <1>1, <1>2, <1>3, <1>4, <1>5, <1>7, <1>8, <1>9, <1>10 DEF AppNext
-----------------------------------------------------------------------------
(* The browser manager: timers and relaunches.                             *)
\* While close() waits, what it found nothing of cannot appear; a launch()
\* that is under way has opened the browser on purpose.
WebInv ==
  /\ ClosedStaysClosed
  /\ call \in {"none", "launching", "closing"} /\ tab \in {"none", "ok", "crashed"}
  /\ call = "closing" /\ ~raced => relaunch = "none" /\ ~timer /\ ~enabled
  /\ call = "launching" => ~closed

\* The browser is not launched at first.
LEMMA WebInitInv == WebInit => WebInv
BY DEF WebInit, WebInv, ClosedStaysClosed

\* Launches, crashes, timers, recoveries and closings keep it.
LEMMA WebNextInv ==
  ASSUME WebInv, [WebNext]_webVars
  PROVE  WebInv'
<1> USE DEF WebInv, ClosedStaysClosed
<1>1. CASE PageDies
  BY <1>1 DEF PageDies, ScheduleRecovery
<1>2. CASE Launch
  BY <1>2 DEF Launch
<1>3. CASE Launched
  BY <1>3 DEF Launched
<1>4. CASE Close
  BY <1>4 DEF Close, CancelTimer, ClearTimer
<1>5. CASE Closed
  BY <1>5 DEF Closed
<1>6. CASE TimerFires
  BY <1>6 DEF TimerFires
<1>7. CASE OldClosed
  BY <1>7 DEF OldClosed
<1>8. CASE Relaunched
  BY <1>8 DEF Relaunched, ScheduleRecovery
<1>9. CASE UNCHANGED webVars
  BY <1>9 DEF webVars
<1> QED BY <1>1, <1>2, <1>3, <1>4, <1>5, <1>6, <1>7, <1>8, <1>9 DEF WebNext, Recovery

(* A browser closed on purpose stays closed, unless a recovery was         *)
(* relaunching it at that moment, for any number of attempts.              *)
(* (browser/manager.ts close, scheduleRecovery)                            *)
THEOREM BrowserStaysClosed == WebSpec => []ClosedStaysClosed
<1>1. WebInv => ClosedStaysClosed
  BY DEF WebInv
<1> QED BY <1>1, WebInitInv, WebNextInv, PTL DEF WebSpec

\* The browser starts closed, its budget whole.
LEMMA WebTypesInit == WebInit => WebTypeOK
<1>1. WebInit => attempts \in 0..MaxRecoveryAttempts
  BY BrowserAssumption DEF WebInit, BrowserAssumption
<1> QED BY <1>1 DEF WebInit, WebTypeOK

\* Only scheduleRecovery spends the budget of attempts, and only while there is some.
LEMMA AttemptsFit ==
  ASSUME attempts \in 0..MaxRecoveryAttempts,
         \/ UNCHANGED attempts
         \/ attempts' = 0
         \/ attempts < MaxRecoveryAttempts /\ attempts' = attempts + 1
  PROVE  attempts' \in 0..MaxRecoveryAttempts
BY BrowserAssumption DEF BrowserAssumption

\* Launches, crashes, recoveries and closings keep the types.
LEMMA WebTypesNext ==
  ASSUME WebTypeOK, [WebNext]_webVars
  PROVE  WebTypeOK'
<1> USE DEF WebTypeOK, ScheduleRecovery
<1>1. attempts' \in 0..MaxRecoveryAttempts
  <2>1. \/ UNCHANGED attempts
        \/ attempts' = 0
        \/ attempts < MaxRecoveryAttempts /\ attempts' = attempts + 1
    BY Zenon DEF WebNext, PageDies, Launch, Launched, Close, Closed, Recovery, TimerFires,
         OldClosed, Relaunched, webVars
  <2> QED BY <2>1, AttemptsFit
<1>2. CASE PageDies
  BY <1>1, <1>2 DEF PageDies
<1>3. CASE Launch \/ Launched
  BY <1>1, <1>3 DEF Launch, Launched
<1>4. CASE Close \/ Closed
  BY <1>1, <1>4 DEF Close, CancelTimer, ClearTimer, Closed
<1>5. CASE Recovery
  BY <1>1, <1>5 DEF Recovery, TimerFires, OldClosed, Relaunched
<1>6. CASE UNCHANGED webVars
  BY <1>1, <1>6 DEF webVars
<1> QED BY <1>2, <1>3, <1>4, <1>5, <1>6 DEF WebNext
-----------------------------------------------------------------------------
(* The framework of the workers.                                           *)
\* A fleet that was stopped while no restart was draining has none coming.
WorkInv ==
  /\ NoWorkLost
  /\ pending \in Nat /\ active \in 0..Concurrency /\ draining \in Nat
  /\ fleet \in {"stopping", "down"} /\ ~restartRaced => draining = 0 /\ ~restartDue

\* There is no job at first.
LEMMA WorkInitInv == WorkInit => WorkInv
BY WorkerAssumption DEF WorkInit, WorkInv, NoWorkLost, Drained, WorkerAssumption

\* After a pump jobs wait only when every place is taken.
LEMMA PumpFills ==
  ASSUME NEW queued \in Nat, NEW busy \in 0..Concurrency, wrunning, Pump(queued, busy)
  PROVE  /\ pending' \in Nat /\ active' \in 0..Concurrency
         /\ pending' > 0 => active' = Concurrency
BY WorkerAssumption DEF Pump, WorkerAssumption

\* Jobs, failures, stops and restarts keep it.
LEMMA WorkNextInv ==
  ASSUME WorkInv, [WorkNext]_workVars
  PROVE  WorkInv'
<1> USE WorkerAssumption DEF WorkInv, NoWorkLost, Drained, WorkerAssumption
<1>1. CASE Process
  <2>1. /\ pending' \in Nat /\ active' \in 0..Concurrency
        /\ pending' > 0 => active' = Concurrency
    BY <1>1, PumpFills DEF Process
  <2> QED BY <1>1, <2>1 DEF Process
<1>2. CASE Handled
  <2>1. wrunning
    BY <1>2 DEF Handled
  <2>2. /\ pending' \in Nat /\ active' \in 0..Concurrency
        /\ pending' > 0 => active' = Concurrency
    BY <1>2, <2>1, PumpFills DEF Handled, HandlerReturns, FreeSlotAndPump
  <2> QED BY <1>2, <2>1, <2>2 DEF Handled
<1>3. CASE StartAll
  BY <1>3 DEF StartAll, StartWorker
<1>4. CASE Supervise
  BY <1>4 DEF Supervise
<1>5. CASE RestartFires
  BY <1>5 DEF RestartFires, BeginStop
<1>6. CASE Restarted
  BY <1>6 DEF Restarted
<1>7. CASE StopAll
  <2>1. restartRaced' \/ draining = 0
    <3>1. draining > 0 \/ draining = 0
      OBVIOUS
    <3>2. draining > 0 => restartRaced'
      BY <1>7, Zenon DEF StopAll
    <3> QED BY <3>1, <3>2
  <2>2. /\ fleet' = "stopping" /\ ~restartDue'
        /\ UNCHANGED <<draining, wrunning, pending, active>>
    BY <1>7 DEF StopAll, BeginStop
  <2> QED BY <2>1, <2>2
<1>8. CASE StoppedAll
  BY <1>8 DEF StoppedAll
<1>9. CASE UNCHANGED workVars
  BY <1>9 DEF workVars
<1> QED BY <1>1, <1>2, <1>3, <1>4, <1>5, <1>6, <1>7, <1>8, <1>9 DEF WorkNext

(* No accepted item waits while a slot is free, none is left when a worker *)
(* has stopped, and a fleet that was stopped stays so, unless in the       *)
(* middle of a restart; for any concurrency and any queue. (workers/base-  *)
(* worker.ts pump, drain; supervise, stopAll)                              *)
THEOREM WorkersLoseNothing == WorkSpec => []NoWorkLost
<1>1. WorkInv => NoWorkLost
  BY DEF WorkInv
<1> QED BY <1>1, WorkInitInv, WorkNextInv, PTL DEF WorkSpec

\* A comparison is a Boolean.
LEMMA IsComparison ==
  ASSUME NEW a, NEW b, NEW x, x = (a > b)
  PROVE  x \in BOOLEAN
OBVIOUS

\* No item waits at first.
LEMMA WorkTypesInit == WorkInit => WorkTypeOK
<1>1. WorkInit => /\ draining \in 0..MaxRestarts /\ pending \in 0..MaxQueue
                  /\ active \in 0..Concurrency /\ errors \in 0..MaxErrors
  BY WorkerAssumption DEF WorkInit, WorkerAssumption
<1> QED BY <1>1 DEF WorkInit, WorkTypeOK

\* Pumping takes up items, and only as many as there are slots.
LEMMA PumpTakes ==
  ASSUME NEW queued \in Nat, NEW busy \in 0..Concurrency, Pump(queued, busy)
  PROVE  /\ pending' \in 0..queued /\ active' \in 0..Concurrency
         /\ wrunning /\ busy < Concurrency /\ queued > 0 => pending' < queued
<1>1. PICK free \in Int : free = Concurrency - busy
  BY WorkerAssumption DEF WorkerAssumption
<1>2. PICK taken \in Nat : /\ taken <= queued /\ taken <= free
                           /\ pending' = queued - taken /\ active' = busy + taken
                           /\ wrunning /\ free > 0 /\ queued > 0 => taken > 0
  <2>1. CASE wrunning
    BY <1>1, <2>1, WorkerAssumption DEF Pump, WorkerAssumption
  <2>2. CASE ~wrunning
    BY <1>1, <2>2, WorkerAssumption DEF Pump, WorkerAssumption
  <2> QED BY <2>1, <2>2
<1> QED BY <1>1, <1>2, WorkerAssumption DEF WorkerAssumption

\* The counters of the fleet and of the worker, whatever changes them.
LEMMA WorkCountersFit ==
  ASSUME WorkTypeOK,
         \/ UNCHANGED <<pending, active>>
         \/ pending < MaxQueue /\ Pump(pending + 1, active)
         \/ active > 0 /\ Pump(pending, active - 1),
         \/ UNCHANGED draining
         \/ draining < MaxRestarts /\ draining' = draining + 1
         \/ draining > 0 /\ draining' = draining - 1,
         \/ UNCHANGED errors \/ errors' = 0
         \/ errors' = IF errors < MaxErrors THEN errors + 1 ELSE errors
  PROVE  /\ draining' \in 0..MaxRestarts /\ pending' \in 0..MaxQueue
         /\ active' \in 0..Concurrency /\ errors' \in 0..MaxErrors
<1>0. /\ draining \in 0..MaxRestarts /\ pending \in 0..MaxQueue
      /\ active \in 0..Concurrency /\ errors \in 0..MaxErrors
  BY DEF WorkTypeOK
<1>1. draining' \in 0..MaxRestarts /\ errors' \in 0..MaxErrors
  BY <1>0, WorkerAssumption DEF WorkerAssumption
<1>2. pending' \in 0..MaxQueue /\ active' \in 0..Concurrency
  <2>1. CASE UNCHANGED <<pending, active>>
    BY <1>0, <2>1
  <2>2. CASE pending < MaxQueue /\ Pump(pending + 1, active)
    <3>1. PICK queued \in Nat : queued = pending + 1 /\ queued <= MaxQueue
      BY <1>0, <2>2, WorkerAssumption DEF WorkerAssumption
    <3>2. Pump(queued, active)
      BY <2>2, <3>1
    <3>3. pending' \in 0..queued /\ active' \in 0..Concurrency
      BY <1>0, <3>2, PumpTakes
    <3> QED BY <3>1, <3>3, WorkerAssumption DEF WorkerAssumption
  <2>3. CASE active > 0 /\ Pump(pending, active - 1)
    <3>1. PICK busy \in 0..Concurrency : busy = active - 1
      BY <1>0, <2>3, WorkerAssumption DEF WorkerAssumption
    <3>2. Pump(pending, busy)
      BY <2>3, <3>1
    <3>3. pending' \in 0..pending /\ active' \in 0..Concurrency
      BY <1>0, <3>2, PumpTakes
    <3> QED BY <1>0, <3>3, WorkerAssumption DEF WorkerAssumption
  <2> QED BY <2>1, <2>2, <2>3
<1> QED BY <1>1, <1>2

\* Items come, are taken up, end and fail within the types.
LEMMA WorkTypesNext ==
  ASSUME WorkTypeOK, [WorkNext]_workVars
  PROVE  WorkTypeOK'
<1>1. \/ UNCHANGED <<pending, active>>
      \/ pending < MaxQueue /\ Pump(pending + 1, active)
      \/ active > 0 /\ Pump(pending, active - 1)
  BY Zenon DEF WorkNext, Process, Handled, HandlerReturns, FreeSlotAndPump, StartAll, Supervise,
       RestartFires, Restarted, StopAll, StoppedAll, workVars
<1>2. \/ UNCHANGED draining
      \/ draining < MaxRestarts /\ draining' = draining + 1
      \/ draining > 0 /\ draining' = draining - 1
  BY Zenon DEF WorkNext, Process, Handled, StartAll, Supervise,
       RestartFires, Restarted, StopAll, StoppedAll, workVars
<1>3. \/ UNCHANGED errors \/ errors' = 0
      \/ errors' = IF errors < MaxErrors THEN errors + 1 ELSE errors
  BY Zenon DEF WorkNext, Process, Handled, StartAll, Supervise,
       RestartFires, Restarted, StopAll, StoppedAll, workVars
<1>4. /\ draining' \in 0..MaxRestarts /\ pending' \in 0..MaxQueue
      /\ active' \in 0..Concurrency /\ errors' \in 0..MaxErrors
  BY <1>1, <1>2, <1>3, WorkCountersFit
<1> USE <1>4 DEF WorkTypeOK
<1>5. CASE Process \/ Supervise
  BY <1>5 DEF Process, Supervise
<1>6. CASE Handled
  BY <1>6 DEF Handled
<1>7. CASE StartAll
  BY <1>7 DEF StartAll, StartWorker
<1>8. CASE RestartFires \/ Restarted
  BY <1>8 DEF RestartFires, BeginStop, Restarted
<1>9. CASE StopAll
  <2>0. restartRaced' = (draining > 0)
    BY <1>9, Zenon DEF StopAll
  <2>1. restartRaced' \in BOOLEAN
    BY <2>0, IsComparison, Zenon
  <2>2. /\ fleet' = "stopping" /\ restartDue' = FALSE /\ accepting' = FALSE
        /\ wstatus' = "stopping" /\ UNCHANGED wrunning
    BY <1>9, Zenon DEF StopAll, BeginStop
  <2> QED BY <2>1, <2>2
<1>10. CASE StoppedAll
  BY <1>10 DEF StoppedAll
<1>11. CASE UNCHANGED workVars
  BY <1>11 DEF workVars
<1> QED BY <1>5, <1>6, <1>7, <1>8, <1>9, <1>10, <1>11 DEF WorkNext
-----------------------------------------------------------------------------
(* The job queue: buckets, one slot, retries and their timer.              *)
\* A job is in a bucket once, or not at all.
Once(s, j) == \E k \in 1..Len(s) : s[k] = j /\ \A i \in 1..Len(s) : s[i] = j => i = k
Never(s, j) == \A i \in 1..Len(s) : s[i] # j

\* A sequence and one more.
LEMMA AppendIs ==
  ASSUME NEW S, NEW s \in Seq(S), NEW j \in S
  PROVE  /\ Append(s, j) \in Seq(S) /\ Len(Append(s, j)) = Len(s) + 1 /\ Len(s) \in Nat
         /\ Append(s, j)[Len(s) + 1] = j /\ \A i \in 1..Len(s) : Append(s, j)[i] = s[i]
OBVIOUS

\* A sequence and another.
LEMMA BothAre ==
  ASSUME NEW S, NEW a \in Seq(S), NEW b \in Seq(S)
  PROVE  /\ a \o b \in Seq(S) /\ Len(a \o b) = Len(a) + Len(b) /\ Len(a) \in Nat /\ Len(b) \in Nat
         /\ \A i \in 1..Len(a) + Len(b) : (a \o b)[i] = IF i <= Len(a) THEN a[i] ELSE b[i - Len(a)]
OBVIOUS

\* A sequence without one of its places.
LEMMA WithoutIs ==
  ASSUME NEW S, NEW s \in Seq(S), NEW k \in 1..Len(s)
  PROVE  /\ Without(s, k) \in Seq(S) /\ Len(Without(s, k)) = Len(s) - 1 /\ Len(s) \in Nat
         /\ \A i \in 1..Len(s) - 1 : Without(s, k)[i] = IF i < k THEN s[i] ELSE s[i + 1]
<1>1. PICK a : a = SubSeq(s, 1, k - 1)
  OBVIOUS
<1>2. PICK b : b = SubSeq(s, k + 1, Len(s))
  OBVIOUS
<1>3. a \in Seq(S) /\ Len(a) = k - 1 /\ \A i \in 1..k - 1 : a[i] = s[i]
  BY <1>1
<1>4. b \in Seq(S) /\ Len(b) = Len(s) - k /\ \A i \in 1..Len(s) - k : b[i] = s[i + k]
  BY <1>2
<1>5. /\ a \o b \in Seq(S) /\ Len(a \o b) = Len(a) + Len(b)
      /\ \A i \in 1..Len(a) + Len(b) : (a \o b)[i] = IF i <= Len(a) THEN a[i] ELSE b[i - Len(a)]
  BY <1>3, <1>4, BothAre
<1>6. Without(s, k) = a \o b
  BY <1>1, <1>2 DEF Without
<1> QED
  <2>1. ASSUME NEW i \in 1..Len(s) - 1
        PROVE  (a \o b)[i] = IF i < k THEN s[i] ELSE s[i + 1]
    <3>1. k \in Nat /\ Len(s) \in Nat /\ i \in 1..Len(a) + Len(b)
      BY <1>3, <1>4
    <3>2. CASE i < k
      <4>1. i \in 1..k - 1
        BY <3>1, <3>2
      <4> QED BY <1>3, <1>5, <3>1, <3>2, <4>1
    <3>3. CASE ~(i < k)
      <4>1. PICK m \in 1..Len(s) - k : i = m + (k - 1)
        <5>1. i - (k - 1) \in 1..Len(s) - k
          BY <3>1, <3>3
        <5> QED BY <3>1, <5>1
      <4>2. ~(i <= Len(a)) /\ i - Len(a) = m
        BY <1>3, <3>1, <4>1
      <4>3. (a \o b)[i] = b[m]
        BY <1>5, <3>1, <4>2
      <4>4. b[m] = s[m + k] /\ m + k = i + 1
        BY <1>4, <3>1, <4>1
      <4> QED BY <3>3, <4>3, <4>4
    <3> QED BY <3>2, <3>3
  <2> QED BY <1>3, <1>4, <1>5, <1>6, <2>1

\* Who was in no bucket is in it once, and the others as before.
LEMMA AppendKeeps ==
  ASSUME NEW S, NEW s \in Seq(S), NEW j \in S, Never(s, j)
  PROVE  /\ Append(s, j) \in Seq(S) /\ Once(Append(s, j), j)
         /\ \A i \in S \ {j} : (Once(s, i) => Once(Append(s, j), i)) /\ (Never(s, i) => Never(Append(s, j), i))
<1>1. PICK t : t = Append(s, j)
  OBVIOUS
<1>2. /\ t \in Seq(S) /\ Len(t) = Len(s) + 1 /\ Len(s) \in Nat
      /\ t[Len(s) + 1] = j /\ \A i \in 1..Len(s) : t[i] = s[i]
  BY <1>1, AppendIs
<1>3. Once(t, j)
  <2>1. Len(s) + 1 \in 1..Len(t) /\ t[Len(s) + 1] = j
    BY <1>2
  <2>2. \A i \in 1..Len(t) : t[i] = j => i = Len(s) + 1
    BY <1>2 DEF Never
  <2> QED BY <2>1, <2>2 DEF Once
<1>4. ASSUME NEW i \in S \ {j}, Once(s, i) PROVE Once(t, i)
  <2>1. PICK k \in 1..Len(s) : s[k] = i /\ \A m \in 1..Len(s) : s[m] = i => m = k
    BY <1>4 DEF Once
  <2>2. k \in 1..Len(t) /\ t[k] = i /\ \A m \in 1..Len(t) : t[m] = i => m = k
    BY <1>2, <2>1
  <2> QED BY <2>2 DEF Once
<1>5. ASSUME NEW i \in S \ {j}, Never(s, i) PROVE Never(t, i)
  BY <1>2, <1>5 DEF Never
<1> QED BY <1>1, <1>2, <1>3, <1>4, <1>5

\* Who was in it once is out, and the others as before.
LEMMA WithoutKeeps ==
  ASSUME NEW S, NEW s \in Seq(S), NEW k \in 1..Len(s), Once(s, s[k])
  PROVE  /\ Without(s, k) \in Seq(S) /\ Never(Without(s, k), s[k])
         /\ \A i \in S \ {s[k]} :
              (Once(s, i) => Once(Without(s, k), i)) /\ (Never(s, i) => Never(Without(s, k), i))
<1>1. PICK t : t = Without(s, k)
  OBVIOUS
<1>2. /\ t \in Seq(S) /\ Len(t) = Len(s) - 1 /\ Len(s) \in Nat
      /\ \A i \in 1..Len(t) : t[i] = IF i < k THEN s[i] ELSE s[i + 1]
  BY <1>1, WithoutIs
<1>3. Never(t, s[k])
  BY <1>2 DEF Never, Once
<1>4. ASSUME NEW i \in S \ {s[k]}, Once(s, i) PROVE Once(t, i)
  <2>1. PICK m \in 1..Len(s) : s[m] = i /\ \A n \in 1..Len(s) : s[n] = i => n = m
    BY <1>4 DEF Once
  <2>2. m # k
    BY <1>4, <2>1
  <2>3. PICK n : n = IF m < k THEN m ELSE m - 1
    OBVIOUS
  <2>4. n \in 1..Len(t) /\ t[n] = i
    BY <1>2, <2>1, <2>2, <2>3
  <2>5. \A q \in 1..Len(t) : t[q] = i => q = n
    BY <1>2, <2>1, <2>2, <2>3
  <2> QED BY <2>4, <2>5 DEF Once
<1>5. ASSUME NEW i \in S \ {s[k]}, Never(s, i) PROVE Never(t, i)
  BY <1>2, <1>5 DEF Never
<1> QED BY <1>1, <1>2, <1>3, <1>4, <1>5

\* What a job has, of whatever becomes of it.
JobRecord == [priority : Priorities, attempts : Nat, availableAt : Nat,
              is : {"new", "refused", "waiting", "running", "done", "dropped"}, behind : BOOLEAN]

\* A job that waits is in its own bucket, once; nobody else is in any.
Queued(b, J) ==
  /\ b \in [Priorities -> Seq(Jobs)]
  /\ \A j \in Jobs, p \in Priorities :
       IF J[j].is = "waiting" /\ p = J[j].priority THEN Once(b[p], j) ELSE Never(b[p], j)

\* Who waits has attempts left, who runs has made one, who is dropped all.
Counted(r) ==
  /\ r.attempts <= AttemptsOf(r.priority)
  /\ r.is \in {"new", "refused"} => r.attempts = 0
  /\ r.is = "waiting" => r.attempts < AttemptsOf(r.priority)
  /\ r.is = "running" => r.attempts > 0
  /\ r.is = "dropped" => r.attempts = AttemptsOf(r.priority)

\* A first attempt is due at once, and a retry that nothing armed before it
\* hides is due by now or when the timer fires.
Woken(r, now, armed) ==
  r.is = "waiting" =>
    /\ r.attempts = 0 => r.availableAt <= now
    /\ r.behind \/ r.availableAt <= now \/ (armed # 0 /\ r.availableAt <= armed)

\* The slot says who runs.
SlotRuns(J, h) == h \in Jobs \cup {"none"} /\ \A j \in Jobs : (J[j].is = "running") <=> (h = j)

\* Jobs, buckets, the slot, the time and the timer fit together.
JobsFit(b, J, h, now, armed) ==
  /\ J \in [Jobs -> JobRecord] /\ Queued(b, J) /\ SlotRuns(J, h)
  /\ \A j \in Jobs : Counted(J[j]) /\ Woken(J[j], now, armed)

\* A free slot leaves nobody waiting but retries that something wakes.
Rests(J, h, armed) ==
  \A j \in Jobs : J[j].is = "waiting" /\ h = "none" => J[j].attempts > 0 /\ (armed # 0 \/ J[j].behind)

\* Inductive: all that, after every step.
JobsInv ==
  /\ jobNow \in Nat \ {0} /\ retryTimer \in Nat
  /\ JobsFit(buckets, job, inHandler, jobNow, retryTimer) /\ Rests(job, inHandler, retryTimer)

\* There is no job at first.
LEMMA JobsInitInv == JobQueueInit => JobsInv
<1> SUFFICES ASSUME JobQueueInit PROVE JobsInv
  OBVIOUS
<1>1. \A p : AttemptsOf(p) \in Nat \ {0}
  BY JobQueueAssumption DEF AttemptsOf, JobQueueAssumption
<1>2. /\ jobNow = 1 /\ retryTimer = 0 /\ inHandler = "none"
      /\ buckets = [p \in Priorities |-> <<>>]
  BY DEF JobQueueInit
<1>3. job \in [Jobs -> JobRecord] /\ \A j \in Jobs : job[j].is = "new" /\ job[j].attempts = 0
  BY DEF JobQueueInit, JobRecord, Priorities
<1>4. Queued(buckets, job)
  BY <1>2, <1>3 DEF Queued, Never
<1>5. SlotRuns(job, inHandler)
  BY <1>2, <1>3, JobQueueAssumption DEF SlotRuns, JobQueueAssumption
<1>6. \A j \in Jobs : Counted(job[j]) /\ Woken(job[j], jobNow, retryTimer)
  <2>1. ASSUME NEW j \in Jobs PROVE Counted(job[j])
    BY <1>1, <1>3 DEF Counted
  <2>2. ASSUME NEW j \in Jobs PROVE Woken(job[j], jobNow, retryTimer)
    <3>1. job[j].is # "waiting"
      BY <1>3
    <3> QED BY <3>1, Zenon DEF Woken
  <2> QED BY <2>1, <2>2
<1>7. Rests(job, inHandler, retryTimer)
  BY <1>3 DEF Rests
<1> QED BY <1>2, <1>3, <1>4, <1>5, <1>6, <1>7 DEF JobsInv, JobsFit

\* Every job may be tried at least once.
LEMMA SomeAttempts == \A p : AttemptsOf(p) \in Nat \ {0}
BY JobQueueAssumption DEF AttemptsOf, JobQueueAssumption

\* The record of one job is replaced.
LEMMA Replaced ==
  ASSUME NEW J \in [Jobs -> JobRecord], NEW j \in Jobs, NEW r \in JobRecord,
         NEW K, K = [J EXCEPT ![j] = r]
  PROVE  K \in [Jobs -> JobRecord] /\ K[j] = r /\ \A i \in Jobs \ {j} : K[i] = J[i]
OBVIOUS

\* A job that waits and is taken has made an attempt more.
LEMMA JobTaken ==
  ASSUME NEW r \in JobRecord, Counted(r), r.is = "waiting", NEW n, n = r.attempts + 1,
         NEW t, t = [r EXCEPT !.attempts = n, !.is = "running"]
  PROVE  t \in JobRecord /\ t.is = "running" /\ Counted(t)
<1>1. r.attempts \in Nat /\ n \in Nat
  BY DEF JobRecord
<1>2. t \in JobRecord /\ t.is = "running" /\ t.priority = r.priority /\ t.attempts = n
  BY <1>1 DEF JobRecord
<1> QED BY <1>1, <1>2, SomeAttempts DEF Counted, JobRecord

\* The slot is free and a job is taken out of its bucket: it still fits.
LEMMA TakenJobFits ==
  ASSUME NEW b, NEW J, NEW armed, JobsFit(b, J, "none", jobNow, armed),
         NEW p \in Priorities, NEW k \in 1..Len(b[p]), NEW j, j = b[p][k],
         NEW c, c = [b EXCEPT ![p] = Without(b[p], k)],
         NEW n, n = J[j].attempts + 1, NEW t, t = [J[j] EXCEPT !.attempts = n, !.is = "running"],
         NEW K, K = [J EXCEPT ![j] = t]
  PROVE  JobsFit(c, K, j, jobNow, armed)
<1>1. /\ b \in [Priorities -> Seq(Jobs)] /\ J \in [Jobs -> JobRecord] /\ b[p] \in Seq(Jobs) /\ j \in Jobs
      /\ \A i \in Jobs : J[i].is # "running" /\ Counted(J[i]) /\ Woken(J[i], jobNow, armed)
  BY JobQueueAssumption DEF JobsFit, Queued, SlotRuns, JobQueueAssumption
<1>2. J[j].is = "waiting" /\ p = J[j].priority /\ Once(b[p], j)
  <2>1. ~Never(b[p], j)
    BY DEF Never
  <2> QED BY <1>1, <2>1 DEF JobsFit, Queued
<1>3. J[j] \in JobRecord
  BY <1>1
<1>4. t \in JobRecord /\ t.is = "running" /\ Counted(t)
  BY <1>1, <1>2, <1>3, JobTaken
<1>5. K \in [Jobs -> JobRecord] /\ K[j] = t /\ \A i \in Jobs \ {j} : K[i] = J[i]
  BY <1>1, <1>4, Replaced
<1>6. PICK w : w = Without(b[p], k)
  OBVIOUS
<1>7. /\ w \in Seq(Jobs) /\ Never(w, j)
      /\ \A i \in Jobs \ {j} : (Once(b[p], i) => Once(w, i)) /\ (Never(b[p], i) => Never(w, i))
  BY <1>1, <1>2, <1>6, WithoutKeeps
<1>8. /\ c \in [Priorities -> Seq(Jobs)] /\ c[p] = w
      /\ \A q \in Priorities \ {p} : c[q] = b[q]
  BY <1>1, <1>6, <1>7
<1>9. Queued(c, K)
  <2>1. ASSUME NEW q \in Priorities PROVE Never(c[q], j)
    <3>1. CASE q = p
      BY <1>7, <1>8, <3>1
    <3>2. CASE q # p
      BY <1>1, <1>2, <1>8, <3>2 DEF JobsFit, Queued
    <3> QED BY <3>1, <3>2
  <2>2. ASSUME NEW q \in Priorities, NEW i \in Jobs \ {j}
        PROVE  IF K[i].is = "waiting" /\ q = K[i].priority THEN Once(c[q], i) ELSE Never(c[q], i)
    <3>1. IF K[i].is = "waiting" /\ q = K[i].priority THEN Once(b[q], i) ELSE Never(b[q], i)
      BY <1>5 DEF JobsFit, Queued
    <3>2. /\ Once(b[q], i) => Once(c[q], i)
          /\ Never(b[q], i) => Never(c[q], i)
      <4>1. CASE q = p
        BY <1>7, <1>8, <4>1
      <4>2. CASE q # p
        BY <1>8, <4>2
      <4> QED BY <4>1, <4>2
    <3> QED BY <3>1, <3>2
  <2> QED BY <1>4, <1>5, <1>8, <2>1, <2>2 DEF Queued
<1>10. SlotRuns(K, j)
  BY <1>1, <1>4, <1>5 DEF SlotRuns
<1>11. \A i \in Jobs : Counted(K[i]) /\ Woken(K[i], jobNow, armed)
  <2>1. Woken(t, jobNow, armed)
    BY <1>4, Zenon DEF Woken
  <2> QED BY <1>1, <1>4, <1>5, <2>1
<1> QED BY <1>5, <1>9, <1>10, <1>11 DEF JobsFit

\* When the slot is free and nobody is due, who waits is a retry.
LEMMA NobodyDue ==
  ASSUME NEW b, NEW J, NEW armed \in Nat, jobNow \in Nat, JobsFit(b, J, "none", jobNow, armed),
         \A p \in Priorities : \A k \in 1..Len(b[p]) : ~(J[b[p][k]].availableAt <= jobNow)
  PROVE  Rests(J, "none", armed)
<1> SUFFICES ASSUME NEW j \in Jobs, J[j].is = "waiting"
             PROVE  J[j].attempts > 0 /\ (armed # 0 \/ J[j].behind)
  BY DEF Rests
<1>1. J[j] \in JobRecord /\ J[j].priority \in Priorities /\ J[j].attempts \in Nat
  BY DEF JobsFit, JobRecord
<1>2. Once(b[J[j].priority], j)
  BY <1>1 DEF JobsFit, Queued
<1>3. ~(J[j].availableAt <= jobNow)
  BY <1>1, <1>2 DEF Once
<1>4. Woken(J[j], jobNow, armed)
  BY DEF JobsFit
<1>5. /\ J[j].attempts # 0
      /\ J[j].behind \/ armed # 0
  BY <1>3, <1>4, Zenon DEF Woken
<1> QED BY <1>1, <1>5

\* A pump keeps that it fits, and leaves nobody forgotten.
LEMMA PumpKeeps ==
  ASSUME NEW b, NEW J, NEW h, NEW armed \in Nat, jobNow \in Nat,
         JobsFit(b, J, h, jobNow, armed), Pumped(b, J, h)
  PROVE  JobsFit(buckets', job', inHandler', jobNow, armed) /\ Rests(job', inHandler', armed)
<1> DEFINE due(p) == {k \in 1..Len(b[p]) : J[b[p][k]].availableAt <= jobNow}
           urgent == {p \in Priorities : due(p) # {} /\ \A q \in MoreUrgent[p] : due(q) = {}}
<1>1. CASE h # "none"
  <2>1. buckets' = b /\ job' = J /\ inHandler' = h
    BY <1>1 DEF Pumped
  <2> QED BY <1>1, <2>1 DEF Rests
<1>2. CASE h = "none" /\ urgent = {}
  <2>1. buckets' = b /\ job' = J /\ inHandler' = "none"
    BY <1>2 DEF Pumped
  <2>2. due("critical") = {} /\ due("normal") = {} /\ due("background") = {}
    <3> HIDE DEF due
    <3>1. due("critical") = {}
      BY <1>2 DEF Priorities, MoreUrgent
    <3>2. due("normal") = {}
      BY <1>2, <3>1 DEF Priorities, MoreUrgent
    <3> QED BY <1>2, <3>1, <3>2 DEF Priorities, MoreUrgent
  <2>3. \A p \in Priorities : \A k \in 1..Len(b[p]) : ~(J[b[p][k]].availableAt <= jobNow)
    <3>1. \A p \in Priorities : due(p) = {}
      BY <2>2 DEF Priorities
    <3> QED BY <3>1
  <2>4. Rests(J, "none", armed)
    BY <1>2, <2>3, NobodyDue
  <2> QED BY <1>2, <2>1, <2>4
<1>3. CASE h = "none" /\ urgent # {}
  <2>1. PICK p \in Priorities : \E k \in 1..Len(b[p]) :
          /\ buckets' = [b EXCEPT ![p] = Without(@, k)]
          /\ job' = [J EXCEPT ![b[p][k]] = [@ EXCEPT !.attempts = J[b[p][k]].attempts + 1, !.is = "running"]]
          /\ inHandler' = b[p][k]
    BY <1>3 DEF Pumped
  <2>2. PICK k \in 1..Len(b[p]) :
          /\ buckets' = [b EXCEPT ![p] = Without(@, k)]
          /\ job' = [J EXCEPT ![b[p][k]] = [@ EXCEPT !.attempts = J[b[p][k]].attempts + 1, !.is = "running"]]
          /\ inHandler' = b[p][k]
    BY <2>1
  <2>3. PICK j : j = b[p][k]
    OBVIOUS
  <2>4. PICK n : n = J[j].attempts + 1
    OBVIOUS
  <2>5. PICK t : t = [J[j] EXCEPT !.attempts = n, !.is = "running"]
    OBVIOUS
  <2>6. job' = [J EXCEPT ![j] = t]
    BY <2>2, <2>3, <2>4, <2>5
  <2>7. PICK c : c = buckets'
    OBVIOUS
  <2>8. PICK K : K = job'
    OBVIOUS
  <2>9. JobsFit(b, J, "none", jobNow, armed)
    BY <1>3
  <2>10. c = [b EXCEPT ![p] = Without(b[p], k)]
    BY <2>2, <2>7
  <2>11. K = [J EXCEPT ![j] = t]
    BY <2>6, <2>8
  <2>12. JobsFit(c, K, j, jobNow, armed)
    BY <2>3, <2>4, <2>5, <2>9, <2>10, <2>11, TakenJobFits
  <2>13. JobsFit(buckets', job', inHandler', jobNow, armed)
    BY <2>2, <2>3, <2>7, <2>8, <2>12
  <2>14. inHandler' # "none"
    BY <1>3, <2>2, JobQueueAssumption DEF JobsFit, Queued, JobQueueAssumption
  <2> QED BY <2>13, <2>14 DEF Rests
<1> QED BY <1>1, <1>2, <1>3

\* Time passes, or the timer is armed or fires when it is due.
LEMMA WokenLater ==
  ASSUME NEW r \in JobRecord, NEW now \in Nat, NEW later \in Nat, NEW armed \in Int, NEW next \in Int,
         Woken(r, now, armed), now <= later, armed = 0 \/ next = armed \/ armed <= later
  PROVE  Woken(r, later, next)
<1>1. r.availableAt \in Int
  BY DEF JobRecord
<1>2. r.availableAt <= now => r.availableAt <= later
  BY <1>1
<1>3. armed # 0 /\ r.availableAt <= armed =>
        r.availableAt <= later \/ (next # 0 /\ r.availableAt <= next)
  BY <1>1
<1> QED BY <1>2, <1>3, Zenon DEF Woken

\* A job that does not wait changes: it waits from now on, or does not.
LEMMA PutFits ==
  ASSUME NEW b, NEW J, NEW h, NEW armed, JobsFit(b, J, h, jobNow, armed),
         NEW j \in Jobs, J[j].is # "waiting", NEW t \in JobRecord, t.is # "running", Counted(t),
         NEW next, \A i \in Jobs \ {j} : Woken(J[i], jobNow, next), Woken(t, jobNow, next),
         NEW g, IF h = j THEN g = "none" ELSE g = h,
         NEW K, K = [J EXCEPT ![j] = t],
         NEW c, IF t.is = "waiting" THEN c = [b EXCEPT ![t.priority] = Append(b[t.priority], j)] ELSE c = b
  PROVE  JobsFit(c, K, g, jobNow, next)
<1>1. b \in [Priorities -> Seq(Jobs)] /\ J \in [Jobs -> JobRecord]
  BY DEF JobsFit, Queued
<1>2. K \in [Jobs -> JobRecord] /\ K[j] = t /\ \A i \in Jobs \ {j} : K[i] = J[i]
  BY <1>1, Replaced
<1>3. \A q \in Priorities : Never(b[q], j)
  BY DEF JobsFit, Queued
<1>4. Queued(c, K)
  <2>1. CASE t.is # "waiting"
    BY <1>1, <1>2, <1>3, <2>1 DEF JobsFit, Queued
  <2>2. CASE t.is = "waiting"
    <3>1. PICK p \in Priorities : p = t.priority
      BY DEF JobRecord
    <3>2. PICK w : w = Append(b[p], j)
      OBVIOUS
    <3>3. /\ w \in Seq(Jobs) /\ Once(w, j)
          /\ \A i \in Jobs \ {j} : (Once(b[p], i) => Once(w, i)) /\ (Never(b[p], i) => Never(w, i))
      BY <1>1, <1>3, <3>2, AppendKeeps
    <3>4. c = [b EXCEPT ![p] = w]
      BY <2>2, <3>1, <3>2
    <3>5. /\ c \in [Priorities -> Seq(Jobs)] /\ c[p] = w
          /\ \A q \in Priorities \ {p} : c[q] = b[q]
      BY <1>1, <3>3, <3>4
    <3>6. ASSUME NEW q \in Priorities, NEW i \in Jobs \ {j}
          PROVE  IF K[i].is = "waiting" /\ q = K[i].priority THEN Once(c[q], i) ELSE Never(c[q], i)
      <4>1. IF K[i].is = "waiting" /\ q = K[i].priority THEN Once(b[q], i) ELSE Never(b[q], i)
        BY <1>2 DEF JobsFit, Queued
      <4>2. (Once(b[q], i) => Once(c[q], i)) /\ (Never(b[q], i) => Never(c[q], i))
        <5>1. CASE q = p
          BY <3>3, <3>5, <5>1
        <5>2. CASE q # p
          BY <3>5, <5>2
        <5> QED BY <5>1, <5>2
      <4> QED BY <4>1, <4>2
    <3>7. ASSUME NEW q \in Priorities
          PROVE  IF K[j].is = "waiting" /\ q = K[j].priority THEN Once(c[q], j) ELSE Never(c[q], j)
      BY <1>2, <1>3, <2>2, <3>1, <3>3, <3>5
    <3> QED BY <3>5, <3>6, <3>7 DEF Queued
  <2> QED BY <2>1, <2>2
<1>5. SlotRuns(K, g)
  <2>1. K[j].is # "running" /\ g # j
    BY <1>2, JobQueueAssumption DEF JobQueueAssumption
  <2>2. ASSUME NEW i \in Jobs \ {j} PROVE (K[i].is = "running") <=> (g = i)
    BY <1>2, JobQueueAssumption DEF JobsFit, SlotRuns, JobQueueAssumption
  <2>3. g \in Jobs \cup {"none"}
    BY DEF JobsFit, SlotRuns
  <2> QED BY <2>1, <2>2, <2>3 DEF SlotRuns
<1>6. \A i \in Jobs : Counted(K[i]) /\ Woken(K[i], jobNow, next)
  BY <1>2 DEF JobsFit
<1> QED BY <1>2, <1>4, <1>5, <1>6 DEF JobsFit

\* The same of all jobs.
LEMMA AllWoken ==
  ASSUME NEW J \in [Jobs -> JobRecord], NEW now \in Nat, NEW later \in Nat, NEW armed \in Int,
         NEW next \in Int, \A i \in Jobs : Woken(J[i], now, armed),
         now <= later, armed = 0 \/ next = armed \/ armed <= later
  PROVE  \A i \in Jobs : Woken(J[i], later, next)
<1> SUFFICES ASSUME NEW i \in Jobs PROVE Woken(J[i], later, next)
  OBVIOUS
<1>1. J[i] \in JobRecord /\ Woken(J[i], now, armed)
  OBVIOUS
<1> QED BY <1>1, WokenLater

\* A job comes: refused, or put into its bucket and pumped.
LEMMA EnqueueKeeps ==
  ASSUME JobsInv, NEW j \in Jobs, NEW p \in Priorities, Enqueue(j, p)
  PROVE  JobsInv'
<1>1. /\ jobNow \in Nat \ {0} /\ retryTimer \in Nat /\ UNCHANGED <<jobNow, retryTimer>>
      /\ JobsFit(buckets, job, inHandler, jobNow, retryTimer) /\ job[j].is = "new"
      /\ job \in [Jobs -> JobRecord]
  BY DEF JobsInv, JobsFit, Enqueue
<1>2. PICK r \in JobRecord : r = job[j]
  BY <1>1
<1>3. r.attempts = 0 /\ r.is = "new" /\ inHandler # j
  BY <1>1, <1>2 DEF JobsFit, Counted, SlotRuns
<1>4. \A i \in Jobs : Woken(job[i], jobNow, retryTimer)
  BY <1>1 DEF JobsFit
<1>5. CASE /\ job' = [job EXCEPT ![j] = [@ EXCEPT !.is = "refused", !.priority = p]]
           /\ UNCHANGED <<buckets, inHandler>>
  <2>1. PICK t : t = [r EXCEPT !.is = "refused", !.priority = p]
    OBVIOUS
  <2>2. t \in JobRecord /\ t.is = "refused" /\ t.attempts = r.attempts /\ t.priority = p
    BY <2>1 DEF JobRecord
  <2>3. Counted(t)
    BY <1>3, <2>2, SomeAttempts DEF Counted
  <2>4. Woken(t, jobNow, retryTimer)
    BY <2>2, Zenon DEF Woken
  <2>5. PICK K : K = job'
    OBVIOUS
  <2>6. K = [job EXCEPT ![j] = t]
    BY <1>2, <1>5, <2>1, <2>5
  <2>7. JobsFit(buckets, K, inHandler, jobNow, retryTimer)
    BY <1>1, <1>3, <1>4, <2>2, <2>3, <2>4, <2>6, PutFits
  <2>8. K[j] = t /\ \A i \in Jobs \ {j} : K[i] = job[i]
    BY <1>1, <2>2, <2>6, Replaced
  <2>9. Rests(K, inHandler, retryTimer)
    BY <2>2, <2>8 DEF JobsInv, Rests
  <2> QED BY <1>1, <1>5, <2>5, <2>7, <2>9 DEF JobsInv
<1>6. CASE Pumped([buckets EXCEPT ![p] = Append(@, j)],
                  [job EXCEPT ![j] = [@ EXCEPT !.is = "waiting", !.priority = p, !.availableAt = jobNow]],
                  inHandler)
  <2>1. PICK t : t = [r EXCEPT !.is = "waiting", !.priority = p, !.availableAt = jobNow]
    OBVIOUS
  <2>2. /\ t \in JobRecord /\ t.is = "waiting" /\ t.attempts = r.attempts /\ t.priority = p
        /\ t.availableAt = jobNow
    <3>1. PICK now \in Nat : now = jobNow
      BY <1>1
    <3>2. t = [r EXCEPT !.is = "waiting", !.priority = p, !.availableAt = now]
      BY <2>1, <3>1
    <3> QED BY <3>1, <3>2 DEF JobRecord
  <2>3. Counted(t)
    BY <1>3, <2>2, SomeAttempts DEF Counted
  <2>4. Woken(t, jobNow, retryTimer)
    <3>1. t.availableAt <= jobNow
      BY <1>1, <2>2
    <3> QED BY <3>1, Zenon DEF Woken
  <2>5. PICK K : K = [job EXCEPT ![j] = t]
    OBVIOUS
  <2>6. PICK c : c = [buckets EXCEPT ![p] = Append(buckets[p], j)]
    OBVIOUS
  <2>7. Pumped(c, K, inHandler)
    BY <1>2, <1>6, <2>1, <2>5, <2>6
  <2>8. IF t.is = "waiting" THEN c = [buckets EXCEPT ![t.priority] = Append(buckets[t.priority], j)]
        ELSE c = buckets
    BY <2>2, <2>6
  <2>9. JobsFit(c, K, inHandler, jobNow, retryTimer)
    <3>1. retryTimer \in Nat /\ job[j].is # "waiting" /\ t.is # "running"
      BY <1>1, <2>2
    <3>2. JobsFit(buckets, job, inHandler, jobNow, retryTimer)
      BY <1>1
    <3>3. \A i \in Jobs \ {j} : Woken(job[i], jobNow, retryTimer)
      BY <1>4
    <3>4. IF inHandler = j THEN inHandler = "none" ELSE inHandler = inHandler
      BY <1>3
    <3>5. t \in JobRecord
      BY <2>2
    <3> QED BY <2>3, <2>4, <2>5, <2>8, <3>1, <3>2, <3>3, <3>4, <3>5, PutFits
  <2> QED BY <1>1, <2>7, <2>9, PumpKeeps DEF JobsInv
<1> QED BY <1>5, <1>6 DEF Enqueue

\* A handler succeeds, and the next may run.
LEMMA SucceedsKeeps ==
  ASSUME JobsInv, HandlerSucceeds
  PROVE  JobsInv'
<1>1. /\ jobNow \in Nat \ {0} /\ retryTimer \in Nat /\ UNCHANGED <<jobNow, retryTimer>>
      /\ JobsFit(buckets, job, inHandler, jobNow, retryTimer) /\ job \in [Jobs -> JobRecord]
  BY DEF JobsInv, JobsFit, HandlerSucceeds
<1>2. PICK j \in Jobs : j = inHandler
  BY <1>1 DEF HandlerSucceeds, JobsFit, SlotRuns
<1>3. PICK r \in JobRecord : r = job[j]
  BY <1>1
<1>4. r.is = "running" /\ Counted(r) /\ \A i \in Jobs : Woken(job[i], jobNow, retryTimer)
  BY <1>1, <1>2, <1>3 DEF JobsFit, SlotRuns
<1>5. PICK t : t = [r EXCEPT !.is = "done"]
  OBVIOUS
<1>6. t \in JobRecord /\ t.is = "done" /\ t.attempts = r.attempts /\ t.priority = r.priority
  BY <1>5 DEF JobRecord
<1>7. Counted(t)
  BY <1>4, <1>6 DEF Counted
<1>8. Woken(t, jobNow, retryTimer)
  BY <1>6, Zenon DEF Woken
<1>9. PICK K : K = [job EXCEPT ![j] = t]
  OBVIOUS
<1>10. Pumped(buckets, K, "none")
  BY <1>2, <1>3, <1>5, <1>9 DEF HandlerSucceeds
<1>11. JobsFit(buckets, K, "none", jobNow, retryTimer)
  BY <1>1, <1>2, <1>3, <1>4, <1>6, <1>7, <1>8, <1>9, PutFits
<1> QED BY <1>1, <1>10, <1>11, PumpKeeps DEF JobsInv

\* The delays are numbers: 2^n subsets of n things.
LEMMA PowersOfTwo == \A n \in Nat : 2 ^ n \in Nat
<1> SUFFICES ASSUME NEW n \in Nat PROVE 2 ^ n \in Nat
  OBVIOUS
<1>1. IsFiniteSet(1..n) /\ Cardinality(1..n) = n
  BY FS_Interval
<1>2. IsFiniteSet(SUBSET (1..n)) /\ Cardinality(SUBSET (1..n)) = 2 ^ n
  BY <1>1, FS_SUBSET
<1> QED BY <1>2, FS_CardinalityType

\* A handler fails: the job waits again, or is dropped after its last attempt.
LEMMA FailsKeeps ==
  ASSUME JobsInv, HandlerFails
  PROVE  JobsInv'
<1>1. /\ jobNow \in Nat \ {0} /\ retryTimer \in Nat /\ UNCHANGED jobNow
      /\ JobsFit(buckets, job, inHandler, jobNow, retryTimer) /\ job \in [Jobs -> JobRecord]
  BY DEF JobsInv, JobsFit, HandlerFails
<1>2. PICK j \in Jobs : j = inHandler
  BY <1>1 DEF HandlerFails, JobsFit, SlotRuns
<1>3. PICK r \in JobRecord : r = job[j]
  BY <1>1
<1>4. r.is = "running" /\ Counted(r) /\ \A i \in Jobs : Woken(job[i], jobNow, retryTimer)
  BY <1>1, <1>2, <1>3 DEF JobsFit, SlotRuns
<1>5. CASE r.attempts < AttemptsOf(r.priority)
  <2>1. PICK due : due = jobNow + 2 ^ (r.attempts - 1)
    OBVIOUS
  <2>2. due \in Nat \ {0}
    <3>1. r.attempts - 1 \in Nat
      BY <1>4 DEF Counted, JobRecord
    <3>2. 2 ^ (r.attempts - 1) \in Nat
      BY <3>1, PowersOfTwo
    <3> QED BY <1>1, <2>1, <3>2
  <2>3. PICK hides \in BOOLEAN : hides = (retryTimer # 0 /\ retryTimer < due)
    OBVIOUS
  <2>4. PICK t : t = [r EXCEPT !.is = "waiting", !.availableAt = due, !.behind = hides]
    OBVIOUS
  <2>5. /\ t \in JobRecord /\ t.is = "waiting" /\ t.attempts = r.attempts /\ t.priority = r.priority
        /\ t.availableAt = due
    <3>1. PICK later \in Nat : later = due
      BY <2>2
    <3>2. t = [r EXCEPT !.is = "waiting", !.availableAt = later, !.behind = hides]
      BY <2>4, <3>1
    <3> QED BY <3>1, <3>2 DEF JobRecord
  <2>6. t.behind = hides
    BY <2>4 DEF JobRecord
  <2>7. PICK K : K = [job EXCEPT ![j] = t]
    OBVIOUS
  <2>8. PICK c : c = [buckets EXCEPT ![r.priority] = Append(buckets[r.priority], j)]
    OBVIOUS
  <2>9. Pumped(c, K, "none") /\ retryTimer' = IF retryTimer = 0 THEN due ELSE retryTimer
    BY <1>2, <1>3, <1>5, <2>1, <2>3, <2>4, <2>7, <2>8 DEF HandlerFails, WaitAgain, PushAgain
  <2>10. retryTimer' \in Nat \ {0} /\ (retryTimer = 0 \/ retryTimer' = retryTimer)
    BY <1>1, <2>2, <2>9
  <2>11. Counted(t)
    BY <1>4, <1>5, <2>5 DEF Counted
  <2>12. Woken(t, jobNow, retryTimer')
    <3>1. t.attempts # 0
      BY <1>4, <2>5 DEF Counted, JobRecord
    <3>2. ~(retryTimer # 0 /\ retryTimer < due) => retryTimer' # 0 /\ due <= retryTimer'
      BY <1>1, <2>2, <2>9
    <3>3. t.behind \/ (retryTimer' # 0 /\ due <= retryTimer')
      BY <2>3, <2>6, <3>2, Zenon
    <3> QED BY <2>5, <3>1, <3>3, Zenon DEF Woken
  <2>13. \A i \in Jobs : Woken(job[i], jobNow, retryTimer')
    BY <1>1, <1>4, <2>10, AllWoken
  <2>14. IF t.is = "waiting" THEN c = [buckets EXCEPT ![t.priority] = Append(buckets[t.priority], j)]
         ELSE c = buckets
    BY <2>5, <2>8
  <2>15. JobsFit(c, K, "none", jobNow, retryTimer')
    <3>1. job[j].is # "waiting" /\ t.is # "running"
      BY <1>3, <1>4, <2>5
    <3>2. JobsFit(buckets, job, inHandler, jobNow, retryTimer)
      BY <1>1
    <3>3. PICK next \in Int : next = retryTimer'
      BY <2>10
    <3>4. \A i \in Jobs \ {j} : Woken(job[i], jobNow, next)
      BY <2>13, <3>3
    <3>5. Woken(t, jobNow, next)
      BY <2>12, <3>3
    <3>6. IF inHandler = j THEN "none" = "none" ELSE "none" = inHandler
      BY <1>2
    <3>7. t \in JobRecord
      BY <2>5
    <3>8. JobsFit(c, K, "none", jobNow, next)
      BY <2>7, <2>11, <2>14, <3>1, <3>2, <3>4, <3>5, <3>6, <3>7, PutFits
    <3> QED BY <3>3, <3>8
  <2> QED BY <1>1, <2>9, <2>10, <2>15, PumpKeeps DEF JobsInv
<1>6. CASE ~(r.attempts < AttemptsOf(r.priority))
  <2>1. PICK t : t = [r EXCEPT !.is = "dropped"]
    OBVIOUS
  <2>2. t \in JobRecord /\ t.is = "dropped" /\ t.attempts = r.attempts /\ t.priority = r.priority
    BY <2>1 DEF JobRecord
  <2>3. Counted(t)
    BY <1>4, <1>6, <2>2, SomeAttempts DEF Counted, JobRecord
  <2>4. Woken(t, jobNow, retryTimer)
    BY <2>2, Zenon DEF Woken
  <2>5. PICK K : K = [job EXCEPT ![j] = t]
    OBVIOUS
  <2>6. Pumped(buckets, K, "none") /\ UNCHANGED retryTimer
    BY <1>2, <1>3, <1>6, <2>1, <2>5 DEF HandlerFails
  <2>7. JobsFit(buckets, K, "none", jobNow, retryTimer)
    BY <1>1, <1>2, <1>3, <1>4, <2>2, <2>3, <2>4, <2>5, PutFits
  <2> QED BY <1>1, <2>6, <2>7, PumpKeeps DEF JobsInv
<1> QED BY <1>5, <1>6

\* And so do the timer and the time.
LEMMA JobsNextInv ==
  ASSUME JobsInv, [QueueNext]_queueVars
  PROVE  JobsInv'
<1>1. /\ jobNow \in Nat \ {0} /\ retryTimer \in Nat
      /\ JobsFit(buckets, job, inHandler, jobNow, retryTimer) /\ job \in [Jobs -> JobRecord]
      /\ \A i \in Jobs : Woken(job[i], jobNow, retryTimer)
  BY DEF JobsInv, JobsFit
<1>2. CASE RetryTimerFires
  <2>1. /\ retryTimer # 0 /\ retryTimer <= jobNow /\ retryTimer' = 0 /\ UNCHANGED jobNow
        /\ Pumped(buckets, job, inHandler)
    BY <1>2 DEF RetryTimerFires
  <2>2. \A i \in Jobs : Woken(job[i], jobNow, 0)
    BY <1>1, <2>1, AllWoken
  <2>3. JobsFit(buckets, job, inHandler, jobNow, 0)
    BY <1>1, <2>2 DEF JobsFit
  <2> QED BY <1>1, <2>1, <2>3, PumpKeeps DEF JobsInv
<1>3. CASE JobTimePasses
  <2>1. jobNow' = jobNow + 1 /\ UNCHANGED <<buckets, job, inHandler, retryTimer>>
    BY <1>3 DEF JobTimePasses
  <2>2. jobNow' \in Nat \ {0} /\ jobNow <= jobNow'
    BY <1>1, <2>1
  <2>3. \A i \in Jobs : Woken(job[i], jobNow', retryTimer)
    BY <1>1, <2>2, AllWoken
  <2>4. JobsFit(buckets, job, inHandler, jobNow', retryTimer)
    BY <1>1, <2>3 DEF JobsFit
  <2> QED BY <1>1, <2>1, <2>2, <2>4 DEF JobsInv
<1>4. CASE UNCHANGED queueVars
  BY <1>4 DEF queueVars, JobsInv
<1> QED BY <1>2, <1>3, <1>4, EnqueueKeeps, SucceedsKeeps, FailsKeeps DEF QueueNext

\* Hence no job is lost, doubled or forgotten.
LEMMA JobsMean == JobsInv => JobsAreKept
<1> SUFFICES ASSUME JobsInv, NEW j \in Jobs
             PROVE  LET r == job[j] IN
                    /\ (r.is = "running") = (inHandler = j)
                    /\ \A p \in Priorities :
                         IF r.is = "waiting" /\ p = r.priority
                         THEN \E k \in PlacesIn(p, j) : PlacesIn(p, j) = {k}
                         ELSE PlacesIn(p, j) = {}
                    /\ r.attempts <= AttemptsOf(r.priority)
                    /\ r.is = "dropped" => r.attempts = AttemptsOf(r.priority)
                    /\ r.is = "waiting" /\ inHandler = "none" =>
                         r.attempts > 0 /\ (retryTimer # 0 \/ r.behind)
  BY DEF JobsAreKept
<1>1. (job[j].is = "running") = (inHandler = j)
  BY DEF JobsInv, JobsFit, SlotRuns
<1>2. ASSUME NEW p \in Priorities
      PROVE  IF job[j].is = "waiting" /\ p = job[j].priority
             THEN \E k \in PlacesIn(p, j) : PlacesIn(p, j) = {k} ELSE PlacesIn(p, j) = {}
  <2>1. PlacesIn(p, j) = {k \in 1..Len(buckets[p]) : buckets[p][k] = j}
    BY DEF PlacesIn, JobsInv, JobsFit, Queued
  <2>2. CASE Once(buckets[p], j)
    <3>1. PICK k \in 1..Len(buckets[p]) :
            buckets[p][k] = j /\ \A i \in 1..Len(buckets[p]) : buckets[p][i] = j => i = k
      BY <2>2 DEF Once
    <3>2. PlacesIn(p, j) = {k}
      BY <2>1, <3>1
    <3>3. job[j].is = "waiting" /\ p = job[j].priority
      BY <3>1 DEF JobsInv, JobsFit, Queued, Never
    <3> QED BY <3>2, <3>3
  <2>3. CASE ~Once(buckets[p], j)
    <3>1. Never(buckets[p], j) /\ ~(job[j].is = "waiting" /\ p = job[j].priority)
      BY <2>3 DEF JobsInv, JobsFit, Queued
    <3> QED BY <2>1, <3>1 DEF Never
  <2> QED BY <2>2, <2>3
<1>3. /\ job[j].attempts <= AttemptsOf(job[j].priority)
      /\ job[j].is = "dropped" => job[j].attempts = AttemptsOf(job[j].priority)
  BY DEF JobsInv, JobsFit, Counted
<1>4. job[j].is = "waiting" /\ inHandler = "none" =>
        job[j].attempts > 0 /\ (retryTimer # 0 \/ job[j].behind)
  BY Zenon DEF JobsInv, Rests
<1> QED BY <1>1, <1>2, <1>3, <1>4, Zenon
-----------------------------------------------------------------------------
(* The circuit breaker of single calls.                                    *)
\* Inductive: while calls do not overlap at most one is admitted, and an open
\* breaker knows when it failed.
BreakerInv ==
  /\ breaker \in {"CLOSED", "OPEN", "HALF_OPEN"} /\ failures \in 0..BreakAfter
  /\ sinceFailure \in 0..ResetTime \cup {NeverFailed}
  /\ halfOpenCalls \in Nat /\ admitted \in Nat
  /\ breaker = "CLOSED" => failures < BreakAfter
  /\ breaker = "HALF_OPEN" => halfOpenCalls < HalfOpenCalls
  /\ ~callsMet => admitted <= 1
  /\ ~callsMet /\ breaker = "OPEN" => admitted = 0 /\ sinceFailure # NeverFailed

\* It starts closed, with no failures.
LEMMA BreakerInitInv == JobQueueInit => BreakerInv
BY JobQueueAssumption DEF JobQueueInit, BreakerInv, JobQueueAssumption

\* Calls admitted, answered and failed, and time, keep it.
LEMMA BreakerNextInv ==
  ASSUME BreakerInv, [BreakerNext]_breakerVars
  PROVE  BreakerInv'
<1> USE JobQueueAssumption DEF BreakerInv, JobQueueAssumption, NeverFailed
<1>1. CASE CallAdmitted
  <2>1. callsMet \/ admitted > 0 => callsMet'
    BY <1>1, Zenon DEF CallAdmitted
  <2>2. /\ \/ breaker = "CLOSED" /\ UNCHANGED <<breaker, halfOpenCalls>>
           \/ breaker = "OPEN" /\ breaker' = "HALF_OPEN" /\ halfOpenCalls' = 0
           \/ breaker = "HALF_OPEN" /\ UNCHANGED <<breaker, halfOpenCalls>>
        /\ admitted' = admitted + 1 /\ UNCHANGED <<failures, sinceFailure>>
    BY <1>1 DEF CallAdmitted
  <2>3. ~callsMet' => admitted = 0 /\ ~callsMet
    BY <2>1
  <2> QED BY <2>2, <2>3
<1>2. CASE CallSucceeds
  BY <1>2 DEF CallSucceeds
<1>3. CASE CallFails
  BY <1>3 DEF CallFails
<1>4. CASE BreakerWaits
  BY <1>4 DEF BreakerWaits
<1>5. CASE UNCHANGED breakerVars
  BY <1>5 DEF breakerVars
<1> QED BY <1>1, <1>2, <1>3, <1>4, <1>5 DEF BreakerNext

\* Hence an open breaker will be tried again.
LEMMA BreakerTells == BreakerInv => BreakerRecovers
BY DEF BreakerInv, BreakerRecovers
-----------------------------------------------------------------------------
(* The throttle of notices: who waits, goes, is merged or dropped.         *)
\* The notices on their way.
OnItsWay == UNION {d.batch : d \in deliveries}

\* Every notice is in one of five places.
Placed(w, f, s, d, m, n) ==
  /\ 1..n = w \cup f \cup s \cup d \cup m
  /\ w \cap (f \cup s \cup d \cup m) = {} /\ f \cap (s \cup d \cup m) = {}
  /\ s \cap (d \cup m) = {} /\ d \cap m = {}

\* What was left out says what an earlier one says that was not.
Spoken(left, told) == \A n \in left : \E k \in told : k < n /\ Says(k) = Says(n)

\* Inductive: no two batches on their way have a notice in common.
ThrottleInv ==
  /\ submitted \in Nat
  /\ Placed(waiting, OnItsWay, sent, dropped, merged, submitted)
  /\ \A d, e \in deliveries : d # e => d.batch \cap e.batch = {}
  /\ Spoken(merged, OnItsWay \cup sent \cup dropped)
  /\ waiting # {} => noticeTimer /\ ~throttleOff

\* Nothing is submitted at first.
LEMMA ThrottleInitInv == ThrottleInit => ThrottleInv
BY DEF ThrottleInit, ThrottleInv, OnItsWay, Placed, Spoken

\* A set of numbers that has any has a least one.
LEMMA LeastNumber ==
  ASSUME NEW T \in SUBSET Nat, T # {}
  PROVE  \E k \in T : \A y \in T : ~(y < k)
<1> DEFINE R == {ss \in Nat \X Nat : ss[1] < ss[2]}
<1>1. IsWellFoundedOn(R, Nat)
  BY NatLessThanWellFounded DEF OpToRel
<1>2. \E k \in T : \A y \in T : ~(<<y, k>> \in R)
  <2> HIDE DEF R
  <2> QED BY <1>1, WFMin
<1> QED BY <1>2

\* Among those that say the same one was first.
LEMMA FirstExists ==
  ASSUME NEW S \in SUBSET Nat, NEW n \in S
  PROVE  \E k \in FirstOfItsKind(S) : k <= n /\ Says(k) = Says(n)
<1> DEFINE T == {k \in S : Says(k) = Says(n)}
<1>1. PICK k \in T : \A y \in T : ~(y < k)
  <2>1. T \in SUBSET Nat /\ T # {}
    OBVIOUS
  <2> HIDE DEF T
  <2> QED BY <2>1, LeastNumber
<1> QED BY <1>1 DEF FirstOfItsKind

\* A batch of notices that are not on their way goes.
LEMMA BatchGoes ==
  ASSUME NEW b, NEW critical, deliveries' = deliveries \cup {[batch |-> b, critical |-> critical]},
         b \cap OnItsWay = {},
         \A d, e \in deliveries : d # e => d.batch \cap e.batch = {}
  PROVE  /\ OnItsWay' = OnItsWay \cup b
         /\ \A d, e \in deliveries' : d # e => d.batch \cap e.batch = {}
<1>1. PICK new : new = [batch |-> b, critical |-> critical]
  OBVIOUS
<1>2. new.batch = b /\ deliveries' = deliveries \cup {new}
  BY <1>1
<1>3. \A d \in deliveries : d.batch \cap b = {}
  BY DEF OnItsWay
<1> QED BY <1>2, <1>3 DEF OnItsWay

\* A batch that ends takes only its own notices off the way.
LEMMA BatchEnds ==
  ASSUME NEW d \in deliveries, deliveries' = deliveries \ {d},
         \A f, e \in deliveries : f # e => f.batch \cap e.batch = {}
  PROVE  OnItsWay = OnItsWay' \cup d.batch /\ OnItsWay' \cap d.batch = {}
BY DEF OnItsWay

\* The number of a notice is new.
LEMMA NextNumber ==
  ASSUME NEW n \in Nat
  PROVE  n + 1 \in Nat /\ 1..n + 1 = 1..n \cup {n + 1} /\ n + 1 \notin 1..n
OBVIOUS

\* Notices, flushes, deliveries and the stop keep it.
LEMMA ThrottleNextInv ==
  ASSUME ThrottleInv, [ThrottleNext]_throttleVars
  PROVE  ThrottleInv'
<1>1. ASSUME Submits
      PROVE  /\ submitted' \in Nat /\ 1..submitted' = 1..submitted \cup {submitted'}
             /\ submitted' \notin 1..submitted
  BY <1>1, NextNumber DEF Submits, ThrottleInv
<1>2. CASE SubmitStopped
  <2>1. /\ Submits /\ dropped' = dropped \cup {submitted'} /\ OnItsWay' = OnItsWay
        /\ UNCHANGED <<waiting, noticeTimer, deliveries, sent, merged, throttleOff>>
    BY <1>2 DEF SubmitStopped, OnItsWay
  <2> QED BY <1>1, <2>1 DEF ThrottleInv, Placed, Spoken
<1>3. CASE SubmitCritical
  <2>1. /\ Submits /\ deliveries' = deliveries \cup {[batch |-> {submitted'}, critical |-> TRUE]}
        /\ UNCHANGED <<waiting, noticeTimer, sent, dropped, merged, throttleOff>>
    BY <1>3 DEF SubmitCritical
  <2>2. {submitted'} \cap OnItsWay = {}
    BY <1>1, <2>1 DEF ThrottleInv, Placed
  <2>3. PICK b : b = {submitted'}
    OBVIOUS
  <2>4. /\ OnItsWay' = OnItsWay \cup b
        /\ \A d, e \in deliveries' : d # e => d.batch \cap e.batch = {}
    BY <2>1, <2>2, <2>3, BatchGoes DEF ThrottleInv
  <2> QED BY <1>1, <2>1, <2>3, <2>4 DEF ThrottleInv, Placed, Spoken
<1>4. CASE Submit
  <2>1. /\ Submits /\ ~throttleOff /\ OnItsWay' = OnItsWay
        /\ UNCHANGED <<deliveries, sent, merged, throttleOff>>
        /\ \/ waiting' = waiting \cup {submitted'} /\ noticeTimer' = TRUE /\ UNCHANGED dropped
           \/ dropped' = dropped \cup {submitted'} /\ UNCHANGED <<waiting, noticeTimer>>
    BY <1>4 DEF Submit, OnItsWay
  <2> QED BY <1>1, <2>1 DEF ThrottleInv, Placed, Spoken
<1>5. CASE FlushNotices
  <2>1. PICK b : b = FirstOfItsKind(waiting)
    OBVIOUS
  <2>2. /\ waiting' = {} /\ deliveries' = deliveries \cup {[batch |-> b, critical |-> FALSE]}
        /\ merged' = merged \cup (waiting \ b) /\ UNCHANGED <<submitted, sent, dropped, throttleOff>>
    BY <1>5, <2>1 DEF FlushNotices
  <2>3. b \subseteq waiting /\ waiting \subseteq Nat
    BY <2>1 DEF FirstOfItsKind, ThrottleInv, Placed
  <2>4. b \cap OnItsWay = {}
    BY <2>3 DEF ThrottleInv, Placed
  <2>5. /\ OnItsWay' = OnItsWay \cup b
        /\ \A d, e \in deliveries' : d # e => d.batch \cap e.batch = {}
    BY <2>2, <2>4, BatchGoes DEF ThrottleInv
  <2>6. Spoken(waiting \ b, b)
    BY <2>1, <2>3, FirstExists DEF Spoken
  <2>7. Spoken(merged', OnItsWay' \cup sent' \cup dropped')
    BY <2>2, <2>5, <2>6 DEF ThrottleInv, Spoken
  <2>8. Placed(waiting', OnItsWay', sent', dropped', merged', submitted')
    BY <2>2, <2>3, <2>5 DEF ThrottleInv, Placed
  <2> QED BY <2>2, <2>5, <2>7, <2>8 DEF ThrottleInv
<1>6. ASSUME NEW d \in deliveries, Delivered(d) PROVE ThrottleInv'
  <2>1. /\ OnItsWay = OnItsWay' \cup d.batch /\ OnItsWay' \cap d.batch = {}
        /\ sent' = sent \cup d.batch /\ deliveries' = deliveries \ {d}
        /\ UNCHANGED <<submitted, waiting, noticeTimer, dropped, merged, throttleOff>>
    BY <1>6, BatchEnds DEF Delivered, AfterSending, ThrottleInv
  <2> QED BY <2>1 DEF ThrottleInv, Placed, Spoken
<1>7. ASSUME NEW d \in deliveries, DeliveryFails(d) PROVE ThrottleInv'
  <2>1. /\ OnItsWay = OnItsWay' \cup d.batch /\ OnItsWay' \cap d.batch = {}
        /\ dropped' = dropped \cup d.batch /\ deliveries' = deliveries \ {d}
        /\ UNCHANGED <<submitted, waiting, noticeTimer, sent, merged, throttleOff>>
    BY <1>7, BatchEnds DEF DeliveryFails, ThrottleInv
  <2> QED BY <2>1 DEF ThrottleInv, Placed, Spoken
<1>8. CASE StopThrottle
  <2>1. /\ waiting' = {} /\ dropped' = dropped \cup waiting /\ OnItsWay' = OnItsWay
        /\ UNCHANGED <<submitted, deliveries, sent, merged>>
    BY <1>8 DEF StopThrottle, OnItsWay
  <2> QED BY <2>1 DEF ThrottleInv, Placed, Spoken
<1>9. CASE IdleTimer \/ UNCHANGED throttleVars
  <2>1. /\ UNCHANGED <<submitted, waiting, deliveries, sent, dropped, merged, throttleOff>>
        /\ waiting # {} => noticeTimer' = noticeTimer
    BY <1>9 DEF IdleTimer, throttleVars
  <2>2. OnItsWay' = OnItsWay
    BY <2>1 DEF OnItsWay
  <2>3. waiting' # {} => noticeTimer' /\ ~throttleOff'
    BY <2>1, Zenon DEF ThrottleInv
  <2> QED BY <2>1, <2>2, <2>3 DEF ThrottleInv
<1> QED BY <1>2, <1>3, <1>4, <1>5, <1>6, <1>7, <1>8, <1>9 DEF ThrottleNext

\* Hence every notice is accounted for, once.
LEMMA ThrottleMeans == ThrottleInv => NoticesAccounted
<1> SUFFICES ASSUME ThrottleInv PROVE NoticesAccounted
  OBVIOUS
<1>1. PICK places : places = <<waiting, OnItsWay, sent, dropped, merged>>
  OBVIOUS
<1>2. /\ places[1] = waiting /\ places[2] = OnItsWay /\ places[3] = sent
      /\ places[4] = dropped /\ places[5] = merged
  BY <1>1
<1>3. 1..5 = {1, 2, 3, 4, 5}
  OBVIOUS
<1>4. 1..submitted = UNION {places[i] : i \in 1..5}
  BY <1>2, <1>3 DEF ThrottleInv, Placed
<1>5. \A i, j \in 1..5 : i # j => places[i] \cap places[j] = {}
  BY <1>2, <1>3 DEF ThrottleInv, Placed
<1> QED BY <1>1, <1>4, <1>5 DEF NoticesAccounted, ThrottleInv, Spoken, OnItsWay
-----------------------------------------------------------------------------
(* The alerts: the log, its minutes and the window that is counted.        *)
\* A log, what is remembered by kind, the minute that began last and the
\* alerts counted since: only the last of the log can be of this minute, and
\* what is remembered of a kind is as late as any alert of it.
AlertsLogged == [kind : AlertKinds, at : 0..MaxMinutes, seen : BOOLEAN]
\* The log, the last minute of each kind, and the count of this minute.
LogFits(s, keys, from, count, never) ==
  \A i \in 1..Len(s) :
    /\ s[i].at \in Nat /\ s[i].kind \in AlertKinds /\ s[i].at <= from
    /\ keys[s[i].kind] # never /\ keys[s[i].kind] \in Nat /\ s[i].at <= keys[s[i].kind]
    /\ i + count <= Len(s) => s[i].at < from
\* Two alerts of a kind in the log are a minute apart.
Apart(s) == \A i, j \in 1..Len(s) : i < j /\ s[i].kind = s[j].kind => s[i].at < s[j].at

\* A log that an alert was added to, and its first one left out or not.
Moved(s, a, t, d) ==
  /\ d \in {0, 1} /\ Len(t) = Len(s) + 1 - d
  /\ \A i \in 1..Len(t) : t[i] = IF i + d = Len(s) + 1 THEN a ELSE s[i + d]

\* The log of at most size alerts, one of them added.
Kept(s, a, size) == IF Len(Append(s, a)) > size THEN Tail(Append(s, a)) ELSE Append(s, a)

\* Inductive: what is remembered of the minutes covers the log.
PacedInv ==
  /\ minute \in 0..MaxMinutes /\ alertWindow \in 0..minute /\ alertCount \in 0..AlertLimit
  /\ alertKeys \in [AlertKinds -> 0..NoMinute]
  /\ \A k \in AlertKinds : alertKeys[k] # NoMinute => alertKeys[k] <= minute
  /\ alertLog \in Seq(AlertsLogged)
  /\ LogFits(alertLog, alertKeys, alertWindow, alertCount, NoMinute) /\ Apart(alertLog)

\* The log is empty at first.
LEMMA PacedInitInv == AlertInit => PacedInv
BY NoticeAssumption DEF AlertInit, PacedInv, NoticeAssumption, NoMinute, LogFits, Apart

\* An alert moves the log up by one place, or by none.
LEMMA LogMoves ==
  ASSUME NEW A, NEW s \in Seq(A), NEW a \in A, NEW size \in Nat
  PROVE  Kept(s, a, size) \in Seq(A) /\ \E d \in {0, 1} : Moved(s, a, Kept(s, a, size), d)
<1>1. PICK t : t = Kept(s, a, size)
  OBVIOUS
<1>2. PICK n \in Nat : n = Len(s)
  OBVIOUS
<1>3. PICK u : u = Append(s, a)
  OBVIOUS
<1>4. u \in Seq(A) /\ Len(u) = n + 1 /\ \A i \in 1..(n + 1) : u[i] = IF i = n + 1 THEN a ELSE s[i]
  BY <1>2, <1>3
<1>r. t = IF Len(u) > size THEN Tail(u) ELSE u
  BY <1>1, <1>3 DEF Kept
<1>5. CASE Len(u) > size
  <2>1. PICK v : v = Tail(u)
    OBVIOUS
  <2>2. u # <<>> /\ v \in Seq(A) /\ Len(v) = n /\ \A i \in 1..n : v[i] = u[i + 1]
    BY <1>4, <2>1
  <2>3. \A i \in 1..n : v[i] = IF i + 1 = n + 1 THEN a ELSE s[i + 1]
    BY <1>4, <2>2
  <2>4. t = v
    BY <1>r, <1>5, <2>1
  <2>5. Moved(s, a, t, 1)
    BY <1>2, <2>2, <2>3, <2>4 DEF Moved
  <2> QED BY <1>1, <2>2, <2>4, <2>5
<1>6. CASE ~(Len(u) > size)
  <2>1. t = u
    BY <1>r, <1>6
  <2>2. Moved(s, a, t, 0)
    BY <1>2, <1>4, <2>1 DEF Moved
  <2> QED BY <1>1, <1>4, <2>1, <2>2
<1> QED BY <1>5, <1>6

\* One alert more, of a kind that has none since a minute.
LEMMA MovedFits ==
  ASSUME NEW s, Len(s) \in Nat, NEW t, Len(t) \in Nat, NEW a, NEW d, Moved(s, a, t, d),
         NEW keys, NEW later, NEW from \in Nat, NEW before \in Nat, NEW c \in Nat,
         NEW count \in Nat, NEW never, LogFits(s, keys, before, c, never),
         before <= from, a.at = from, a.kind \in AlertKinds,
         \A i \in 1..Len(s) : i + count <= Len(s) => s[i].at < from,
         later[a.kind] = from, from # never,
         \A k \in AlertKinds : keys[k] # never /\ keys[k] \in Nat =>
                                 later[k] # never /\ later[k] \in Nat /\ keys[k] <= later[k]
  PROVE  LogFits(t, later, from, count + 1, never)
<1> SUFFICES ASSUME NEW i \in 1..Len(t)
             PROVE  /\ t[i].at \in Nat /\ t[i].kind \in AlertKinds /\ t[i].at <= from
                    /\ later[t[i].kind] # never /\ later[t[i].kind] \in Nat /\ t[i].at <= later[t[i].kind]
                    /\ i + (count + 1) <= Len(t) => t[i].at < from
  BY DEF LogFits
<1>1. PICK n \in Nat : n = Len(s)
  OBVIOUS
<1>2. d \in {0, 1} /\ Len(t) = n + 1 - d /\ t[i] = IF i + d = n + 1 THEN a ELSE s[i + d]
  BY <1>1 DEF Moved
<1>3. CASE i + d = n + 1
  <2>1. t[i] = a /\ ~(i + (count + 1) <= Len(t))
    BY <1>2, <1>3
  <2> QED BY <2>1
<1>4. CASE i + d # n + 1
  <2>1. PICK j \in 1..n : j = i + d
    BY <1>2, <1>4
  <2>2. t[i] = s[j] /\ (i + (count + 1) <= Len(t) => j + count <= n)
    BY <1>2, <1>4, <2>1, SMTT(30)
  <2>3. /\ s[j].at \in Nat /\ s[j].kind \in AlertKinds /\ s[j].at <= before
        /\ keys[s[j].kind] # never /\ keys[s[j].kind] \in Nat /\ s[j].at <= keys[s[j].kind]
    BY <1>1 DEF LogFits
  <2>4. later[s[j].kind] # never /\ later[s[j].kind] \in Nat /\ keys[s[j].kind] <= later[s[j].kind]
    BY <2>3
  <2>5. s[j].at <= later[s[j].kind] /\ s[j].at <= from
    BY <2>3, <2>4
  <2> QED BY <1>1, <2>2, <2>3, <2>4, <2>5
<1> QED BY <1>3, <1>4

\* An alert later than all of its kind keeps the log apart.
LEMMA MovedApart ==
  ASSUME NEW s, Len(s) \in Nat, NEW t, Len(t) \in Nat, NEW a, NEW d, Moved(s, a, t, d), Apart(s),
         \A i \in 1..Len(s) : s[i].kind = a.kind => s[i].at < a.at
  PROVE  Apart(t)
<1> SUFFICES ASSUME NEW i \in 1..Len(t), NEW j \in 1..Len(t), i < j, t[i].kind = t[j].kind
             PROVE  t[i].at < t[j].at
  BY DEF Apart
<1>1. PICK n \in Nat : n = Len(s)
  OBVIOUS
<1>2. /\ d \in {0, 1} /\ Len(t) = n + 1 - d
      /\ t[i] = IF i + d = n + 1 THEN a ELSE s[i + d]
      /\ t[j] = IF j + d = n + 1 THEN a ELSE s[j + d]
  BY <1>1 DEF Moved
<1>3. PICK p \in 1..n : p = i + d /\ t[i] = s[p]
  BY <1>2
<1>4. CASE j + d = n + 1
  BY <1>1, <1>2, <1>3, <1>4
<1>5. CASE j + d # n + 1
  <2>1. PICK q \in 1..n : q = j + d /\ t[j] = s[q]
    BY <1>2, <1>5
  <2>2. p < q
    BY <1>2, <1>3, <2>1
  <2> QED BY <1>1, <1>3, <2>1, <2>2 DEF Apart
<1> QED BY <1>4, <1>5

\* An alert that is marked as seen keeps its kind and its time.
LEMMA SeenIsLogged ==
  ASSUME NEW K, NEW T, NEW r \in [kind : K, at : T, seen : BOOLEAN]
  PROVE  /\ [r EXCEPT !.seen = TRUE] \in [kind : K, at : T, seen : BOOLEAN]
         /\ [r EXCEPT !.seen = TRUE].kind = r.kind /\ [r EXCEPT !.seen = TRUE].at = r.at
OBVIOUS

\* Alerts raised, refused and acknowledged, and minutes, keep it.
LEMMA PacedNextInv ==
  ASSUME PacedInv, [AlertNext]_alertVars
  PROVE  PacedInv'
<1> USE NoticeAssumption DEF NoticeAssumption, NoMinute
<1>1. /\ Len(alertLog) \in Nat
      /\ \A i \in 1..Len(alertLog) :
           /\ alertLog[i].at \in Nat /\ alertLog[i].kind \in AlertKinds /\ alertLog[i].at <= alertWindow
           /\ alertKeys[alertLog[i].kind] # NoMinute /\ alertKeys[alertLog[i].kind] \in Nat
           /\ alertLog[i].at <= alertKeys[alertLog[i].kind]
           /\ i + alertCount <= Len(alertLog) => alertLog[i].at < alertWindow
  BY DEF PacedInv, LogFits
<1>2. CASE MinutePasses
  <2>1. minute' \in 0..MaxMinutes /\ alertWindow \in 0..minute'
        /\ \A k \in AlertKinds : alertKeys[k] # NoMinute => alertKeys[k] <= minute'
    BY <1>2 DEF MinutePasses, PacedInv
  <2>2. UNCHANGED <<alertLog, alertKeys, alertWindow, alertCount>>
    BY <1>2 DEF MinutePasses
  <2> QED BY <2>1, <2>2 DEF PacedInv, LogFits, Apart, AlertsLogged
<1>3. CASE ClearHistory
  <2>1. /\ alertLog' = <<>> /\ alertKeys' = [k \in AlertKinds |-> NoMinute] /\ alertCount' = 0
        /\ UNCHANGED <<minute, alertWindow>>
    BY <1>3 DEF ClearHistory
  <2>2. <<>> \in Seq(AlertsLogged) /\ Len(<<>>) = 0
    OBVIOUS
  <2> QED BY <2>1, <2>2 DEF PacedInv, LogFits, Apart, AlertsLogged
<1>4. CASE UNCHANGED <<minute, alertLog, alertKeys, alertCount, alertWindow>>
  BY <1>4 DEF PacedInv, LogFits, Apart, AlertsLogged
<1>5. ASSUME NEW k \in AlertKinds, SendAlert(k) PROVE PacedInv'
  <2>1. PICK w : w = alertWindow'
    OBVIOUS
  <2>2. /\ w \in Nat /\ w = minute /\ alertWindow <= w /\ alertWindow \in Nat /\ minute \in Nat
        /\ WindowOver => alertWindow < w
        /\ ~WindowOver => alertWindow = w
    BY <1>5, <2>1 DEF SendAlert, WindowOver, PacedInv
  <2>3. PICK c \in 0..AlertLimit : c = CountNow
    BY DEF CountNow, PacedInv
  <2>4. \A i \in 1..Len(alertLog) : i + c <= Len(alertLog) => alertLog[i].at < w
    <3>1. CASE WindowOver
      BY <1>1, <2>2, <3>1, SMTT(30)
    <3>2. CASE ~WindowOver
      <4>1. c = alertCount /\ w = alertWindow
        BY <2>2, <2>3, <3>2 DEF CountNow
      <4> QED BY <1>1, <4>1
    <3> QED BY <3>1, <3>2
  <2>5. CASE CountNow >= AlertLimit \/ Recent(k)
    <3>1. alertCount' = c /\ alertWindow' = w /\ UNCHANGED <<alertLog, alertKeys, minute>>
      BY <1>5, <2>1, <2>3, <2>5 DEF SendAlert
    <3>2. LogFits(alertLog, alertKeys, w, c, NoMinute)
      <4>1. \A i \in 1..Len(alertLog) : alertLog[i].at <= w
        BY <1>1, <2>2, SMTT(30)
      <4> QED BY <1>1, <2>4, <4>1, Zenon DEF LogFits
    <3>3. LogFits(alertLog, alertKeys, alertWindow, alertCount, NoMinute)'
      BY <3>1, <3>2 DEF LogFits
    <3> QED BY <2>2, <2>3, <3>1, <3>3 DEF PacedInv, Apart, AlertsLogged
  <2>6. CASE ~(CountNow >= AlertLimit \/ Recent(k))
    <3>1. PICK a : a = [kind |-> k, at |-> minute, seen |-> FALSE]
      OBVIOUS
    <3>2. a \in AlertsLogged /\ a.kind = k /\ a.at = minute
      BY <3>1 DEF AlertsLogged, PacedInv
    <3>3. PICK t : t = alertLog'
      OBVIOUS
    <3>4. PICK later : later = alertKeys'
      OBVIOUS
    <3>5. /\ alertCount' = c + 1 /\ later = [alertKeys EXCEPT ![k] = minute]
          /\ t = Kept(alertLog, a, MaxHistory)
          /\ UNCHANGED minute
      BY <1>5, <2>3, <2>6, <3>1, <3>3, <3>4 DEF SendAlert, RememberKey, Kept
    <3>6. alertLog \in Seq(AlertsLogged) /\ MaxHistory \in Nat
      BY DEF PacedInv
    <3>7. t \in Seq(AlertsLogged) /\ \E d \in {0, 1} : Moved(alertLog, a, t, d)
      <4>1. /\ Kept(alertLog, a, MaxHistory) \in Seq(AlertsLogged)
            /\ \E d \in {0, 1} : Moved(alertLog, a, Kept(alertLog, a, MaxHistory), d)
        BY <3>2, <3>6, LogMoves
      <4>2. t = Kept(alertLog, a, MaxHistory)
        BY <3>5, Zenon
      <4> QED BY <4>1, <4>2, Zenon
    <3>8. PICK d \in {0, 1} : Moved(alertLog, a, t, d)
      BY <3>7
    <3>9. ~Recent(k) /\ c < AlertLimit
      BY <2>3, <2>6
    <3>10. alertKeys[k] = NoMinute \/ (alertKeys[k] < minute /\ alertKeys[k] \in Nat)
      BY <3>9 DEF Recent, PacedInv
    <3>11. /\ later \in [AlertKinds -> 0..NoMinute] /\ later[k] = minute /\ minute # NoMinute
           /\ \A q \in AlertKinds : later[q] # NoMinute => later[q] <= minute
           /\ \A q \in AlertKinds : alertKeys[q] # NoMinute /\ alertKeys[q] \in Nat =>
                later[q] # NoMinute /\ later[q] \in Nat /\ alertKeys[q] <= later[q]
      BY <3>5 DEF PacedInv
    <3>12. LogFits(t, later, w, c + 1, NoMinute)
      <4>1. LogFits(alertLog, alertKeys, alertWindow, alertCount, NoMinute) /\ alertCount \in Nat
        BY DEF PacedInv
      <4>2. Len(t) \in Nat /\ c \in Nat
        BY <2>3, <3>7
      <4>3. /\ Len(alertLog) \in Nat /\ w \in Nat /\ alertWindow \in Nat /\ alertWindow <= w
            /\ a.at = w /\ a.kind \in AlertKinds /\ later[a.kind] = w /\ w # NoMinute
        BY <1>1, <2>2, <3>2, <3>11
      <4> QED BY <2>4, <3>8, <3>11, <4>1, <4>2, <4>3, MovedFits
    <3>13. Apart(t)
      <4>1. \A i \in 1..Len(alertLog) : alertLog[i].kind = a.kind => alertLog[i].at < a.at
        <5>1. ASSUME NEW i \in 1..Len(alertLog), alertLog[i].kind = k PROVE alertLog[i].at < minute
          <6>1. /\ alertLog[i].at \in Nat /\ alertLog[i].at <= alertKeys[k] /\ alertKeys[k] # NoMinute
                /\ alertKeys[k] \in Nat
            BY <1>1, <5>1, Zenon
          <6>2. alertKeys[k] < minute /\ minute \in Nat
            BY <2>2, <3>10, <6>1
          <6> QED BY <6>1, <6>2, SMTT(30)
        <5> QED BY <3>2, <5>1, Zenon
      <4>2. Apart(alertLog) /\ Len(t) \in Nat
        BY <3>7 DEF PacedInv
      <4> QED BY <1>1, <3>8, <4>1, <4>2, MovedApart
    <3>14. LogFits(alertLog, alertKeys, alertWindow, alertCount, NoMinute)' /\ Apart(alertLog)'
      BY <2>1, <3>3, <3>4, <3>5, <3>12, <3>13 DEF LogFits, Apart
    <3>15. c + 1 \in 0..AlertLimit /\ w \in 0..minute /\ minute \in 0..MaxMinutes
      BY <2>2, <2>3, <3>9 DEF PacedInv
    <3>16. alertLog' \in Seq(AlertsLogged)
      BY <3>3, <3>7
    <3> QED BY <2>1, <3>3, <3>4, <3>5, <3>11, <3>14, <3>15, <3>16 DEF PacedInv, AlertsLogged
  <2> QED BY <2>5, <2>6
<1>6. ASSUME NEW i \in 1..Len(alertLog), AcknowledgeAlert(i) PROVE PacedInv'
  <2>1. /\ alertLog' = [alertLog EXCEPT ![i].seen = TRUE]
        /\ UNCHANGED <<minute, alertKeys, alertCount, alertWindow>>
    BY <1>6 DEF AcknowledgeAlert
  <2>2. /\ alertLog' \in Seq(AlertsLogged) /\ Len(alertLog') = Len(alertLog)
        /\ \A j \in 1..Len(alertLog) :
             alertLog'[j].kind = alertLog[j].kind /\ alertLog'[j].at = alertLog[j].at
    <3>1. PICK x \in AlertsLogged :
             x = [alertLog[i] EXCEPT !.seen = TRUE] /\ x.kind = alertLog[i].kind /\ x.at = alertLog[i].at
      <4>1. alertLog[i] \in AlertsLogged
        BY DEF PacedInv
      <4>2. PICK r \in [kind : AlertKinds, at : 0..MaxMinutes, seen : BOOLEAN] : r = alertLog[i]
        BY <4>1 DEF AlertsLogged
      <4>3. /\ [r EXCEPT !.seen = TRUE] \in AlertsLogged
            /\ [r EXCEPT !.seen = TRUE].kind = r.kind /\ [r EXCEPT !.seen = TRUE].at = r.at
        BY SeenIsLogged, Zenon DEF AlertsLogged
      <4> QED BY <4>2, <4>3, Zenon
    <3>2. alertLog' = [alertLog EXCEPT ![i] = x]
      BY <2>1, <3>1
    <3>3. alertLog \in Seq(AlertsLogged)
      BY DEF PacedInv
    <3> QED BY <3>1, <3>2, <3>3
  <2>3. LogFits(alertLog, alertKeys, alertWindow, alertCount, NoMinute)' /\ Apart(alertLog)'
    <3>1. PICK t : t = alertLog'
      OBVIOUS
    <3>2. LogFits(t, alertKeys, alertWindow, alertCount, NoMinute) /\ Apart(t)
      <4>1. /\ Len(t) = Len(alertLog)
            /\ \A j \in 1..Len(alertLog) : t[j].kind = alertLog[j].kind /\ t[j].at = alertLog[j].at
        BY <2>2, <3>1
      <4>2. LogFits(t, alertKeys, alertWindow, alertCount, NoMinute)
        BY <1>1, <4>1 DEF LogFits
      <4>3. Apart(t)
        BY <4>1, Zenon DEF PacedInv, Apart
      <4> QED BY <4>2, <4>3
    <3> QED BY <2>1, <3>1, <3>2 DEF LogFits, Apart
  <2> QED BY <2>1, <2>2, <2>3 DEF PacedInv, AlertsLogged
<1>7. ASSUME NEW health \in HealthOf, RunCheck(health) PROVE PacedInv'
  BY <1>4, <1>7 DEF RunCheck
<1>8. ASSUME NEW k \in AlertKinds, OnResult(k) PROVE PacedInv'
  BY <1>4, <1>8 DEF OnResult
<1>9. CASE UNCHANGED alertVars
  BY <1>4, <1>9 DEF alertVars
<1> QED BY <1>2, <1>3, <1>5, <1>6, <1>7, <1>8, <1>9 DEF AlertNext

\* Hence no kind twice in its minute and no minute above the limit.
LEMMA PacedMeans == PacedInv => AlertsPaced
<1> SUFFICES ASSUME PacedInv PROVE AlertsPaced
  OBVIOUS
<1>1. PICK n \in Nat : n = Len(alertLog) /\ DOMAIN alertLog = 1..n
  BY DEF PacedInv
<1>2. PICK c \in 0..AlertLimit : c = alertCount
  BY DEF PacedInv
<1>3. AlertLimit \in Nat
  BY NoticeAssumption DEF NoticeAssumption
<1>4. /\ alertWindow \in Nat
      /\ \A i \in 1..n : alertLog[i].at \in Nat /\ (i + c <= n => alertLog[i].at < alertWindow)
  BY <1>1, <1>2 DEF PacedInv, LogFits
<1> DEFINE M == {i \in DOMAIN alertLog : alertLog[i].at >= alertWindow}
<1>5. M \subseteq (n + 1 - c)..n
  <2> SUFFICES ASSUME NEW i \in 1..n, alertLog[i].at >= alertWindow PROVE i \in (n + 1 - c)..n
    BY <1>1
  <2>1. ~(i + c <= n)
    BY <1>4
  <2> QED BY <1>2, <1>3, <2>1
<1>6. /\ IsFiniteSet((n + 1 - c)..n)
      /\ Cardinality((n + 1 - c)..n) = IF n + 1 - c > n THEN 0 ELSE n - (n + 1 - c) + 1
  BY <1>2, <1>3, FS_Interval
<1>7. Cardinality(M) <= Cardinality((n + 1 - c)..n)
  BY <1>5, <1>6, FS_Subset
<1>8. IsFiniteSet(M) /\ Cardinality(M) \in Nat
  BY <1>5, <1>6, FS_Subset, FS_CardinalityType
<1> HIDE DEF M
<1>9. Cardinality(M) <= AlertLimit
  BY <1>2, <1>3, <1>6, <1>7, <1>8
<1>10. \A i, j \in 1..n :
         i < j /\ alertLog[i].kind = alertLog[j].kind => alertLog[j].at - alertLog[i].at >= 1
  BY <1>1, <1>4 DEF PacedInv, Apart
<1> QED BY <1>1, <1>9, <1>10 DEF M, AlertsPaced

\* What ThrottleInv and PacedInv leave open, and the gateway.
ThrottleTypes ==
  /\ submitted <= MaxNotices /\ hourCount \in Nat
  /\ IsFiniteSet(waiting) /\ Cardinality(waiting) <= MinuteLimit
  /\ \A d \in deliveries : IsFiniteSet(d.batch)
  /\ noticeTimer \in BOOLEAN /\ throttleOff \in BOOLEAN
AlertTypes ==
  /\ Len(alertLog) <= MaxHistory /\ toAlert \subseteq AlertKinds
  /\ degradedRuns \in 0..DegradedLimit
GatewayTypes ==
  /\ gateway \in {"down", "launching", "up"} /\ launches \in 0..MaxLaunches
  /\ heard \in [Senders -> 0..CommandLimit + 1] /\ routed \in [Senders -> 0..CommandLimit]

\* With the two invariants, the types of the notices.
LEMMA NoticeTypesMean ==
  ThrottleInv /\ ThrottleTypes /\ PacedInv /\ AlertTypes /\ GatewayTypes => NoticeTypeOK
<1> SUFFICES ASSUME ThrottleInv, ThrottleTypes, PacedInv, AlertTypes, GatewayTypes PROVE NoticeTypeOK
  OBVIOUS
<1>1. submitted \in 0..MaxNotices
  BY NoticeAssumption DEF ThrottleInv, ThrottleTypes, NoticeAssumption
<1>2. Cardinality(waiting) < MinuteLimit + 1
  <2>1. PICK n \in Nat : n = Cardinality(waiting) /\ n <= MinuteLimit
    BY FS_CardinalityType DEF ThrottleTypes
  <2> QED BY <2>1, NoticeAssumption DEF NoticeAssumption
<1>3. sent \cup dropped \cup merged \subseteq 1..submitted
  BY Zenon DEF ThrottleInv, Placed
<1>4. noticeTimer \in BOOLEAN /\ throttleOff \in BOOLEAN
  BY Zenon DEF ThrottleTypes
<1>5. minute \in 0..MaxMinutes /\ alertCount <= AlertLimit
  BY NoticeAssumption DEF PacedInv, NoticeAssumption
<1>6. \A u \in Senders : heard[u] <= CommandLimit + 1 /\ routed[u] <= CommandLimit
  BY NoticeAssumption DEF GatewayTypes, NoticeAssumption
<1> QED BY <1>1, <1>2, <1>3, <1>4, <1>5, <1>6, Zenon DEF NoticeTypeOK, AlertTypes, GatewayTypes

\* Nothing waits at first.
LEMMA ThrottleTypesInit == ThrottleInit => ThrottleTypes
<1> SUFFICES ASSUME ThrottleInit PROVE ThrottleTypes
  OBVIOUS
<1>1. /\ submitted = 0 /\ hourCount = 0 /\ waiting = {} /\ deliveries = {}
      /\ noticeTimer = FALSE /\ throttleOff = FALSE
  BY Zenon DEF ThrottleInit
<1>2. submitted <= MaxNotices /\ hourCount \in Nat
  BY <1>1, NoticeAssumption DEF NoticeAssumption
<1>3. IsFiniteSet(waiting) /\ Cardinality(waiting) <= MinuteLimit
  BY <1>1, FS_EmptySet, NoticeAssumption DEF NoticeAssumption
<1> QED BY <1>1, <1>2, <1>3, Zenon DEF ThrottleTypes

\* The first of a queue are no more than it holds.
LEMMA FirstAreFew ==
  ASSUME NEW S, IsFiniteSet(S)
  PROVE  IsFiniteSet(FirstOfItsKind(S))
BY FS_Subset, Zenon DEF FirstOfItsKind

\* Messages come, are sent by batches, fail and are dropped within them.
LEMMA ThrottleTypesNext ==
  ASSUME ThrottleInv, ThrottleTypes, [ThrottleNext]_throttleVars
  PROVE  ThrottleTypes'
<1>0. /\ submitted \in Nat /\ submitted <= MaxNotices /\ hourCount \in Nat
      /\ IsFiniteSet(waiting) /\ Cardinality(waiting) <= MinuteLimit
      /\ \A d \in deliveries : IsFiniteSet(d.batch)
  BY Zenon DEF ThrottleInv, ThrottleTypes
<1>1. submitted' <= MaxNotices
  <2>1. UNCHANGED submitted \/ Submits
    BY Zenon DEF ThrottleNext, SubmitStopped, SubmitCritical, Submit, FlushNotices, IdleTimer,
         StopThrottle, Delivered, DeliveryFails, throttleVars
  <2> QED BY <1>0, <2>1, NoticeAssumption DEF Submits, NoticeAssumption
<1>2. noticeTimer' \in BOOLEAN /\ throttleOff' \in BOOLEAN
  <2>1. /\ UNCHANGED noticeTimer \/ noticeTimer' = TRUE \/ noticeTimer' = FALSE
        /\ UNCHANGED throttleOff \/ throttleOff' = TRUE
    BY Zenon DEF ThrottleNext, SubmitStopped, SubmitCritical, Submit, FlushNotices, IdleTimer,
         StopThrottle, Delivered, DeliveryFails, throttleVars
  <2> QED BY <2>1 DEF ThrottleTypes
<1>3. IsFiniteSet(waiting') /\ Cardinality(waiting') <= MinuteLimit
  <2>1. \/ UNCHANGED waiting
        \/ waiting' = {}
        \/ /\ waiting' = waiting \cup {submitted'}
           /\ \E count \in {0, hourCount} : \E thisMinute \in 0..count : RateAllows(count, thisMinute)
    BY Zenon DEF ThrottleNext, SubmitStopped, SubmitCritical, Submit, FlushNotices, IdleTimer,
         StopThrottle, Delivered, DeliveryFails, throttleVars, EmptiedNow, AfterSending
  <2>2. CASE UNCHANGED waiting
    BY <1>0, <2>2
  <2>3. CASE waiting' = {}
    BY <2>3, FS_EmptySet, NoticeAssumption DEF NoticeAssumption
  <2>4. CASE /\ waiting' = waiting \cup {submitted'}
             /\ \E count \in {0, hourCount} : \E thisMinute \in 0..count : RateAllows(count, thisMinute)
    <3>1. PICK n \in Nat : n = Cardinality(waiting)
      BY <1>0, FS_CardinalityType
    <3>2. n < MinuteLimit
      <4>1. PICK count \in {0, hourCount} : \E thisMinute \in 0..count : RateAllows(count, thisMinute)
        BY <2>4
      <4>2. PICK thisMinute \in 0..count : thisMinute + Cardinality(waiting) < MinuteLimit
        BY <4>1 DEF RateAllows
      <4> QED BY <1>0, <3>1, <4>2, NoticeAssumption DEF NoticeAssumption
    <3>3. IsFiniteSet(waiting') /\ (Cardinality(waiting') = n \/ Cardinality(waiting') = n + 1)
      BY <1>0, <2>4, <3>1, FS_AddElement
    <3> QED BY <3>1, <3>2, <3>3, NoticeAssumption DEF NoticeAssumption
  <2> QED BY <2>1, <2>2, <2>3, <2>4
<1>4. \A d \in deliveries' : IsFiniteSet(d.batch)
  <2>1. \/ deliveries' \subseteq deliveries
        \/ \E b, c : deliveries' = deliveries \cup {[batch |-> b, critical |-> c]} /\ IsFiniteSet(b)
    <3>1. \/ deliveries' \subseteq deliveries
          \/ SubmitCritical \/ FlushNotices
      BY Zenon DEF ThrottleNext, SubmitStopped, Submit, IdleTimer,
           StopThrottle, Delivered, DeliveryFails, throttleVars
    <3>2. ASSUME SubmitCritical
          PROVE  \E b, c : deliveries' = deliveries \cup {[batch |-> b, critical |-> c]} /\ IsFiniteSet(b)
      <4>1. IsFiniteSet({submitted'})
        BY FS_Singleton
      <4> QED BY <3>2, <4>1, Zenon DEF SubmitCritical
    <3>3. ASSUME FlushNotices
          PROVE  \E b, c : deliveries' = deliveries \cup {[batch |-> b, critical |-> c]} /\ IsFiniteSet(b)
      <4>1. IsFiniteSet(FirstOfItsKind(waiting))
        BY <1>0, FirstAreFew
      <4> QED BY <3>3, <4>1, Zenon DEF FlushNotices
    <3> QED BY <3>1, <3>2, <3>3, Zenon
  <2>2. ASSUME NEW b, NEW c, NEW d, IsFiniteSet(b), d = [batch |-> b, critical |-> c]
        PROVE  IsFiniteSet(d.batch)
    <3>1. d.batch = b
      BY <2>2
    <3> QED BY <2>2, <3>1, Zenon
  <2> QED BY <1>0, <2>1, <2>2, Zenon
<1>5. hourCount' \in Nat
  <2>1. \/ UNCHANGED hourCount
        \/ \E count \in {0, hourCount} : hourCount' = count
        \/ \E d \in deliveries : hourCount' = hourCount + Cardinality(d.batch)
    BY Zenon DEF ThrottleNext, SubmitStopped, SubmitCritical, Submit, FlushNotices, IdleTimer,
         StopThrottle, Delivered, DeliveryFails, throttleVars
  <2>2. \A d \in deliveries : Cardinality(d.batch) \in Nat
    BY <1>0, FS_CardinalityType, Zenon
  <2> QED BY <1>0, <2>1, <2>2
<1> QED BY <1>1, <1>2, <1>3, <1>4, <1>5, Zenon DEF ThrottleTypes

\* No alert was sent yet.
LEMMA AlertTypesInit == AlertInit => AlertTypes
BY NoticeAssumption DEF AlertInit, AlertTypes, NoticeAssumption

\* An alert is counted in its minute.
LEMMA AlertTypesNext ==
  ASSUME PacedInv, AlertTypes, [AlertNext]_alertVars
  PROVE  AlertTypes'
<1>1. degradedRuns' \in 0..DegradedLimit
  <2>1. \/ UNCHANGED degradedRuns
        \/ degradedRuns' = 0
        \/ degradedRuns' = IF degradedRuns < DegradedLimit THEN degradedRuns + 1 ELSE DegradedLimit
    BY Zenon DEF AlertNext, MinutePasses, ClearHistory, RunCheck, OnResult, SendAlert,
         AcknowledgeAlert, alertVars
  <2> QED BY <2>1, NoticeAssumption DEF AlertTypes, NoticeAssumption
<1>2. toAlert' \subseteq AlertKinds
  <2>1. \/ toAlert' \subseteq toAlert
        \/ \E k \in AlertKinds : toAlert' = toAlert \cup {k}
        \/ \E health : toAlert' = toAlert \cup AlertsFor(health)
    BY Zenon DEF AlertNext, MinutePasses, ClearHistory, RunCheck, OnResult, SendAlert,
         AcknowledgeAlert, alertVars
  <2>2. \A health : AlertsFor(health) \subseteq AlertKinds
    BY DEF AlertsFor, AlertKinds
  <2> QED BY <2>1, <2>2, Zenon DEF AlertTypes
<1>3. Len(alertLog') <= MaxHistory
  <2>1. alertLog \in Seq(AlertsLogged) /\ Len(alertLog) <= MaxHistory /\ MaxHistory \in Nat
    BY NoticeAssumption DEF PacedInv, AlertTypes, NoticeAssumption
  <2>2. CASE UNCHANGED alertLog \/ alertLog' = <<>>
    BY <2>1, <2>2
  <2>3. ASSUME NEW k \in AlertKinds, SendAlert(k) PROVE Len(alertLog') <= MaxHistory
    <3>1. CASE UNCHANGED alertLog
      BY <2>1, <3>1
    <3>2. PICK a : a = [kind |-> k, at |-> minute, seen |-> FALSE]
      OBVIOUS
    <3>3. PICK log : log = Append(alertLog, a)
      OBVIOUS
    <3>4. Len(log) = Len(alertLog) + 1 /\ Len(alertLog) \in Nat /\ log # <<>>
      BY <2>1, <3>3
    <3>5. Len(Tail(log)) = Len(alertLog)
      BY <2>1, <3>3
    <3>6. CASE alertLog' = IF Len(log) > MaxHistory THEN Tail(log) ELSE log
      BY <2>1, <3>4, <3>5, <3>6
    <3> QED BY <2>3, <3>1, <3>2, <3>3, <3>6 DEF SendAlert
  <2>4. ASSUME NEW i \in 1..Len(alertLog), AcknowledgeAlert(i) PROVE Len(alertLog') <= MaxHistory
    <3>1. alertLog' = [alertLog EXCEPT ![i].seen = TRUE]
      BY <2>4 DEF AcknowledgeAlert
    <3>2. Len(alertLog') = Len(alertLog)
      BY <2>1, <3>1
    <3> QED BY <2>1, <3>2
  <2>5. CASE MinutePasses \/ ClearHistory \/ UNCHANGED alertVars
    BY <2>2, <2>5 DEF MinutePasses, ClearHistory, alertVars
  <2>6. ASSUME NEW health \in HealthOf, RunCheck(health) PROVE Len(alertLog') <= MaxHistory
    BY <2>2, <2>6 DEF RunCheck
  <2>7. ASSUME NEW k \in AlertKinds, OnResult(k) PROVE Len(alertLog') <= MaxHistory
    BY <2>2, <2>7 DEF OnResult
  <2> QED BY <2>3, <2>4, <2>5, <2>6, <2>7 DEF AlertNext
<1> QED BY <1>1, <1>2, <1>3, Zenon DEF AlertTypes

\* The gateway begins with nothing.
LEMMA GatewayTypesInit == GatewayInit => GatewayTypes
BY NoticeAssumption DEF GatewayInit, GatewayTypes, NoticeAssumption

\* It starts and stops, and counts messages up to the limit.
LEMMA GatewayTypesNext ==
  ASSUME GatewayTypes, [GatewayNext]_gatewayVars
  PROVE  GatewayTypes'
<1> USE NoticeAssumption DEF NoticeAssumption, GatewayTypes
<1>1. CASE GatewayStart
  BY <1>1 DEF GatewayStart
<1>2. CASE LaunchPolling
  BY <1>2 DEF LaunchPolling
<1>3. CASE GatewayStop
  BY <1>3 DEF GatewayStop
<1>4. ASSUME NEW u \in Senders, NEW route \in {0, 1}, Message(u, route),
             route = 0 \/ routed[u] < CommandLimit
      PROVE  GatewayTypes'
  <2>0. PICK h : h = IF heard[u] > CommandLimit THEN heard[u] ELSE heard[u] + 1
    OBVIOUS
  <2>1. h \in 0..CommandLimit + 1 /\ heard' = [heard EXCEPT ![u] = h]
    <3>1. heard[u] \in 0..CommandLimit + 1
      OBVIOUS
    <3>2. h \in 0..CommandLimit + 1
      BY <2>0, <3>1
    <3>3. heard' = [heard EXCEPT ![u] = h]
      BY <1>4, <2>0, Zenon DEF Message
    <3> QED BY <3>2, <3>3
  <2>2. routed' = [routed EXCEPT ![u] = IF h > CommandLimit THEN routed[u] ELSE routed[u] + route]
    BY <1>4, <2>1 DEF Message
  <2>3. PICK t \in 0..CommandLimit : t = IF h > CommandLimit THEN routed[u] ELSE routed[u] + route
    BY <1>4
  <2>4. UNCHANGED <<gateway, launches>>
    BY <1>4 DEF Message
  <2> QED BY <2>1, <2>2, <2>3, <2>4
<1>5. ASSUME NEW u \in Senders, Command(u) \/ LoginReply(u) PROVE GatewayTypes'
  <2>1. PICK route \in {0, 1} : Message(u, route) /\ (route = 0 \/ routed[u] < CommandLimit)
    BY <1>5, Zenon DEF Command, LoginReply, RouterAllows
  <2> QED BY <1>4, <2>1
<1>6. ASSUME NEW u \in Senders, NextMinute(u) PROVE GatewayTypes'
  BY <1>6 DEF NextMinute
<1>7. CASE UNCHANGED gatewayVars
  BY <1>7 DEF gatewayVars
<1> QED BY <1>1, <1>2, <1>3, <1>5, <1>6, <1>7 DEF GatewayNext, Admitted
-----------------------------------------------------------------------------
(* The session supervisor: its commands, its browser, its observer.        *)
\* A pair of page and observer that is just being attached.
Attaching == [there |-> TRUE, subscribed |-> TRUE, listeners |-> 1]
\* The commands that launch a browser.
Launchers == {"start", "login"}

\* Where every command is, and with which manager.
PlacesTyped ==
  /\ at \in [Commands -> CommandPlaces] /\ own \in [Commands -> Managers \cup {NoManager}]
  /\ manager \in Managers \cup {NoManager}

\* Whose browser is whose: a page has its browser, who launches has a manager
\* of its own without one, and stop closes one that has.
Owned ==
  /\ contexts \subseteq Managers
  /\ tabs \subseteq contexts
  /\ \A c \in Launchers : at[c] = "launch" => own[c] \in Managers \ contexts
  /\ at["start"] = "launch" /\ at["login"] = "launch" => own["start"] # own["login"]
  /\ at["stop"] \in {"closingPage", "closing"} => own["stop"] \in contexts
  /\ at["stop"] = "closing" => own["stop"] \notin tabs
  /\ at["stop"] \in {"none", "closingPage", "closing"}

\* A stop has the last word: nothing but it makes the phase "stopped", and
\* what opens or attaches anything says so in the phase.
StopIsLast ==
  phase = "stopped" =>
    pair = NoPair /\ ~observing /\ (manager = NoManager \/ at["stop"] # "none")

\* Commands one after the other: what is attached was attached in full, to the
\* browser the supervisor has launched.
OneAtATime ==
  /\ \A c, d \in Commands : at[c] # "none" /\ at[d] # "none" => c = d
  /\ \A c \in Commands : at[c] = "attach" => pair = FreshPair /\ HasPage
  /\ \A c \in Launchers : at[c] \in {"launch", "opened"} => manager = own[c]
  /\ \A c \in Launchers : at[c] = "opened" => own[c] \in tabs
  /\ HasPage => launched \/ \E c \in Launchers : at[c] = "opened"
  /\ at["stop"] # "none" => phase = "stopped" /\ own["stop"] = manager
  /\ observing /\ phase = "observing" => HasPage /\ launched /\ pair = Attaching

\* As long as commands have not met there is one browser, the manager's, and
\* none before it is launched.
NoOrphan ==
  /\ contexts \subseteq {manager}
  /\ contexts = {} \/ launched \/ \E c \in Launchers : at[c] = "opened"
  /\ \A c \in Launchers : at[c] \in {"profile", "launch"} => contexts = {}

\* Inductive: whose browser is whose; a stop has the last word; commands that
\* do not overlap attach what they opened; and while commands have not met the
\* only browser is the current one.
SupInv ==
  /\ PlacesTyped
  /\ Owned
  /\ StopIsLast
  /\ overlapped => everMet
  /\ overlapped \/ OneAtATime
  /\ everMet \/ NoOrphan

\* Nothing runs at first.
LEMMA SupInitInv == SupInit => SupInv
BY SupAssumption DEF SupInit, SupInv, PlacesTyped, Owned, StopIsLast, OneAtATime, NoOrphan, Commands, CommandPlaces,
   Launchers, HasPage

\* Replacing one field of a pair.
LEMMA PairThere ==
  ASSUME NEW a, NEW b, NEW c, NEW x
  PROVE  [[there |-> a, subscribed |-> b, listeners |-> c] EXCEPT !.there = x]
           = [there |-> x, subscribed |-> b, listeners |-> c]
OBVIOUS

\* Replacing two of its fields.
LEMMA PairHeard ==
  ASSUME NEW a, NEW b, NEW c, NEW x, NEW y, NEW r, NEW q,
         r = [there |-> a, subscribed |-> b, listeners |-> c],
         q = [r EXCEPT !.subscribed = x, !.listeners = y]
  PROVE  q = [there |-> a, subscribed |-> x, listeners |-> y]
OBVIOUS

\* A fresh pair nobody listens to.
LEMMA FreshIs == FreshPair = [there |-> TRUE, subscribed |-> FALSE, listeners |-> 0]
BY PairThere, Zenon DEF FreshPair, NoPair

\* A command that begins while another is under way overlaps it.
LEMMA BeginIs ==
  ASSUME Begin
  PROVE  /\ overlapped \/ UnderWay => overlapped'
         /\ overlapped' => overlapped \/ UnderWay
         /\ everMet' <=> (everMet \/ UnderWay)
BY Zenon DEF Begin

\* A command moves on; a command takes or drops a manager.
Moves(c, w) ==
  /\ at'["start"] = IF c = "start" THEN w ELSE at["start"]
  /\ at'["login"] = IF c = "login" THEN w ELSE at["login"]
  /\ at'["resume"] = IF c = "resume" THEN w ELSE at["resume"]
  /\ at'["stop"] = IF c = "stop" THEN w ELSE at["stop"]
Keeps(c, m) ==
  /\ own'["start"] = IF c = "start" THEN m ELSE own["start"]
  /\ own'["login"] = IF c = "login" THEN m ELSE own["login"]
  /\ own'["stop"] = IF c = "stop" THEN m ELSE own["stop"]

\* The awaits of the commands.
LEMMA AwaitNames ==
  {"none", "preflight", "profile", "launch", "opened", "restore", "pipeline", "navigate",
   "navigateOnly", "attach", "closingPage", "closing"} \subseteq CommandPlaces
BY DEF CommandPlaces

\* A command goes to an await, the others stay where they are.
LEMMA GotoMoves ==
  ASSUME PlacesTyped, NEW c \in Commands, NEW w \in CommandPlaces, Goto(c, w)
  PROVE  Moves(c, w) /\ at' \in [Commands -> CommandPlaces]
BY DEF PlacesTyped, Goto, Moves, Commands

\* A command takes a manager or drops it, the others keep theirs.
LEMMA OwnKeeps ==
  ASSUME PlacesTyped, NEW c \in Commands, NEW m \in Managers \cup {NoManager},
         own' = [own EXCEPT ![c] = m]
  PROVE  Keeps(c, m) /\ own' \in [Commands -> Managers \cup {NoManager}]
BY DEF PlacesTyped, Keeps, Commands

\* A step of a command that goes nowhere near a browser.
Walkers == {"start", "login", "resume"}
Walk(c, w) ==
  /\ at[c] \notin {"none", "launch", "opened", "profile"} /\ Goto(c, w)
  /\ w = "profile" => at[c] = "preflight" /\ (manager = NoManager \/ ~launched)
  /\ phase' \in {phase, "busy", "waiting", "failed"}
  /\ UNCHANGED <<observing, manager, contexts, tabs, launched, pair, own, overlapped, everMet>>

Walks ==
  \E c \in Walkers, w \in {"none", "navigate", "navigateOnly", "pipeline", "profile"} : Walk(c, w)

\* A command that throws walks: it ends.
LEMMA ThrowWalks ==
  ASSUME NEW c \in Walkers, NEW last \in {phase, "busy"}, ThrowsIn(c, last),
         at[c] \notin {"none", "launch", "opened", "profile"}
  PROVE  Walks
<1>1. /\ Goto(c, "none") /\ phase' \in {phase, "busy", "failed"}
      /\ UNCHANGED <<observing, manager, contexts, tabs, launched, pair, own, overlapped, everMet>>
  BY DEF ThrowsIn, EndsThrown, browserVars, metVars
<1> QED BY <1>1 DEF Walks, Walk

\* So does one that sets out for the game.
LEMMA NavigateWalks ==
  ASSUME NEW c \in Walkers, NEW w \in {"navigate", "navigateOnly"}, Navigate(c, w),
         at[c] \notin {"none", "launch", "opened", "profile"}
  PROVE  Walks
<1>1. CASE HasPage
  <2>1. /\ Goto(c, w) /\ phase' = "busy"
        /\ UNCHANGED <<observing, manager, contexts, tabs, launched, pair, own, overlapped, everMet>>
    BY <1>1 DEF Navigate, browserVars, metVars
  <2> QED BY <2>1 DEF Walks, Walk
<1>2. CASE ~HasPage
  BY <1>2, ThrowWalks DEF Navigate
<1> QED BY <1>1, <1>2

\* And the steps of the login, and the restored session of a start.
LEMMA WhoWalks ==
  ASSUME StartRestored \/ PreflightEnds \/ LoginRestored \/ PipelineEnds \/ LoginNavigated
  PROVE  Walks
<1>1. CASE StartRestored
  <2>1. "start" \in Walkers /\ at["start"] = "restore"
    BY <1>1 DEF StartRestored, Walkers
  <2>2. CASE Throws("start") \/ Navigate("start", "navigate")
    BY <2>1, <2>2, ThrowWalks, NavigateWalks DEF Throws
  <2>3. CASE /\ phase' = "waiting" /\ Goto("start", "none")
             /\ UNCHANGED <<observing, browserVars, pair, own, sawRounds, metVars>>
    BY <2>1, <2>3 DEF Walks, Walk, browserVars, metVars
  <2> QED BY <1>1, <2>2, <2>3 DEF StartRestored
<1>2. CASE PreflightEnds
  <2>1. /\ at["login"] = "preflight" /\ "login" \in Walkers
        /\ UNCHANGED <<observing, manager, contexts, tabs, launched, pair, own, overlapped, everMet>>
    BY <1>2 DEF PreflightEnds, Walkers, browserVars, metVars
  <2>2. \/ (manager = NoManager \/ ~launched) /\ Goto("login", "profile") /\ UNCHANGED phase
        \/ Goto("login", "pipeline") /\ phase' = "busy"
        \/ Goto("login", "none") /\ phase' \in {phase, "failed", "waiting"}
    BY <1>2 DEF PreflightEnds, WantBrowser, WantPage
  <2> QED BY <2>1, <2>2 DEF Walks, Walk
<1>3. CASE LoginRestored
  <2>1. /\ at["login"] = "restore" /\ "login" \in Walkers
        /\ UNCHANGED <<observing, manager, contexts, tabs, launched, pair, own, overlapped, everMet>>
    BY <1>3 DEF LoginRestored, Walkers, browserVars, metVars
  <2>2. \/ Goto("login", "pipeline") /\ phase' = "busy"
        \/ Goto("login", "none") /\ phase' \in {phase, "failed"}
    BY <1>3 DEF LoginRestored, WantPage
  <2> QED BY <2>1, <2>2 DEF Walks, Walk
<1>4. CASE PipelineEnds
  <2>1. at["login"] = "pipeline" /\ "login" \in Walkers
    BY <1>4 DEF PipelineEnds, Walkers
  <2>2. CASE Throws("login") \/ Navigate("login", "navigate") \/ Navigate("login", "navigateOnly")
    BY <2>1, <2>2, ThrowWalks, NavigateWalks DEF Throws
  <2>3. CASE /\ Goto("login", "none") /\ phase' \in {"waiting"} \cup (IF sawRounds THEN {phase} ELSE {})
             /\ UNCHANGED <<observing, browserVars, pair, own, sawRounds, metVars>>
    <3>1. phase' \in {phase, "waiting"}
      BY <2>3
    <3> QED BY <2>1, <2>3, <3>1 DEF Walks, Walk, browserVars, metVars
  <2> QED BY <1>4, <2>2, <2>3 DEF PipelineEnds
<1>5. CASE LoginNavigated
  <2>1. /\ at["login"] = "navigateOnly" /\ "login" \in Walkers
        /\ Goto("login", "none") /\ phase' \in {phase, "busy"}
        /\ UNCHANGED <<observing, manager, contexts, tabs, launched, pair, own, overlapped, everMet>>
    BY <1>5 DEF LoginNavigated, Walkers, browserVars, metVars
  <2> QED BY <2>1 DEF Walks, Walk
<1> QED BY <1>1, <1>2, <1>3, <1>4, <1>5

\* Its rounds are wanted: the login looks for its browser.
LEMMA LoginGoes ==
  ASSUME Login
  PROVE  /\ at["login"] = "none" /\ Begin /\ UNCHANGED <<observing, manager, contexts, tabs, launched, pair, own>>
         /\ phase' \in {phase, "busy", "failed"}
         /\ \/ Goto("login", "preflight") /\ ~launched
            \/ Goto("login", "profile") /\ manager = NoManager
            \/ Goto("login", "pipeline") \/ Goto("login", "none")
BY DEF Login, WantBrowser, WantPage, browserVars

\* What the end of a navigation does.
LEMMA NavigatedIs ==
  ASSUME NEW c \in {"start", "login"}, Navigated(c)
  PROVE  \/ Walks
         \/ /\ at[c] = "navigate" /\ HasPage /\ pair' = FreshPair /\ phase' = "busy" /\ Goto(c, "attach")
            /\ UNCHANGED <<observing, manager, contexts, tabs, launched, own, overlapped, everMet>>
<1>1. c \in Walkers /\ at[c] = "navigate"
  BY DEF Navigated, Walkers
<1>2. CASE Throws(c) \/ ThrowsIn(c, "busy")
  BY <1>1, <1>2, ThrowWalks DEF Throws
<1> QED BY <1>1, <1>2 DEF Navigated, browserVars, metVars

\* What an attached observer does.
LEMMA AttachedIs ==
  ASSUME NEW c \in Walkers, Attached(c)
  PROVE  \/ Walks
         \/ /\ at[c] = "attach" /\ Goto(c, "none") /\ pair # NoPair
            /\ pair' = [pair EXCEPT !.subscribed = TRUE, !.listeners = pair.listeners + 1]
            /\ observing' = TRUE
            /\ \/ phase' = "observing"
               \/ LacksPage /\ phase' \in {phase, "failed"}
            /\ UNCHANGED <<manager, contexts, tabs, launched, own, overlapped, everMet>>
<1>1. at[c] = "attach"
  BY DEF Attached
<1>2. CASE ~pair.there
  <2>1. Throws(c)
    BY <1>2 DEF Attached
  <2> QED BY <1>1, <2>1, ThrowWalks DEF Throws
<1>3. CASE pair.there
  <2>0. pair # NoPair
    BY <1>3 DEF NoPair
  <2>1. /\ pair' = [pair EXCEPT !.subscribed = TRUE, !.listeners = pair.listeners + 1]
        /\ observing' = TRUE
        /\ UNCHANGED <<manager, contexts, tabs, launched, own, overlapped, everMet>>
        /\ IF LacksPage /\ c # "resume" THEN EndsThrown(c, phase)
           ELSE phase' = "observing" /\ Goto(c, "none")
    BY <1>3 DEF Attached, browserVars, metVars
  <2>2. CASE LacksPage /\ c # "resume"
    <3>1. Goto(c, "none") /\ phase' = (IF c = "start" THEN "failed" ELSE phase)
      BY <2>1, <2>2 DEF EndsThrown
    <3>2. phase' \in {phase, "failed"}
      BY <3>1
    <3> QED BY <1>1, <2>0, <2>1, <2>2, <3>1, <3>2
  <2>3. CASE ~(LacksPage /\ c # "resume")
    BY <1>1, <2>0, <2>1, <2>3
  <2> QED BY <2>2, <2>3
<1> QED BY <1>2, <1>3

\* What the return of a launch does.
LEMMA LaunchedIs ==
  ASSUME NEW c \in {"start", "login"}, BrowserLaunched(c)
  PROVE  /\ at[c] = "opened" /\ own' = [own EXCEPT ![c] = NoManager]
         /\ UNCHANGED <<observing, manager, contexts, tabs, pair, overlapped, everMet>>
         /\ own[c] \in tabs => /\ launched' = TRUE /\ (Goto(c, "restore") \/ Goto(c, "none"))
                               /\ phase' \in {"busy", "failed"}
         /\ own[c] \notin tabs => /\ launched' = launched /\ Goto(c, "none")
                                  /\ phase' \in {phase, "failed"}
BY DEF BrowserLaunched, LaunchThrows, EndsThrown, browserVars, metVars

\* What a failed launch does.
LEMMA FailedIs ==
  ASSUME NEW c \in {"start", "login"}, LaunchFails(c)
  PROVE  /\ at[c] = "launch" /\ own' = [own EXCEPT ![c] = NoManager] /\ Goto(c, "none")
         /\ UNCHANGED <<observing, manager, contexts, tabs, launched, pair, overlapped, everMet>>
         /\ phase' \in {phase, "failed"}
BY DEF LaunchFails, LaunchThrows, EndsThrown, browserVars, metVars

\* The steps, one disjunct each, by what they do.
StartMoves ==
  /\ at["start"] = "none" /\ phase = "stopped" /\ phase' = "busy" /\ Moves("start", "profile") /\ Begin
  /\ UNCHANGED <<observing, manager, contexts, tabs, launched, pair, own>>

WalkMoves ==
  \E c \in Walkers, w \in {"none", "navigate", "navigateOnly", "pipeline", "profile"} :
    /\ at[c] \notin {"none", "launch", "opened", "profile"} /\ Moves(c, w)
    /\ w = "profile" => at[c] = "preflight" /\ (manager = NoManager \/ ~launched)
    /\ phase' \in {phase, "busy", "waiting", "failed"}
    /\ UNCHANGED <<observing, manager, contexts, tabs, launched, pair, own, overlapped, everMet>>

LoginMoves ==
  /\ at["login"] = "none" /\ Begin
  /\ UNCHANGED <<observing, manager, contexts, tabs, launched, pair, own>>
  /\ phase' \in {phase, "busy", "failed"}
  /\ \/ Moves("login", "preflight") /\ ~launched
     \/ Moves("login", "profile") /\ manager = NoManager
     \/ Moves("login", "pipeline") \/ Moves("login", "none")

StopMoves ==
  /\ at["stop"] = "none" /\ phase' = "stopped" /\ observing' = FALSE /\ pair' = NoPair
  /\ UNCHANGED <<contexts, tabs>>
  /\ \/ /\ manager \in contexts /\ Keeps("stop", manager) /\ Begin
        /\ Moves("stop", "closingPage") \/ (manager \notin tabs /\ Moves("stop", "closing"))
        /\ UNCHANGED <<manager, launched>>
     \/ /\ manager \notin contexts /\ manager' = NoManager /\ launched' = FALSE
        /\ (overlapped' <=> UnderWay) /\ (everMet' <=> (everMet \/ UnderWay))
        /\ UNCHANGED <<own, at>>

PageMoves ==
  /\ at["stop"] = "closingPage" /\ tabs' = tabs \ {own["stop"]} /\ Moves("stop", "closing")
  /\ UNCHANGED <<phase, observing, manager, contexts, launched, pair, own, overlapped, everMet>>

StopEndMoves ==
  /\ at["stop"] = "closing" /\ contexts' = contexts \ {own["stop"]} /\ manager' = NoManager
  /\ launched' = FALSE /\ Keeps("stop", NoManager) /\ Moves("stop", "none")
  /\ overlapped /\ ~overlapped' => phase = "stopped" /\ \A c \in Commands : at'[c] = "none"
  /\ overlapped' => overlapped
  /\ UNCHANGED <<phase, observing, tabs, pair, everMet>>

PauseMoves ==
  /\ phase' = "paused" /\ observing' = FALSE /\ Begin
  /\ pair' = [pair EXCEPT !.subscribed = FALSE, !.listeners = 0]
  /\ pair' = [pair EXCEPT !.subscribed = FALSE, !.listeners = 0]
  /\ pair' = [pair EXCEPT !.subscribed = FALSE, !.listeners = 0]
  /\ pair' = [pair EXCEPT !.subscribed = FALSE, !.listeners = 0]
  /\ UNCHANGED <<manager, contexts, tabs, launched, at, own>>

ResumeMoves ==
  /\ at["resume"] = "none" /\ phase = "paused" /\ HasPage /\ pair' = FreshPair
  /\ Moves("resume", "attach") /\ Begin
  /\ UNCHANGED <<phase, observing, manager, contexts, tabs, launched, own>>

StayMoves == UNCHANGED <<phase, observing, manager, contexts, tabs, launched, pair, at, own, overlapped, everMet>>

ProfileMoves ==
  \E c \in Launchers, m \in Managers \ (contexts \cup {manager} \cup {own[d] : d \in Commands}) :
    /\ at[c] = "profile" /\ manager' = m /\ Keeps(c, m) /\ phase' = "busy" /\ Moves(c, "launch")
    /\ UNCHANGED <<observing, contexts, tabs, launched, pair, overlapped, everMet>>

OpenMoves ==
  \E c \in Launchers :
    /\ at[c] = "launch" /\ contexts' = contexts \cup {own[c]} /\ tabs' = tabs \cup {own[c]}
    /\ Moves(c, "opened")
    /\ UNCHANGED <<phase, observing, manager, launched, pair, own, overlapped, everMet>>

FailMoves ==
  \E c \in Launchers :
    /\ at[c] = "launch" \/ (at[c] = "opened" /\ own[c] \notin tabs)
    /\ Keeps(c, NoManager) /\ Moves(c, "none") /\ phase' \in {phase, "failed"}
    /\ UNCHANGED <<observing, manager, contexts, tabs, launched, pair, overlapped, everMet>>

LaunchMoves ==
  \E c \in Launchers :
    /\ at[c] = "opened" /\ own[c] \in tabs /\ launched' = TRUE /\ Keeps(c, NoManager)
    /\ Moves(c, "restore") \/ Moves(c, "none")
    /\ phase' \in {"busy", "failed"}
    /\ UNCHANGED <<observing, manager, contexts, tabs, pair, overlapped, everMet>>

NavigateMoves ==
  \E c \in Launchers :
    /\ at[c] = "navigate" /\ HasPage /\ pair' = FreshPair /\ phase' = "busy" /\ Moves(c, "attach")
    /\ UNCHANGED <<observing, manager, contexts, tabs, launched, own, overlapped, everMet>>

AttachMoves ==
  \E c \in Walkers :
    /\ at[c] = "attach" /\ Moves(c, "none") /\ observing' = TRUE /\ pair # NoPair
    /\ pair' = [pair EXCEPT !.subscribed = TRUE, !.listeners = pair.listeners + 1]
    /\ phase' = "observing" \/ (LacksPage /\ phase' \in {phase, "failed"})
    /\ UNCHANGED <<manager, contexts, tabs, launched, own, overlapped, everMet>>

SupMoves ==
  \/ WalkMoves \/ StartMoves \/ LoginMoves \/ StopMoves \/ PageMoves \/ StopEndMoves \/ PauseMoves
  \/ ResumeMoves \/ StayMoves \/ ProfileMoves \/ OpenMoves \/ FailMoves \/ LaunchMoves
  \/ NavigateMoves \/ AttachMoves

\* Every step is one of them.
LEMMA SupSteps ==
  ASSUME PlacesTyped, [SupNext]_supVars
  PROVE  SupMoves /\ PlacesTyped'
<1> USE DEF Commands
<1>0. /\ manager \in Managers \cup {NoManager} /\ NoManager \in Managers \cup {NoManager}
      /\ at \in [Commands -> CommandPlaces] /\ own \in [Commands -> Managers \cup {NoManager}]
  BY DEF PlacesTyped
<1>1. CASE Walks
  <2>1. PICK c \in Walkers, w \in {"none", "navigate", "navigateOnly", "pipeline", "profile"} : Walk(c, w)
    BY <1>1 DEF Walks
  <2>2. Moves(c, w) /\ at' \in [Commands -> CommandPlaces]
    BY <2>1, GotoMoves, AwaitNames DEF Walk, Walkers
  <2> QED BY <1>0, <2>1, <2>2 DEF Walk, SupMoves, WalkMoves, PlacesTyped
<1>2. CASE Start
  <2>1. Moves("start", "profile") /\ at' \in [Commands -> CommandPlaces]
    BY <1>2, GotoMoves, AwaitNames DEF Start
  <2> QED BY <1>0, <1>2, <2>1 DEF Start, SupMoves, StartMoves, PlacesTyped, browserVars
<1>3. CASE Login
  <2>1. \A w \in {"preflight", "profile", "pipeline", "none"} :
          Goto("login", w) => Moves("login", w) /\ at' \in [Commands -> CommandPlaces]
    BY GotoMoves, AwaitNames
  <2> QED BY <1>0, <1>3, <2>1, LoginGoes DEF SupMoves, LoginMoves, PlacesTyped
<1>4. CASE Stop
  <2>1. CASE manager \in contexts
    <3>1. /\ own' = [own EXCEPT !["stop"] = manager] /\ Begin
          /\ Goto("stop", "closingPage") \/ (manager \notin tabs /\ Goto("stop", "closing"))
          /\ UNCHANGED <<manager, launched, contexts, tabs>>
      BY <1>4, <2>1 DEF Stop, HasPage
    <3>2. Keeps("stop", manager) /\ own' \in [Commands -> Managers \cup {NoManager}]
      BY <1>0, <3>1, OwnKeeps
    <3>3. /\ at' \in [Commands -> CommandPlaces]
          /\ Moves("stop", "closingPage") \/ (manager \notin tabs /\ Moves("stop", "closing"))
      BY <3>1, GotoMoves, AwaitNames
    <3> QED BY <1>0, <1>4, <2>1, <3>1, <3>2, <3>3 DEF Stop, SupMoves, StopMoves, PlacesTyped
  <2>2. CASE manager \notin contexts
    <3>1. /\ manager' = NoManager /\ launched' = FALSE /\ UNCHANGED <<own, at, contexts, tabs>>
          /\ overlapped' = UnderWay /\ everMet' = (everMet \/ UnderWay)
      BY <1>4, <2>2 DEF Stop
    <3>2. (overlapped' <=> UnderWay) /\ (everMet' <=> (everMet \/ UnderWay))
      BY <3>1, Zenon
    <3> QED BY <1>0, <1>4, <2>2, <3>1, <3>2 DEF Stop, SupMoves, StopMoves, PlacesTyped
  <2> QED BY <2>1, <2>2
<1>5. CASE PageClosed
  <2>1. Moves("stop", "closing") /\ at' \in [Commands -> CommandPlaces]
    BY <1>5, GotoMoves, AwaitNames DEF PageClosed
  <2> QED BY <1>0, <1>5, <2>1 DEF PageClosed, SupMoves, PageMoves, PlacesTyped, metVars
<1>6. CASE StopEnds
  <2>1. Moves("stop", "none") /\ at' \in [Commands -> CommandPlaces]
    BY <1>6, GotoMoves, AwaitNames DEF StopEnds
  <2>2. Keeps("stop", NoManager) /\ own' \in [Commands -> Managers \cup {NoManager}]
    BY <1>6, OwnKeeps DEF StopEnds
  <2>3. /\ overlapped /\ ~overlapped' => phase = "stopped" /\ \A c \in Commands : at'[c] = "none"
        /\ overlapped' => overlapped
    <3>1. overlapped' = (overlapped /\ ~(phase = "stopped" /\ \A c \in Commands : at'[c] = "none"))
      BY <1>6 DEF StopEnds
    <3> QED BY <3>1, Zenon
  <2> QED BY <1>0, <1>6, <2>1, <2>2, <2>3 DEF StopEnds, SupMoves, StopEndMoves, PlacesTyped
<1>7. CASE Pause
  BY <1>0, <1>7 DEF Pause, SupMoves, PauseMoves, PlacesTyped, browserVars
<1>8. CASE Resume
  <2>1. CASE HasPage
    <3>1. Moves("resume", "attach") /\ at' \in [Commands -> CommandPlaces]
      BY <1>8, <2>1, GotoMoves, AwaitNames DEF Resume, ResumeAnytime
    <3> QED BY <1>0, <1>8, <2>1, <3>1
            DEF Resume, ResumeAnytime, SupMoves, ResumeMoves, PlacesTyped, browserVars
  <2>2. CASE ~HasPage
    BY <1>0, <1>8, <2>2
       DEF Resume, ResumeAnytime, SupMoves, StayMoves, PlacesTyped, browserVars, metVars
  <2> QED BY <2>1, <2>2
<1>9. CASE UNCHANGED supVars
  BY <1>0, <1>9 DEF supVars, SupMoves, StayMoves, PlacesTyped
<1>10. ASSUME NEW c \in {"start", "login"}, ProfileReady(c) PROVE SupMoves /\ PlacesTyped'
  <2>1. PICK m \in Managers \ (contexts \cup {manager} \cup {own[d] : d \in Commands}) :
          manager' = m /\ own' = [own EXCEPT ![c] = m]
    BY <1>10 DEF ProfileReady
  <2>2. Keeps(c, m) /\ own' \in [Commands -> Managers \cup {NoManager}]
    BY <2>1, OwnKeeps
  <2>3. Moves(c, "launch") /\ at' \in [Commands -> CommandPlaces]
    BY <1>10, GotoMoves, AwaitNames DEF ProfileReady
  <2>4. ProfileMoves
    BY <1>10, <2>1, <2>2, <2>3 DEF ProfileReady, ProfileMoves, Launchers, metVars
  <2> QED BY <2>1, <2>2, <2>3, <2>4 DEF SupMoves, PlacesTyped
<1>11. ASSUME NEW c \in {"start", "login"}, BrowserOpened(c) PROVE SupMoves /\ PlacesTyped'
  <2>1. Moves(c, "opened") /\ at' \in [Commands -> CommandPlaces]
    BY <1>11, GotoMoves, AwaitNames DEF BrowserOpened
  <2> QED BY <1>0, <1>11, <2>1 DEF BrowserOpened, SupMoves, OpenMoves, PlacesTyped, Launchers, metVars
<1>12. ASSUME NEW c \in {"start", "login"}, LaunchFails(c) PROVE SupMoves /\ PlacesTyped'
  <2>1. Moves(c, "none") /\ at' \in [Commands -> CommandPlaces]
    BY <1>12, FailedIs, GotoMoves, AwaitNames
  <2>2. Keeps(c, NoManager) /\ own' \in [Commands -> Managers \cup {NoManager}]
    BY <1>12, FailedIs, OwnKeeps
  <2> QED BY <1>0, <1>12, <2>1, <2>2, FailedIs DEF SupMoves, FailMoves, PlacesTyped, Launchers
<1>13. ASSUME NEW c \in {"start", "login"}, BrowserLaunched(c) PROVE SupMoves /\ PlacesTyped'
  <2>1. Keeps(c, NoManager) /\ own' \in [Commands -> Managers \cup {NoManager}]
    BY <1>13, LaunchedIs, OwnKeeps
  <2>2. \A w \in {"restore", "none"} : Goto(c, w) => Moves(c, w) /\ at' \in [Commands -> CommandPlaces]
    BY GotoMoves, AwaitNames
  <2>3. CASE own[c] \in tabs
    BY <1>0, <1>13, <2>1, <2>2, <2>3, LaunchedIs DEF SupMoves, LaunchMoves, PlacesTyped, Launchers
  <2>4. CASE own[c] \notin tabs
    BY <1>0, <1>13, <2>1, <2>2, <2>4, LaunchedIs DEF SupMoves, FailMoves, PlacesTyped, Launchers
  <2> QED BY <2>3, <2>4
<1>14. ASSUME NEW c \in {"start", "login"}, Navigated(c), ~Walks PROVE SupMoves /\ PlacesTyped'
  <2>1. Moves(c, "attach") /\ at' \in [Commands -> CommandPlaces]
    BY <1>14, NavigatedIs, GotoMoves, AwaitNames
  <2> QED BY <1>0, <1>14, <2>1, NavigatedIs DEF SupMoves, NavigateMoves, PlacesTyped, Launchers
<1>15. ASSUME NEW c \in Walkers, Attached(c), ~Walks PROVE SupMoves /\ PlacesTyped'
  <2>1. Moves(c, "none") /\ at' \in [Commands -> CommandPlaces]
    BY <1>15, AttachedIs, GotoMoves, AwaitNames DEF Walkers
  <2> QED BY <1>0, <1>15, <2>1, AttachedIs DEF SupMoves, AttachMoves, PlacesTyped
<1> QED BY <1>1, <1>2, <1>3, <1>4, <1>5, <1>6, <1>7, <1>8, <1>9, <1>10, <1>11, <1>12, <1>13, <1>14,
           <1>15, WhoWalks DEF SupNext, Walkers

\* Every step keeps the browsers apart.
LEMMA OwnedNext ==
  ASSUME PlacesTyped, Owned, [SupNext]_supVars
  PROVE  Owned'
<1> USE DEF Owned, Walkers, Commands, Launchers, HasPage, Moves, Keeps
<1>1. CASE WalkMoves
  BY <1>1, SupAssumption DEF WalkMoves
<1>2. CASE StartMoves
  BY <1>2, SupAssumption DEF StartMoves
<1>3. CASE LoginMoves
  BY <1>3, SupAssumption DEF LoginMoves
<1>4. CASE StopMoves
  BY <1>4, SupAssumption DEF StopMoves
<1>5. CASE PageMoves
  BY <1>5, SupAssumption DEF PageMoves
<1>6. CASE StopEndMoves
  BY <1>6, SupAssumption DEF StopEndMoves
<1>7. CASE PauseMoves
  BY <1>7, SupAssumption DEF PauseMoves
<1>8. CASE ResumeMoves
  BY <1>8, SupAssumption DEF ResumeMoves
<1>9. CASE StayMoves
  BY <1>9, SupAssumption DEF StayMoves
<1>10. CASE ProfileMoves
  BY <1>10, SupAssumption DEF ProfileMoves
<1>11. CASE OpenMoves
  BY <1>11, SupAssumption DEF OpenMoves
<1>12. CASE FailMoves
  BY <1>12, SupAssumption DEF FailMoves
<1>13. CASE LaunchMoves
  BY <1>13, SupAssumption DEF LaunchMoves
<1>14. CASE NavigateMoves
  BY <1>14, SupAssumption DEF NavigateMoves
<1>15. CASE AttachMoves
  BY <1>15, SupAssumption DEF AttachMoves
<1> QED BY SupSteps, <1>1, <1>2, <1>3, <1>4, <1>5, <1>6, <1>7, <1>8, <1>9, <1>10, <1>11, <1>12,
           <1>13, <1>14, <1>15 DEF SupMoves

\* Nothing but a stop makes the phase "stopped".
LEMMA StopStaysLast ==
  ASSUME PlacesTyped, Owned, StopIsLast, [SupNext]_supVars
  PROVE  StopIsLast'
<1> USE DEF StopIsLast, Walkers, Commands, Launchers, Moves
<1>1. CASE WalkMoves
  BY <1>1 DEF WalkMoves
<1>2. CASE StartMoves
  BY <1>2 DEF StartMoves
<1>3. CASE LoginMoves
  BY <1>3 DEF LoginMoves
<1>4. CASE StopMoves
  BY <1>4 DEF StopMoves
<1>5. CASE PageMoves
  BY <1>5 DEF PageMoves
<1>6. CASE StopEndMoves
  BY <1>6 DEF StopEndMoves
<1>7. CASE PauseMoves
  BY <1>7 DEF PauseMoves
<1>8. CASE ResumeMoves
  BY <1>8 DEF ResumeMoves
<1>9. CASE StayMoves
  BY <1>9 DEF StayMoves
<1>10. CASE ProfileMoves
  BY <1>10 DEF ProfileMoves
<1>11. CASE OpenMoves
  BY <1>11 DEF OpenMoves
<1>12. CASE FailMoves
  BY <1>12 DEF FailMoves
<1>13. CASE LaunchMoves
  BY <1>13 DEF LaunchMoves
<1>14. CASE NavigateMoves
  BY <1>14 DEF NavigateMoves
<1>15. CASE AttachMoves
  BY <1>15 DEF AttachMoves
<1> QED BY SupSteps, <1>1, <1>2, <1>3, <1>4, <1>5, <1>6, <1>7, <1>8, <1>9, <1>10, <1>11, <1>12,
           <1>13, <1>14, <1>15 DEF SupMoves

\* Commands one after the other attach what they opened.
LEMMA OneAtATimeNext ==
  ASSUME PlacesTyped, Owned, StopIsLast, OneAtATime, ~overlapped, ~overlapped', [SupNext]_supVars
  PROVE  OneAtATime'
<1> USE DEF Owned, StopIsLast, OneAtATime, UnderWay, Walkers, Commands, Launchers, HasPage, Moves, Keeps
<1>1. CASE WalkMoves
  BY <1>1, SupAssumption DEF WalkMoves
<1>2. CASE StartMoves
  BY <1>2, SupAssumption, BeginIs DEF StartMoves
<1>3. CASE LoginMoves
  BY <1>3, SupAssumption, BeginIs DEF LoginMoves
<1>4. CASE StopMoves
  BY <1>4, SupAssumption, BeginIs DEF StopMoves
<1>5. CASE PageMoves
  BY <1>5, SupAssumption DEF PageMoves
<1>6. CASE StopEndMoves
  BY <1>6, SupAssumption DEF StopEndMoves
<1>7. CASE PauseMoves
  BY <1>7, SupAssumption, BeginIs DEF PauseMoves
<1>8. CASE ResumeMoves
  BY <1>8, SupAssumption, BeginIs DEF ResumeMoves
<1>9. CASE StayMoves
  BY <1>9, SupAssumption DEF StayMoves
<1>10. CASE ProfileMoves
  BY <1>10, SupAssumption DEF ProfileMoves
<1>11. CASE OpenMoves
  BY <1>11, SupAssumption DEF OpenMoves
<1>12. CASE FailMoves
  BY <1>12, SupAssumption DEF FailMoves
<1>13. CASE LaunchMoves
  BY <1>13, SupAssumption DEF LaunchMoves
<1>14. CASE NavigateMoves
  BY <1>14, SupAssumption DEF NavigateMoves
<1>15. CASE AttachMoves
  <2>1. PICK c \in Walkers :
          /\ at[c] = "attach" /\ Moves(c, "none")
          /\ pair' = [pair EXCEPT !.subscribed = TRUE, !.listeners = pair.listeners + 1]
          /\ UNCHANGED <<manager, contexts, tabs, launched, own, overlapped, everMet>>
    BY <1>15 DEF AttachMoves
  <2>2. pair = FreshPair /\ HasPage
    BY <2>1 DEF Walkers, OneAtATime, Commands
  <2>3. pair.listeners + 1 = 1
    BY <2>2, FreshIs
  <2>4. pair' = [pair EXCEPT !.subscribed = TRUE, !.listeners = 1]
    BY <2>1, <2>3
  <2>5. pair' = Attaching
    BY <2>2, <2>4, FreshIs, PairHeard, Zenon DEF Attaching
  <2>6. launched
    BY <2>1, <2>2 DEF Walkers
  <2> QED BY <2>1, <2>2, <2>5, <2>6 DEF Walkers
<1> QED BY SupSteps, <1>1, <1>2, <1>3, <1>4, <1>5, <1>6, <1>7, <1>8, <1>9, <1>10, <1>11, <1>12,
           <1>13, <1>14, <1>15 DEF SupMoves

\* A stop that ends alone starts the account of meetings anew.
LEMMA StopClears ==
  ASSUME PlacesTyped, Owned, StopIsLast, overlapped, ~overlapped', [SupNext]_supVars
  PROVE  OneAtATime'
<1>1. StopMoves \/ StopEndMoves
  BY SupSteps, BeginIs DEF SupMoves, WalkMoves, StartMoves, LoginMoves, PageMoves, PauseMoves,
     ResumeMoves, StayMoves, ProfileMoves, OpenMoves, FailMoves, LaunchMoves, NavigateMoves, AttachMoves
<1>2. CASE StopMoves
  BY <1>2, SupAssumption, BeginIs
     DEF StopMoves, Owned, OneAtATime, UnderWay, HasPage, Commands, Launchers
<1>3. CASE StopEndMoves
  BY <1>3, SupAssumption DEF StopEndMoves, Owned, StopIsLast, OneAtATime, HasPage, Commands, Launchers
<1> QED BY <1>1, <1>2, <1>3

\* As long as no command meets another, the manager that is forgotten has no
\* browser.
LEMMA NoOrphanNext ==
  ASSUME PlacesTyped, Owned, StopIsLast, OneAtATime, NoOrphan, ~everMet, ~everMet', [SupNext]_supVars
  PROVE  NoOrphan'
<1> USE DEF Owned, StopIsLast, OneAtATime, NoOrphan, UnderWay, Walkers, Commands, Launchers, HasPage, Moves, Keeps
<1>1. CASE WalkMoves
  BY <1>1, SupAssumption DEF WalkMoves
<1>2. CASE StartMoves
  BY <1>2, SupAssumption, BeginIs DEF StartMoves
<1>3. CASE LoginMoves
  BY <1>3, SupAssumption, BeginIs DEF LoginMoves
<1>4. CASE StopMoves
  BY <1>4, SupAssumption, BeginIs DEF StopMoves
<1>5. CASE PageMoves
  BY <1>5, SupAssumption DEF PageMoves
<1>6. CASE StopEndMoves
  BY <1>6, SupAssumption DEF StopEndMoves
<1>7. CASE PauseMoves
  BY <1>7, SupAssumption, BeginIs DEF PauseMoves
<1>8. CASE ResumeMoves
  BY <1>8, SupAssumption, BeginIs DEF ResumeMoves
<1>9. CASE StayMoves
  BY <1>9, SupAssumption DEF StayMoves
<1>10. CASE ProfileMoves
  BY <1>10, SupAssumption DEF ProfileMoves
<1>11. CASE OpenMoves
  BY <1>11, SupAssumption DEF OpenMoves
<1>12. CASE FailMoves
  BY <1>12, SupAssumption DEF FailMoves
<1>13. CASE LaunchMoves
  BY <1>13, SupAssumption DEF LaunchMoves
<1>14. CASE NavigateMoves
  BY <1>14, SupAssumption DEF NavigateMoves
<1>15. CASE AttachMoves
  BY <1>15, SupAssumption DEF AttachMoves
<1> QED BY SupSteps, <1>1, <1>2, <1>3, <1>4, <1>5, <1>6, <1>7, <1>8, <1>9, <1>10, <1>11, <1>12,
           <1>13, <1>14, <1>15 DEF SupMoves

\* Commands that overlapped have met.
LEMMA MeetingsAreNoted ==
  ASSUME PlacesTyped, overlapped => everMet, [SupNext]_supVars
  PROVE  (overlapped => everMet)' /\ (everMet => everMet')
<1> USE DEF UnderWay
<1>1. CASE WalkMoves
  BY <1>1 DEF WalkMoves
<1>2. CASE StartMoves
  BY <1>2, BeginIs DEF StartMoves
<1>3. CASE LoginMoves
  BY <1>3, BeginIs DEF LoginMoves
<1>4. CASE StopMoves
  BY <1>4, BeginIs DEF StopMoves
<1>5. CASE PageMoves
  BY <1>5 DEF PageMoves
<1>6. CASE StopEndMoves
  BY <1>6 DEF StopEndMoves
<1>7. CASE PauseMoves
  BY <1>7, BeginIs DEF PauseMoves
<1>8. CASE ResumeMoves
  BY <1>8, BeginIs DEF ResumeMoves
<1>9. CASE StayMoves
  BY <1>9 DEF StayMoves
<1>10. CASE ProfileMoves
  BY <1>10 DEF ProfileMoves
<1>11. CASE OpenMoves
  BY <1>11 DEF OpenMoves
<1>12. CASE FailMoves
  BY <1>12 DEF FailMoves
<1>13. CASE LaunchMoves
  BY <1>13 DEF LaunchMoves
<1>14. CASE NavigateMoves
  BY <1>14 DEF NavigateMoves
<1>15. CASE AttachMoves
  BY <1>15 DEF AttachMoves
<1> QED BY SupSteps, <1>1, <1>2, <1>3, <1>4, <1>5, <1>6, <1>7, <1>8, <1>9, <1>10, <1>11, <1>12,
           <1>13, <1>14, <1>15 DEF SupMoves

\* Commands, launches, stops and their awaits keep it.
LEMMA SupNextInv ==
  ASSUME SupInv, [SupNext]_supVars
  PROVE  SupInv'
<1>0. PlacesTyped'
  BY SupSteps DEF SupInv
<1>1. Owned' /\ StopIsLast'
  BY OwnedNext, StopStaysLast DEF SupInv
<1>2. (overlapped => everMet)' /\ (everMet => everMet')
  BY MeetingsAreNoted DEF SupInv
<1>3. overlapped' \/ OneAtATime'
  BY OneAtATimeNext, StopClears DEF SupInv
<1>4. everMet' \/ NoOrphan'
  BY NoOrphanNext, <1>2 DEF SupInv
<1> QED BY <1>0, <1>1, <1>2, <1>3, <1>4 DEF SupInv

\* Hence the phase tells the truth.
LEMMA PhaseTells == SupInv => PhaseIsTruthful
BY DEF SupInv, PhaseIsTruthful, StopIsLast, OneAtATime, NoOrphan, Attaching, UnderWay, Commands

(* Unless commands overlapped since a stop last ended alone, phase         *)
(* "observing" means one subscribed observer of a launched browser that    *)
(* has its page. When a stop has the last word the supervisor holds no     *)
(* adapter, observer or manager, whatever overlapped it; a browser may     *)
(* still run then, forgotten, but only after commands have met.            *)
(* (core/session-supervisor.ts start, stop, pause, resume,                 *)
(* loginWithCredentials)                                                   *)
THEOREM SupervisorIsTruthful == SupSpec => []PhaseIsTruthful
BY SupInitInv, SupNextInv, PhaseTells, PTL DEF SupSpec

\* A disjunction is a Boolean.
LEMMA IsDisjunction ==
  ASSUME NEW a, NEW b, NEW x, x = (a \/ b)
  PROVE  x \in BOOLEAN
OBVIOUS

\* So is a conjunction.
LEMMA IsConjunction ==
  ASSUME NEW a, NEW b, NEW x, x = (a /\ b)
  PROVE  x \in BOOLEAN
OBVIOUS

\* Attachments that are still to come, besides the listeners there are.
ToAttach(c) == IF at[c] = "attach" THEN 1 ELSE 0
SupTypes ==
  /\ SupTypeOK /\ Owned
  /\ pair.listeners + ToAttach("start") + ToAttach("login") + ToAttach("resume") <= 3

\* A pair of listeners, one of the two changed.
LEMMA PairOf ==
  ASSUME NEW A, NEW N, NEW q, NEW x \in A, NEW y \in N,
         NEW r \in [there : A, subscribed : A, listeners : N],
         q = [r EXCEPT !.subscribed = x, !.listeners = y]
  PROVE  q \in [there : A, subscribed : A, listeners : N] /\ q.listeners = y
OBVIOUS

\* A pair that nobody listens to any more.
LEMMA PairSilenced ==
  ASSUME NEW q, NEW r \in [there : BOOLEAN, subscribed : BOOLEAN, listeners : 0..3],
         q = [r EXCEPT !.subscribed = FALSE, !.listeners = 0]
  PROVE  q \in [there : BOOLEAN, subscribed : BOOLEAN, listeners : 0..3] /\ q.listeners = 0
<1>1. FALSE \in BOOLEAN /\ 0 \in 0..3
  OBVIOUS
<1> QED BY <1>1, PairOf, Zenon

\* A pair that nobody listens to leaves room for all three.
LEMMA SilentPairFits ==
  ASSUME pair'.listeners = 0
  PROVE  (pair.listeners + ToAttach("start") + ToAttach("login") + ToAttach("resume") <= 3)'
BY DEF ToAttach

\* Nobody listens at first and nobody is about to.
LEMMA SupTypesInit == SupInit => SupTypes
<1>1. SupInit => ToAttach("start") = 0 /\ ToAttach("login") = 0 /\ ToAttach("resume") = 0
  BY DEF SupInit, ToAttach, Commands
<1>2. NoPair \in [there : BOOLEAN, subscribed : BOOLEAN, listeners : 0..3] /\ NoPair.listeners = 0
  BY DEF NoPair
<1>3. SupInit => SupTypeOK
  BY <1>2 DEF SupInit, SupTypeOK, CommandPlaces
<1>4. SupInit => Owned
  BY SupInitInv DEF SupInv
<1> QED BY <1>1, <1>2, <1>3, <1>4 DEF SupInit, SupTypes

\* What history notes is true or false.
LEMMA NotesTyped ==
  ASSUME overlapped \in BOOLEAN, everMet \in BOOLEAN, sawRounds \in BOOLEAN, observing \in BOOLEAN,
         [SupNext]_supVars
  PROVE  overlapped' \in BOOLEAN /\ everMet' \in BOOLEAN /\ sawRounds' \in BOOLEAN
<1>1. Begin => overlapped' \in BOOLEAN /\ everMet' \in BOOLEAN
  BY IsDisjunction DEF Begin
<1>2. UnderWay \in BOOLEAN
  BY DEF UnderWay
<1>3. CASE Start \/ Login \/ Pause
  BY <1>1, <1>3 DEF Start, Login, Pause
<1>4. CASE Stop
  <2>0. UNCHANGED sawRounds
    BY <1>4 DEF Stop
  <2>1. Begin \/ (overlapped' = UnderWay /\ everMet' = (everMet \/ UnderWay))
    BY <1>4, Zenon DEF Stop
  <2>2. everMet' = (everMet \/ UnderWay) => everMet' \in BOOLEAN
    BY IsDisjunction
  <2> QED BY <1>1, <1>2, <2>0, <2>1, <2>2
<1>5. CASE StopEnds
  <2>1. UNCHANGED <<everMet, sawRounds>>
    BY <1>5 DEF StopEnds
  <2>2. overlapped' = (overlapped /\ ~(phase = "stopped" /\ \A c \in Commands : at'[c] = "none"))
    BY <1>5 DEF StopEnds
  <2>3. overlapped' \in BOOLEAN
    BY <2>2, IsConjunction
  <2> QED BY <2>1, <2>3
<1>6. CASE Resume
  BY <1>1, <1>6 DEF Resume, ResumeAnytime, metVars
<1>7. CASE StartRestored \/ PreflightEnds \/ LoginRestored \/ PipelineEnds \/ LoginNavigated \/ PageClosed
  BY <1>7 DEF StartRestored, PreflightEnds, LoginRestored, PipelineEnds, LoginNavigated, PageClosed,
     Navigate, Throws, ThrowsIn, metVars
<1>8. ASSUME NEW c \in {"start", "login"},
             ProfileReady(c) \/ BrowserOpened(c) \/ LaunchFails(c) \/ BrowserLaunched(c) \/ Navigated(c)
      PROVE  UNCHANGED <<overlapped, everMet, sawRounds>>
  BY <1>8 DEF ProfileReady, BrowserOpened, LaunchFails, LaunchThrows, BrowserLaunched, Navigated,
     Throws, ThrowsIn, metVars
<1>9. ASSUME NEW c \in {"start", "login", "resume"}, Attached(c)
      PROVE  UNCHANGED <<overlapped, everMet, sawRounds>>
  BY <1>9 DEF Attached, Throws, ThrowsIn, metVars
<1>10. CASE UNCHANGED supVars
  BY <1>10 DEF supVars
<1> QED BY <1>3, <1>4, <1>5, <1>6, <1>7, <1>8, <1>9, <1>10 DEF SupNext

\* Commands and their awaits keep the types.
LEMMA SupTypesNext ==
  ASSUME SupTypes, [SupNext]_supVars
  PROVE  SupTypes'
<1> DEFINE pairs == [there : BOOLEAN, subscribed : BOOLEAN, listeners : 0..3]
           phases == {"stopped", "busy", "observing", "paused", "waiting", "failed"}
           fits == pair.listeners + ToAttach("start") + ToAttach("login") + ToAttach("resume") <= 3
<1>0. /\ phase \in phases /\ observing \in BOOLEAN /\ launched \in BOOLEAN /\ pair \in pairs
      /\ overlapped \in BOOLEAN /\ everMet \in BOOLEAN /\ sawRounds \in BOOLEAN
      /\ fits /\ Owned /\ PlacesTyped
  BY DEF SupTypes, SupTypeOK, PlacesTyped
<1>1. PlacesTyped' /\ Owned' /\ SupMoves
  BY <1>0, SupSteps, OwnedNext
<1>2. overlapped' \in BOOLEAN /\ everMet' \in BOOLEAN /\ sawRounds' \in BOOLEAN
  BY <1>0, NotesTyped
<1>3. /\ NoPair \in pairs /\ NoPair.listeners = 0
      /\ FreshPair \in pairs /\ FreshPair.listeners = 0
  BY FreshIs DEF NoPair
<1>4. phase' \in phases /\ observing' \in BOOLEAN /\ launched' \in BOOLEAN
  BY <1>0, <1>1 DEF SupMoves, WalkMoves, StartMoves, LoginMoves, StopMoves, PageMoves, StopEndMoves,
     PauseMoves, ResumeMoves, StayMoves, ProfileMoves, OpenMoves, FailMoves, LaunchMoves, NavigateMoves,
     AttachMoves
<1>5. pair' \in pairs /\ fits'
  <2>0. PICK n \in 0..3 : n = pair.listeners
    BY <1>0
  <2>a. ASSUME UNCHANGED pair, NEW c \in Commands, NEW w, w # "attach", Moves(c, w)
        PROVE  pair' \in pairs /\ fits'
    <3>1. n + ToAttach("start") + ToAttach("login") + ToAttach("resume") <= 3
      BY <1>0, <2>0
    <3>2. n + ToAttach("start")' + ToAttach("login")' + ToAttach("resume")' <= 3
      BY <2>a, <2>0, <3>1 DEF ToAttach, Moves, Commands
    <3> QED BY <1>0, <2>a, <2>0, <3>2
  <2>b. ASSUME UNCHANGED <<pair, at>> PROVE pair' \in pairs /\ fits'
    BY <1>0, <2>b DEF ToAttach
  <2>c. ASSUME pair' \in {NoPair, FreshPair} PROVE pair' \in pairs /\ fits'
    <3>1. pair' \in pairs /\ pair'.listeners = 0
      BY <1>3, <2>c
    <3> QED BY <3>1, SilentPairFits DEF fits
  <2>1. CASE WalkMoves
    BY <2>1, <2>a DEF WalkMoves, Walkers, Commands
  <2>2. CASE StartMoves \/ LoginMoves \/ PageMoves \/ StopEndMoves
    BY <2>2, <2>a DEF StartMoves, LoginMoves, PageMoves, StopEndMoves, Commands
  <2>3. CASE StopMoves \/ ResumeMoves \/ NavigateMoves
    BY <2>3, <2>c DEF StopMoves, ResumeMoves, NavigateMoves
  <2>4. CASE StayMoves
    BY <2>4, <2>b DEF StayMoves
  <2>5. CASE PauseMoves
    <3>1. pair' \in pairs /\ pair'.listeners = 0
      BY <1>0, <2>5, PairSilenced DEF PauseMoves
    <3> QED BY <3>1, SilentPairFits DEF fits
  <2>6. CASE ProfileMoves \/ OpenMoves \/ FailMoves \/ LaunchMoves
    BY <2>6, <2>a DEF ProfileMoves, OpenMoves, FailMoves, LaunchMoves, Launchers, Commands
  <2>7. CASE AttachMoves
    <3>1. PICK c \in Walkers :
            /\ at[c] = "attach" /\ Moves(c, "none")
            /\ pair' = [pair EXCEPT !.subscribed = TRUE, !.listeners = pair.listeners + 1]
      BY <2>7 DEF AttachMoves
    <3>2. n + ToAttach("start") + ToAttach("login") + ToAttach("resume") <= 3
      BY <1>0, <2>0
    <3>3. n + 1 + ToAttach("start")' + ToAttach("login")' + ToAttach("resume")' <= 3
      BY <3>1, <3>2, <2>0 DEF ToAttach, Moves, Walkers
    <3>4. n + 1 \in 0..3
      BY <2>0, <3>3 DEF ToAttach
    <3>5. pair' \in pairs /\ pair'.listeners = n + 1
      BY <1>0, <2>0, <3>1, <3>4
    <3> QED BY <3>3, <3>5
  <2> QED BY <1>1, <2>1, <2>2, <2>3, <2>4, <2>5, <2>6, <2>7 DEF SupMoves
<1>6. contexts' \subseteq Managers /\ tabs' \subseteq Managers
  BY <1>1 DEF Owned
<1> QED BY <1>1, <1>2, <1>4, <1>5, <1>6 DEF SupTypes, SupTypeOK, PlacesTyped
-----------------------------------------------------------------------------
(* The browser worker: requests, browsers and who owns them.               *)
\* One command at a time, and the browser on record in the state that it says.
OneOwner ==
  /\ \A b \in Requests \ {browserManager} : browsers[b] \in {"none", "down"}
  /\ \A r, q \in Requests : handling[r] \in AtServer /\ handling[q] \in AtServer => r = q
  /\ \A r \in Requests : handling[r] \in AtServer =>
       /\ serving = "up" /\ browserManager # 0 /\ given[r] = browserManager
       /\ browsers[browserManager] \in CASE handling[r] = "launching" -> {"launching"}
                                         [] handling[r] = "working"   -> {"up"}
                                         [] OTHER                     -> {"closing", "down"}
  /\ \A r \in Requests : handling[r] = "launching" => browserManager = r
  /\ serving = "closing" =>
       /\ browserManager # 0 /\ given[0] = browserManager
       /\ browsers[browserManager] \in {"closing", "down"}
  /\ serving \in {"draining", "down"} => browserManager = 0
  /\ ~Busy /\ browserManager # 0 => browsers[browserManager] \in {"up", "down"}

\* Inductive: unless commands met or something broke, one browser has one
\* owner.
WorkerInv ==
  /\ serving \in {"up", "closing", "draining", "down"} /\ browserManager \in Requests \cup {0}
  /\ handling \in [Requests -> AtServer \cup {"none", "sent", "over"}]
  /\ given \in [Requests \cup {0} -> Requests \cup {0}]
  /\ browsers \in [Requests -> {"none", "launching", "up", "closing", "crashed", "half", "down"}]
  /\ commandsMet \/ mishap \/ OneOwner

\* A request that the server has was made.
Invoked ==
  /\ handling \in [Requests -> AtServer \cup {"none", "sent", "over"}]
  /\ DOMAIN command = Requests
  /\ \A r \in Requests : handling[r] # "none" => command[r] # "none"

\* Nothing is asked for at first.
LEMMA InvokedInit == BrowserWorkerInit => Invoked
BY DEF BrowserWorkerInit, Invoked

\* A request is handled after it was asked for.
LEMMA InvokedStays ==
  ASSUME Invoked, [BrowserWorkerNext]_workerVars
  PROVE  Invoked'
<1> USE DEF Invoked, AtServer
<1>1. CASE StopServer \/ ListenerCloses \/ ServerDown \/ UNCHANGED workerVars
  BY <1>1 DEF StopServer, ListenerCloses, ServerDown, workerVars
<1>2. ASSUME NEW r \in Requests, Invoke(r) PROVE Invoked'
  <2>1. PICK c \in WorkerCommands : command' = [command EXCEPT ![r] = c]
    BY <1>2 DEF Invoke
  <2>2. c # "none"
    BY DEF WorkerCommands, SessionCommands
  <2> QED BY <1>2, <2>1, <2>2 DEF Invoke
<1>3. ASSUME NEW r \in Requests, NEW code, Answer(r, code) PROVE Invoked'
  BY <1>3 DEF Answer
<1>4. ASSUME NEW r \in Requests, ClientGivesUp(r) PROVE Invoked'
  BY <1>4 DEF ClientGivesUp
<1>5. ASSUME NEW r \in Requests, RefuseRequest(r) \/ Status(r) \/ WorkEnds(r) \/ SessionStopped(r)
      PROVE  Invoked'
  BY <1>3, <1>5 DEF RefuseRequest, Status, WorkEnds, SessionStopped
<1>6. ASSUME NEW r \in Requests, BeginSession(r) PROVE Invoked'
  BY <1>6 DEF BeginSession, EnsureBrowser, Reuse, LaunchNew
<1>7. ASSUME NEW r \in Requests, LaunchEnds(r) PROVE Invoked'
  <2>1. CASE handling' = [handling EXCEPT ![r] = "working"] /\ UNCHANGED command
    BY <1>7, <2>1 DEF LaunchEnds
  <2> QED BY <1>3, <1>7, <2>1 DEF LaunchEnds
<1>8. ASSUME NEW r \in Requests, StopSession(r) PROVE Invoked'
  BY <1>3, <1>8 DEF StopSession
<1>9. ASSUME NEW b \in Requests, BrowserEvent(b) PROVE Invoked'
  BY <1>9 DEF BrowserEvent
<1> QED BY <1>1, <1>2, <1>4, <1>5, <1>6, <1>7, <1>8, <1>9 DEF BrowserWorkerNext

\* The worker starts without a browser.
LEMMA WorkerInitInv == BrowserWorkerInit => WorkerInv
BY BrowserWorkerAssumption
   DEF BrowserWorkerInit, WorkerInv, OneOwner, AtServer, Busy, BrowserWorkerAssumption

\* Requests, launches, crashes, timeouts and the drain keep it.
LEMMA WorkerNextInv ==
  ASSUME WorkerInv, Invoked, [BrowserWorkerNext]_workerVars
  PROVE  WorkerInv'
<1> USE BrowserWorkerAssumption DEF BrowserWorkerAssumption, AtServer
<1>1. CASE StopServer
  <2>1. commandsMet \/ Busy => commandsMet'
    BY <1>1, Zenon DEF StopServer
  <2>2. mishap => mishap'
    BY <1>1 DEF StopServer
  <2> QED BY <1>1, <2>1, <2>2 DEF StopServer, WorkerInv, OneOwner, Busy, CloseAsked, Closing
<1>2. CASE ListenerCloses
  BY <1>2 DEF ListenerCloses, WorkerInv, OneOwner, Busy, CloseDone
<1>3. CASE ServerDown
  BY <1>3 DEF ServerDown, WorkerInv, OneOwner, Busy
<1>4. ASSUME NEW r \in Requests, Invoke(r) PROVE WorkerInv'
  <2>1. handling[r] = "none"
    BY <1>4 DEF Invoke, Invoked
  <2> QED BY <1>4, <2>1 DEF Invoke, WorkerInv, OneOwner, Busy
<1>5. ASSUME NEW r \in Requests, ClientGivesUp(r) PROVE WorkerInv'
  BY <1>5 DEF ClientGivesUp, WorkerInv, OneOwner, Busy
<1>6. ASSUME NEW r \in Requests, RefuseRequest(r) \/ Status(r) PROVE WorkerInv'
  BY <1>6 DEF RefuseRequest, Status, Answer, WorkerInv, OneOwner, Busy
<1>7. ASSUME NEW r \in Requests, BeginSession(r) PROVE WorkerInv'
  <2>1. commandsMet \/ Busy => commandsMet'
    BY <1>7, Zenon DEF BeginSession
  <2> QED BY <1>7, <2>1 DEF BeginSession, EnsureBrowser, Reuse, LaunchNew, WorkerInv, OneOwner, Busy
<1>8. ASSUME NEW r \in Requests, LaunchEnds(r) PROVE WorkerInv'
  <2>1. handling[r] = "launching" /\ UNCHANGED <<serving, browserManager, commandsMet>>
    BY <1>8 DEF LaunchEnds
  <2>2. CASE /\ browsers' = [browsers EXCEPT ![r] = "up"]
             /\ handling' = [handling EXCEPT ![r] = "working"]
             /\ UNCHANGED <<command, given, reply, mishap>>
    BY <2>1, <2>2 DEF WorkerInv, OneOwner, Busy
  <2>3. CASE /\ browsers' = [browsers EXCEPT ![r] = "down"]
             /\ \E code \in {"BROWSER_FAILED", "INTERNAL_ERROR"} : Answer(r, code)
             /\ UNCHANGED mishap
    BY <2>1, <2>3 DEF Answer, WorkerInv, OneOwner, Busy
  <2>4. CASE /\ browsers' = [browsers EXCEPT ![r] = "half"] /\ mishap' = TRUE
             /\ Answer(r, "INTERNAL_ERROR")
    BY <2>1, <2>4 DEF Answer, WorkerInv
  <2> QED BY <1>8, <2>2, <2>3, <2>4 DEF LaunchEnds
<1>9. ASSUME NEW r \in Requests, WorkEnds(r) PROVE WorkerInv'
  BY <1>9 DEF WorkEnds, Answer, WorkerInv, OneOwner, Busy
<1>10. ASSUME NEW r \in Requests, StopSession(r) PROVE WorkerInv'
  <2>1. commandsMet \/ Busy => commandsMet'
    BY <1>10, Zenon DEF StopSession
  <2> QED BY <1>10, <2>1 DEF StopSession, Answer, CloseAsked, Closing, WorkerInv, OneOwner, Busy
<1>11. ASSUME NEW r \in Requests, SessionStopped(r) PROVE WorkerInv'
  BY <1>11 DEF SessionStopped, Answer, CloseDone, WorkerInv, OneOwner, Busy
<1>12. ASSUME NEW b \in Requests, BrowserEvent(b) PROVE WorkerInv'
  BY <1>12 DEF BrowserEvent, WorkerInv, OneOwner, Busy
<1>13. CASE UNCHANGED workerVars
  BY <1>13 DEF workerVars, WorkerInv, OneOwner, Busy
<1> QED BY <1>1, <1>2, <1>3, <1>4, <1>5, <1>6, <1>7, <1>8, <1>9, <1>10, <1>11, <1>12, <1>13
        DEF BrowserWorkerNext

\* Hence no browser is left behind.
LEMMA OwnedBrowsers == WorkerInv => BrowsersAreOwned
BY BrowserWorkerAssumption
   DEF WorkerInv, OneOwner, BrowsersAreOwned, Alive, Busy, AtServer, BrowserWorkerAssumption
-----------------------------------------------------------------------------
(* The health of the browser worker: the last probes and their count.      *)
\* A window of the last elements, one more of which has come; the last of a
\* sequence, alike.
Window(s, b, size) == IF Len(s) < size THEN Append(s, b) ELSE Append(Tail(s), b)
\* How many in a row were "no", after another answer.
CountOf(b, no, f, size) == IF b = no THEN (IF f < size THEN f + 1 ELSE f) ELSE 0
\* The last f of a sequence are all "no".
RunAtEnd(s, f, no) == f \in 0..Len(s) /\ \A k \in 1..Len(s) : Len(s) - f < k => s[k] = no

\* Counted failures are the last probes.
HealthInv ==
  /\ lastProbes \in Seq(BOOLEAN) /\ Len(lastProbes) <= ProbeThreshold
  /\ RunAtEnd(lastProbes, probeFailures, FALSE)
  /\ circuitOpen => probeFailures = ProbeThreshold

\* No probe was answered at first.
LEMMA HealthInitInv == BrowserWorkerInit => HealthInv
BY BrowserWorkerAssumption DEF BrowserWorkerInit, HealthInv, RunAtEnd, BrowserWorkerAssumption

\* Another answer moves the window by one, or fills it.
LEMMA WindowMoves ==
  ASSUME NEW B, NEW s \in Seq(B), NEW b \in B, NEW size \in Nat \ {0}, Len(s) <= size,
         NEW t, t = Window(s, b, size), NEW n, n = Len(s)
  PROVE  /\ t \in Seq(B) /\ Len(t) <= size /\ t[Len(t)] = b
         /\ Len(t) = IF n < size THEN n + 1 ELSE n
         /\ \A k \in 1..(Len(t) - 1) : t[k] = s[k + n + 1 - Len(t)]
<1>1. Len(s) \in Nat /\ t = IF Len(s) < size THEN Append(s, b) ELSE Append(Tail(s), b)
  BY DEF Window
<1>2. CASE Len(s) < size
  BY <1>1, <1>2
<1>3. CASE ~(Len(s) < size)
  <2>1. Len(s) = size /\ s # <<>>
    BY <1>1, <1>3
  <2>2. /\ Tail(s) \in Seq(B) /\ Len(Tail(s)) = Len(s) - 1
        /\ \A k \in 1..Len(Tail(s)) : Tail(s)[k] = s[k + 1]
    BY <2>1
  <2>3. PICK u : u = Tail(s)
    OBVIOUS
  <2>4. /\ u \in Seq(B) /\ Len(u) = Len(s) - 1 /\ \A k \in 1..Len(u) : u[k] = s[k + 1]
        /\ t = Append(u, b)
    BY <1>1, <1>3, <2>2, <2>3
  <2>5. /\ t \in Seq(B) /\ Len(t) = Len(s) /\ t[Len(t)] = b
        /\ \A k \in 1..Len(u) : t[k] = u[k]
    BY <1>1, <2>4
  <2> QED BY <1>1, <1>3, <2>1, <2>4, <2>5
<1> QED BY <1>2, <1>3

\* And the count stays that of the end of the window.
LEMMA CountMoves ==
  ASSUME NEW B, NEW s \in Seq(B), NEW b \in B, NEW size \in Nat \ {0}, Len(s) <= size,
         NEW no, NEW f, RunAtEnd(s, f, no)
  PROVE  /\ Window(s, b, size) \in Seq(B) /\ Len(Window(s, b, size)) <= size
         /\ RunAtEnd(Window(s, b, size), CountOf(b, no, f, size), no)
<1>1. PICK n : n = Len(s)
  OBVIOUS
<1>2. PICK t : t = Window(s, b, size)
  OBVIOUS
<1>3. PICK g : g = CountOf(b, no, f, size)
  OBVIOUS
<1>4. /\ t \in Seq(B) /\ Len(t) <= size /\ t[Len(t)] = b
      /\ Len(t) = IF n < size THEN n + 1 ELSE n
      /\ \A k \in 1..(Len(t) - 1) : t[k] = s[k + n + 1 - Len(t)]
  BY <1>1, <1>2, WindowMoves, SMTT(30)
<1>5. PICK m \in Nat : m = Len(t)
  BY <1>4
<1>6. /\ m = IF n < size THEN n + 1 ELSE n
      /\ n \in Nat /\ n <= size /\ f \in 0..n
      /\ t[m] = b /\ \A k \in 1..(m - 1) : t[k] = s[k + n + 1 - m]
      /\ \A k \in 1..n : n - f < k => s[k] = no
      /\ g = IF b = no THEN (IF f < size THEN f + 1 ELSE f) ELSE 0
  <2>1. m = IF n < size THEN n + 1 ELSE n
    BY <1>4, <1>5
  <2>2. n \in Nat /\ n <= size /\ f \in 0..n /\ \A k \in 1..n : n - f < k => s[k] = no
    BY <1>1 DEF RunAtEnd
  <2>3. t[m] = b /\ \A k \in 1..(m - 1) : t[k] = s[k + n + 1 - m]
    BY <1>4, <1>5, Zenon
  <2>4. g = IF b = no THEN (IF f < size THEN f + 1 ELSE f) ELSE 0
    BY <1>3, Zenon DEF CountOf
  <2> QED BY <2>1, <2>2, <2>3, <2>4
<1>7. g \in 0..m
  BY <1>6
<1>8. ASSUME NEW k \in 1..m, m - g < k PROVE t[k] = no
  <2>1. b = no /\ m - (IF f < size THEN f + 1 ELSE f) < k
    BY <1>6, <1>8
  <2>2. CASE k = m
    BY <1>6, <2>1, <2>2
  <2>3. CASE k # m
    <3>1. k \in 1..(m - 1) /\ k + n + 1 - m \in 1..n /\ n - f < k + n + 1 - m
      BY <1>6, <2>1, <2>3
    <3> QED BY <1>6, <3>1
  <2> QED BY <2>2, <2>3
<1>9. RunAtEnd(t, g, no)
  BY <1>5, <1>7, <1>8 DEF RunAtEnd
<1> QED BY <1>2, <1>3, <1>4, <1>9

\* Probes, operations and time keep it.
LEMMA HealthNextInv ==
  ASSUME HealthInv, [CircuitNext]_circuitVars
  PROVE  HealthInv'
<1>1. ProbeThreshold \in Nat \ {0}
  BY BrowserWorkerAssumption DEF BrowserWorkerAssumption
<1>2. CASE ProbeEnds
  <2>1. PICK healthy \in BOOLEAN :
          /\ probeFailures' = IF healthy THEN 0
                              ELSE IF probeFailures < ProbeThreshold THEN probeFailures + 1
                              ELSE probeFailures
          /\ circuitOpen' = (~healthy /\ (probeFailures' = ProbeThreshold \/ circuitOpen))
          /\ lastProbes' = IF Len(lastProbes) < ProbeThreshold THEN Append(lastProbes, healthy)
                           ELSE Append(Tail(lastProbes), healthy)
    BY <1>2 DEF ProbeEnds
  <2>2. probeFailures' = CountOf(healthy, FALSE, probeFailures, ProbeThreshold)
    BY <2>1 DEF CountOf
  <2>3. lastProbes' = Window(lastProbes, healthy, ProbeThreshold)
    BY <2>1, Zenon DEF Window
  <2>4. /\ lastProbes' \in Seq(BOOLEAN) /\ Len(lastProbes') <= ProbeThreshold
        /\ RunAtEnd(lastProbes', probeFailures', FALSE)
    BY <1>1, <2>2, <2>3, CountMoves, Zenon DEF HealthInv
  <2>5. circuitOpen' => probeFailures' = ProbeThreshold
    <3>1. circuitOpen' => ~healthy /\ (probeFailures' = ProbeThreshold \/ circuitOpen)
      BY <2>1, Zenon
    <3>2. circuitOpen => probeFailures = ProbeThreshold
      BY DEF HealthInv
    <3> QED BY <1>1, <2>1, <3>1, <3>2
  <2> QED BY <2>4, <2>5 DEF HealthInv
<1>3. CASE CooledDown \/ UNCHANGED circuitVars
  <2>1. UNCHANGED <<probeFailures, lastProbes>> /\ (circuitOpen' => circuitOpen)
    BY <1>3 DEF CooledDown, circuitVars
  <2> QED BY <2>1, Zenon DEF HealthInv
<1> QED BY <1>2, <1>3 DEF CircuitNext

\* Hence a circuit opened is one that was earned.
LEMMA OpenIsEarned == HealthInv => CircuitIsEarned
<1> SUFFICES ASSUME HealthInv PROVE CircuitIsEarned
  OBVIOUS
<1>1. Len(lastProbes) \in Nat /\ DOMAIN lastProbes = 1..Len(lastProbes)
  BY DEF HealthInv
<1>2. ASSUME circuitOpen
      PROVE  Len(lastProbes) = ProbeThreshold /\ \A k \in 1..Len(lastProbes) : lastProbes[k] = FALSE
  <2>1. PICK n \in Nat : n = Len(lastProbes)
    BY <1>1
  <2>2. n <= ProbeThreshold /\ probeFailures \in 0..n /\ probeFailures = ProbeThreshold
    BY <1>2, <2>1 DEF HealthInv, RunAtEnd
  <2>3. n = ProbeThreshold /\ \A k \in 1..n : n - probeFailures < k
    BY <2>2, BrowserWorkerAssumption DEF BrowserWorkerAssumption
  <2> QED BY <2>1, <2>3, Zenon DEF HealthInv, RunAtEnd
<1> QED BY <1>1, <1>2, Zenon DEF CircuitIsEarned

\* What WorkerInv leaves open: the requests, the answers and the two marks.
CallTypes ==
  /\ command \in [Requests -> WorkerCommands \cup {"none", "over"}]
  /\ reply \in [Requests -> {"none", "ok", "error"}]
  /\ commandsMet \in BOOLEAN /\ mishap \in BOOLEAN

ProbeTypes == probeFailures \in 0..ProbeThreshold /\ circuitOpen \in BOOLEAN

\* With WorkerInv, the types of the browser worker.
LEMMA CallTypesMean == WorkerInv /\ CallTypes /\ ProbeTypes => BrowserWorkerTypeOK
BY DEF WorkerInv, CallTypes, ProbeTypes, BrowserWorkerTypeOK

\* No call was made and no probe failed.
LEMMA CallTypesInit == BrowserWorkerInit => CallTypes /\ ProbeTypes
<1>1. BrowserWorkerInit => CallTypes
  BY DEF BrowserWorkerInit, CallTypes
<1>2. BrowserWorkerInit => ProbeTypes
  BY BrowserWorkerAssumption DEF BrowserWorkerInit, ProbeTypes, BrowserWorkerAssumption
<1> QED BY <1>1, <1>2

\* Calls are made, answered, time out and fail within them.
LEMMA CallTypesNext ==
  ASSUME CallTypes, [BrowserWorkerNext]_workerVars
  PROVE  CallTypes'
<1> DEFINE AnyCommand == WorkerCommands \cup {"none", "over"}
           AnyReply == {"none", "ok", "error"}
<1>0. /\ command \in [Requests -> AnyCommand] /\ reply \in [Requests -> AnyReply]
      /\ commandsMet \in BOOLEAN /\ mishap \in BOOLEAN
  BY DEF CallTypes
<1>1. "over" \in AnyCommand /\ WorkerCommands \subseteq AnyCommand
  OBVIOUS
<1>2. ASSUME NEW r \in Requests, NEW code, Answer(r, code)
      PROVE  command' \in [Requests -> AnyCommand] /\ reply' \in [Requests -> AnyReply]
  <2> HIDE DEF AnyCommand
  <2> QED BY <1>0, <1>1, <1>2 DEF Answer
<1> HIDE DEF AnyCommand
<1> DEFINE Called == command' \in [Requests -> AnyCommand] /\ reply' \in [Requests -> AnyReply]
           Marked == \/ UNCHANGED <<commandsMet, mishap>>
                     \/ UNCHANGED commandsMet /\ mishap' = TRUE
                     \/ UNCHANGED mishap /\ commandsMet' = (commandsMet \/ Busy)
<1>4. ASSUME StopServer \/ ListenerCloses \/ ServerDown \/ UNCHANGED workerVars
      PROVE  Called /\ Marked
  <2>1. UNCHANGED <<command, reply>> /\ Marked
    BY <1>4, Zenon DEF StopServer, ListenerCloses, ServerDown, workerVars
  <2> QED BY <1>0, <2>1
<1>5. ASSUME NEW r \in Requests, Invoke(r) PROVE Called /\ Marked
  <2>1. Called
    BY <1>0, <1>1, <1>5 DEF Invoke
  <2>2. Marked
    BY <1>5, Zenon DEF Invoke
  <2> QED BY <2>1, <2>2
<1>6. ASSUME NEW r \in Requests, ClientGivesUp(r) PROVE Called /\ Marked
  <2>1. Called
    BY <1>0, <1>1, <1>6 DEF ClientGivesUp
  <2>2. Marked
    BY <1>6, Zenon DEF ClientGivesUp
  <2> QED BY <2>1, <2>2
<1>7. ASSUME NEW r \in Requests,
             \/ RefuseRequest(r) \/ Status(r) \/ BeginSession(r) \/ LaunchEnds(r) \/ WorkEnds(r)
             \/ StopSession(r) \/ SessionStopped(r) \/ BrowserEvent(r)
      PROVE  Called /\ Marked
  <2>1. UNCHANGED <<command, reply>> \/ \E code : Answer(r, code)
    BY <1>7, Zenon DEF RefuseRequest, Status, BeginSession, LaunchEnds, WorkEnds, StopSession,
         SessionStopped, BrowserEvent
  <2>2. Called
    BY <1>0, <1>2, <2>1
  <2>3. Marked
    BY <1>7, Zenon DEF RefuseRequest, Status, BeginSession, LaunchEnds, WorkEnds, StopSession,
         SessionStopped, BrowserEvent
  <2> QED BY <2>2, <2>3
<1>8. Called /\ Marked
  <2> HIDE DEF Called, Marked
  <2>1. CASE StopServer \/ ListenerCloses \/ ServerDown \/ UNCHANGED workerVars
    BY <1>4, <2>1, Zenon
  <2>2. CASE \E r \in Requests :
               \/ Invoke(r) \/ ClientGivesUp(r) \/ RefuseRequest(r) \/ Status(r) \/ BeginSession(r)
               \/ LaunchEnds(r) \/ WorkEnds(r) \/ StopSession(r) \/ SessionStopped(r) \/ BrowserEvent(r)
    BY <1>5, <1>6, <1>7, <2>2, Zenon
  <2> QED BY <2>1, <2>2 DEF BrowserWorkerNext
<1>9. commandsMet' \in BOOLEAN /\ mishap' \in BOOLEAN
  <2>1. commandsMet' = (commandsMet \/ Busy) => commandsMet' \in BOOLEAN
    BY IsDisjunction, Zenon
  <2> QED BY <1>0, <1>8, <2>1, Zenon
<1> QED BY <1>8, <1>9 DEF CallTypes, AnyCommand

\* Failed probes are counted up to the threshold, which opens the circuit.
LEMMA ProbeTypesNext ==
  ASSUME ProbeTypes, [CircuitNext]_circuitVars
  PROVE  ProbeTypes'
<1>1. \/ UNCHANGED probeFailures \/ probeFailures' = 0
      \/ probeFailures < ProbeThreshold /\ probeFailures' = probeFailures + 1
  BY DEF CircuitNext, ProbeEnds, CooledDown, circuitVars
<1>2. probeFailures' \in 0..ProbeThreshold
  BY <1>1, BrowserWorkerAssumption DEF ProbeTypes, BrowserWorkerAssumption
<1>3. CASE ProbeEnds
  <2>1. PICK healthy \in BOOLEAN :
          circuitOpen' = (~healthy /\ (probeFailures' = ProbeThreshold \/ circuitOpen))
    BY <1>3, Zenon DEF ProbeEnds
  <2>2. circuitOpen' \in BOOLEAN
    BY <2>1, IsConjunction, Zenon
  <2> QED BY <1>2, <2>2 DEF ProbeTypes
<1>4. CASE CooledDown \/ UNCHANGED circuitVars
  <2>1. circuitOpen' \in BOOLEAN
    BY <1>4 DEF ProbeTypes, CooledDown, circuitVars
  <2> QED BY <1>2, <2>1 DEF ProbeTypes
<1> QED BY <1>3, <1>4 DEF CircuitNext

\* What JobsInv and BreakerInv leave open.
QueueTypes == jobNow <= MaxJobTime
CallsTypes == halfOpenCalls <= HalfOpenCalls /\ admitted <= MaxCalls /\ callsMet \in BOOLEAN

\* With the two invariants, the types of the queue and of the breaker.
LEMMA QueueTypesMean == JobsInv /\ QueueTypes /\ BreakerInv /\ CallsTypes => JobQueueTypeOK
<1> SUFFICES ASSUME JobsInv, QueueTypes, BreakerInv, CallsTypes PROVE JobQueueTypeOK
  OBVIOUS
<1> DEFINE States == {"new", "refused", "waiting", "running", "done", "dropped"}
           Typed == [priority : Priorities, attempts : 0..JobAttempts, availableAt : Nat,
                     is : States, behind : BOOLEAN]
<1>1. ASSUME NEW j \in Jobs PROVE job[j] \in Typed
  <2>1. job[j] \in JobRecord /\ Counted(job[j])
    BY DEF JobsInv, JobsFit
  <2>2. PICK n : n = job[j].attempts
    OBVIOUS
  <2>3. n \in Nat /\ (n <= 1 \/ n <= JobAttempts)
    BY <2>1, <2>2 DEF Counted, AttemptsOf, JobRecord
  <2>4. n \in 0..JobAttempts
    BY <2>3, JobQueueAssumption DEF JobQueueAssumption
  <2> QED BY <2>1, <2>2, <2>4 DEF JobRecord
<1>2. job \in [Jobs -> Typed]
  <2> HIDE DEF Typed
  <2> QED BY <1>1 DEF JobsInv, JobsFit
<1>3. /\ jobNow \in 1..MaxJobTime /\ retryTimer \in Nat /\ inHandler \in Jobs \cup {"none"}
      /\ buckets \in [Priorities -> Seq(Jobs)]
  BY JobQueueAssumption DEF JobsInv, QueueTypes, JobsFit, SlotRuns, Queued, JobQueueAssumption
<1>4. halfOpenCalls \in 0..HalfOpenCalls /\ admitted \in 0..MaxCalls
  <2>1. halfOpenCalls <= HalfOpenCalls /\ admitted <= MaxCalls
    BY DEF CallsTypes
  <2> QED BY <2>1, JobQueueAssumption DEF BreakerInv, JobQueueAssumption
<1>5. /\ breaker \in {"CLOSED", "OPEN", "HALF_OPEN"} /\ failures \in 0..BreakAfter
      /\ sinceFailure \in 0..ResetTime \cup {NeverFailed} /\ callsMet \in BOOLEAN
  BY Zenon DEF BreakerInv, CallsTypes
<1> QED BY <1>2, <1>3, <1>4, <1>5, Zenon DEF JobQueueTypeOK

\* Time starts with the queue, and no call was made.
LEMMA QueueTypesInit == JobQueueInit => QueueTypes /\ CallsTypes
<1>1. JobQueueInit => QueueTypes
  BY JobQueueAssumption DEF JobQueueInit, QueueTypes, JobQueueAssumption
<1>2. JobQueueInit => halfOpenCalls = 0 /\ admitted = 0 /\ callsMet \in BOOLEAN
  BY DEF JobQueueInit
<1>3. JobQueueInit => halfOpenCalls <= HalfOpenCalls /\ admitted <= MaxCalls
  BY <1>2, JobQueueAssumption DEF JobQueueAssumption
<1>4. JobQueueInit => CallsTypes
  BY <1>2, <1>3, Zenon DEF CallsTypes
<1> QED BY <1>1, <1>4

\* The clock moves no further than its bound.
LEMMA QueueTypesNext ==
  ASSUME JobsInv, QueueTypes, [QueueNext]_queueVars
  PROVE  QueueTypes'
<1>1. UNCHANGED jobNow \/ JobTimePasses
  BY Zenon DEF QueueNext, HandlerSucceeds, HandlerFails, RetryTimerFires, Enqueue, queueVars
<1>2. UNCHANGED jobNow \/ (jobNow < MaxJobTime /\ jobNow' = jobNow + 1)
  BY <1>1 DEF JobTimePasses
<1> QED BY <1>2, JobQueueAssumption DEF JobsInv, QueueTypes, JobQueueAssumption

\* Calls are admitted up to their bounds.
LEMMA CallsTypesNext ==
  ASSUME BreakerInv, CallsTypes, [BreakerNext]_breakerVars
  PROVE  CallsTypes'
<1>1. /\ halfOpenCalls \in Nat /\ admitted \in Nat
      /\ breaker = "HALF_OPEN" => halfOpenCalls < HalfOpenCalls
      /\ halfOpenCalls <= HalfOpenCalls /\ admitted <= MaxCalls
  BY Zenon DEF BreakerInv, CallsTypes
<1>2. \/ UNCHANGED halfOpenCalls
      \/ halfOpenCalls' = 0
      \/ breaker = "HALF_OPEN" /\ halfOpenCalls' = halfOpenCalls + 1
  BY Zenon DEF BreakerNext, CallAdmitted, CallSucceeds, CallFails, BreakerWaits, breakerVars
<1>3. halfOpenCalls' <= HalfOpenCalls
  BY <1>1, <1>2, JobQueueAssumption DEF JobQueueAssumption
<1>4. \/ UNCHANGED admitted
      \/ admitted < MaxCalls /\ admitted' = admitted + 1
      \/ admitted > 0 /\ admitted' = admitted - 1
  BY Zenon DEF BreakerNext, CallAdmitted, CallSucceeds, CallFails, BreakerWaits, breakerVars
<1>5. admitted' <= MaxCalls
  BY <1>1, <1>4, JobQueueAssumption DEF JobQueueAssumption
<1>6. callsMet' \in BOOLEAN
  <2>1. UNCHANGED callsMet \/ callsMet' = (callsMet \/ admitted > 0)
    BY Zenon DEF BreakerNext, CallAdmitted, CallSucceeds, CallFails, BreakerWaits, breakerVars
  <2>2. callsMet' = (callsMet \/ admitted > 0) => callsMet' \in BOOLEAN
    BY IsDisjunction, Zenon
  <2>3. callsMet \in BOOLEAN
    BY DEF CallsTypes
  <2> QED BY <2>1, <2>2, <2>3, Zenon
<1> QED BY <1>3, <1>5, <1>6, Zenon DEF CallsTypes
-----------------------------------------------------------------------------
(* Sheath mode: while a trigger stands the entries are suspended.          *)
\* The severities a trigger is reported with, none when it does not stand.
TriggerLevels == {"none", "manual", "critical", "high", "medium"}

\* SheathTypeOK says of a trigger what it may be reported as; this gives all
\* triggers one range.
SheathType == SheathTypeOK /\ triggers \in [Ids -> TriggerLevels]
\* Inductive: the mode and the triggers that stand say the same.
SheathInv == SheathType /\ SuspendedWhileTriggered /\ goodRounds < RecoveryRequiredRounds

\* The triggers there are, each reported with a severity of its own.
LEMMA IdsAre ==
  /\ Ids = {"operator_command", "prediction_cold_state", "prediction_divergence",
            "poor_prediction_accuracy"}
  /\ \A i \in Ids : Reports[i] \subseteq TriggerLevels \ {"none"}
BY DEF Ids, Reports, TriggerLevels

\* With no trigger standing entries are free, whatever the mode is.
LEMMA QuietWhenClear ==
  ASSUME triggers = Clear
  PROVE  ~EntriesBlocked \/ Suspended
BY IdsAre DEF EntriesBlocked, Clear

\* Clear is the one state of the triggers in which none stands.
LEMMA ClearIsEmpty ==
  /\ Clear \in [Ids -> TriggerLevels]
  /\ \A sev : ~Stands(sev, Clear)
  /\ \A trs \in [Ids -> TriggerLevels] : (\A i \in Ids : trs[i] = "none") => trs = Clear
BY DEF Clear, Stands, Severities, TriggerLevels

\* The mode starts NORMAL, with nothing reported.
LEMMA SheathInitInv == SheathInit => SheathInv
BY SheathAssumption, ClearIsEmpty, QuietWhenClear
   DEF SheathInit, SheathInv, SheathType, SheathTypeOK, SuspendedWhileTriggered, Suspended,
       Clear, SheathAssumption

\* Every report, clearing, test and command of an operator keeps it.
LEMMA SheathNextInv ==
  ASSUME SheathInv, [SheathNext]_sheathVars
  PROVE  SheathInv'
<1> SUFFICES /\ SheathType' /\ goodRounds' < RecoveryRequiredRounds
             /\ (sheath \in {"NORMAL", "EVALUATING"} => quiet = RecoveryRequiredRounds)'
             /\ (sheath = "RECOVERING" => quiet = goodRounds)'
             /\ (sheath = "NORMAL" => triggers = Clear)'
             /\ (sheath = "EVALUATING" =>
                   ~Stands("critical", triggers) /\ ~Stands("manual", triggers))'
  BY IdsAre DEF SheathInv, SuspendedWhileTriggered, Suspended, EntriesBlocked, Clear
<1> USE SheathAssumption DEF SheathInv, SheathType, SheathTypeOK, SheathAssumption, Suspended
<1>1. CASE ReportTrigger
  <2>1. PICK i \in Ids : \E sev \in Reports[i] :
          /\ triggers' = [triggers EXCEPT ![i] = sev]
          /\ React(triggers') /\ UNCHANGED badChecks
    BY <1>1 DEF ReportTrigger
  <2>2. PICK sev \in Reports[i] :
          /\ triggers' = [triggers EXCEPT ![i] = sev]
          /\ React(triggers') /\ UNCHANGED badChecks
    BY <2>1
  <2>3. triggers' \in [Ids -> TriggerLevels] /\ \A j \in Ids : triggers'[j] \in Reports[j] \cup {"none"}
    BY <2>2, IdsAre
  <2>4. SheathType' /\ goodRounds' < RecoveryRequiredRounds
    BY <2>2, <2>3 DEF React
  <2> QED BY <2>2, <2>4 DEF React, Stops, SuspendedWhileTriggered
<1>2. CASE ClearTrigger
  <2>1. PICK i \in Ids : triggers' = [triggers EXCEPT ![i] = "none"]
    BY <1>2 DEF ClearTrigger
  <2>2. triggers' \in [Ids -> TriggerLevels] /\ \A j \in Ids : triggers'[j] \in Reports[j] \cup {"none"}
    BY <2>1 DEF TriggerLevels
  <2>3. triggers = Clear => triggers' = Clear
    BY <2>1, <2>2 DEF Clear
  <2>4. \A sev \in {"critical", "manual"} : Stands(sev, triggers') => Stands(sev, triggers)
    BY <2>1 DEF Stands, Severities
  <2> QED BY <1>2, <2>2, <2>3, <2>4 DEF ClearTrigger, BeginRecovery, SuspendedWhileTriggered
<1>3. CASE Unsheath
  <2>1. CASE sheath \in {"ACTIVE", "PERSISTENT"}
    BY <1>3, <2>1 DEF Unsheath, BeginRecovery, SuspendedWhileTriggered
  <2>2. CASE sheath = "EVALUATING"
    <3>1. triggers' = [i \in Ids |-> IF triggers[i] = "critical" THEN "critical" ELSE "none"]
      BY <1>3, <2>2 DEF Unsheath
    <3>2. \A i \in Ids : triggers[i] # "critical"
      BY <2>2 DEF SuspendedWhileTriggered, Stands, Severities
    <3>3. triggers' = Clear
      BY <3>1, <3>2 DEF Clear
    <3> QED BY <1>3, <2>2, <3>3, ClearIsEmpty DEF Unsheath, Clear, SuspendedWhileTriggered
  <2> QED BY <1>3, <2>1, <2>2 DEF Unsheath
<1>4. CASE EvaluationTick
  BY <1>4 DEF EvaluationTick, StillEvaluating, Decide, DecideOnTriggers, EndEvaluation,
              BackToActive, SuspendedWhileTriggered
<1>5. CASE GoodTick
  BY <1>5, ClearIsEmpty DEF GoodTick, Clear, SuspendedWhileTriggered
<1>6. CASE badChecks <= MaxRecoveryTries /\ BadTick
  BY <1>6 DEF BadTick, SuspendedWhileTriggered
<1>7. CASE UNCHANGED sheathVars
  BY <1>7 DEF sheathVars, SuspendedWhileTriggered
<1> QED BY <1>1, <1>2, <1>3, <1>4, <1>5, <1>6, <1>7 DEF SheathNext

(* In NORMAL no trigger stands and nothing blocks entries, no critical or  *)
(* manual one is merely evaluated, and since betting was last stopped, or  *)
(* a check last failed, all the good rounds required have passed in a row, *)
(* whatever their number. (core/sheath-mode.ts, all transitions)           *)
THEOREM SuspensionHolds == SheathSpec => []SuspendedWhileTriggered
<1>1. SheathInv => SuspendedWhileTriggered
  BY DEF SheathInv
<1> QED BY <1>1, SheathInitInv, SheathNextInv, PTL DEF SheathSpec
-----------------------------------------------------------------------------
(* The daily limit, for any limit and any number of entries, in each of    *)
(* the three ledgers: what they may release or confirm is a parameter.     *)
(* Entries exceed the limit by no more than the slots that were given up   *)
(* for entries that kept or took one.  The invariant ties the two counters *)
(* to the rows.                                                            *)
\* Inductive: the counters are those of the rows, and within the limit.
DailyInv == TypeOK /\ CountersMatchRows /\ EntriesWithinLimit

\* The rows in a status are finitely many.
LEMMA RowsAreFinite == \A s : IsFiniteSet(InStatus(s)) /\ Cardinality(InStatus(s)) \in Nat
BY DailyEntriesAssumption, FS_Subset, FS_CardinalityType
   DEF InStatus, DailyEntriesAssumption

\* What changing one row's status does to the number of rows in a status.
LEMMA RowRecount ==
  ASSUME TypeOK, NEW r \in Rows, NEW to \in Statuses,
         status' = [status EXCEPT ![r] = to], to # status[r]
  PROVE  \A s \in Statuses :
            Cardinality(InStatus(s))' =
               IF s = to THEN Cardinality(InStatus(s)) + 1
               ELSE IF s = status[r] THEN Cardinality(InStatus(s)) - 1
               ELSE Cardinality(InStatus(s))
<1> TAKE s \in Statuses
<1>1. \A q \in Rows : status'[q] = IF q = r THEN to ELSE status[q]
  BY DEF TypeOK
<1>2. CASE s = to
  <2>1. InStatus(s)' = InStatus(s) \cup {r} /\ r \notin InStatus(s)
    BY <1>1, <1>2 DEF InStatus
  <2> QED BY <1>2, <2>1, RowsAreFinite, FS_AddElement
<1>3. CASE s # to /\ s = status[r]
  <2>1. InStatus(s)' = InStatus(s) \ {r} /\ r \in InStatus(s)
    BY <1>1, <1>3 DEF InStatus
  <2> QED BY <1>3, <2>1, RowsAreFinite, FS_RemoveElement
<1>4. CASE s # to /\ s # status[r]
  <2>1. InStatus(s)' = InStatus(s)
    BY <1>1, <1>4 DEF InStatus
  <2> QED BY <1>4, <2>1
<1> QED BY <1>2, <1>3, <1>4

\* There is no row at first.
LEMMA DailyInitInv == Init => DailyInv
<1> SUFFICES ASSUME Init PROVE DailyInv
  OBVIOUS
<1>1. TypeOK
  BY DailyEntriesAssumption DEF Init, TypeOK, Statuses, DailyEntriesAssumption
<1>2. InStatus("RESERVED") = {} /\ InStatus("CONFIRMED") = {}
  BY DEF Init, InStatus
<1>3. CountersMatchRows /\ EntriesWithinLimit
  BY <1>2, FS_EmptySet, DailyEntriesAssumption
     DEF Init, CountersMatchRows, EntriesWithinLimit, DailyEntriesAssumption
<1> QED BY <1>1, <1>3 DEF DailyInv

\* The two inequalities that tie the counters to the rows, in numbers alone.
Balanced(kept, sure, r, c, u) ==
    c = sure /\ r <= kept /\ kept <= r + u /\ sure + kept <= MaxEntries + u

\* The invariant in the numbers of the rows.
LEMMA InvInNumbers ==
  DailyInv <=> TypeOK /\ Balanced(Cardinality(InStatus("RESERVED")),
                            Cardinality(InStatus("CONFIRMED")),
                            reserved, confirmed, unheld)
BY DEF DailyInv, CountersMatchRows, EntriesWithinLimit, Balanced

\* What is taken from a counter, or not because it stands at 0, keeps them
\* tied to the rows.
LEMMA SlotGivenUp ==
  ASSUME NEW kept \in Nat, NEW sure \in Nat, NEW r \in Nat, NEW c \in Nat,
         NEW u \in Nat, Balanced(kept, sure, r, c, u)
  PROVE  /\ kept > 0 => /\ Balanced(kept - 1, sure, Decrement(r), c, u)
                        /\ Balanced(kept - 1, sure + 1, Decrement(r), c + 1, u)
         /\ Balanced(kept, sure + 1, Decrement(r), c + 1, u + 1)
         /\ sure > 0 => Balanced(kept, sure - 1, Decrement(r), Decrement(c), u + 1)
         /\ Decrement(r) \in Nat /\ Decrement(c) \in Nat
BY DailyEntriesAssumption DEF Balanced, Decrement, DailyEntriesAssumption

\* A reservation, a confirmation, a failure and a release keep it, of whatever
\* rows.
LEMMA DailyNextInv ==
  ASSUME DailyInv, [Next]_vars
  PROVE  DailyInv'
<1> USE DailyEntriesAssumption DEF DailyEntriesAssumption
<1> DEFINE kept == Cardinality(InStatus("RESERVED"))
           sure == Cardinality(InStatus("CONFIRMED"))
<1>1. /\ confirmed \in Nat /\ reserved \in Nat /\ TypeOK
      /\ unheld \in Nat /\ status \in [Rows -> Statuses]
      /\ kept \in Nat /\ sure \in Nat
      /\ Balanced(kept, sure, reserved, confirmed, unheld)
  BY RowsAreFinite, InvInNumbers DEF TypeOK
<1>2. \A r \in Rows : /\ status[r] = "RESERVED" => kept > 0
                      /\ status[r] = "CONFIRMED" => sure > 0
  <2> TAKE r \in Rows
  <2>1. status[r] = "RESERVED" => r \in InStatus("RESERVED")
    BY DEF InStatus
  <2>2. status[r] = "CONFIRMED" => r \in InStatus("CONFIRMED")
    BY DEF InStatus
  <2> QED BY <1>1, <2>1, <2>2, RowsAreFinite, FS_EmptySet
<1>3. \A r \in Rows, to \in Statuses :
         (to # status[r] /\ status' = [status EXCEPT ![r] = to])
            => /\ status' \in [Rows -> Statuses]
               /\ kept' = IF to = "RESERVED" THEN kept + 1
                          ELSE IF status[r] = "RESERVED" THEN kept - 1 ELSE kept
               /\ sure' = IF to = "CONFIRMED" THEN sure + 1
                          ELSE IF status[r] = "CONFIRMED" THEN sure - 1 ELSE sure
  <2> SUFFICES ASSUME NEW r \in Rows, NEW to \in Statuses, to # status[r],
                      status' = [status EXCEPT ![r] = to]
               PROVE  <1>3!(r, to)!2
    OBVIOUS
  <2>1. status' \in [Rows -> Statuses]
    BY <1>1
  <2>2. "RESERVED" \in Statuses /\ "CONFIRMED" \in Statuses
    BY DEF Statuses
  <2> QED BY <1>1, <2>1, <2>2, RowRecount
<1>s. Statuses = {"none", "RESERVED", "CONFIRMED", "RELEASED"}
  BY DEF Statuses
<1>i. ASSUME status' \in [Rows -> Statuses], confirmed' \in Nat, reserved' \in Nat,
             unheld' \in Nat, unheld' <= MaxUnheld,
             Balanced(kept', sure', reserved', confirmed', unheld')
      PROVE  DailyInv'
  <2>1. TypeOK'
    BY <1>i DEF TypeOK
  <2> QED BY <1>i, <2>1 DEF DailyInv, CountersMatchRows, EntriesWithinLimit, Balanced
<1>4. CASE Reserve
  <2>1. PICK r \in Rows : /\ status[r] = "none"
                          /\ status' = [status EXCEPT ![r] = "RESERVED"]
    BY <1>4 DEF Reserve
  <2>2. /\ reserved' = reserved + 1 /\ confirmed' = confirmed /\ unheld' = unheld
        /\ confirmed + reserved < MaxEntries
    BY <1>4 DEF Reserve, HasCapacity
  <2>3. status' \in [Rows -> Statuses] /\ kept' = kept + 1 /\ sure' = sure
    BY <1>s, <1>3, <2>1
  <2> HIDE DEF kept, sure
  <2>4. Balanced(kept', sure', reserved', confirmed', unheld')
    BY <1>1, <2>2, <2>3 DEF Balanced
  <2>5. unheld <= MaxUnheld
    BY <1>1 DEF TypeOK
  <2> QED BY <1>1, <1>i, <2>2, <2>3, <2>4, <2>5
<1>5. ASSUME NEW r \in Rows, Confirm(r) PROVE DailyInv'
  <2>1. status[r] \in {"RESERVED", "RELEASED"} /\ status' = [status EXCEPT ![r] = "CONFIRMED"]
    BY <1>5 DEF Confirm
  <2>2. /\ reserved' = Decrement(reserved) /\ confirmed' = confirmed + 1
        /\ unheld' = unheld + (IF status[r] = "RESERVED" THEN 0 ELSE 1)
        /\ unheld' <= MaxUnheld
    BY <1>5 DEF Confirm, GivesUpSlot
  <2>3. /\ status' \in [Rows -> Statuses] /\ sure' = sure + 1
        /\ kept' = IF status[r] = "RESERVED" THEN kept - 1 ELSE kept
    BY <1>s, <1>3, <2>1
  <2> HIDE DEF kept, sure
  <2>4. status[r] = "RESERVED" => kept > 0
    BY <1>2, Zenon
  <2>g. /\ kept > 0 => Balanced(kept - 1, sure + 1, Decrement(reserved), confirmed + 1, unheld)
        /\ Balanced(kept, sure + 1, Decrement(reserved), confirmed + 1, unheld + 1)
        /\ Decrement(reserved) \in Nat
    BY <1>1, SlotGivenUp
  <2>5. /\ Balanced(kept', sure', reserved', confirmed', unheld')
        /\ reserved' \in Nat /\ unheld' \in Nat /\ confirmed' \in Nat
    <3>1. CASE status[r] = "RESERVED"
      BY <1>1, <2>2, <2>3, <2>4, <2>g, <3>1
    <3>2. CASE status[r] # "RESERVED"
      BY <1>1, <2>2, <2>3, <2>g, <3>2
    <3> QED BY <3>1, <3>2
  <2> QED BY <1>i, <2>2, <2>3, <2>5
<1>6. ASSUME NEW r \in Rows, Release(r) PROVE DailyInv'
  <2>1. status[r] \in {"RESERVED", "CONFIRMED"} /\ status' = [status EXCEPT ![r] = "RELEASED"]
    BY <1>6 DEF Release
  <2>2. /\ reserved' = Decrement(reserved)
        /\ confirmed' = IF status[r] = "CONFIRMED" THEN Decrement(confirmed) ELSE confirmed
        /\ unheld' = unheld + (IF status[r] = "RESERVED" THEN 0 ELSE 1)
        /\ unheld' <= MaxUnheld
    BY <1>6 DEF Release, GivesUpSlot
  <2>3. /\ status' \in [Rows -> Statuses]
        /\ kept' = IF status[r] = "RESERVED" THEN kept - 1 ELSE kept
        /\ sure' = IF status[r] = "CONFIRMED" THEN sure - 1 ELSE sure
    BY <1>s, <1>3, <2>1
  <2> HIDE DEF kept, sure
  <2>4. /\ status[r] = "RESERVED" => kept > 0
        /\ status[r] = "CONFIRMED" => sure > 0
    BY <1>2, Zenon
  <2>g. /\ kept > 0 => Balanced(kept - 1, sure, Decrement(reserved), confirmed, unheld)
        /\ sure > 0 => Balanced(kept, sure - 1, Decrement(reserved), Decrement(confirmed), unheld + 1)
        /\ Decrement(reserved) \in Nat /\ Decrement(confirmed) \in Nat
    BY <1>1, SlotGivenUp
  <2>5. /\ Balanced(kept', sure', reserved', confirmed', unheld')
        /\ reserved' \in Nat /\ unheld' \in Nat /\ confirmed' \in Nat
    <3>1. CASE status[r] = "RESERVED"
      BY <1>1, <2>2, <2>3, <2>4, <2>g, <3>1
    <3>2. CASE status[r] = "CONFIRMED"
      BY <1>1, <2>2, <2>3, <2>4, <2>g, <3>2
    <3> QED BY <2>1, <3>1, <3>2
  <2> QED BY <1>i, <2>2, <2>3, <2>5
<1>7. CASE UNCHANGED vars
  BY <1>7 DEF vars, DailyInv, TypeOK, CountersMatchRows, EntriesWithinLimit, InStatus
<1> QED BY <1>4, <1>5, <1>6, <1>7 DEF Next

\* Hence it always holds, in each of the three ledgers.
LEMMA DailyInvariant == Spec => []DailyInv
BY DailyInitInv, DailyNextInv, PTL DEF Spec

-----------------------------------------------------------------------------

\* In each of the three ledgers: the confirmed counter is exact, and the
\* reserved one is short by no more than what was given up without being kept.
THEOREM CountersExact == Spec => []CountersMatchRows
BY DailyInvariant, PTL DEF DailyInv

\* "Confirmed entries for a day never exceed" the limit while no confirmed
\* entry was released and no released one confirmed; after that they exceed
\* it by no more than the number of times this was done.
THEOREM LimitHolds == Spec => []EntriesWithinLimit
BY DailyInvariant, PTL DEF DailyInv

\* The ledger's types, whatever release() and confirm() accept.
LEMMA LedgerTypesInit == Init => TypeOK
BY DailyEntriesAssumption DEF Init, TypeOK, Statuses, DailyEntriesAssumption

\* Reservations, confirmations, releases and new days keep the types.
LEMMA LedgerTypesNext ==
  ASSUME TypeOK, [Next]_vars
  PROVE  TypeOK'
<1>1. ASSUME NEW n \in Nat PROVE Decrement(n) \in Nat
  BY DEF Decrement
<1>2. CASE Reserve
  BY <1>2 DEF Reserve, TypeOK, Statuses
<1>3. ASSUME NEW r \in Rows, GivesUpSlot(r) PROVE reserved' \in Nat /\ unheld' \in 0..MaxUnheld
  BY <1>1, <1>3, DailyEntriesAssumption DEF GivesUpSlot, TypeOK, DailyEntriesAssumption
<1>4. ASSUME NEW r \in Rows, Confirm(r) PROVE TypeOK'
  BY <1>1, <1>3, <1>4 DEF Confirm, TypeOK, Statuses
<1>5. ASSUME NEW r \in Rows, Release(r) PROVE TypeOK'
  BY <1>1, <1>3, <1>5 DEF Release, TypeOK, Statuses
<1>6. CASE UNCHANGED vars
  BY <1>6 DEF vars, TypeOK
<1> QED BY <1>2, <1>4, <1>5, <1>6, Zenon DEF Next
-----------------------------------------------------------------------------
(* Recovery and the sweep: a count made before a resumption stays good.    *)
\* Bets left UNKNOWN when somebody counted none are new since the count.
CountedNone == \A r \in Callers : step[r] = "resume" => Unknown \subseteq fresh[r]
\* Inductive: types, what was counted, and what was resumed over.
RecInv == RecTypeOK /\ CountedNone /\ ResumeSawZero

\* Nothing is counted at first.
LEMMA RecInitInv == RecInit => RecInv
BY DEF RecInit, RecInv, RecTypeOK, CountedNone, ResumeSawZero, Callers

\* A caller that goes on to a step is at that step, and the others stay.
LEMMA RunTypes ==
  ASSUME RecTypeOK, NEW r \in Callers,
         NEW s \in {"none", "count", "sweep", "bets", "balance", "resume", "halt"}, ToStep(r, s)
  PROVE  /\ step' \in [Callers -> {"none", "count", "sweep", "bets", "balance", "resume", "halt"}]
         /\ step'[r] = s /\ \A q \in Callers \ {r} : step'[q] = step[q]
BY DEF RecTypeOK, ToStep

\* A bet becomes UNKNOWN, is counted, swept, resolved: each step keeps it.
LEMMA RecNextInv ==
  ASSUME RecInv, [RecNext]_recVars
  PROVE  RecInv'
<1> USE DEF RecInv, ResumeSawZero
<1>1. Runs \subseteq Callers /\ "operator" \in Callers
  BY DEF Callers
<1>2. CASE BecomesUnknown
  BY <1>2 DEF BecomesUnknown, RecTypeOK, CountedNone, Unknown
<1>3. CASE ForceResumeCounts
  BY <1>1, <1>3, RunTypes DEF ForceResumeCounts, RecTypeOK, CountedNone, Unknown
<1>4. CASE ForceResume
  <2>1. /\ step' \in [Callers -> {"none", "count", "sweep", "bets", "balance", "resume", "halt"}]
        /\ step'["operator"] = "none"
        /\ \A q \in Callers \ {"operator"} : step'[q] = step[q]
    BY <1>1, <1>4, RunTypes DEF ForceResume
  <2>2. resumedOver' = {}
    BY <1>1, <1>4 DEF ForceResume, CountedNone
  <2>3. RecTypeOK'
    BY <1>4, <2>1, <2>2 DEF ForceResume, RecTypeOK
  <2>4. CountedNone'
    BY <1>4, <2>1 DEF ForceResume, RecTypeOK, CountedNone, Unknown
  <2> QED BY <2>2, <2>3, <2>4
<1>5. CASE ManualResolve
  BY <1>5 DEF ManualResolve, RecTypeOK, CountedNone, Unknown
<1>6. ASSUME NEW r \in Runs, StartRun(r) PROVE RecInv'
  BY <1>1, <1>6, RunTypes DEF StartRun, RecTypeOK, CountedNone, Unknown
<1>7. ASSUME NEW r \in Runs, CountUnknown(r) PROVE RecInv'
  BY <1>1, <1>7, RunTypes DEF CountUnknown, RunFails, RecTypeOK, CountedNone, Unknown
<1>8. ASSUME NEW r \in Runs, BeginSweep(r) PROVE RecInv'
  <2>1. PICK s \in {"balance", "bets"} : ToStep(r, s)
    BY <1>8 DEF BeginSweep
  <2>2. /\ step' \in [Callers -> {"none", "count", "sweep", "bets", "balance", "resume", "halt"}]
        /\ step'[r] = s /\ \A q \in Callers \ {r} : step'[q] = step[q]
    BY <1>1, <2>1, RunTypes
  <2>3. swept' \in [Runs -> SUBSET Bets] /\ leftUnknown' \in [Runs -> BOOLEAN]
    BY <1>8 DEF BeginSweep, RecTypeOK, Unknown
  <2> QED BY <1>1, <1>8, <2>2, <2>3 DEF BeginSweep, RecTypeOK, CountedNone, Unknown
<1>9. ASSUME NEW r \in Runs, RecoverBet(r) PROVE RecInv'
  BY <1>1, <1>9, ZenonT(30) DEF RecoverBet, RecTypeOK, CountedNone, Unknown
<1>10. ASSUME NEW r \in Runs, EndSweep(r) PROVE RecInv'
  BY <1>1, <1>10, RunTypes DEF EndSweep, RecTypeOK, CountedNone, Unknown
<1>11. ASSUME NEW r \in Runs, Reconcile(r) PROVE RecInv'
  BY <1>1, <1>11, RunTypes DEF Reconcile, Evaluate, Reconciled, BalanceAndBets,
                             RecTypeOK, CountedNone, Unknown
<1>12. ASSUME NEW r \in Runs, Conclude(r) PROVE RecInv'
  BY <1>1, <1>12, RunTypes DEF Conclude, RecTypeOK, CountedNone, Unknown
<1>13. CASE UNCHANGED recVars
  BY <1>13 DEF recVars, RecTypeOK, CountedNone, Unknown
<1> QED BY <1>2, <1>3, <1>4, <1>5, <1>6, <1>7, <1>8, <1>9, <1>10, <1>11, <1>12, <1>13 DEF RecNext

(* Neither a run of recovery nor an operator resumes betting over a bet    *)
(* that was UNKNOWN and there to be counted, for any bets, runs and bets   *)
(* of a sweep. (core/recovery-manager.ts evaluateResumption, forceResume;  *)
(* ledger/unknown-state-reconciler.ts)                                     *)
THEOREM ResumeIsOverNothing == RecSpec => [](RecTypeOK /\ ResumeSawZero)
<1>1. RecInv => RecTypeOK /\ ResumeSawZero
  BY DEF RecInv
<1> QED BY <1>1, RecInitInv, RecNextInv, PTL DEF RecSpec
-----------------------------------------------------------------------------
(* The instance lock, in Redis or in memory.                               *)
\* Inductive as it stands, with the types.
LeaseInv == LeaseTypeOK /\ LeaseExclusive

\* Nobody holds a lease at first.
LEMMA LeaseInitInv == LeaseInit => LeaseInv
BY DEF LeaseInit, LeaseInv, LeaseTypeOK, LeaseExclusive

\* Expiries, heartbeats and releases, answered or not, keep it.
LEMMA LeaseNextInv ==
  ASSUME LeaseInv, [LeaseNext]_leaseVars
  PROVE  LeaseInv'
<1> USE LeaseAssumption DEF LeaseInv, LeaseTypeOK, LeaseExclusive, Takes, GivesUp, LeaseAssumption
<1>1. \A c \in LockClients : ProcessOf(c) \in Processes
  BY DEF Processes
<1>2. CASE Expire
  BY <1>2 DEF Expire
<1>3. CASE ExpireLocal
  BY <1>1, <1>3 DEF ExpireLocal
<1>4. ASSUME NEW c \in LockClients, Acquire(c) PROVE LeaseInv'
  BY <1>4 DEF Acquire
<1>5. ASSUME NEW c \in LockClients, AcquireLocal(c) PROVE LeaseInv'
  BY <1>1, <1>5 DEF AcquireLocal
<1>6. ASSUME NEW c \in LockClients, Heartbeat(c) PROVE LeaseInv'
  BY <1>6 DEF Heartbeat
<1>7. ASSUME NEW c \in LockClients, HeartbeatAnswered(c) PROVE LeaseInv'
  BY <1>7 DEF HeartbeatAnswered
<1>8. ASSUME NEW c \in LockClients, ReleaseLock(c) PROVE LeaseInv'
  BY <1>8 DEF ReleaseLock, Deleted, CompareAndDelete
<1>9. ASSUME NEW c \in LockClients, ReleaseAnswered(c) PROVE LeaseInv'
  BY <1>9 DEF ReleaseAnswered
<1>10. ASSUME NEW c \in LockClients, ReleaseLocal(c) PROVE LeaseInv'
  BY <1>1, <1>10 DEF ReleaseLocal, Deleted, CompareAndDelete
<1>11. CASE UNCHANGED leaseVars
  BY <1>11 DEF leaseVars
<1> QED BY <1>2, <1>3, <1>4, <1>5, <1>6, <1>7, <1>8, <1>9, <1>10, <1>11 DEF LeaseNext

(* Until its lease runs out or it releases it, whoever thinks that it      *)
(* holds a lock does hold it, in any number of processes with any number   *)
(* of clients, whatever answers are late or lost. (persistence/locks       *)
(* tryAcquire, refresh, release)                                           *)
THEOREM OneHolder == LeaseSpec => [](LeaseTypeOK /\ LeaseExclusive)
<1>1. LeaseInv => LeaseTypeOK /\ LeaseExclusive
  BY DEF LeaseInv
<1> QED BY <1>1, LeaseInitInv, LeaseNextInv, PTL DEF LeaseSpec
-----------------------------------------------------------------------------
(* The entry decision: a halt by the divergence monitor is manual, and a   *)
(* manual level is left by an operator only.                               *)
\* The highest level needs a manual recovery, and entries that were halted
\* are halted still: only the recovery takes the level back.
HaltIsHeld ==
  /\ monitor.level = 5 => monitor.manual
  /\ haltSeen => monitor.level = 5
  /\ decision = NoDecision \/ ~decision.taken

\* Inductive: a halt is manual, and entries that are halted stay so until an
\* operator lets go.
EntryInv == EntryTypeOK /\ HaltIsHeld /\ HaltNeedsOperator

\* What a divergence monitor keeps.
MonitorType == [points : 0..MinWindow, level : Levels, manual : BOOLEAN, grace : 0..Grace]

\* An evaluation reaches level 5 only by hand, and never leaves it.
LEMMA EvaluatedHolds ==
  ASSUME NEW m \in MonitorType, NEW raw \in Levels
  PROVE  /\ Evaluated(m, raw) \in MonitorType
         /\ (m.level = 5 => m.manual) =>
              /\ Evaluated(m, raw).level = 5 => Evaluated(m, raw).manual
              /\ m.level = 5 => Evaluated(m, raw).level = 5
<1> DEFINE severe == raw >= 3 /\ raw > m.level
<1>1. /\ m.points \in 0..MinWindow /\ m.level \in {0, 1, 3, 5} /\ m.manual \in BOOLEAN
      /\ m.grace \in 0..Grace /\ raw \in {0, 1, 3, 5}
  BY DEF MonitorType, Levels
<1>2. CASE Evaluated(m, raw) = m
  BY <1>2
<1>3. CASE Evaluated(m, raw) # m
  <2>1. ~m.manual /\ Evaluated(m, raw) = [m EXCEPT !.level = raw, !.manual = severe]
    BY <1>1, <1>3 DEF Evaluated
  <2>2. CASE severe
    <3>1. Evaluated(m, raw) = [m EXCEPT !.level = raw, !.manual = TRUE]
      BY <2>1, <2>2
    <3> HIDE DEF severe
    <3> QED BY <2>1, <3>1 DEF MonitorType
  <2>3. CASE ~severe
    <3>1. Evaluated(m, raw) = [m EXCEPT !.level = raw, !.manual = FALSE]
      BY <2>1, <2>3
    <3>2. m.level = 5 \/ raw # 5
      BY <1>1, <2>3
    <3> HIDE DEF severe
    <3> QED BY <2>1, <3>1, <3>2 DEF MonitorType
  <2> QED BY <2>2, <2>3
<1> QED BY <1>2, <1>3

\* So does an observation, which evaluates when there are enough points.
LEMMA ObservedHolds ==
  ASSUME NEW m \in MonitorType, NEW raw \in Levels
  PROVE  /\ Observed(m, raw) \in MonitorType
         /\ (m.level = 5 => m.manual) =>
              /\ Observed(m, raw).level = 5 => Observed(m, raw).manual
              /\ m.level = 5 => Observed(m, raw).level = 5
<1> DEFINE n == [m EXCEPT !.points = AtMost(@ + 1, MinWindow), !.grace = Less(@)]
<1>1. AtMost(m.points + 1, MinWindow) \in 0..MinWindow /\ Less(m.grace) \in 0..Grace
  BY EntryAssumption DEF EntryAssumption, MonitorType, AtMost, Less
<1>2. n \in MonitorType /\ n.level = m.level /\ n.manual = m.manual
  BY <1>1 DEF MonitorType
<1>3. Observed(m, raw) = Evaluated(n, raw)
  BY DEF Observed
<1> HIDE DEF n
<1> QED BY <1>2, <1>3, EvaluatedHolds

\* Nothing is halted at first.
LEMMA EntryInitInv == EntryInit => EntryInv
<1> SUFFICES ASSUME EntryInit PROVE EntryInv
  OBVIOUS
<1>1. monitor \in MonitorType
  BY EntryAssumption DEF EntryInit, MonitorType, EntryAssumption, Levels
<1>2. circuit \in [state : {"CLOSED", "OPEN", "HALF_OPEN"}, failures : 0..FailThreshold]
  BY EntryAssumption DEF EntryInit, EntryAssumption
<1>3. /\ ready = FALSE /\ buffer = FALSE /\ learned = 0 /\ lastProb = Nothing /\ fit = 0
      /\ decision = NoDecision /\ haltSeen = FALSE
  BY DEF EntryInit
<1>4. EntryTypeOK
  <2>1. ready \in BOOLEAN /\ buffer \in BOOLEAN /\ haltSeen \in BOOLEAN
    BY <1>3
  <2>2. learned \in 0..WarmAt /\ fit \in Levels
    BY <1>3, EntryAssumption DEF EntryAssumption, Levels
  <2> QED BY <1>1, <1>2, <1>3, <2>1, <2>2 DEF EntryTypeOK, MonitorType
<1> QED BY <1>4 DEF EntryInit, EntryInv, HaltIsHeld, HaltNeedsOperator, NoDecision

\* Observations, operators, the circuit and the decision: each keeps it.
LEMMA EntryNextInv ==
  ASSUME EntryInv, [EntryNext]_entryVars
  PROVE  EntryInv'
<1> USE DEF EntryInv
<1>1. monitor \in MonitorType /\ (monitor.level = 5 => monitor.manual) /\ fit \in Levels
  BY DEF EntryTypeOK, MonitorType, HaltIsHeld
<1>d. NoDecision.taken
  BY DEF NoDecision
<1>2. CASE EvaluateEntry
  <2>1. PICK live \in BOOLEAN, conditions \in BOOLEAN :
          \/ RejectUnready(live, conditions)
          \/ \E acie \in {Nothing, "skip", "entry"}, prob \in {"low", "high"}, valid \in BOOLEAN :
               EvaluateReady(live, conditions, acie, prob, valid)
    BY <1>2 DEF EvaluateEntry
  <2>2. UNCHANGED <<ready, buffer, learned, fit, circuit>>
    BY <1>2 DEF EvaluateEntry
  <2>3. CASE RejectUnready(live, conditions)
    BY <2>2, <2>3 DEF RejectUnready, Decided, EntryTypeOK, HaltIsHeld, HaltNeedsOperator
  <2>4. ASSUME NEW acie \in {Nothing, "skip", "entry"}, NEW prob \in {"low", "high"},
               NEW valid \in BOOLEAN, EvaluateReady(live, conditions, acie, prob, valid)
        PROVE  EntryInv'
    <3>1. PICK now : now = Evaluated(monitor, fit)
      OBVIOUS
    <3>2. /\ now \in MonitorType /\ (now.level = 5 => now.manual)
          /\ monitor.level = 5 => now.level = 5
      BY <1>1, <3>1, EvaluatedHolds
    <3>3. monitor' = now /\ haltSeen' = (haltSeen \/ now.level = 5)
      BY <2>4, <3>1 DEF EvaluateReady, Becomes, EntriesAllowed
    <3>4. haltSeen' \in BOOLEAN /\ (haltSeen' => now.level = 5)
      BY <3>2, <3>3 DEF HaltIsHeld
    <3> DEFINE signal == IF acie # Nothing /\ valid THEN prob ELSE Nothing
               cold == live /\ learned < WarmAt
               kept == IF live /\ (cold \/ StateFeatureVersion # EngineFeatureVersion)
                       THEN Nothing ELSE signal
               withheld == acie # "entry" \/ cold \/ now.level = 5
               approved == Approves(conditions, IF withheld THEN Nothing ELSE signal)
    <3>5. /\ lastProb' = IF signal = Nothing THEN lastProb ELSE signal
          /\ Decided(live, kept, approved)
      BY <2>4, <3>1 DEF EvaluateReady, EntriesAllowed
    <3>a. signal \in {Nothing, "low", "high"} /\ kept \in {Nothing, "low", "high"}
      OBVIOUS
    <3>6. now.level = 5 => ~approved
      BY DEF Approves, Nothing
    <3> HIDE DEF signal, cold, kept, withheld, approved
    <3>7. EntryTypeOK'
      BY <2>2, <3>2, <3>3, <3>4, <3>5, <3>a DEF EntryTypeOK, MonitorType, Decided
    <3>8. HaltIsHeld'
      BY <3>2, <3>3, <3>4, <3>5 DEF HaltIsHeld, Decided
    <3>9. HaltNeedsOperator'
      BY <3>3, <3>4, <3>5, <3>6 DEF HaltNeedsOperator, Decided
    <3> QED BY <3>7, <3>8, <3>9
  <2> QED BY <2>1, <2>3, <2>4
<1>3. CASE BridgeTakes
  BY <1>3, <1>d DEF BridgeTakes, EntryTypeOK, HaltIsHeld, HaltNeedsOperator
<1>4. ASSUME NEW n \in 0..WarmAt, Prewarm(n) PROVE EntryInv'
  BY <1>4 DEF Prewarm, EntryTypeOK, HaltIsHeld, HaltNeedsOperator
<1>5. CASE decision = NoDecision /\ ObserveCrash
  <2>1. learned' \in 0..WarmAt
    BY <1>5, EntryAssumption DEF ObserveCrash, AtMost, EntryTypeOK, EntryAssumption
  <2>2. CASE lastProb = Nothing
    BY <1>5, <2>1, <2>2, <1>d DEF ObserveCrash, EntryTypeOK, HaltIsHeld, HaltNeedsOperator
  <2>3. CASE lastProb # Nothing
    <3>1. PICK first \in Levels, second \in Levels :
            /\ fit' = second
            /\ monitor' = Observed(Observed(monitor, first), second)
            /\ haltSeen' = \/ haltSeen
                           \/ ~EntriesAllowed(Observed(monitor, first))
                           \/ ~EntriesAllowed(monitor')
      BY <1>5, <2>3 DEF ObserveCrash
    <3>2. PICK m : m = Observed(monitor, first)
      OBVIOUS
    <3>3. m \in MonitorType /\ (m.level = 5 => m.manual) /\ (monitor.level = 5 => m.level = 5)
      BY <1>1, <3>2, ObservedHolds
    <3>4. /\ monitor' \in MonitorType /\ (monitor'.level = 5 => monitor'.manual)
          /\ m.level = 5 => monitor'.level = 5
      BY <3>1, <3>2, <3>3, ObservedHolds
    <3>5. haltSeen' \in BOOLEAN /\ (haltSeen' => monitor'.level = 5)
      BY <3>1, <3>2, <3>3, <3>4 DEF EntriesAllowed, HaltIsHeld
    <3>6. EntryTypeOK'
      BY <1>5, <2>1, <3>1, <3>4, <3>5 DEF ObserveCrash, EntryTypeOK, MonitorType
    <3> QED BY <1>5, <1>d, <3>4, <3>5, <3>6 DEF ObserveCrash, HaltIsHeld, HaltNeedsOperator
  <2> QED BY <2>2, <2>3
<1>6. CASE decision = NoDecision /\ ManualRecover
  <2>1. Grace \in 0..Grace
    BY EntryAssumption DEF EntryAssumption
  <2>2. monitor' \in MonitorType /\ monitor'.level = 0
    BY <1>1, <1>6, <2>1 DEF ManualRecover, MonitorType, Levels
  <2>3. EntryTypeOK'
    BY <1>6, <2>2 DEF ManualRecover, EntryTypeOK, MonitorType
  <2> QED BY <1>6, <1>d, <2>2, <2>3 DEF ManualRecover, HaltIsHeld, HaltNeedsOperator
<1>7. CASE decision = NoDecision /\ CircuitStep
  <2>1. circuit' \in [state : {"CLOSED", "OPEN", "HALF_OPEN"}, failures : 0..FailThreshold]
    BY <1>7, EntryAssumption
       DEF CircuitStep, RecordFailure, RecordSuccess, IsOpen, EntryTypeOK, EntryAssumption
  <2> QED BY <1>7, <1>d, <2>1 DEF CircuitStep, EntryTypeOK, HaltIsHeld, HaltNeedsOperator
<1>8. CASE UNCHANGED entryVars
  BY <1>8 DEF entryVars, EntryTypeOK, HaltIsHeld, HaltNeedsOperator
<1> QED BY <1>2, <1>3, <1>4, <1>5, <1>6, <1>7, <1>8 DEF EntryNext

(* No entry is approved between a halt by the divergence monitor and the   *)
(* recovery an operator orders, for every window, grace and threshold.     *)
(* (live-divergence-monitor.ts, entry-decision-service.ts evaluateEntry)   *)
THEOREM HaltIsTheOperators == EntrySpec => [](EntryTypeOK /\ HaltNeedsOperator)
<1>1. EntryInv => EntryTypeOK /\ HaltNeedsOperator
  BY DEF EntryInv
<1> QED BY <1>1, EntryInitInv, EntryNextInv, PTL DEF EntrySpec
-----------------------------------------------------------------------------
(* The rollout of models: the controller names the one in production.      *)
\* Whoever is in production is the one the controller names.
RolloutInv ==
  /\ stage \in [Models -> Stages \cup {NoModel}]
  /\ current \in Models \cup {NoModel}
  /\ \A m \in Models : stage[m] = "PRODUCTION" => current = m

\* No model is registered at first.
LEMMA RolloutInitInv == RolloutInit => RolloutInv
BY DEF RolloutInit, RolloutInv, NoModel

\* The stages of a model, from development to deprecation.
LEMMA StagesAre ==
  Stages = {"DEVELOPMENT", "BACKTEST", "VALIDATION", "SHADOW", "CANARY", "PRODUCTION",
            "DEPRECATION"}
BY DEF Stages, Order

\* A promotion to production moves out whoever was there.
LEMMA PromoteHolds ==
  ASSUME RolloutInv, NEW m \in Models, NEW next \in Stages, PromoteTo(m, next)
  PROVE  RolloutInv'
BY StagesAre, RolloutAssumption DEF RolloutInv, PromoteTo, RolloutAssumption

\* Registration, promotion, canary and rollback keep it.
LEMMA RolloutNextInv ==
  ASSUME RolloutInv, [RolloutNext]_rolloutVars
  PROVE  RolloutInv'
<1>1. ASSUME NEW m \in Models, Register(m) PROVE RolloutInv'
  <2>1. PICK s \in {"VALIDATION", "SHADOW", "PRODUCTION"} :
          /\ (s = "PRODUCTION") = (\A other \in Models : stage[other] = NoModel)
          /\ stage' = [stage EXCEPT ![m] = s]
          /\ current' = IF s = "PRODUCTION" THEN m ELSE current
    BY <1>1 DEF Register
  <2>2. CASE s = "PRODUCTION"
    BY <2>1, <2>2, StagesAre DEF RolloutInv, NoModel
  <2>3. CASE s # "PRODUCTION"
    BY <2>1, <2>3, StagesAre DEF RolloutInv
  <2> QED BY <2>2, <2>3
<1>2. ASSUME NEW m \in Models, AdvanceCanary(m) PROVE RolloutInv'
  BY <1>2, PromoteHolds, StagesAre DEF AdvanceCanary, RolloutInv
<1>3. ASSUME NEW m \in Models, SetCanaryShare(m) PROVE RolloutInv'
  BY <1>3 DEF SetCanaryShare, RolloutInv
<1>4. ASSUME NEW m \in Models, RollbackTo(m) PROVE RolloutInv'
  BY <1>4, StagesAre DEF RollbackTo, RolloutInv
<1>5. ASSUME NEW m \in Models, NEW next \in Stages, PromoteModel(m, next) PROVE RolloutInv'
  BY <1>5, PromoteHolds DEF PromoteModel
<1>6. CASE DivergenceRollsBack
  BY <1>4, <1>6 DEF DivergenceRollsBack
<1>7. CASE UNCHANGED rolloutVars
  BY <1>7 DEF rolloutVars, RolloutInv
<1> QED BY <1>1, <1>2, <1>3, <1>4, <1>5, <1>6, <1>7 DEF RolloutNext

(* At most one model is in production, for any models and any order of     *)
(* promotions, canaries and rollbacks. (prediction/model-lifecycle.ts      *)
(* promote, rollbackTo)                                                    *)
THEOREM OneModelAnswers == RolloutSpec => []OneProduction
<1>1. RolloutInv => OneProduction
  BY DEF RolloutInv, OneProduction
<1> QED BY <1>1, RolloutInitInv, RolloutNextInv, PTL DEF RolloutSpec

\* No model was registered at first.
LEMMA RolloutTypesInit == RolloutInit => RolloutTypeOK
BY DEF RolloutInit, RolloutTypeOK

\* Promotions, canary steps and rollbacks leave one of five shares.
LEMMA RolloutTypesNext ==
  ASSUME RolloutInv, RolloutTypeOK, [RolloutNext]_rolloutVars
  PROVE  RolloutTypeOK'
<1> DEFINE shares == {0, 5, 25, 50, 100}
<1>1. share \in [Models -> shares]
  BY DEF RolloutTypeOK
<1>2. ASSUME NEW m \in Models, NEW next \in Stages, PromoteTo(m, next)
      PROVE  share' \in [Models -> shares]
  <2>1. ShareAt(next, share[m]) \in shares
    BY <1>1, StagesAre DEF ShareAt
  <2> QED BY <1>1, <1>2, <2>1 DEF PromoteTo
<1>3. ASSUME NEW m \in Models, Register(m) PROVE share' \in [Models -> shares]
  <2>1. PICK s : share' = [share EXCEPT ![m] = IF s = "PRODUCTION" THEN 100 ELSE 0]
    BY <1>3 DEF Register
  <2> QED BY <1>1, <2>1
<1>4. ASSUME NEW m \in Models, AdvanceCanary(m) PROVE share' \in [Models -> shares]
  <2>1. \/ PromoteTo(m, "CANARY") \/ PromoteTo(m, "PRODUCTION")
        \/ share' = [share EXCEPT ![m] = IF share[m] < 10 THEN 25 ELSE 50]
    BY <1>4 DEF AdvanceCanary
  <2>2. share' = [share EXCEPT ![m] = IF share[m] < 10 THEN 25 ELSE 50]
           => share' \in [Models -> shares]
    BY <1>1
  <2> QED BY <1>2, <2>1, <2>2, StagesAre
<1>5. ASSUME NEW m \in Models, SetCanaryShare(m) PROVE share' \in [Models -> shares]
  BY <1>1, <1>5 DEF SetCanaryShare
<1>6. ASSUME NEW m \in Models, RollbackTo(m) PROVE share' \in [Models -> shares]
  BY <1>1, <1>6 DEF RollbackTo
<1>7. ASSUME NEW m \in Models, NEW next \in Stages, PromoteModel(m, next)
      PROVE  share' \in [Models -> shares]
  BY <1>2, <1>7 DEF PromoteModel
<1>8. share' \in [Models -> shares]
  <2>1. CASE UNCHANGED rolloutVars
    BY <1>1, <2>1 DEF rolloutVars
  <2>2. CASE RolloutNext
    BY <1>3, <1>4, <1>5, <1>6, <1>7, <2>2 DEF RolloutNext, DivergenceRollsBack
  <2> QED BY <2>1, <2>2
<1> QED BY <1>8, RolloutNextInv DEF RolloutInv, RolloutTypeOK
-----------------------------------------------------------------------------
(* The way to live mode: tokens, stops and overlapping commands.           *)
\* A token that still waits for its confirmation is the operator's own, has
\* not been used, and is not of before an emergency stop.
PendingIsOwn ==
  /\ lastToken \in 0..MaxTokens /\ liveToken \in [Operators -> 0..MaxTokens]
  /\ issued \in [1..MaxTokens -> Operators \cup {Nobody}]
  /\ spent \subseteq 1..lastToken /\ revoked \subseteq 1..lastToken
  /\ \A o \in Operators : liveToken[o] # 0 =>
       /\ liveToken[o] \in 1..lastToken /\ issued[liveToken[o]] = o
       /\ liveToken[o] \notin spent \cup revoked

\* Inductive: the token on offer was issued for it and is neither spent nor
\* revoked; live mode was asked for.
OpInv == PendingIsOwn /\ LiveWasAskedFor

\* No token is issued at first.
LEMMA OpInitInv == OpInit => OpInv
<1> SUFFICES ASSUME OpInit PROVE OpInv
  OBVIOUS
<1>1. PendingIsOwn
  BY OperatorAssumption DEF OpInit, PendingIsOwn, OperatorAssumption
<1>2. LiveWasAskedFor
  BY DEF OpInit, LiveWasAskedFor
<1> QED BY <1>1, <1>2 DEF OpInv

\* A step that leaves the tokens alone keeps what is known of them.
LEMMA TokensStay ==
  ASSUME PendingIsOwn, UNCHANGED <<liveToken, lastToken, issued, spent, revoked>>
  PROVE  PendingIsOwn'
BY DEF PendingIsOwn

\* A step that starts no live mode keeps that it was asked for.
LEMMA RightStays ==
  ASSUME LiveWasAskedFor, UNCHANGED unasked
  PROVE  LiveWasAskedFor'
BY DEF LiveWasAskedFor

\* Requests, confirmations, stops and the conversation keep it.
LEMMA OpNextInv ==
  ASSUME OpInv, [OpNext \/ ChatNext]_opVars
  PROVE  OpInv'
<1>1. PendingIsOwn /\ LiveWasAskedFor
  BY DEF OpInv
<1>2. ASSUME UNCHANGED tokenVars PROVE OpInv'
  BY <1>1, <1>2, TokensStay, RightStays DEF tokenVars, OpInv
<1>3. CASE \/ OpPause \/ OpResume \/ OpStop \/ OpStopped \/ EmergencyStops \/ ModeOther
           \/ LoginCommand \/ LoginCancel \/ LoginText
  BY <1>2, <1>3 DEF OpPause, OpResume, OpStop, OpStopped, EmergencyStops, ModeOther, LoginCommand,
                    LoginCancel, LoginText
<1>4. CASE EmergencyBegins
  <2>1. PendingIsOwn'
    <3>1. /\ liveToken' = [o \in Operators |-> 0] /\ revoked' = 1..lastToken
          /\ UNCHANGED <<lastToken, issued, spent>>
      BY <1>4 DEF EmergencyBegins, DropConfirmations, ForgetTokens
    <3> QED BY <1>1, <3>1, OperatorAssumption DEF PendingIsOwn, OperatorAssumption
  <2> QED BY <1>1, <1>4, <2>1, RightStays DEF EmergencyBegins, OpInv
<1>5. CASE ProcessRestarts
  <2>1. PendingIsOwn'
    BY <1>5, OperatorAssumption DEF ProcessRestarts, Booted, PendingIsOwn, OperatorAssumption
  <2> QED BY <1>1, <1>5, <2>1, RightStays DEF ProcessRestarts, Booted, OpInv
<1>6. CASE TokenExpires \/ ConfigForget
  BY <1>1, <1>6, TokensStay, RightStays DEF TokenExpires, ConfigForget, OpInv
<1>7. ASSUME NEW o \in Operators, ModeLive(o) PROVE OpInv'
  <2>1. PendingIsOwn'
    BY <1>1, <1>7, OperatorAssumption DEF ModeLive, PendingIsOwn, OperatorAssumption
  <2> QED BY <1>1, <1>7, <2>1, RightStays DEF ModeLive, OpInv
<1>8. ASSUME NEW o \in Operators, ConfigSet(o) PROVE OpInv'
  <2>1. PendingIsOwn'
    BY <1>1, <1>8, OperatorAssumption DEF ConfigSet, PendingIsOwn, OperatorAssumption
  <2> QED BY <1>1, <1>8, <2>1, RightStays DEF ConfigSet, OpInv
<1>9. ASSUME NEW o \in Operators, ConfigConfirm(o) PROVE OpInv'
  BY <1>1, <1>9, TokensStay, RightStays DEF ConfigConfirm, OpInv
<1>10. ASSUME NEW o \in Operators, NEW t \in 1..lastToken, ModeConfirm(o, t) PROVE OpInv'
  <2>1. CASE liveToken[o] \in stale
    <3>1. PendingIsOwn'
      <4>1. /\ liveToken' = [liveToken EXCEPT ![o] = 0]
            /\ UNCHANGED <<lastToken, issued, spent, revoked>>
        BY <1>10, <2>1 DEF ModeConfirm
      <4> QED BY <1>1, <4>1, OperatorAssumption DEF PendingIsOwn, OperatorAssumption
    <3> QED BY <1>1, <1>10, <2>1, <3>1, RightStays DEF ModeConfirm, OpInv
  <2>2. CASE liveToken[o] \notin stale
    <3>1. /\ t = liveToken[o] /\ liveToken[o] # 0
          /\ unasked' = (unasked \/ issued[t] # o \/ t \in spent \cup stale \cup revoked)
      BY <1>10, <2>2 DEF ModeConfirm
    <3>2. issued[t] = o /\ t \notin spent \cup stale \cup revoked
      BY <1>1, <2>2, <3>1 DEF PendingIsOwn
    <3>3. LiveWasAskedFor'
      BY <1>1, <3>1, <3>2, Zenon DEF LiveWasAskedFor
    <3>4. PendingIsOwn'
      <4>1. /\ liveToken' = [liveToken EXCEPT ![o] = 0] /\ spent' = spent \cup {liveToken[o]}
            /\ UNCHANGED <<lastToken, issued, revoked>>
        BY <1>10, <2>2, <3>1 DEF ModeConfirm
      <4>2. \A p \in Operators : p # o /\ liveToken[p] # 0 => liveToken[p] # liveToken[o]
        BY <1>1 DEF PendingIsOwn
      <4>3. liveToken[o] \in 1..lastToken
        BY <1>1, <3>1 DEF PendingIsOwn
      <4>4. /\ liveToken' \in [Operators -> 0..MaxTokens] /\ lastToken' \in 0..MaxTokens
            /\ issued' \in [1..MaxTokens -> Operators \cup {Nobody}]
            /\ spent' \subseteq 1..lastToken' /\ revoked' \subseteq 1..lastToken'
        <5>1. liveToken' \in [Operators -> 0..MaxTokens] /\ lastToken' \in 0..MaxTokens
          BY <1>1, <4>1, OperatorAssumption DEF PendingIsOwn, OperatorAssumption
        <5>2. spent \subseteq 1..lastToken /\ issued' = issued /\ revoked' = revoked
              /\ lastToken' = lastToken /\ spent' = spent \cup {liveToken[o]}
          BY <1>1, <4>1 DEF PendingIsOwn
        <5>3. spent' \subseteq 1..lastToken
          BY <4>3, <5>2
        <5> QED BY <1>1, <5>1, <5>2, <5>3 DEF PendingIsOwn
      <4>5. ASSUME NEW p \in Operators, liveToken'[p] # 0
            PROVE  /\ p # o /\ liveToken'[p] = liveToken[p] /\ liveToken[p] # liveToken[o]
                   /\ liveToken[p] \in 1..lastToken /\ issued[liveToken[p]] = p
                   /\ liveToken[p] \notin spent \cup revoked
        BY <1>1, <4>1, <4>2, <4>5 DEF PendingIsOwn
      <4>6. ASSUME NEW p \in Operators, liveToken'[p] # 0
            PROVE  /\ liveToken'[p] \in 1..lastToken' /\ issued'[liveToken'[p]] = p
                   /\ liveToken'[p] \notin spent' \cup revoked'
        BY <4>1, <4>5, <4>6
      <4> QED BY <4>4, <4>6 DEF PendingIsOwn
    <3> QED BY <3>3, <3>4 DEF OpInv
  <2> QED BY <2>1, <2>2
<1>11. CASE UNCHANGED opVars
  BY <1>2, <1>11 DEF opVars, tokenVars
<1> QED BY <1>3, <1>4, <1>5, <1>6, <1>7, <1>8, <1>9, <1>10, <1>11 DEF OpNext, ChatNext

(* Live mode is activated only for the operator the token was issued to,   *)
(* in its time and once, never with a token from before an emergency stop; *)
(* for any number of operators and tokens. (telegram/commands/control.ts   *)
(* handleLiveConfirm)                                                      *)
THEOREM LiveModeIsConfirmed == OpSpec => []LiveWasAskedFor
<1>1. OpInv => LiveWasAskedFor
  BY DEF OpInv
<1>2. OpInv /\ [OpNext]_opVars => OpInv'
  BY OpNextInv
<1> QED BY <1>1, <1>2, OpInitInv, PTL DEF OpSpec

\* What a confirmation of a configuration holds, while tokens are 1..n.
ConfirmationsUpTo(n) == [token : 1..n, op : Operators, value : SysModes, applied : BOOLEAN]

\* What OpTypeOK says besides PendingIsOwn, with the confirmations in full.
OpTypes ==
  /\ sysMode \in SysModes /\ sysHalted \in BOOLEAN /\ botUp \in BOOLEAN /\ unasked \in BOOLEAN
  /\ stopping \in {"none", "pausing", "stopping"} /\ chat \in {"none", "email", "password"}
  /\ confTokens \subseteq ConfirmationsUpTo(lastToken) /\ stale \subseteq 1..lastToken

\* With OpInv, the types of the operators' commands.
LEMMA OpTypesMean == OpInv /\ OpTypes => OpTypeOK
BY DEF OpInv, PendingIsOwn, OpTypes, OpTypeOK, ConfirmationsUpTo

\* Nothing was asked for at first.
LEMMA OpTypesInit == OpInit => OpTypes
BY DEF OpInit, OpTypes, SysModes

\* A confirmation that is applied is one still.
LEMMA ConfirmationApplied ==
  ASSUME NEW T, NEW O, NEW V, NEW B, NEW b \in B, NEW c \in [token : T, op : O, value : V, applied : B]
  PROVE  [c EXCEPT !.applied = b] \in [token : T, op : O, value : V, applied : B]
OBVIOUS

\* So is each field of one.
LEMMA ConfirmationOf ==
  ASSUME NEW T, NEW O, NEW V, NEW B, NEW t \in T, NEW o \in O, NEW v \in V, NEW b \in B
  PROVE  [token |-> t, op |-> o, value |-> v, applied |-> b]
           \in [token : T, op : O, value : V, applied : B]
OBVIOUS

\* A confirmation among fewer tokens is one among more.
LEMMA MoreTokens ==
  ASSUME NEW n \in Nat
  PROVE  1..n \subseteq 1..(n + 1) /\ ConfirmationsUpTo(n) \subseteq ConfirmationsUpTo(n + 1)
<1>1. 1..n \subseteq 1..(n + 1)
  OBVIOUS
<1>2. ASSUME NEW A, NEW C, A \subseteq C
      PROVE  [token : A, op : Operators, value : SysModes, applied : BOOLEAN]
               \subseteq [token : C, op : Operators, value : SysModes, applied : BOOLEAN]
  BY <1>2
<1> QED BY <1>1, <1>2 DEF ConfirmationsUpTo

\* What does not touch the tokens of a configuration.
LEMMA OthersOfBot ==
  ASSUME OpTypes, UNCHANGED <<confTokens, stale, lastToken>>,
         /\ sysMode' \in SysModes /\ sysHalted' \in BOOLEAN /\ botUp' \in BOOLEAN /\ unasked' \in BOOLEAN
         /\ stopping' \in {"none", "pausing", "stopping"} /\ chat' \in {"none", "email", "password"}
  PROVE  OpTypes'
BY DEF OpTypes

\* Commands, answers of the bot and expiries keep the types.
LEMMA OpTypesNext ==
  ASSUME OpInv, OpTypes, [OpNext \/ ChatNext]_opVars
  PROVE  OpTypes'
<1>0. /\ sysMode \in SysModes /\ sysHalted \in BOOLEAN /\ botUp \in BOOLEAN /\ unasked \in BOOLEAN
      /\ stopping \in {"none", "pausing", "stopping"} /\ chat \in {"none", "email", "password"}
      /\ confTokens \subseteq ConfirmationsUpTo(lastToken) /\ stale \subseteq 1..lastToken
  BY DEF OpTypes
<1>a. lastToken \in 0..MaxTokens /\ lastToken \in Nat
  BY OperatorAssumption DEF OpInv, PendingIsOwn, OperatorAssumption
<1>1. CASE OpPause \/ OpResume \/ OpStop \/ OpStopped \/ EmergencyStops \/ ModeOther
  BY <1>0, <1>1, OthersOfBot DEF OpPause, OpResume, OpStop, OpStopped, EmergencyStops, ModeOther,
                                 tokenVars, SysModes
<1>2. CASE LoginCommand \/ LoginCancel \/ LoginText
  BY <1>0, <1>2, OthersOfBot DEF LoginCommand, LoginCancel, LoginText, tokenVars
<1>3. CASE EmergencyBegins
  BY <1>0, <1>3, OthersOfBot DEF EmergencyBegins
<1>4. CASE ProcessRestarts
  BY <1>0, <1>4 DEF ProcessRestarts, Booted, OpTypes, SysModes
<1>5. CASE TokenExpires
  <2>1. PICK t \in 1..lastToken : stale' = stale \cup {t}
    BY <1>5 DEF TokenExpires
  <2>2. UNCHANGED <<sysMode, sysHalted, botUp, stopping, chat, confTokens, lastToken, unasked>>
    BY <1>5 DEF TokenExpires
  <2> QED BY <1>0, <2>1, <2>2 DEF OpTypes
<1>6. CASE ConfigForget
  <2>1. /\ confTokens' \subseteq confTokens
        /\ UNCHANGED <<sysMode, sysHalted, botUp, stopping, chat, lastToken, stale, unasked>>
    BY <1>6 DEF ConfigForget
  <2> QED BY <1>0, <2>1 DEF OpTypes
<1>7. ASSUME NEW o \in Operators, ModeLive(o) PROVE OpTypes'
  <2>1. /\ lastToken' = lastToken + 1
        /\ UNCHANGED <<sysMode, sysHalted, botUp, stopping, chat, confTokens, stale, unasked>>
    BY <1>7 DEF ModeLive
  <2>2. stale \subseteq 1..(lastToken + 1) /\ confTokens \subseteq ConfirmationsUpTo(lastToken + 1)
    BY <1>0, <1>a, MoreTokens
  <2> QED BY <1>0, <2>1, <2>2 DEF OpTypes
<1>8. ASSUME NEW o \in Operators, ConfigSet(o) PROVE OpTypes'
  <2>1. PICK v \in SysModes :
          confTokens' = {c \in confTokens : c.token \notin stale}
                       \cup {[token |-> lastToken', op |-> o, value |-> v, applied |-> FALSE]}
    BY <1>8 DEF ConfigSet
  <2>2. /\ lastToken' = lastToken + 1
        /\ UNCHANGED <<sysMode, sysHalted, botUp, stopping, chat, stale, unasked>>
    BY <1>8 DEF ConfigSet
  <2>3. stale \subseteq 1..lastToken' /\ confTokens \subseteq ConfirmationsUpTo(lastToken')
    BY <1>0, <1>a, <2>2, MoreTokens
  <2>4. lastToken' \in 1..lastToken' /\ FALSE \in BOOLEAN
    BY <1>a, <2>2
  <2>5. [token |-> lastToken', op |-> o, value |-> v, applied |-> FALSE] \in ConfirmationsUpTo(lastToken')
    BY <2>4, ConfirmationOf, Zenon DEF ConfirmationsUpTo
  <2>6. confTokens' \subseteq ConfirmationsUpTo(lastToken')
    BY <2>1, <2>3, <2>5
  <2> QED BY <1>0, <2>2, <2>3, <2>6 DEF OpTypes
<1>9. ASSUME NEW o \in Operators, ConfigConfirm(o) PROVE OpTypes'
  <2>1. PICK c \in confTokens :
          \/ confTokens' = confTokens \ {c} /\ UNCHANGED sysMode
          \/ sysMode' = c.value /\ confTokens' = (confTokens \ {c}) \cup {[c EXCEPT !.applied = TRUE]}
    BY <1>9 DEF ConfigConfirm
  <2>2. UNCHANGED <<sysHalted, botUp, stopping, chat, lastToken, stale, unasked>>
    BY <1>9 DEF ConfigConfirm
  <2>3. TRUE \in BOOLEAN /\ c \in ConfirmationsUpTo(lastToken)
    BY <1>0
  <2>4. [c EXCEPT !.applied = TRUE] \in ConfirmationsUpTo(lastToken) /\ c.value \in SysModes
    <3>1. [c EXCEPT !.applied = TRUE] \in ConfirmationsUpTo(lastToken)
      BY <2>3, ConfirmationApplied, Zenon DEF ConfirmationsUpTo
    <3>2. c.value \in SysModes
      BY <2>3 DEF ConfirmationsUpTo
    <3> QED BY <3>1, <3>2
  <2>5. confTokens' \subseteq ConfirmationsUpTo(lastToken) /\ sysMode' \in SysModes
    BY <1>0, <2>1, <2>4
  <2> QED BY <1>0, <2>2, <2>5 DEF OpTypes
<1>10. ASSUME NEW o \in Operators, NEW t \in 1..lastToken, ModeConfirm(o, t) PROVE OpTypes'
  <2>1. UNCHANGED <<botUp, stopping, chat, confTokens, lastToken, stale>>
    BY <1>10 DEF ModeConfirm
  <2>2. CASE liveToken[o] \in stale
    BY <1>0, <1>10, <2>1, <2>2, OthersOfBot DEF ModeConfirm
  <2>3. CASE liveToken[o] \notin stale
    <3>1. /\ sysMode' = "live" /\ sysHalted' = FALSE
          /\ unasked' = (unasked \/ issued[t] # o \/ t \in spent \cup stale \cup revoked)
      BY <1>10, <2>3 DEF ModeConfirm
    <3>2. unasked' \in BOOLEAN
      BY <3>1, IsDisjunction, Zenon
    <3> QED BY <1>0, <2>1, <3>1, <3>2, OthersOfBot DEF SysModes
  <2> QED BY <2>2, <2>3
<1>11. CASE UNCHANGED opVars
  BY <1>11, <1>0, OthersOfBot DEF opVars
<1> QED BY <1>1, <1>2, <1>3, <1>4, <1>5, <1>6, <1>7, <1>8, <1>9, <1>10, <1>11 DEF OpNext, ChatNext
=============================================================================
