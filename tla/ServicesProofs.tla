--------------------------- MODULE ServicesProofs ----------------------------
(***************************************************************************)
(* The services together.  A behaviour of the services is one of the part  *)
(* it starts in, in which the other parts stay as they began: so a step of *)
(* the services is a step of each service or none, and each inductive      *)
(* invariant of ControlProofs, LimitProofs and LearningProofs holds in all *)
(* behaviours.  The invariants of several services follow, the types of    *)
(* all services among them.                                                *)
(***************************************************************************)
EXTENDS Services, ControlProofs, LimitProofs, LearningProofs, TLAPS
-----------------------------------------------------------------------------
\* Who moves is the part of the behaviour, and nobody else does.
LEMMA OnePartMoves ==
  ASSUME ServicesNext
  PROVE  OthersStay(part)
BY DEF ServicesNext

\* What moves in its part is its own.
LEMMA PartMoves ==
  ASSUME ServicesNext
  PROVE  /\ part = "observation" => ObsNext
         /\ part = "supervisor" => SupNext
         /\ part = "browser" => WebNext
         /\ part = "sheath" => SheathNext
         /\ part = "recovery" => RecNext
         /\ part = "leases" => LeaseNext
         /\ part = "entry" => EntryNext
         /\ part = "rollout" => RolloutNext
         /\ part = "application" => AppNext
         /\ part = "alerts" => AlertNext
         /\ part = "capital" => CapitalNext
         /\ part = "safeguards" => SafeNext
         /\ part = "slots" => SlotsNext
         /\ part = "login" => LoginNext
         /\ part = "backtest" => BacktestNext
         /\ part = "browser worker" => BrowserWorkerNext
         /\ part = "worker health" => CircuitNext
         /\ part = "breaker" => BreakerNext
         /\ part = "cash out" => OutNext
         /\ part = "confirmations" => ConfirmNext
         /\ part = "page" => PageNext
         /\ part = "websocket" => WsNext
         /\ part = "aggregation" => AggNext
         /\ part = "workers" => WorkNext
         /\ part = "ticks" => TicksNext
         /\ part = "outcomes" => OutcomesNext
         /\ part = "throttle" => ThrottleNext
         /\ part = "jobs" => QueueNext
         /\ part = "acie" => AcieNext
         /\ part = "engine" => EngineNext
         /\ part = "calibration" => CalibrationNext
         /\ part = "ranks" => RankNext
         /\ part = "record" => PerfNext
         /\ part = "datasets" => DatasetNext
         /\ part = "table" => TableNext
         /\ part = "gateway" => GatewayNext
         /\ part = "scores" => ScoreNext
         /\ part = "metrics" => BetEnds
         /\ part = "daily" => Next
         /\ part \in {"operators", "conversation"} => OpNext \/ ChatNext
<1>1. part = "observation" => ObsNext
  BY DEF ServicesNext
<1>2. part = "supervisor" => SupNext
  BY DEF ServicesNext
<1>3. part = "browser" => WebNext
  BY DEF ServicesNext
<1>4. part = "sheath" => SheathNext
  BY DEF ServicesNext
<1>5. part = "recovery" => RecNext
  BY DEF ServicesNext
<1>6. part = "leases" => LeaseNext
  BY DEF ServicesNext
<1>7. part = "entry" => EntryNext
  BY DEF ServicesNext
<1>8. part = "rollout" => RolloutNext
  BY DEF ServicesNext
<1>9. part = "application" => AppNext
  BY DEF ServicesNext
<1>10. part = "alerts" => AlertNext
  BY DEF ServicesNext
<1>11. part = "capital" => CapitalNext
  BY DEF ServicesNext
<1>12. part = "safeguards" => SafeNext
  BY DEF ServicesNext
<1>13. part = "slots" => SlotsNext
  BY DEF ServicesNext
<1>14. part = "login" => LoginNext
  BY DEF ServicesNext
<1>15. part = "backtest" => BacktestNext
  BY DEF ServicesNext
<1>16. part = "browser worker" => BrowserWorkerNext
  BY DEF ServicesNext
<1>17. part = "worker health" => CircuitNext
  BY DEF ServicesNext
<1>18. part = "breaker" => BreakerNext
  BY DEF ServicesNext
<1>19. part = "cash out" => OutNext
  BY DEF ServicesNext
<1>20. part = "confirmations" => ConfirmNext
  BY DEF ServicesNext
<1>21. part = "page" => PageNext
  BY DEF ServicesNext
<1>22. part = "websocket" => WsNext
  BY DEF ServicesNext
<1>23. part = "aggregation" => AggNext
  BY DEF ServicesNext
<1>24. part = "workers" => WorkNext
  BY DEF ServicesNext
<1>25. part = "ticks" => TicksNext
  BY DEF ServicesNext
<1>26. part = "outcomes" => OutcomesNext
  BY DEF ServicesNext
<1>27. part = "throttle" => ThrottleNext
  BY DEF ServicesNext
<1>28. part = "jobs" => QueueNext
  BY DEF ServicesNext
<1>29. part = "acie" => AcieNext
  BY DEF ServicesNext
<1>30. part = "engine" => EngineNext
  BY DEF ServicesNext
<1>31. part = "calibration" => CalibrationNext
  BY DEF ServicesNext
<1>32. part = "ranks" => RankNext
  BY DEF ServicesNext
<1>33. part = "record" => PerfNext
  BY DEF ServicesNext
<1>34. part = "datasets" => DatasetNext
  BY DEF ServicesNext
<1>35. part = "table" => TableNext
  BY DEF ServicesNext
<1>36. part = "gateway" => GatewayNext
  BY DEF ServicesNext
<1>37. part = "scores" => ScoreNext
  BY DEF ServicesNext
<1>38. part = "metrics" => BetEnds
  BY DEF ServicesNext
<1>39. part = "daily" => Next
  BY DEF ServicesNext
<1>40. part \in {"operators", "conversation"} => OpNext \/ ChatNext
  BY DEF ServicesNext
<1> QED BY <1>1, <1>2, <1>3, <1>4, <1>5, <1>6, <1>7, <1>8, <1>9, <1>10, <1>11, <1>12,
           <1>13, <1>14, <1>15, <1>16, <1>17, <1>18, <1>19, <1>20, <1>21, <1>22, <1>23,
           <1>24, <1>25, <1>26, <1>27, <1>28, <1>29, <1>30, <1>31, <1>32, <1>33, <1>34,
           <1>35, <1>36, <1>37, <1>38, <1>39, <1>40

\* Each service makes a step of its own or none.
LEMMA ServiceSteps ==
  ASSUME [ServicesNext]_servicesVars
  PROVE  /\ [ObsNext]_obsVars
         /\ [SupNext]_supVars
         /\ [WebNext]_webVars
         /\ [SheathNext]_sheathVars
         /\ [RecNext]_recVars
         /\ [LeaseNext]_leaseVars
         /\ [EntryNext]_entryVars
         /\ [RolloutNext]_rolloutVars
         /\ [AppNext]_appVars
         /\ [AlertNext]_alertVars
         /\ [CapitalNext]_capitalVars
         /\ [SafeNext]_safeVars
         /\ [SlotsNext]_slotVars
         /\ [LoginNext]_loginVars
         /\ [BacktestNext]_backtestVars
         /\ [BrowserWorkerNext]_workerVars
         /\ [CircuitNext]_circuitVars
         /\ [BreakerNext]_breakerVars
         /\ [OutNext]_outVars
         /\ [ConfirmNext]_confirmVars
         /\ [PageNext]_pageVars
         /\ [WsNext]_wsVars
         /\ [AggNext]_aggVars
         /\ [WorkNext]_workVars
         /\ [TicksNext]_tickVars
         /\ [OutcomesNext]_outcomeVars
         /\ [ThrottleNext]_throttleVars
         /\ [QueueNext]_queueVars
         /\ [AcieNext]_acieVars
         /\ [EngineNext]_engineVars
         /\ [CalibrationNext]_calibrationVars
         /\ [RankNext]_rankVars
         /\ [PerfNext]_perfVars
         /\ [DatasetNext]_datasetVars
         /\ [TableNext]_stored
         /\ [GatewayNext]_gatewayVars
         /\ [ScoreNext]_scoreVars
         /\ [BetEnds]_outcomes
         /\ [Next]_vars
         /\ [OpNext \/ ChatNext]_opVars
<1>1. CASE UNCHANGED servicesVars
  BY <1>1 DEF servicesVars, noticeVars, gateVars, validationVars, sourceVars, repoVars, learningVars
<1>2. CASE ServicesNext
  <2>1. OthersStay(part)
    BY <1>2, OnePartMoves
  <2>2. [ObsNext]_obsVars
    BY <1>2, <2>1, PartMoves DEF OthersStay
  <2>3. [SupNext]_supVars
    BY <1>2, <2>1, PartMoves DEF OthersStay
  <2>4. [WebNext]_webVars
    BY <1>2, <2>1, PartMoves DEF OthersStay
  <2>5. [SheathNext]_sheathVars
    BY <1>2, <2>1, PartMoves DEF OthersStay
  <2>6. [RecNext]_recVars
    BY <1>2, <2>1, PartMoves DEF OthersStay
  <2>7. [LeaseNext]_leaseVars
    BY <1>2, <2>1, PartMoves DEF OthersStay
  <2>8. [EntryNext]_entryVars
    BY <1>2, <2>1, PartMoves DEF OthersStay
  <2>9. [RolloutNext]_rolloutVars
    BY <1>2, <2>1, PartMoves DEF OthersStay
  <2>10. [AppNext]_appVars
    BY <1>2, <2>1, PartMoves DEF OthersStay
  <2>11. [AlertNext]_alertVars
    BY <1>2, <2>1, PartMoves DEF OthersStay
  <2>12. [CapitalNext]_capitalVars
    BY <1>2, <2>1, PartMoves DEF OthersStay
  <2>13. [SafeNext]_safeVars
    BY <1>2, <2>1, PartMoves DEF OthersStay
  <2>14. [SlotsNext]_slotVars
    BY <1>2, <2>1, PartMoves DEF OthersStay
  <2>15. [LoginNext]_loginVars
    BY <1>2, <2>1, PartMoves DEF OthersStay
  <2>16. [BacktestNext]_backtestVars
    BY <1>2, <2>1, PartMoves DEF OthersStay
  <2>17. [BrowserWorkerNext]_workerVars
    BY <1>2, <2>1, PartMoves DEF OthersStay
  <2>18. [CircuitNext]_circuitVars
    BY <1>2, <2>1, PartMoves DEF OthersStay
  <2>19. [BreakerNext]_breakerVars
    BY <1>2, <2>1, PartMoves DEF OthersStay
  <2>20. [OutNext]_outVars
    BY <1>2, <2>1, PartMoves DEF OthersStay
  <2>21. [ConfirmNext]_confirmVars
    BY <1>2, <2>1, PartMoves DEF OthersStay
  <2>22. [PageNext]_pageVars
    BY <1>2, <2>1, PartMoves DEF OthersStay
  <2>23. [WsNext]_wsVars
    BY <1>2, <2>1, PartMoves DEF OthersStay
  <2>24. [AggNext]_aggVars
    BY <1>2, <2>1, PartMoves DEF OthersStay
  <2>25. [WorkNext]_workVars
    BY <1>2, <2>1, PartMoves DEF OthersStay
  <2>26. [TicksNext]_tickVars
    BY <1>2, <2>1, PartMoves DEF OthersStay
  <2>27. [OutcomesNext]_outcomeVars
    BY <1>2, <2>1, PartMoves DEF OthersStay
  <2>28. [ThrottleNext]_throttleVars
    BY <1>2, <2>1, PartMoves DEF OthersStay
  <2>29. [QueueNext]_queueVars
    BY <1>2, <2>1, PartMoves DEF OthersStay
  <2>30. [AcieNext]_acieVars
    BY <1>2, <2>1, PartMoves DEF OthersStay
  <2>31. [EngineNext]_engineVars
    BY <1>2, <2>1, PartMoves DEF OthersStay
  <2>32. [CalibrationNext]_calibrationVars
    BY <1>2, <2>1, PartMoves DEF OthersStay
  <2>33. [RankNext]_rankVars
    BY <1>2, <2>1, PartMoves DEF OthersStay
  <2>34. [PerfNext]_perfVars
    BY <1>2, <2>1, PartMoves DEF OthersStay
  <2>35. [DatasetNext]_datasetVars
    BY <1>2, <2>1, PartMoves DEF OthersStay
  <2>36. [TableNext]_stored
    BY <1>2, <2>1, PartMoves DEF OthersStay
  <2>37. [GatewayNext]_gatewayVars
    BY <1>2, <2>1, PartMoves DEF OthersStay
  <2>38. [ScoreNext]_scoreVars
    BY <1>2, <2>1, PartMoves DEF OthersStay
  <2>39. [BetEnds]_outcomes
    BY <1>2, <2>1, PartMoves DEF OthersStay
  <2>40. [Next]_vars
    BY <1>2, <2>1, PartMoves DEF OthersStay
  <2>41. [OpNext \/ ChatNext]_opVars
    BY <1>2, <2>1, PartMoves DEF OthersStay
  <2> QED BY <2>2, <2>3, <2>4, <2>5, <2>6, <2>7, <2>8, <2>9, <2>10, <2>11, <2>12, <2>13,
             <2>14, <2>15, <2>16, <2>17, <2>18, <2>19, <2>20, <2>21, <2>22, <2>23, <2>24,
             <2>25, <2>26, <2>27, <2>28, <2>29, <2>30, <2>31, <2>32, <2>33, <2>34, <2>35,
             <2>36, <2>37, <2>38, <2>39, <2>40, <2>41
<1> QED BY <1>1, <1>2
-----------------------------------------------------------------------------
(* Bets of the dry run are made with no trigger standing and after the     *)
(* good rounds that are required, counted since betting was last stopped   *)
(* or a check last failed; a run of recovery resumes only after it counted *)
(* no doubtful bet. (core/sheath-mode, recovery-manager.ts)                *)
THEOREM StopsAreHeld == ServicesSpec => []StopsHold
<1>1. ServicesInit => SheathInv
  BY SheathInitInv DEF ServicesInit
<1>2. SheathInv /\ [ServicesNext]_servicesVars => SheathInv'
  BY SheathNextInv, ServiceSteps
<1>3. ServicesInit => RecInv
  BY RecInitInv DEF ServicesInit
<1>4. RecInv /\ [ServicesNext]_servicesVars => RecInv'
  BY RecNextInv, ServiceSteps
<1>5. SheathInv /\ RecInv => StopsHold
  BY DEF SheathInv, RecInv, StopsHold
<1> QED BY <1>1, <1>2, <1>3, <1>4, <1>5, PTL DEF ServicesSpec

(* Every limit holds: of capital and drawdown, of entries and slots of a   *)
(* day with any number of writers, of alerts in a minute, and of a         *)
(* backtest. (capital-guard, safeguards.ts, daily-entries.ts, live-        *)
(* alerts.ts, backtest-engine.ts)                                          *)
THEOREM LimitsAreHeld == ServicesSpec => []LimitsHold
<1>1. ServicesInit => CapitalInv
  BY CapitalInitInv DEF ServicesInit, GateInit
<1>2. CapitalInv /\ [ServicesNext]_servicesVars => CapitalInv'
  BY CapitalNextInv, ServiceSteps
<1>3. ServicesInit => SafeInv
  BY SafeInitInv DEF ServicesInit, GateInit
<1>4. SafeInv /\ [ServicesNext]_servicesVars => SafeInv'
  BY SafeNextInv, ServiceSteps
<1>5. ServicesInit => SlotInv
  BY SlotInitInv DEF ServicesInit, GateInit
<1>6. SlotInv /\ [ServicesNext]_servicesVars => SlotInv'
  BY SlotNextInv, ServiceSteps
<1>7. ServicesInit => PacedInv
  BY PacedInitInv DEF ServicesInit, NoticeInit
<1>8. PacedInv /\ [ServicesNext]_servicesVars => PacedInv'
  BY PacedNextInv, ServiceSteps
<1>9. ServicesInit => SimulatedInv
  BY SimulatedInitInv DEF ServicesInit
<1>10. SimulatedInv /\ [ServicesNext]_servicesVars => SimulatedInv'
  BY SimulatedNextInv, ServiceSteps
<1>11. CapitalInv /\ SafeInv /\ SlotInv /\ PacedInv /\ SimulatedInv => LimitsHold
  BY LockedPlacesNothing, CounterHolds, SlotsAreSound, PacedMeans, SimulatedMeans DEF LimitsHold
<1> QED BY <1>1, <1>2, <1>3, <1>4, <1>5, <1>6, <1>7, <1>8, <1>9, <1>10, <1>11, PTL DEF
           ServicesSpec

(* What is reported of the process is so: an observing supervisor whose    *)
(* commands did not overlap has one observer on a page of its browser, and *)
(* one that was stopped last holds none; the stages and the answer of a    *)
(* login, the session and the health of the browser worker, and the state  *)
(* of a circuit breaker. (core/session-supervisor.ts, browser/login-test-  *)
(* pipeline.ts, browser/worker, utils/retry.ts)                            *)
THEOREM StatusIsTold == ServicesSpec => []StatusIsTruthful
<1>1. ServicesInit => SupInv
  BY SupInitInv DEF ServicesInit
<1>2. SupInv /\ [ServicesNext]_servicesVars => SupInv'
  BY SupNextInv, ServiceSteps
<1>3. ServicesInit => (TypedInv /\ SeenInv /\ GeoInv /\ ReportInv)
  BY TypedInit, SeenInit, GeoInit, ReportInit DEF ServicesInit
<1>4. (TypedInv /\ SeenInv /\ GeoInv /\ ReportInv) /\ [ServicesNext]_servicesVars
        => (TypedInv /\ SeenInv /\ GeoInv /\ ReportInv)'
  BY TypedNext, SeenNext, GeoNext, ReportNext, ServiceSteps
<1>5. ServicesInit => (Invoked /\ WorkerInv)
  BY InvokedInit, WorkerInitInv DEF ServicesInit
<1>6. (Invoked /\ WorkerInv) /\ [ServicesNext]_servicesVars => (Invoked /\ WorkerInv)'
  BY InvokedStays, WorkerNextInv, ServiceSteps
<1>7. ServicesInit => HealthInv
  BY HealthInitInv DEF ServicesInit
<1>8. HealthInv /\ [ServicesNext]_servicesVars => HealthInv'
  BY HealthNextInv, ServiceSteps
<1>9. ServicesInit => BreakerInv
  BY BreakerInitInv DEF ServicesInit
<1>10. BreakerInv /\ [ServicesNext]_servicesVars => BreakerInv'
  BY BreakerNextInv, ServiceSteps
<1>11. /\ SupInv /\ TypedInv /\ SeenInv /\ GeoInv /\ ReportInv /\ WorkerInv /\ HealthInv /\ BreakerInv
      => StatusIsTruthful
  BY PhaseTells, HonestLogin, OwnedBrowsers, OpenIsEarned, BreakerTells DEF LoginInv, StatusIsTruthful
<1> QED BY <1>1, <1>2, <1>3, <1>4, <1>5, <1>6, <1>7, <1>8, <1>9, <1>10, <1>11, PTL DEF
           ServicesSpec

(* A verdict about a bet is earned by what was seen of it, by the cash-out *)
(* monitor and the reader that confirms an entry. Of a round: the DOM      *)
(* adapter reports no crash of one to come, the API adapter one crash of   *)
(* each at most, if perhaps while the round runs, and high confidence      *)
(* means agreement. (game/cashout.ts, game/confirmation.ts, game/adapters) *)
THEOREM VerdictsAreHeld == ServicesSpec => []VerdictsAreEarned
<1>1. ServicesInit => OutInv
  BY OutInitInv DEF ServicesInit
<1>2. OutInv /\ [ServicesNext]_servicesVars => OutInv'
  BY OutNextInv, ServiceSteps
<1>3. ServicesInit => ConfirmedOnlyByReader
  BY ConfirmInitInv DEF ServicesInit, GateInit
<1>4. ConfirmedOnlyByReader /\ [ServicesNext]_servicesVars => ConfirmedOnlyByReader'
  BY ConfirmNextInv, ServiceSteps
<1>5. ServicesInit => (ApiInv /\ DomInv)
  BY ApiInitInv, DomInitInv DEF ServicesInit
<1>6. (ApiInv /\ DomInv) /\ [ServicesNext]_servicesVars => (ApiInv /\ DomInv)'
  BY ApiNextInv, DomNextInv, ServiceSteps
<1>7. ServicesInit => AgreeInv
  BY AgreeInitInv DEF ServicesInit
<1>8. AgreeInv /\ [ServicesNext]_servicesVars => AgreeInv'
  BY AgreeNextInv, ServiceSteps
<1>9. ServicesInit => HeardInv
  BY HeardInitInv DEF ServicesInit
<1>10. HeardInv /\ [ServicesNext]_servicesVars => HeardInv'
  BY HeardNextInv, ServiceSteps
<1>11. /\ OutInv /\ ConfirmedOnlyByReader
      /\ ApiInv /\ DomInv /\ AgreeInv /\ HeardInv
      => VerdictsAreEarned
  BY OutInvMeans, SourcesTell DEF VerdictsAreEarned
<1> QED BY <1>1, <1>2, <1>3, <1>4, <1>5, <1>6, <1>7, <1>8, <1>9, <1>10, <1>11, PTL DEF
           ServicesSpec

(* Work that is accepted is done or accounted for: the items of the        *)
(* workers, the ticks and the outcomes on their way to the database, the   *)
(* notices, and the jobs of a queue. (workers/base-worker.ts, tick-        *)
(* repo.ts, prediction-repo.ts, telegram/throttle.ts, core/job-queue)      *)
THEOREM WorkIsHeld == ServicesSpec => []WorkIsKept
<1>1. ServicesInit => WorkInv
  BY WorkInitInv DEF ServicesInit
<1>2. WorkInv /\ [ServicesNext]_servicesVars => WorkInv'
  BY WorkNextInv, ServiceSteps
<1>3. ServicesInit => TicksInv
  BY TicksInitInv DEF ServicesInit, RepoInit
<1>4. TicksInv /\ [ServicesNext]_servicesVars => TicksInv'
  BY TicksNextInv, ServiceSteps
<1>5. ServicesInit => OutcomesInv
  BY OutcomesInitInv DEF ServicesInit, RepoInit
<1>6. OutcomesInv /\ [ServicesNext]_servicesVars => OutcomesInv'
  BY OutcomesNextInv, ServiceSteps
<1>7. ServicesInit => ThrottleInv
  BY ThrottleInitInv DEF ServicesInit, NoticeInit
<1>8. ThrottleInv /\ [ServicesNext]_servicesVars => ThrottleInv'
  BY ThrottleNextInv, ServiceSteps
<1>9. ServicesInit => JobsInv
  BY JobsInitInv DEF ServicesInit
<1>10. JobsInv /\ [ServicesNext]_servicesVars => JobsInv'
  BY JobsNextInv, ServiceSteps
<1>11. /\ WorkInv /\ TicksInv /\ OutcomesInv /\ ThrottleInv /\ JobsInv
      => WorkIsKept
  BY TicksMean, OutcomesMean, ThrottleMeans, JobsMean DEF WorkInv, WorkIsKept
<1> QED BY <1>1, <1>2, <1>3, <1>4, <1>5, <1>6, <1>7, <1>8, <1>9, <1>10, <1>11, PTL DEF
           ServicesSpec

(* No entry passes a halt that no operator has lifted, and one model at    *)
(* most is in production. (live-divergence-monitor.ts, model-lifecycle.ts) *)
THEOREM RolloutIsHeld == ServicesSpec => []RolloutIsGuarded
<1>1. ServicesInit => EntryInv
  BY EntryInitInv DEF ServicesInit
<1>2. EntryInv /\ [ServicesNext]_servicesVars => EntryInv'
  BY EntryNextInv, ServiceSteps
<1>3. ServicesInit => RolloutInv
  BY RolloutInitInv DEF ServicesInit
<1>4. RolloutInv /\ [ServicesNext]_servicesVars => RolloutInv'
  BY RolloutNextInv, ServiceSteps
<1>5. EntryInv /\ RolloutInv => RolloutIsGuarded
  BY DEF EntryInv, RolloutInv, OneProduction, RolloutIsGuarded
<1> QED BY <1>1, <1>2, <1>3, <1>4, <1>5, PTL DEF ServicesSpec

(* ACIE scores a crash by what it said before it and learns none it holds  *)
(* twice, but for the rounds of a snapshot, which it knows by other ids;   *)
(* the incremental state and the reliability are those of the history,     *)
(* ranks follow scores, a record is a rate, data sets and windows use      *)
(* nothing from later rounds. (prediction/acie, learning, calibration,     *)
(* datasets, backtesting)                                                  *)
THEOREM LearningIsHeld == ServicesSpec => []LearningIsTrue
<1>1. ServicesInit => AcieInv
  BY AcieInitInv DEF ServicesInit
<1>2. AcieInv /\ [ServicesNext]_servicesVars => AcieInv'
  BY AcieNextInv, ServiceSteps
<1>3. ServicesInit => EngineInv
  BY EngineInitInv DEF ServicesInit
<1>4. EngineInv /\ [ServicesNext]_servicesVars => EngineInv'
  BY EngineNextInv, ServiceSteps
<1>5. ServicesInit => CalibrationInv
  BY CalibrationInitInv DEF ServicesInit
<1>6. CalibrationInv /\ [ServicesNext]_servicesVars => CalibrationInv'
  BY CalibrationNextInv, ServiceSteps
<1>7. ServicesInit => RanksInv
  BY RanksInitInv DEF ServicesInit
<1>8. RanksInv /\ [ServicesNext]_servicesVars => RanksInv'
  BY RanksNextInv, ServiceSteps
<1>9. ServicesInit => RecordInv
  BY RecordInitInv DEF ServicesInit
<1>10. RecordInv /\ [ServicesNext]_servicesVars => RecordInv'
  BY RecordNextInv, ServiceSteps
<1>11. ServicesInit => DatasetInv
  BY DatasetInitInv DEF ServicesInit
<1>12. DatasetInv /\ [ServicesNext]_servicesVars => DatasetInv'
  BY DatasetNextInv, ServiceSteps
<1>13. /\ AcieInv /\ EngineInv /\ CalibrationInv /\ RanksInv /\ RecordInv /\ DatasetInv
      => LearningIsTrue
  BY AcieInvImplies, EngineInvImplies, CalibrationInvImplies, RanksInvImplies, RecordInvImplies,
     DatasetInvImplies, WindowsFollow DEF LearningIsTrue
<1> QED BY <1>1, <1>2, <1>3, <1>4, <1>5, <1>6, <1>7, <1>8, <1>9, <1>10, <1>11, <1>12, <1>13,
           PTL DEF ServicesSpec

(* Whoever thinks that it holds the instance lock does, unless its lease   *)
(* ran out or it is releasing it. (core/instance-lock.ts)                  *)
THEOREM LeasesAreHeld == ServicesSpec => []LeaseExclusive
<1>1. ServicesInit => LeaseInv
  BY LeaseInitInv DEF ServicesInit
<1>2. LeaseInv /\ [ServicesNext]_servicesVars => LeaseInv'
  BY LeaseNextInv, ServiceSteps
<1>3. LeaseInv => LeaseExclusive
  BY DEF LeaseInv
<1> QED BY <1>1, <1>2, <1>3, PTL DEF ServicesSpec

(* No round is announced over the heads of the bridges, but of those whose *)
(* wiring failed and was skipped, and none reaches them in a shutdown.     *)
(* (app/composition.ts)                                                    *)
THEOREM RoundsAreHeard == ServicesSpec => []RoundsReachBridges
<1>1. ServicesInit => AppInv
  BY AppInitInv DEF ServicesInit
<1>2. AppInv /\ [ServicesNext]_servicesVars => AppInv'
  BY AppNextInv, ServiceSteps
<1>3. AppInv => RoundsReachBridges
  BY BridgesAreReached
<1> QED BY <1>1, <1>2, <1>3, PTL DEF ServicesSpec

(* A browser closed on purpose is not brought back. (browser/manager.ts)   *)
THEOREM ClosedIsClosed == ServicesSpec => []ClosedStaysClosed
<1>1. ServicesInit => WebInv
  BY WebInitInv DEF ServicesInit
<1>2. WebInv /\ [ServicesNext]_servicesVars => WebInv'
  BY WebNextInv, ServiceSteps
<1>3. WebInv => ClosedStaysClosed
  BY DEF WebInv
<1> QED BY <1>1, <1>2, <1>3, PTL DEF ServicesSpec

(* Live mode is only activated by the confirmation it asks for, also while *)
(* the conversation with the bot goes on. (telegram/commands/control.ts)   *)
THEOREM LiveIsConfirmed == ServicesSpec => []LiveWasAskedFor
<1>1. ServicesInit => OpInv
  BY OpInitInv DEF ServicesInit
<1>2. OpInv /\ [ServicesNext]_servicesVars => OpInv'
  BY OpNextInv, ServiceSteps
<1>3. OpInv => LiveWasAskedFor
  BY DEF OpInv
<1> QED BY <1>1, <1>2, <1>3, PTL DEF ServicesSpec

(* The virtual money agrees with the trades. (virtual-ledger.ts)           *)
THEOREM MoneyIsOfTrades == ServicesSpec => []VirtualMoney
<1>1. ServicesInit => DryInv
  BY DryInitInv DEF ServicesInit, ObsInit
<1>2. DryInv /\ [ServicesNext]_servicesVars => DryInv'
  BY DryStep, ServiceSteps
<1>3. DryInv => VirtualMoney
  BY DryInvMeans
<1> QED BY <1>1, <1>2, <1>3, PTL DEF ServicesSpec

(* Between two crashes on the bus there is a start. (game/observer.ts)     *)
THEOREM CrashesNeedStarts == ServicesSpec => CrashNeedsStart
<1>1. ServicesInit => CrashIsSeen
  BY CrashIsSeenInit DEF ServicesInit, ObsInit
<1>2. CrashIsSeen /\ [ServicesNext]_servicesVars => CrashIsSeen'
  BY CrashIsSeenStep, ServiceSteps
<1>3. CrashIsSeen /\ [ServicesNext]_servicesVars =>
        [lastKind = "RoundCrashed" /\ bus = <<>> /\ bus' # <<>>
           => bus'[1].kind = "RoundStarted"]_feedVars
  BY CrashIsSeenStep, ServiceSteps
<1> QED BY <1>1, <1>2, <1>3, PTL DEF ServicesSpec, CrashNeedsStart

\* What the backtest and the data sets leave open of their types.
LEMMA ValidationTypesMean ==
  SimulatedInv /\ DayTypes /\ DatasetInv /\ ScoreTypes => ValidationTypeOK
BY DEF SimulatedInv, DayTypes, DatasetInv, ScoreTypes, ValidationTypeOK

\* The services that keep their types by an invariant of their own.
LEMMA OwnTypesMean ==
  /\ SupTypes /\ SheathInv /\ RecInv /\ LeaseInv /\ OutInv /\ EntryInv /\ AppTypes
    => /\ SupTypeOK /\ SheathTypeOK /\ RecTypeOK /\ LeaseTypeOK /\ OutTypeOK /\ EntryTypeOK /\ AppTypeOK
BY DEF SupTypes, SheathInv, SheathType, RecInv, LeaseInv, OutInv, EntryInv, AppTypes

\* A behaviour stays in its part.
LEMMA PartsInit == ServicesInit => part \in Parts
BY DEF ServicesInit

\* No step leaves it.
LEMMA PartsNext == part \in Parts /\ [ServicesNext]_servicesVars => part' \in Parts
<1>1. [ServicesNext]_servicesVars => UNCHANGED part
  BY OnePartMoves DEF OthersStay, servicesVars
<1> QED BY <1>1

\* Inductive: the types of each service, with the invariants they rest on.
ServicesTypes ==
  /\ part \in Parts
  /\ FeedTypes
  /\ DryInv /\ DryTypes
  /\ SupTypes
  /\ WebTypeOK
  /\ SheathInv
  /\ RecInv
  /\ LeaseInv
  /\ WorkTypeOK
  /\ OutInv
  /\ OpInv /\ OpTypes
  /\ EntryInv
  /\ RolloutInv /\ RolloutTypeOK
  /\ MetricsTypeOK
  /\ TypeOK
  /\ AppTypes
  /\ TicksInv /\ TickTypes
  /\ TableTypes
  /\ OutcomesInv /\ OutcomeTypes
  /\ ThrottleInv /\ ThrottleTypes
  /\ PacedInv /\ AlertTypes
  /\ GatewayTypes
  /\ CapitalTypes
  /\ SafeInv /\ SafeTypes
  /\ SlotInv /\ SlotTypes
  /\ ConfirmTypes
  /\ AcieInv /\ AcieTypes
  /\ PageTypes /\ StageTypes /\ AggTypes
  /\ EngineInv /\ PointTypes
  /\ CalibrationInv /\ RegimeTypes
  /\ RanksInv /\ WindowTypes
  /\ RecordInv /\ RecordTypes
  /\ TypedInv /\ LoginTypes
  /\ SimulatedInv /\ DayTypes /\ DatasetInv /\ ScoreTypes
  /\ WorkerInv /\ CallTypes /\ ProbeTypes /\ Invoked
  /\ JobsInv /\ QueueTypes /\ BreakerInv /\ CallsTypes

(* Every service keeps the types of its variables: no counter, queue, ring *)
(* or history outgrows its bound, whatever the order of the handlers, for  *)
(* every value of the constants. (all the services)                        *)
THEOREM TypesAreKept == ServicesSpec => []ServicesTypeOK
<1>1. ServicesInit => ServicesTypes
  <2>1. ServicesInit => (part \in Parts)
    BY PartsInit DEF ServicesInit
  <2>2. ServicesInit => FeedTypes
    BY FeedTypesInit DEF ServicesInit, ObsInit
  <2>3. ServicesInit => (DryInv /\ DryTypes)
    BY DryInitInv, DryTypesInit DEF ServicesInit, ObsInit
  <2>4. ServicesInit => SupTypes
    BY SupTypesInit DEF ServicesInit
  <2>5. ServicesInit => WebTypeOK
    BY WebTypesInit DEF ServicesInit
  <2>6. ServicesInit => SheathInv
    BY SheathInitInv DEF ServicesInit
  <2>7. ServicesInit => RecInv
    BY RecInitInv DEF ServicesInit
  <2>8. ServicesInit => LeaseInv
    BY LeaseInitInv DEF ServicesInit
  <2>9. ServicesInit => WorkTypeOK
    BY WorkTypesInit DEF ServicesInit
  <2>10. ServicesInit => OutInv
    BY OutInitInv DEF ServicesInit
  <2>11. ServicesInit => (OpInv /\ OpTypes)
    BY OpInitInv, OpTypesInit DEF ServicesInit
  <2>12. ServicesInit => EntryInv
    BY EntryInitInv DEF ServicesInit
  <2>13. ServicesInit => (RolloutInv /\ RolloutTypeOK)
    BY RolloutInitInv, RolloutTypesInit DEF ServicesInit
  <2>14. ServicesInit => MetricsTypeOK
    BY MetricsTypesInit DEF ServicesInit
  <2>15. ServicesInit => TypeOK
    BY LedgerTypesInit DEF ServicesInit
  <2>16. ServicesInit => AppTypes
    BY AppTypesInit DEF ServicesInit
  <2>17. ServicesInit => (TicksInv /\ TickTypes)
    BY TicksInitInv, TickTypesInit DEF ServicesInit, RepoInit
  <2>18. ServicesInit => TableTypes
    BY TableTypesInit DEF ServicesInit, RepoInit
  <2>19. ServicesInit => (OutcomesInv /\ OutcomeTypes)
    BY OutcomesInitInv, OutcomeTypesInit DEF ServicesInit, RepoInit
  <2>20. ServicesInit => (ThrottleInv /\ ThrottleTypes)
    BY ThrottleInitInv, ThrottleTypesInit DEF ServicesInit, NoticeInit
  <2>21. ServicesInit => (PacedInv /\ AlertTypes)
    BY PacedInitInv, AlertTypesInit DEF ServicesInit, NoticeInit
  <2>22. ServicesInit => GatewayTypes
    BY GatewayTypesInit DEF ServicesInit, NoticeInit
  <2>23. ServicesInit => CapitalTypes
    BY CapitalTypesInit DEF ServicesInit, GateInit
  <2>24. ServicesInit => (SafeInv /\ SafeTypes)
    BY SafeInitInv, SafeTypesInit DEF ServicesInit, GateInit
  <2>25. ServicesInit => (SlotInv /\ SlotTypes)
    BY SlotInitInv, SlotTypesInit DEF ServicesInit, GateInit
  <2>26. ServicesInit => ConfirmTypes
    BY ConfirmTypesInit DEF ServicesInit, GateInit
  <2>27. ServicesInit => (AcieInv /\ AcieTypes)
    BY AcieInitInv, AcieTypesInit DEF ServicesInit
  <2>28. ServicesInit => (PageTypes /\ StageTypes /\ AggTypes)
    BY SourceTypesInit DEF ServicesInit
  <2>29. ServicesInit => (EngineInv /\ PointTypes)
    BY EngineInitInv, LearningTypesInit DEF ServicesInit
  <2>30. ServicesInit => (CalibrationInv /\ RegimeTypes)
    BY CalibrationInitInv, LearningTypesInit DEF ServicesInit
  <2>31. ServicesInit => (RanksInv /\ WindowTypes)
    BY RanksInitInv, LearningTypesInit DEF ServicesInit
  <2>32. ServicesInit => (RecordInv /\ RecordTypes)
    BY RecordInitInv, LearningTypesInit DEF ServicesInit
  <2>33. ServicesInit => (TypedInv /\ LoginTypes)
    BY TypedInit, LoginTypesInit DEF ServicesInit
  <2>34. ServicesInit => (SimulatedInv /\ DayTypes /\ DatasetInv /\ ScoreTypes)
    BY SimulatedInitInv, DayTypesInit, DatasetInitInv, ScoreTypesInit DEF ServicesInit
  <2>35. ServicesInit => (WorkerInv /\ CallTypes /\ ProbeTypes /\ Invoked)
    BY WorkerInitInv, CallTypesInit, InvokedInit DEF ServicesInit
  <2>36. ServicesInit => (JobsInv /\ QueueTypes /\ BreakerInv /\ CallsTypes)
    BY JobsInitInv, BreakerInitInv, QueueTypesInit DEF ServicesInit
  <2> QED BY <2>1, <2>2, <2>3, <2>4, <2>5, <2>6, <2>7, <2>8, <2>9, <2>10, <2>11, <2>12, <2>13,
             <2>14, <2>15, <2>16, <2>17, <2>18, <2>19, <2>20, <2>21, <2>22, <2>23, <2>24,
             <2>25, <2>26, <2>27, <2>28, <2>29, <2>30, <2>31, <2>32, <2>33, <2>34, <2>35,
             <2>36, Zenon DEF ServicesTypes
<1>2. ServicesTypes /\ [ServicesNext]_servicesVars => ServicesTypes'
  <2> SUFFICES ASSUME ServicesTypes, [ServicesNext]_servicesVars PROVE ServicesTypes'
    OBVIOUS
  <2>1. (part \in Parts)'
    BY PartsNext, ServiceSteps DEF ServicesTypes
  <2>2. FeedTypes'
    BY FeedTypesNext, ServiceSteps DEF ServicesTypes
  <2>3. (DryInv /\ DryTypes)'
    BY DryStep, DryTypesNext, ServiceSteps DEF ServicesTypes
  <2>4. SupTypes'
    BY SupTypesNext, ServiceSteps DEF ServicesTypes
  <2>5. WebTypeOK'
    BY WebTypesNext, ServiceSteps DEF ServicesTypes
  <2>6. SheathInv'
    BY SheathNextInv, ServiceSteps DEF ServicesTypes
  <2>7. RecInv'
    BY RecNextInv, ServiceSteps DEF ServicesTypes
  <2>8. LeaseInv'
    BY LeaseNextInv, ServiceSteps DEF ServicesTypes
  <2>9. WorkTypeOK'
    BY WorkTypesNext, ServiceSteps DEF ServicesTypes
  <2>10. OutInv'
    BY OutNextInv, ServiceSteps DEF ServicesTypes
  <2>11. (OpInv /\ OpTypes)'
    BY OpNextInv, OpTypesNext, ServiceSteps DEF ServicesTypes
  <2>12. EntryInv'
    BY EntryNextInv, ServiceSteps DEF ServicesTypes
  <2>13. (RolloutInv /\ RolloutTypeOK)'
    BY RolloutNextInv, RolloutTypesNext, ServiceSteps DEF ServicesTypes
  <2>14. MetricsTypeOK'
    BY MetricsTypesNext, ServiceSteps DEF ServicesTypes
  <2>15. TypeOK'
    BY LedgerTypesNext, ServiceSteps DEF ServicesTypes
  <2>16. AppTypes'
    BY AppTypesNext, ServiceSteps DEF ServicesTypes
  <2>17. (TicksInv /\ TickTypes)'
    BY TicksNextInv, TickTypesNext, ServiceSteps DEF ServicesTypes
  <2>18. TableTypes'
    BY TableTypesNext, ServiceSteps DEF ServicesTypes
  <2>19. (OutcomesInv /\ OutcomeTypes)'
    BY OutcomesNextInv, OutcomeTypesNext, ServiceSteps DEF ServicesTypes
  <2>20. (ThrottleInv /\ ThrottleTypes)'
    BY ThrottleNextInv, ThrottleTypesNext, ServiceSteps DEF ServicesTypes
  <2>21. (PacedInv /\ AlertTypes)'
    BY PacedNextInv, AlertTypesNext, ServiceSteps DEF ServicesTypes
  <2>22. GatewayTypes'
    BY GatewayTypesNext, ServiceSteps DEF ServicesTypes
  <2>23. CapitalTypes'
    BY CapitalTypesNext, ServiceSteps DEF ServicesTypes
  <2>24. (SafeInv /\ SafeTypes)'
    BY SafeNextInv, SafeTypesNext, ServiceSteps DEF ServicesTypes
  <2>25. (SlotInv /\ SlotTypes)'
    BY SlotNextInv, SlotTypesNext, ServiceSteps DEF ServicesTypes
  <2>26. ConfirmTypes'
    BY ConfirmTypesNext, ServiceSteps DEF ServicesTypes
  <2>27. (AcieInv /\ AcieTypes)'
    BY AcieNextInv, AcieTypesNext, ServiceSteps DEF ServicesTypes
  <2>28. (PageTypes /\ StageTypes /\ AggTypes)'
    BY PageTypesNext, StageTypesNext, AggTypesNext, ServiceSteps DEF ServicesTypes
  <2>29. (EngineInv /\ PointTypes)'
    BY EngineNextInv, PointTypesNext, ServiceSteps DEF ServicesTypes
  <2>30. (CalibrationInv /\ RegimeTypes)'
    BY CalibrationNextInv, RegimeTypesNext, ServiceSteps DEF ServicesTypes
  <2>31. (RanksInv /\ WindowTypes)'
    BY RanksNextInv, WindowTypesNext, ServiceSteps DEF ServicesTypes
  <2>32. (RecordInv /\ RecordTypes)'
    BY RecordNextInv, RecordTypesNext, ServiceSteps DEF ServicesTypes
  <2>33. (TypedInv /\ LoginTypes)'
    BY TypedNext, LoginTypesNext, ServiceSteps DEF ServicesTypes
  <2>34. (SimulatedInv /\ DayTypes /\ DatasetInv /\ ScoreTypes)'
    BY SimulatedNextInv, DayTypesNext, DatasetNextInv, ScoreTypesNext, ServiceSteps DEF
       ServicesTypes
  <2>35. (WorkerInv /\ CallTypes /\ ProbeTypes /\ Invoked)'
    BY WorkerNextInv, CallTypesNext, ProbeTypesNext, InvokedStays, ServiceSteps DEF
       ServicesTypes
  <2>36. (JobsInv /\ QueueTypes /\ BreakerInv /\ CallsTypes)'
    BY JobsNextInv, BreakerNextInv, QueueTypesNext, CallsTypesNext, ServiceSteps DEF
       ServicesTypes
  <2> QED BY <2>1, <2>2, <2>3, <2>4, <2>5, <2>6, <2>7, <2>8, <2>9, <2>10, <2>11, <2>12, <2>13,
             <2>14, <2>15, <2>16, <2>17, <2>18, <2>19, <2>20, <2>21, <2>22, <2>23, <2>24,
             <2>25, <2>26, <2>27, <2>28, <2>29, <2>30, <2>31, <2>32, <2>33, <2>34, <2>35, <2>36
             DEF ServicesTypes
<1>3. ServicesTypes => ServicesTypeOK
  BY Zenon, ObsTypesMean, OwnTypesMean, OpTypesMean, RepoTypesMean, NoticeTypesMean, GateTypesMean,
     AcieTypesMean, SourceTypesMean, LearningTypesMean, LoginTypesMean, ValidationTypesMean,
     CallTypesMean, QueueTypesMean DEF ServicesTypeOK, ServicesTypes
<1> QED BY <1>1, <1>2, <1>3, PTL DEF ServicesSpec
-----------------------------------------------------------------------------
(* Algorithms over a history of any length: what the reference definitions *)
(* say of them.                                                            *)
\* The sum of numbers is the last of their partial sums.
LEMMA SumOfIs ==
  ASSUME NEW n \in Nat, NEW p \in [1..n -> Int], NEW f, SumsOf(f, n, p)
  PROVE  SumOf(p) = f[n]
<1> DEFINE F == CHOOSE g : g = [i \in 0..Len(p) |-> IF i = 0 THEN 0 ELSE g[i - 1] + p[i]]
<1>1. Len(p) = n
  OBVIOUS
<1>2. f \in [0..n -> Int] /\ f[0] = 0 /\ \A i \in 1..n : f[i] = f[i - 1] + p[i]
  BY Zenon DEF SumsOf
<1>3. f = [i \in 0..Len(p) |-> IF i = 0 THEN 0 ELSE f[i - 1] + p[i]]
  <2>1. \A i \in 0..n : f[i] = IF i = 0 THEN 0 ELSE f[i - 1] + p[i]
    BY <1>2
  <2>2. f = [i \in 0..n |-> f[i]]
    BY <1>2
  <2> QED BY <1>1, <2>1, <2>2
<1>4. F = [i \in 0..Len(p) |-> IF i = 0 THEN 0 ELSE F[i - 1] + p[i]]
  BY <1>3
<1>5. SumOf(p) = F[n]
  BY <1>1 DEF SumOf
<1> HIDE DEF F
<1>6. F[0] = 0 /\ \A i \in 1..n : F[i] = F[i - 1] + p[i]
  BY <1>1, <1>4
<1> DEFINE S == {i \in 0..n : F[i] = f[i]}
<1>7. 0 \in S
  BY <1>2, <1>6
<1>8. \A i \in 1..n : i - 1 \in S => i \in S
  BY <1>2, <1>6
<1>9. \A i \in 0..n : i \in S
  <2> HIDE DEF S
  <2> QED BY <1>7, <1>8, UpTo
<1>10. n \in S
  BY <1>9
<1> QED BY <1>5, <1>10

\* The sum of the first of some numbers, and of the others.
LEMMA SumOfFirst ==
  ASSUME NEW n \in Nat, NEW p \in [1..n -> Int], NEW f, SumsOf(f, n, p), NEW k \in 0..n
  PROVE  /\ SumOf(SubSeq(p, 1, k)) = f[k]
         /\ SumOf(SubSeq(p, k + 1, n)) = f[n] - f[k]
<1>1. /\ f \in [0..n -> Int] /\ f[0] = 0 /\ \A i \in 1..n : f[i] = f[i - 1] + p[i]
      /\ \A i \in 0..n : f[i] \in Int
  BY DEF SumsOf
<1>2. PICK first : first = SubSeq(p, 1, k)
  OBVIOUS
<1>3. first = [i \in 1..k |-> p[i]]
  BY <1>2
<1>4. first \in [1..k -> Int] /\ \A i \in 1..k : first[i] = p[i]
  BY <1>3
<1>5. PICK g : g = [i \in 0..k |-> f[i]]
  OBVIOUS
<1>6. SumsOf(g, k, first) /\ g[k] = f[k]
  BY <1>1, <1>4, <1>5 DEF SumsOf
<1>7. k \in Nat
  OBVIOUS
<1>8. SumOf(first) = f[k]
  BY <1>4, <1>6, <1>7, SumOfIs
<1>9. PICK last, m : last = SubSeq(p, k + 1, n) /\ m = n - k
  OBVIOUS
<1>10. m \in Nat /\ last = [i \in 1..m |-> p[i + k]]
  BY <1>9
<1>11. last \in [1..m -> Int] /\ \A i \in 1..m : last[i] = p[i + k]
  <2>1. ASSUME NEW i \in 1..m PROVE p[i + k] \in Int
    <3>1. i + k \in 1..n
      BY <1>9
    <3> QED BY <3>1
  <2> QED BY <1>10, <2>1
<1>12. PICK h : h = [i \in 0..m |-> f[i + k] - f[k]]
  OBVIOUS
<1>13. SumsOf(h, m, last) /\ h[m] = f[n] - f[k]
  <2>1. \A i \in 0..m : i + k \in 0..n /\ f[i + k] \in Int
    BY <1>1, <1>9
  <2>2. h \in [0..m -> Int] /\ h[0] = 0
    BY <1>1, <1>10, <1>12, <2>1
  <2>3. ASSUME NEW i \in 1..m PROVE h[i] = h[i - 1] + last[i]
    <3>1. i + k \in 1..n /\ i - 1 \in 0..m /\ i \in 0..m /\ (i + k) - 1 = (i - 1) + k
      BY <1>9
    <3>2. f[i + k] = f[(i - 1) + k] + p[i + k]
      BY <1>1, <3>1
    <3>3. h[i] = f[i + k] - f[k] /\ h[i - 1] = f[(i - 1) + k] - f[k] /\ last[i] = p[i + k]
      BY <1>11, <1>12, <3>1
    <3>4. f[(i - 1) + k] \in Int /\ f[k] \in Int /\ p[i + k] \in Int
      BY <1>1, <2>1, <3>1
    <3> QED BY <3>2, <3>3, <3>4
  <2>4. h[m] = f[n] - f[k]
    BY <1>9, <1>10, <1>12
  <2> QED BY <2>2, <2>3, <2>4 DEF SumsOf
<1>14. SumOf(last) = f[n] - f[k]
  BY <1>10, <1>11, <1>13, SumOfIs
<1> QED BY <1>2, <1>8, <1>9, <1>14, Zenon

(* What ExpectedIsActual and TrendIsEndToEnd check on short sequences, for *)
(* any results and any balances: from a snapshot on the expected balance   *)
(* is the actual one wherever the snapshot was taken, without one it is    *)
(* for a first bet, and the trend is the difference of the ends of its     *)
(* window.  (balance-reconciliation.ts computeExpectedBalance, balance-    *)
(* tracker.ts getTrend)                                                    *)
THEOREM BalancesAddUp ==
  /\ \A start \in Int, pnls \in Seq(Int) : \A k \in -1..Len(pnls) :
       (k >= 0 \/ Len(pnls) = 1) =>
         ExpectedBalance(start, pnls, k) = ActualAfter(start, pnls, Len(pnls))
  /\ \A balances \in Seq(Int), n \in Nat :
       LET kept == KeepLast(balances, n) IN
       TrendOf(balances, n) = IF kept = <<>> THEN 0 ELSE kept[Len(kept)] - kept[1]
<1>1. ASSUME NEW start \in Int, NEW pnls \in Seq(Int), NEW k \in -1..Len(pnls),
             k >= 0 \/ Len(pnls) = 1
      PROVE  ExpectedBalance(start, pnls, k) = ActualAfter(start, pnls, Len(pnls))
  <2>1. PICK n \in Nat : n = Len(pnls) /\ pnls \in [1..n -> Int]
    OBVIOUS
  <2>2. PICK f : SumsOf(f, n, pnls)
    BY <2>1, PartialSums
  <2>3. f[0] = 0 /\ \A i \in 0..n : f[i] \in Int
    BY <2>1, <2>2 DEF SumsOf
  <2>4. \A i \in 0..n : ActualAfter(start, pnls, i) = start + f[i]
    BY <2>1, <2>2, SumOfFirst, Zenon DEF ActualAfter
  <2>5. n \in 0..n /\ 0 \in 0..n
    OBVIOUS
  <2>6. CASE k >= 0
    <3>1. k \in 0..n
      BY <2>1, <2>6
    <3>2. SumOf(SubSeq(pnls, k + 1, n)) = f[n] - f[k]
      BY <2>1, <2>2, <3>1, SumOfFirst
    <3>3. ExpectedBalance(start, pnls, k) = ActualAfter(start, pnls, k) + SumOf(SubSeq(pnls, k + 1, n))
      BY <2>1, <2>6 DEF ExpectedBalance
    <3>4. ExpectedBalance(start, pnls, k) = (start + f[k]) + (f[n] - f[k])
      BY <2>4, <3>1, <3>2, <3>3
    <3>5. ActualAfter(start, pnls, n) = start + f[n]
      BY <2>4, <2>5
    <3>6. f[k] \in Int /\ f[n] \in Int
      BY <2>3, <2>5, <3>1
    <3>7. (start + f[k]) + (f[n] - f[k]) = start + f[n]
      BY <3>6
    <3> QED BY <2>1, <3>4, <3>5, <3>7
  <2>7. CASE ~(k >= 0)
    <3>1. n = 1 /\ n - 1 = 0
      BY <1>1, <2>1, <2>7
    <3>2. SumOf(pnls) = f[n]
      <4>1. SumOf(SubSeq(pnls, 1, n)) = f[n]
        BY <2>1, <2>2, <2>5, SumOfFirst
      <4>2. SubSeq(pnls, 1, n) = pnls
        BY <2>1
      <4> QED BY <4>1, <4>2
    <3>3. ExpectedBalance(start, pnls, k) = ActualAfter(start, pnls, 0) + SumOf(pnls)
      BY <2>1, <2>7, <3>1 DEF ExpectedBalance
    <3>4. ActualAfter(start, pnls, 0) = start + f[0] /\ ActualAfter(start, pnls, n) = start + f[n]
      BY <2>4, <2>5
    <3>5. f[n] \in Int
      BY <2>3, <2>5
    <3> QED BY <2>1, <2>3, <3>2, <3>3, <3>4, <3>5
  <2> QED BY <2>6, <2>7
<1>2. ASSUME NEW balances \in Seq(Int), NEW n \in Nat
      PROVE  LET kept == KeepLast(balances, n) IN
             TrendOf(balances, n) = IF kept = <<>> THEN 0 ELSE kept[Len(kept)] - kept[1]
  <2>1. PICK kept : kept = KeepLast(balances, n)
    OBVIOUS
  <2>2. kept \in Seq(Int)
    BY <2>1 DEF KeepLast
  <2>3. PICK l \in Nat : l = Len(kept) /\ kept \in [1..l -> Int]
    BY <2>2
  <2>4. CASE l < 2
    <3>1. TrendOf(balances, n) = 0
      BY <2>1, <2>3, <2>4, Zenon DEF TrendOf
    <3>2. kept # <<>> => l = 1
      BY <2>2, <2>3, <2>4
    <3>3. l = 1 => kept[l] - kept[1] = 0
      BY <2>3
    <3>4. kept = <<>> \/ kept[l] - kept[1] = 0
      BY <3>2, <3>3, Zenon
    <3> QED BY <2>1, <2>3, <3>1, <3>4
  <2>5. CASE ~(l < 2)
    <3>1. PICK m \in Nat : m = l - 1 /\ m >= 1
      BY <2>5
    <3>2. PICK d : d = [i \in 1..m |-> kept[i + 1] - kept[i]]
      OBVIOUS
    <3>3. TrendOf(balances, n) = SumOf(d)
      <4>1. TrendOf(balances, n) = SumOf([i \in 1..(Len(kept) - 1) |-> kept[i + 1] - kept[i]])
        BY <2>1, <2>3, <2>5, Zenon DEF TrendOf
      <4> QED BY <2>3, <3>1, <3>2, <4>1
    <3>4. ASSUME NEW i \in 1..m PROVE kept[i + 1] \in Int /\ kept[i] \in Int
      <4>1. i + 1 \in 1..l /\ i \in 1..l
        BY <3>1
      <4> QED BY <2>3, <4>1
    <3>5. d \in [1..m -> Int] /\ \A i \in 1..m : d[i] = kept[i + 1] - kept[i]
      BY <3>2, <3>4
    <3>6. PICK g : g = [i \in 0..m |-> kept[i + 1] - kept[1]]
      OBVIOUS
    <3>7. SumsOf(g, m, d)
      <4>1. \A i \in 0..m : i + 1 \in 1..l /\ kept[i + 1] \in Int
        BY <2>3, <3>1
      <4>2. g \in [0..m -> Int] /\ g[0] = 0
        <5>1. kept[1] \in Int
          BY <2>3, <3>1
        <5>2. \A i \in 0..m : kept[i + 1] - kept[1] \in Int
          BY <4>1, <5>1
        <5>3. 0 \in 0..m /\ kept[0 + 1] - kept[1] = 0
          BY <3>1, <5>1
        <5>4. g \in [0..m -> Int]
          BY <3>6, <5>2
        <5> QED BY <3>6, <5>3, <5>4
      <4>3. ASSUME NEW i \in 1..m PROVE g[i] = g[i - 1] + d[i]
        <5>1. i \in 0..m /\ i - 1 \in 0..m /\ (i - 1) + 1 = i
          OBVIOUS
        <5>2. g[i] = kept[i + 1] - kept[1] /\ g[i - 1] = kept[i] - kept[1]
          BY <3>6, <5>1
        <5>3. kept[i + 1] \in Int /\ kept[i] \in Int /\ kept[1] \in Int
          BY <2>3, <3>1, <3>4
        <5> QED BY <3>5, <5>2, <5>3
      <4> QED BY <4>2, <4>3 DEF SumsOf
    <3>8. SumOf(d) = g[m]
      BY <3>5, <3>7, SumOfIs
    <3>9. g[m] = kept[l] - kept[1]
      <4>1. m \in 0..m /\ m + 1 = l
        BY <3>1
      <4> QED BY <3>6, <4>1
    <3>10. kept # <<>>
      BY <2>3, <2>5
    <3>11. TrendOf(balances, n) = kept[Len(kept)] - kept[1]
      BY <2>3, <3>3, <3>8, <3>9, Zenon
    <3> QED BY <2>1, <3>10, <3>11, Zenon
  <2> QED BY <2>4, <2>5
<1> QED BY <1>1, <1>2

\* What is computed step by step up to n.
StepsTo(f, E, n, base, steps) ==
  /\ f \in [0..n -> E] /\ f[0] = base
  /\ \A i \in 1..n : f[i] = steps[i][f[i - 1]]

\* It exists, whatever the steps.
LEMMA StepsExist ==
  ASSUME NEW n \in Nat, NEW E, NEW base \in E, NEW steps \in [1..n -> [E -> E]]
  PROVE  \E f : StepsTo(f, E, n, base, steps)
<1> DEFINE S == {k \in 0..n : \E f : StepsTo(f, E, k, base, steps)}
<1>1. 0 \in S
  <2>1. PICK f : f = [i \in 0..0 |-> base]
    OBVIOUS
  <2>2. StepsTo(f, E, 0, base, steps)
    BY <2>1 DEF StepsTo
  <2>3. \E g : StepsTo(g, E, 0, base, steps)
    BY <2>2, Zenon
  <2>4. 0 \in 0..n
    OBVIOUS
  <2> QED BY <2>3, <2>4, Zenon
<1>2. ASSUME NEW k \in 1..n, k - 1 \in S PROVE k \in S
  <2>1. PICK f : StepsTo(f, E, k - 1, base, steps)
    BY <1>2
  <2>2. f \in [0..(k - 1) -> E] /\ f[0] = base /\ \A i \in 1..(k - 1) : f[i] = steps[i][f[i - 1]]
    BY <2>1, Zenon DEF StepsTo
  <2>3. PICK x : x = steps[k][f[k - 1]]
    OBVIOUS
  <2>4. x \in E
    <3>1. f[k - 1] \in E /\ steps[k] \in [E -> E]
      BY <2>2
    <3> QED BY <2>3, <3>1
  <2>5. PICK g : g = [i \in 0..k |-> IF i = k THEN x ELSE f[i]]
    OBVIOUS
  <2>6. g \in [0..k -> E] /\ g[k] = x /\ \A i \in 0..(k - 1) : g[i] = f[i]
    BY <2>2, <2>4, <2>5
  <2>7. g[0] = base
    BY <2>2, <2>6
  <2>8. ASSUME NEW i \in 1..k PROVE g[i] = steps[i][g[i - 1]]
    <3>1. CASE i = k
      <4>1. g[k - 1] = f[k - 1]
        BY <2>6
      <4> QED BY <2>3, <2>6, <3>1, <4>1
    <3>2. CASE i # k
      <4>1. i \in 1..(k - 1) /\ i \in 0..(k - 1) /\ i - 1 \in 0..(k - 1)
        BY <3>2
      <4>2. g[i] = f[i] /\ g[i - 1] = f[i - 1] /\ f[i] = steps[i][f[i - 1]]
        BY <2>2, <2>6, <4>1
      <4> QED BY <4>2
    <3> QED BY <3>1, <3>2
  <2>9. StepsTo(g, E, k, base, steps)
    BY <2>6, <2>7, <2>8, Zenon DEF StepsTo
  <2>10. k \in 0..n
    OBVIOUS
  <2> QED BY <2>9, <2>10, Zenon
<1>3. \A k \in 0..n : k \in S
  <2>1. \A k \in 1..n : k - 1 \in S => k \in S
    BY <1>2
  <2> HIDE DEF S
  <2> QED BY <1>1, <2>1, UpTo
<1>4. n \in S
  BY <1>3
<1> QED BY <1>4

\* The statuses, from the best to the worst.
AnyStatus == {"OK", "UNKNOWN", "DEGRADED", "FAILING"}

\* Their severities are 1 to 4.
LEMMA SeverityIs ==
  /\ Severity("OK") = 1 /\ Severity("UNKNOWN") = 2
  /\ Severity("DEGRADED") = 3 /\ Severity("FAILING") = 4
<1>1. /\ Statuses4[1] = "OK" /\ Statuses4[2] = "UNKNOWN"
      /\ Statuses4[3] = "DEGRADED" /\ Statuses4[4] = "FAILING"
  BY DEF Statuses4
<1>2. ASSUME NEW k \in 1..4, NEW s, s = Statuses4[k] PROVE Severity(s) = k
  <2>1. \A i \in 1..4 : Statuses4[i] = s => i = k
    BY <1>1, <1>2
  <2>2. Severity(s) \in 1..4 /\ Statuses4[Severity(s)] = s
    BY <1>2 DEF Severity
  <2> QED BY <2>1, <2>2
<1> QED BY <1>1, <1>2

\* The worse of two.
LEMMA WorseIs ==
  ASSUME NEW w \in AnyStatus, NEW s \in AnyStatus
  PROVE  /\ WorseOf(w, s) \in {w, s}
         /\ Severity(WorseOf(w, s)) >= Severity(w) /\ Severity(WorseOf(w, s)) >= Severity(s)
BY SeverityIs DEF WorseOf, AnyStatus

(* What WorstIsWorst checks for up to three checks, for any number: the    *)
(* verdict of the monitor is at least as severe as every check, and it is  *)
(* OK or the status of one of them.  (monitor.ts runChecks)                *)
THEOREM VerdictIsWorst ==
  ASSUME NEW n \in Nat, NEW checks \in [1..n -> AnyStatus]
  PROVE  /\ \A i \in 1..n : Severity(WorstStatus(checks)) >= Severity(checks[i])
         /\ WorstStatus(checks) = "OK" \/ \E i \in 1..n : WorstStatus(checks) = checks[i]
<1> DEFINE steps == [i \in 1..n |-> [w \in AnyStatus |-> WorseOf(w, checks[i])]]
           W == CHOOSE f : f = [i \in 0..Len(checks) |->
                                  IF i = 0 THEN "OK" ELSE WorseOf(f[i - 1], checks[i])]
<1>1. Len(checks) = n
  OBVIOUS
<1>2. PICK f \in [0..n -> AnyStatus] : f[0] = "OK" /\ \A i \in 1..n : f[i] = WorseOf(f[i - 1], checks[i])
  <2>1. steps \in [1..n -> [AnyStatus -> AnyStatus]]
    <3>1. ASSUME NEW i \in 1..n, NEW w \in AnyStatus PROVE WorseOf(w, checks[i]) \in AnyStatus
      BY WorseIs
    <3> QED BY <3>1
  <2>2. "OK" \in AnyStatus
    BY DEF AnyStatus
  <2>3. PICK g \in [0..n -> AnyStatus] : g[0] = "OK" /\ \A i \in 1..n : g[i] = steps[i][g[i - 1]]
    <3> HIDE DEF steps
    <3>1. PICK E, base, st : E = AnyStatus /\ base = "OK" /\ st = steps
      OBVIOUS
    <3>2. base \in E /\ st \in [1..n -> [E -> E]]
      BY <2>1, <2>2, <3>1, Zenon
    <3>3. PICK g : StepsTo(g, E, n, base, st)
      BY <3>2, StepsExist
    <3>4. g \in [0..n -> E] /\ g[0] = base /\ \A i \in 1..n : g[i] = st[i][g[i - 1]]
      BY <3>3, Zenon DEF StepsTo
    <3> QED BY <3>1, <3>4, Zenon
  <2>4. ASSUME NEW i \in 1..n PROVE g[i] = WorseOf(g[i - 1], checks[i])
    <3>1. g[i - 1] \in AnyStatus
      OBVIOUS
    <3> QED BY <2>3, <3>1
  <2> QED BY <2>3, <2>4
<1>3. f = [i \in 0..Len(checks) |-> IF i = 0 THEN "OK" ELSE WorseOf(f[i - 1], checks[i])]
  <2>1. \A i \in 0..n : f[i] = IF i = 0 THEN "OK" ELSE WorseOf(f[i - 1], checks[i])
    BY <1>2
  <2>2. f = [i \in 0..n |-> f[i]]
    OBVIOUS
  <2> QED BY <1>1, <2>1, <2>2
<1>4. W = [i \in 0..Len(checks) |-> IF i = 0 THEN "OK" ELSE WorseOf(W[i - 1], checks[i])]
  BY <1>3
<1>5. WorstStatus(checks) = W[n]
  BY <1>1 DEF WorstStatus
<1> HIDE DEF W, steps
<1>6. W[0] = "OK" /\ \A i \in 1..n : W[i] = WorseOf(W[i - 1], checks[i])
  BY <1>1, <1>4
<1> DEFINE S == {k \in 0..n : /\ W[k] \in AnyStatus
                              /\ \A i \in 1..k : Severity(W[k]) >= Severity(checks[i])
                              /\ W[k] = "OK" \/ \E i \in 1..k : W[k] = checks[i]}
<1>7. 0 \in S
  BY <1>6 DEF AnyStatus
<1>8. ASSUME NEW k \in 1..n, k - 1 \in S PROVE k \in S
  <2>0. PICK w : w = W[k]
    OBVIOUS
  <2>1. PICK v \in AnyStatus, s \in AnyStatus : v = W[k - 1] /\ s = checks[k]
    BY <1>8
  <2>2. w = WorseOf(v, s)
    BY <1>6, <2>0, <2>1
  <2>3. w \in {v, s} /\ Severity(w) >= Severity(v) /\ Severity(w) >= Severity(s)
    BY <2>2, WorseIs
  <2>4. \A u \in AnyStatus : Severity(u) \in Int
    BY SeverityIs DEF AnyStatus
  <2>5. ASSUME NEW i \in 1..k PROVE Severity(w) >= Severity(checks[i])
    <3>1. CASE i = k
      BY <2>1, <2>3, <3>1
    <3>2. CASE i # k
      <4>1. i \in 1..(k - 1)
        BY <3>2
      <4>2. Severity(v) >= Severity(checks[i])
        BY <1>8, <2>1, <4>1
      <4>3. Severity(w) \in Int /\ Severity(v) \in Int /\ Severity(checks[i]) \in Int
        BY <2>3, <2>4
      <4> QED BY <2>3, <4>2, <4>3
    <3> QED BY <3>1, <3>2
  <2>6. w = "OK" \/ \E i \in 1..k : w = checks[i]
    <3>1. CASE w = s
      BY <2>1, <3>1
    <3>2. CASE w = v
      <4>1. v = "OK" \/ \E i \in 1..(k - 1) : v = checks[i]
        BY <1>8, <2>1
      <4> QED BY <3>2, <4>1
    <3> QED BY <2>3, <3>1, <3>2
  <2>7. w \in AnyStatus
    BY <2>3
  <2> QED BY <2>0, <2>1, <2>5, <2>6, <2>7
<1>9. \A k \in 0..n : k \in S
  <2>1. \A k \in 1..n : k - 1 \in S => k \in S
    BY <1>8
  <2> HIDE DEF S
  <2> QED BY <1>7, <2>1, UpTo
<1>10. n \in S
  BY <1>9
<1> QED BY <1>5, <1>10
=============================================================================
