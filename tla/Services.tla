------------------------------ MODULE Services ------------------------------
(***************************************************************************)
(* The services around the betting core, each a module of its own with     *)
(* variables of its own.  They are explored side by side: a behaviour is   *)
(* one of the part it starts in, and the other parts stay as they began.   *)
(* What interacts is composed within a part: the page, the adapter, the    *)
(* observer, the bus, the dry-run bridge and its ledger are one            *)
(* (Observation), as are a run of recovery, its sweep and the              *)
(* reconciliation (Recovery), or the bot, the composition's callbacks and  *)
(* the pending confirmations (OperatorControl).                            *)
(***************************************************************************)
EXTENDS Observation, Supervisor, Browser, SheathMode, Recovery, Leases, Workers,
        CashOut, OperatorControl, EntryDecision, ModelRollout, Metrics, DailyEntries,
        Application, Repositories, Notices, Gates, AcieEngine, GameSources, Learning,
        LoginPipeline, Validation, BrowserWorker, JobQueue

VARIABLE part

Parts == {"observation", "supervisor", "browser", "sheath", "recovery", "leases", "workers",
          "cash out", "operators", "entry", "rollout", "metrics", "daily", "application",
          "ticks", "table", "outcomes", "throttle", "alerts", "gateway", "capital", "safeguards",
          "slots", "confirmations", "acie", "page", "websocket", "aggregation", "engine",
          "calibration", "ranks", "record", "login", "backtest", "datasets", "scores",
          "conversation", "browser worker", "worker health", "jobs", "breaker"}

ServicesInit ==
  /\ part \in Parts
  /\ ObsInit /\ SupInit /\ WebInit /\ SheathInit /\ RecInit /\ LeaseInit /\ WorkInit
  /\ OutInit /\ OpInit /\ EntryInit /\ RolloutInit /\ MetricsInit /\ Init
  /\ AppInit /\ RepoInit /\ NoticeInit /\ GateInit /\ AcieInit /\ SourceInit
  /\ LearningInit /\ ValidationInit /\ BrowserWorkerInit /\ JobQueueInit
  /\ LoginInit /\ (part # "login" => caller = "worker" /\ withSession)
  /\ part # "login" => loginPage = [shows |-> "blank", onLogin |-> TRUE, open |-> TRUE]
  /\ part # "confirmations" => strict = FALSE
  /\ part # "leases" => lock = "instance" /\ ~fallback

(* Every part but one stays as it is.                                      *)
OthersStay(name) ==
  /\ UNCHANGED part
  /\ name # "observation" => UNCHANGED obsVars
  /\ name # "supervisor" => UNCHANGED supVars
  /\ name # "browser" => UNCHANGED webVars
  /\ name # "sheath" => UNCHANGED sheathVars
  /\ name # "recovery" => UNCHANGED recVars
  /\ name # "leases" => UNCHANGED leaseVars
  /\ name # "workers" => UNCHANGED workVars
  /\ name # "cash out" => UNCHANGED outVars
  /\ name \notin {"operators", "conversation"} => UNCHANGED opVars
  /\ name # "entry" => UNCHANGED entryVars
  /\ name # "rollout" => UNCHANGED rolloutVars
  /\ name # "metrics" => UNCHANGED outcomes
  /\ name # "daily" => UNCHANGED vars
  /\ name # "application" => UNCHANGED appVars
  /\ name # "ticks" => UNCHANGED tickVars
  /\ name # "table" => UNCHANGED stored
  /\ name # "outcomes" => UNCHANGED outcomeVars
  /\ name # "throttle" => UNCHANGED throttleVars
  /\ name # "alerts" => UNCHANGED alertVars
  /\ name # "gateway" => UNCHANGED gatewayVars
  /\ name # "capital" => UNCHANGED capitalVars
  /\ name # "safeguards" => UNCHANGED safeVars
  /\ name # "slots" => UNCHANGED slotVars
  /\ name # "confirmations" => UNCHANGED confirmVars
  /\ name # "acie" => UNCHANGED acieVars
  /\ name # "page" => UNCHANGED pageVars
  /\ name # "websocket" => UNCHANGED wsVars
  /\ name # "aggregation" => UNCHANGED aggVars
  /\ name # "engine" => UNCHANGED engineVars
  /\ name # "calibration" => UNCHANGED calibrationVars
  /\ name # "ranks" => UNCHANGED rankVars
  /\ name # "record" => UNCHANGED perfVars
  /\ name # "login" => UNCHANGED loginVars
  /\ name # "backtest" => UNCHANGED backtestVars
  /\ name # "datasets" => UNCHANGED datasetVars
  /\ name # "scores" => UNCHANGED scoreVars
  /\ name # "browser worker" => UNCHANGED workerVars
  /\ name # "worker health" => UNCHANGED circuitVars
  /\ name # "jobs" => UNCHANGED queueVars
  /\ name # "breaker" => UNCHANGED breakerVars

ServicesNext ==
  \/ part = "observation" /\ ObsNext /\ OthersStay("observation")
  \/ part = "supervisor" /\ SupNext /\ OthersStay("supervisor")
  \/ part = "browser" /\ WebNext /\ OthersStay("browser")
  \/ part = "sheath" /\ SheathNext /\ OthersStay("sheath")
  \/ part = "recovery" /\ RecNext /\ OthersStay("recovery")
  \/ part = "leases" /\ LeaseNext /\ OthersStay("leases")
  \/ part = "workers" /\ WorkNext /\ OthersStay("workers")
  \/ part = "cash out" /\ OutNext /\ OthersStay("cash out")
  \/ part = "operators" /\ OpNext /\ OthersStay("operators")
  \/ part = "conversation" /\ ChatNext /\ OthersStay("conversation")
  \/ part = "entry" /\ EntryNext /\ OthersStay("entry")
  \/ part = "rollout" /\ RolloutNext /\ OthersStay("rollout")
  \/ part = "metrics" /\ BetEnds /\ OthersStay("metrics")
  \/ part = "daily" /\ Next /\ OthersStay("daily")
  \/ part = "application" /\ AppNext /\ OthersStay("application")
  \/ part = "ticks" /\ TicksNext /\ OthersStay("ticks")
  \/ part = "table" /\ TableNext /\ OthersStay("table")
  \/ part = "outcomes" /\ OutcomesNext /\ OthersStay("outcomes")
  \/ part = "throttle" /\ ThrottleNext /\ OthersStay("throttle")
  \/ part = "alerts" /\ AlertNext /\ OthersStay("alerts")
  \/ part = "gateway" /\ GatewayNext /\ OthersStay("gateway")
  \/ part = "capital" /\ CapitalNext /\ OthersStay("capital")
  \/ part = "safeguards" /\ SafeNext /\ OthersStay("safeguards")
  \/ part = "slots" /\ SlotsNext /\ OthersStay("slots")
  \/ part = "confirmations" /\ ConfirmNext /\ OthersStay("confirmations")
  \/ part = "acie" /\ AcieNext /\ OthersStay("acie")
  \/ part = "page" /\ PageNext /\ OthersStay("page")
  \/ part = "websocket" /\ WsNext /\ OthersStay("websocket")
  \/ part = "aggregation" /\ AggNext /\ OthersStay("aggregation")
  \/ part = "engine" /\ EngineNext /\ OthersStay("engine")
  \/ part = "calibration" /\ CalibrationNext /\ OthersStay("calibration")
  \/ part = "ranks" /\ RankNext /\ OthersStay("ranks")
  \/ part = "record" /\ PerfNext /\ OthersStay("record")
  \/ part = "login" /\ LoginNext /\ OthersStay("login")
  \/ part = "backtest" /\ BacktestNext /\ OthersStay("backtest")
  \/ part = "datasets" /\ DatasetNext /\ OthersStay("datasets")
  \/ part = "scores" /\ ScoreNext /\ OthersStay("scores")
  \/ part = "browser worker" /\ BrowserWorkerNext /\ OthersStay("browser worker")
  \/ part = "worker health" /\ CircuitNext /\ OthersStay("worker health")
  \/ part = "jobs" /\ QueueNext /\ OthersStay("jobs")
  \/ part = "breaker" /\ BreakerNext /\ OthersStay("breaker")

servicesVars == <<part, obsVars, supVars, webVars, sheathVars, recVars, leaseVars, workVars, outVars,
                  opVars, entryVars, rolloutVars, outcomes, vars, appVars, repoVars, noticeVars,
                  gateVars, acieVars, sourceVars, learningVars, loginVars, validationVars,
                  workerVars, circuitVars, queueVars, breakerVars>>
ServicesSpec == ServicesInit /\ [][ServicesNext]_servicesVars
-----------------------------------------------------------------------------
(* Every service keeps the types of its variables, whatever the order in   *)
(* which its handlers run.  (all the components above)                     *)
ServicesTypeOK ==
  /\ part \in Parts
  /\ part = "observation" => ObsTypeOK
  /\ part = "supervisor" => SupTypeOK
  /\ part = "browser" => WebTypeOK
  /\ part = "sheath" => SheathTypeOK
  /\ part = "recovery" => RecTypeOK
  /\ part = "leases" => LeaseTypeOK
  /\ part = "workers" => WorkTypeOK
  /\ part = "cash out" => OutTypeOK
  /\ part \in {"operators", "conversation"} => OpTypeOK
  /\ part = "entry" => EntryTypeOK
  /\ part = "rollout" => RolloutTypeOK
  /\ part = "metrics" => MetricsTypeOK
  /\ part = "daily" => TypeOK
  /\ part = "application" => AppTypeOK
  /\ part \in {"ticks", "table", "outcomes"} => RepoTypeOK
  /\ part \in {"throttle", "alerts", "gateway"} => NoticeTypeOK
  /\ part \in {"capital", "safeguards", "slots", "confirmations"} => GateTypeOK
  /\ part = "acie" => AcieTypeOK
  /\ part \in {"page", "websocket", "aggregation"} => SourceTypeOK
  /\ part \in {"engine", "calibration", "ranks", "record"} => LearningTypeOK
  /\ part = "login" => LoginTypeOK
  /\ part \in {"backtest", "datasets", "scores"} => ValidationTypeOK
  /\ part \in {"browser worker", "worker health"} => BrowserWorkerTypeOK
  /\ part \in {"jobs", "breaker"} => JobQueueTypeOK

-----------------------------------------------------------------------------
(* What several services promise alike, each in its part.                  *)

(* Risk is taken up again only as the checks allow: bets of the dry run    *)
(* after the good rounds that are required, all of them since betting was  *)
(* last stopped or a check failed (a /sheath during that recovery does not *)
(* stop it, and is forgotten with it), and a run of recovery only after it *)
(* counted no doubtful bet.                                                *)
(* (core/sheath-mode, core/recovery-manager.ts, ledger/unknown-state-...)  *)
StopsHold ==
  /\ part = "sheath" => SuspendedWhileTriggered
  /\ part = "recovery" => ResumeSawZero

(* What is handed over for later is done, still waiting or reported lost:  *)
(* jobs of the workers and of the queue, ticks and outcomes on their way   *)
(* to the database, notices on their way to Telegram.                      *)
(* (base-worker.ts, priority-queue.ts, tick-repo.ts, prediction-repo.ts,   *)
(* throttle.ts)                                                            *)
WorkIsKept ==
  /\ part = "workers" => NoWorkLost
  /\ part = "ticks" => NoTickLost
  /\ part = "outcomes" => OutcomeKept
  /\ part = "throttle" => NoticesAccounted
  /\ part = "jobs" => JobsAreKept

(* Limits hold whatever the order of the calls: capital, drawdown, entries *)
(* and slots of a day, alerts of a minute, and the stakes of a backtest.   *)
(* (capital-guard, safeguards.ts, daily-entries.ts, live-alerts.ts,        *)
(* backtest-engine.ts)                                                     *)
LimitsHold ==
  /\ part = "capital" => CapitalLockHolds
  /\ part = "safeguards" => CounterIsToday
  /\ part = "slots" => SlotsOnce /\ ReadNeverOvercounts
  /\ part = "alerts" => AlertsPaced
  /\ part = "backtest" => BacktestIsBounded

(* A verdict about a bet is earned by what was seen of it: the cash-out,   *)
(* the confirmation of an entry.  Of the verdicts about a round this much  *)
(* holds: the DOM adapter never reports the crash of a round to come, and  *)
(* one of an earlier round only if no two polls saw the present one come   *)
(* to run; the API adapter reports a round crashed once at most, but       *)
(* perhaps while it runs; high confidence of the aggregate means that its  *)
(* sources agree.  (game/cashout.ts, game/confirmation.ts, game/adapters)  *)
VerdictsAreEarned ==
  /\ part = "cash out" => VerdictMatchesTable
  /\ part = "confirmations" => ConfirmedOnlyByReader
  /\ part \in {"page", "websocket", "aggregation"} => SourcesAreTrue

(* What is reported of the process is so: the supervisor's phase, the      *)
(* stages and the answer of a login, the session of the browser worker and *)
(* its health, and the state of a circuit breaker.                         *)
(* (core/session-supervisor.ts, browser/login-test-pipeline.ts,            *)
(* browser/worker, utils/retry.ts)                                         *)
StatusIsTruthful ==
  /\ part = "supervisor" => PhaseIsTruthful
  /\ part = "login" => LoginIsHonest
  /\ part = "browser worker" => BrowsersAreOwned
  /\ part = "worker health" => CircuitIsEarned
  /\ part = "breaker" => BreakerRecovers

(* A halted or promoted model was halted or promoted as the rollout says.  *)
(* (live-divergence-monitor.ts, model-lifecycle.ts)                        *)
RolloutIsGuarded ==
  /\ part = "entry" => HaltNeedsOperator
  /\ part = "rollout" => OneProduction

(* Models are scored by what they said before the round, and keep what the *)
(* rounds they were shown come to: the engines, the calibrators, the       *)
(* ranks, the data sets and the windows of a walk-forward.  The ACIE       *)
(* engine learns no round it still knows twice, but those of a snapshot,   *)
(* which it knows by other ids.                                            *)
(* (prediction/acie, learning, datasets, backtesting)                      *)
LearningIsTrue ==
  /\ part = "acie" => LearningIsSound
  /\ part = "engine" => EngineMatchesHistory
  /\ part = "calibration" => ReliabilityIsRecent
  /\ part = "ranks" => RanksFollowScores
  /\ part = "record" => RecordIsARate
  /\ part = "datasets" => DatasetIsSound
  /\ part = "backtest" => WindowsAreHonest

=============================================================================
