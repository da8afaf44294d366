---------------------------- MODULE EntryDecision ----------------------------
(***************************************************************************)
(* How an entry is decided: the evaluation of a round                      *)
(* (prediction/entry-decision-service.ts), the risk engine's verdict       *)
(* (betting/risk-engine.ts), the financial circuit breaker it consults,    *)
(* and the monitor of predictions against outcomes that may halt entries   *)
(* (prediction/validation/live-divergence-monitor.ts).                     *)
(*                                                                         *)
(* An evaluation awaits nothing, so it is one step.  The service is        *)
(* composed without a SheathMode and with ACIE preferred.  The numbers of  *)
(* a prediction are abstracted to "low", below a threshold, and "high";    *)
(* the sixteen conditions of the risk input that other components own to   *)
(* one Boolean; the fit of predictions and outcomes to the level its       *)
(* figures call for.                                                       *)
(***************************************************************************)
EXTENDS Naturals

CONSTANTS MinWindow,     \* outcomes the monitor needs (50)
          Grace,         \* outcomes after a manual recovery without escalation (100)
          WarmAt,        \* rounds that make the prediction stack warm (50)
          FailThreshold  \* failures that open the circuit (5)

ASSUME EntryAssumption == {MinWindow, Grace, WarmAt, FailThreshold} \subseteq Nat

VARIABLES ready,      \* the prewarm's result allows live entries
          buffer,     \* the history buffer has been loaded
          learned,    \* crashes in the incremental state, up to WarmAt
          lastProb,   \* lastEmittedProbability
          fit,        \* level the monitor's window calls for
          monitor,    \* the divergence monitor
          circuit,    \* state and failures of the financial circuit breaker
          decision,   \* result of an evaluation its bridge has not taken yet
          haltSeen    \* history: entries were halted, nobody has recovered them

entryVars == <<ready, buffer, learned, lastProb, fit, monitor, circuit, decision, haltSeen>>

Levels == {0, 1, 3, 5}     \* 2 is like 1, and 4 like 3, in what they may do
Nothing == "none"
NoDecision == [taken |-> TRUE]

EntryInit ==
  /\ ready = FALSE /\ buffer = FALSE /\ learned = 0
  /\ lastProb = Nothing /\ fit = 0
  /\ monitor = [points |-> 0, level |-> 0, manual |-> FALSE, grace |-> 0]
  /\ circuit = [state |-> "CLOSED", failures |-> 0]
  /\ decision = NoDecision
  /\ haltSeen = FALSE
-----------------------------------------------------------------------------
(* The divergence monitor.  Forgiving is a mutant: a level that needs      *)
(* manual recovery is left like any other.                                 *)

Less(n) == IF n > 0 THEN n - 1 ELSE 0
AtMost(n, m) == IF n < m THEN n ELSE m

Forgiving(m, raw) ==
  IF m.points < MinWindow \/ m.grace > 0 THEN m ELSE [m EXCEPT !.level = raw]

Evaluated(m, raw) ==
  IF m.points < MinWindow \/ m.grace > 0 \/ m.manual THEN m
  ELSE [m EXCEPT !.level = raw, !.manual = raw >= 3 /\ raw > m.level]

Observed(m, raw) ==
  Evaluated([m EXCEPT !.points = AtMost(@ + 1, MinWindow), !.grace = Less(@)], raw)

EntriesAllowed(m) == m.level # 5

(* What is seen of a monitor: its level, and that it halted entries.       *)
Becomes(m) ==
  /\ monitor' = m
  /\ haltSeen' = (haltSeen \/ ~EntriesAllowed(m))

(* manualRecover: the window stays, the level starts over.                 *)
ManualRecover ==
  /\ monitor' = [monitor EXCEPT !.manual = FALSE, !.level = 0, !.grace = Grace]
  /\ haltSeen' = FALSE
  /\ UNCHANGED <<ready, buffer, learned, lastProb, fit, circuit, decision>>
-----------------------------------------------------------------------------
(* The financial circuit breaker.  The risk engine reads its snapshot;     *)
(* only isOpen() lets an open circuit cool down.                           *)

RecordFailure ==
  /\ circuit.failures < FailThreshold
  /\ circuit' = [state |-> IF circuit.failures + 1 >= FailThreshold THEN "OPEN" ELSE circuit.state,
                 failures |-> circuit.failures + 1]

RecordSuccess == circuit' = [state |-> "CLOSED", failures |-> 0]

IsOpen == circuit.state = "OPEN" /\ circuit' = [circuit EXCEPT !.state = "HALF_OPEN"]

CircuitStep ==
  /\ RecordFailure \/ RecordSuccess \/ IsOpen
  /\ UNCHANGED <<ready, buffer, learned, lastProb, fit, monitor, decision, haltSeen>>
-----------------------------------------------------------------------------
(* Warming up, and the learning tick of a crash.                           *)

(* The prewarm at start loads so many rounds, or fails.                    *)
Prewarm(n) ==
  /\ ~buffer /\ buffer' = TRUE
  /\ learned' = IF n > 0 THEN n ELSE learned
  /\ ready' = (learned' >= WarmAt /\ n >= WarmAt)
  /\ UNCHANGED <<lastProb, fit, monitor, circuit, decision, haltSeen>>

(* observeCrash scores the last emitted probability, whichever round it    *)
(* was for, and twice: through the pipeline's feedback, and directly.      *)
ObserveCrash ==
  /\ learned' = AtMost(learned + 1, WarmAt)
  /\ IF lastProb = Nothing
     THEN UNCHANGED <<fit, monitor, haltSeen>>
     ELSE \E first, second \in Levels :
            /\ fit' = second
            /\ monitor' = Observed(Observed(monitor, first), second)
            /\ haltSeen' = \/ haltSeen
                           \/ ~EntriesAllowed(Observed(monitor, first))
                           \/ ~EntriesAllowed(monitor')
  /\ UNCHANGED <<ready, buffer, lastProb, circuit, decision>>
-----------------------------------------------------------------------------
(* RiskEngine.evaluate, with positive prediction thresholds.               *)
Approves(conditions, offered) ==
  circuit.state # "OPEN" /\ conditions /\ offered = "high"

(* The version a published prediction state carries (state-snapshot.ts),   *)
(* and the one the feature engine asserts (feature-meta.ts).               *)
StateFeatureVersion == "acie-online-1"
EngineFeatureVersion == "fv-2.0.0"

Decided(live, signal, approved) ==
  decision' = [taken |-> FALSE, live |-> live, signal |-> signal, approved |-> approved]

(* The stack is not ready for live, or the history is cold.                *)
RejectUnready(live, conditions) ==
  /\ (live /\ ~ready) \/ ~buffer
  /\ Decided(live, Nothing, FALSE)
  /\ UNCHANGED <<lastProb, monitor, haltSeen>>

(* acie is what the engine says of the next round: too little history,     *)
(* no opportunity, or one.  valid: the signal passes its bounds check.     *)
EvaluateReady(live, conditions, acie, prob, valid) ==
  LET signal   == IF acie # Nothing /\ valid THEN prob ELSE Nothing
      cold     == live /\ learned < WarmAt
      kept     == IF live /\ (cold \/ StateFeatureVersion # EngineFeatureVersion)
                  THEN Nothing ELSE signal
      now      == Evaluated(monitor, fit)
      withheld == acie # "entry" \/ cold \/ ~EntriesAllowed(now)
  IN /\ ~(live /\ ~ready) /\ buffer
     /\ lastProb' = IF signal = Nothing THEN lastProb ELSE signal
     /\ Becomes(now)
     /\ Decided(live, kept, Approves(conditions, IF withheld THEN Nothing ELSE signal))

EvaluateEntry ==
  /\ decision = NoDecision
  /\ \E live, conditions \in BOOLEAN :
       \/ RejectUnready(live, conditions)
       \/ \E acie \in {Nothing, "skip", "entry"}, prob \in {"low", "high"}, valid \in BOOLEAN :
            EvaluateReady(live, conditions, acie, prob, valid)
  /\ UNCHANGED <<ready, buffer, learned, fit, circuit>>

(* A bridge takes the decision before anything else happens.               *)
BridgeTakes ==
  /\ decision # NoDecision /\ decision' = NoDecision
  /\ UNCHANGED <<ready, buffer, learned, lastProb, fit, monitor, circuit, haltSeen>>

EntryNext ==
  \/ EvaluateEntry \/ BridgeTakes
  \/ /\ decision = NoDecision
     /\ \/ \E n \in 0..WarmAt : Prewarm(n)
        \/ ObserveCrash \/ ManualRecover \/ CircuitStep

EntrySpec == EntryInit /\ [][EntryNext]_entryVars
-----------------------------------------------------------------------------
EntryTypeOK ==
  /\ ready \in BOOLEAN /\ buffer \in BOOLEAN /\ learned \in 0..WarmAt
  /\ lastProb \in {Nothing, "low", "high"} /\ fit \in Levels
  /\ monitor \in [points : 0..MinWindow, level : Levels, manual : BOOLEAN, grace : 0..Grace]
  /\ circuit \in [state : {"CLOSED", "OPEN", "HALF_OPEN"}, failures : 0..FailThreshold]
  /\ haltSeen \in BOOLEAN
  /\ decision = NoDecision \/ decision.signal \in {Nothing, "low", "high"}

(* Once the monitor has halted entries, no evaluation is approved until    *)
(* somebody has recovered it, however well the predictions do meanwhile.   *)
(* (live-divergence-monitor.ts: "Recovery requires manual confirmation     *)
(* (no auto "got better")"; entry-decision-service.ts evaluateEntry)       *)
HaltNeedsOperator == ~decision.taken /\ decision.approved => ~haltSeen

(* live-divergence-monitor.ts: "Progressive levels (only escalate          *)
(* automatically; de-escalate only via manual recovery)".  Outside the     *)
(* grace of a recovery, a full window that calls for the highest level     *)
(* gets it.                                                                *)
EscalatesAutomatically ==
  monitor.points = MinWindow /\ monitor.grace = 0 /\ fit = 5 => monitor.level = 5
=============================================================================
