------------------------ MODULE BettingStateMachine ------------------------
(***************************************************************************)
(* The betting state machine of core/state-machine: sixteen states, the    *)
(* transition table of transitions.ts, the guards of guards.ts and the     *)
(* context updates of machine.ts.  There is one action per event that      *)
(* send() accepts, because the class offers nothing but send(): whoever    *)
(* drives it may deliver any event at any time.  An event without a rule   *)
(* in the current state, or refused by its guard, changes nothing and is   *)
(* a stuttering step, with one exception: ROUND_STARTED writes the round   *)
(* into the context before the table is even consulted.                    *)
(***************************************************************************)
EXTENDS Naturals, FiniteSets

CONSTANTS
    Rounds,                 \* round identifiers
    Bets,                   \* bet identifiers
    RoundStates,            \* the round snapshots a ROUND_STARTED may carry
    None,                   \* JavaScript's null
    Impairments,            \* reasons the host reports against betting:
                            \* browser, game adapter, balance not known
    MinConfidence,          \* context.minConfidenceForEntry
    MaxConsecutiveErrors,   \* context.maxConsecutiveErrors
    MaxCashOutFailures,     \* context.maxCashOutFailures
    ForceTargets,           \* states recovery or emergency stop may force
    ErrorCap                \* bound on consecutiveErrors in a model

States == {"IDLE", "READY_TO_OBSERVE", "OBSERVING", "ENTRY_EVALUATING",
           "ENTRY_APPROVED", "BET_PLACING", "BET_ACTIVE", "CASH_OUT_ARMED",
           "CASH_OUT_REQUESTED", "ROUND_COMPLETE", "RESULT_RECORDED",
           "COOLDOWN", "PAUSED", "ERROR", "HALTED", "RECONCILING"}

\* States on the way to a placement, and states with a confirmed bet.
EntryStates  == {"ENTRY_EVALUATING", "ENTRY_APPROVED", "BET_PLACING"}
ActiveStates == {"BET_ACTIVE", "CASH_OUT_ARMED", "CASH_OUT_REQUESTED"}

Phases     == {"idle", "starting", "running", "crashed", "unknown"}
Confidence == [low |-> 1, medium |-> 2, high |-> 3]
RoundState == [phase : Phases, confidence : DOMAIN Confidence]

ASSUME ConstantsAssumption ==
    /\ RoundStates \subseteq RoundState
    /\ None \notin Bets /\ None \notin Rounds /\ None \notin RoundState
    /\ MinConfidence \in DOMAIN Confidence
    /\ MaxConsecutiveErrors \in Nat \ {0}
    /\ MaxCashOutFailures \in Nat \ {0}
    /\ ErrorCap \in Nat

\* Recovery and emergency stop take the machine off the betting path.  (A
\* caller that forced it onto the path would bypass every guard.)
ASSUME ForceAssumption ==
    ForceTargets \subseteq States \ (EntryStates \cup ActiveStates)

VARIABLES
    state,               \* this.state
    currentRoundId,      \* context: round the host talks about
    roundState,          \* context: its last snapshot
    currentBetId,        \* context: bet in progress
    openBetExists,       \* context: the game confirmed a bet not yet closed
    paused,              \* context
    killSwitch,          \* context
    consecutiveErrors,   \* context
    cashOutFailures,     \* context
    cooling,             \* now - context.lastBetAt < context.cooldownMs
    impaired,            \* context: health and balance findings of the host
    unresolved           \* history: a confirmed bet whose outcome the
                         \* machine was never told

roundVars == <<currentRoundId, roundState>>
betVars   == <<currentBetId, openBetExists, unresolved>>
stopVars  == <<paused, killSwitch>>
countVars == <<consecutiveErrors, cashOutFailures>>
hostVars  == <<cooling, impaired>>
vars == <<state, roundVars, betVars, stopVars, countVars, hostVars>>

TypeOK ==
    /\ state \in States
    /\ currentRoundId \in Rounds \cup {None}
    /\ roundState \in RoundState \cup {None}
    /\ currentBetId \in Bets \cup {None}
    /\ openBetExists \in BOOLEAN
    /\ paused \in BOOLEAN
    /\ killSwitch \in BOOLEAN
    /\ consecutiveErrors \in Nat
    /\ cashOutFailures \in Nat
    /\ cooling \in BOOLEAN
    /\ impaired \subseteq Impairments
    /\ unresolved \in BOOLEAN

Init ==
    /\ state = "IDLE"
    /\ currentRoundId = None
    /\ roundState = None
    /\ currentBetId = None
    /\ openBetExists = FALSE
    /\ paused = FALSE
    /\ killSwitch = FALSE
    /\ consecutiveErrors = 0
    /\ cashOutFailures = 0
    /\ cooling = FALSE
    /\ impaired = Impairments \cap {"balance"}   \* currentBalance is null
    /\ unresolved = FALSE

-----------------------------------------------------------------------------
(* Guards                                                                  *)

\* guardRoundValid and guardObservationConfidence
RoundPermitsEntry(rs) ==
    /\ rs # None
    /\ rs.phase \in {"starting", "running"}
    /\ Confidence[rs.confidence] >= Confidence[MinConfidence]

\* Mutant: the open bet is not looked at.
EntryConditionsAnyBet(rs) ==
    /\ impaired = {} /\ ~paused /\ ~killSwitch /\ ~cooling
    /\ RoundPermitsEntry(rs)
    /\ consecutiveErrors < MaxConsecutiveErrors
    /\ cashOutFailures < MaxCashOutFailures

\* Mutant: failed cash-outs are not limited.
EntryConditionsAnyExit(rs) ==
    /\ impaired = {} /\ ~paused /\ ~killSwitch /\ ~cooling /\ ~openBetExists
    /\ RoundPermitsEntry(rs)
    /\ consecutiveErrors < MaxConsecutiveErrors

\* guardAllEntryConditions, evaluated on the round snapshot rs.
EntryConditions(rs) ==
    /\ impaired = {}
    /\ ~paused
    /\ ~killSwitch
    /\ ~openBetExists
    /\ ~cooling
    /\ RoundPermitsEntry(rs)
    /\ consecutiveErrors < MaxConsecutiveErrors
    /\ cashOutFailures < MaxCashOutFailures

CanCashOut == openBetExists /\ currentBetId # None

CanResume == paused /\ ~killSwitch

CanRecover == consecutiveErrors < MaxConsecutiveErrors

Move(sources, target) == state \in sources /\ state' = target

-----------------------------------------------------------------------------
(* Start-up and the entry path (AUTHENTICATED changes nothing)             *)

BrowserReady ==
    /\ Move({"IDLE"}, "READY_TO_OBSERVE")
    /\ UNCHANGED <<roundVars, betVars, stopVars, countVars, hostVars>>

GameLoaded ==
    /\ Move({"READY_TO_OBSERVE"}, "OBSERVING")
    /\ UNCHANGED <<roundVars, betVars, stopVars, countVars, hostVars>>

\* The context takes the new round whatever the state; only then the rule
\* and its guard are looked up.  An engaged kill switch turns the refusal
\* into an error.
RoundStarted(r, rs) ==
    /\ currentRoundId' = r
    /\ roundState' = rs
    /\ \/ /\ EntryConditions(rs)
          /\ Move({"OBSERVING", "COOLDOWN"}, "ENTRY_EVALUATING")
          /\ UNCHANGED consecutiveErrors
       \/ /\ killSwitch
          /\ Move({"OBSERVING", "COOLDOWN"}, "ERROR")
          /\ consecutiveErrors < ErrorCap
          /\ consecutiveErrors' = consecutiveErrors + 1
       \/ /\ \/ state \notin {"OBSERVING", "COOLDOWN"}
             \/ ~EntryConditions(rs) /\ ~killSwitch
          /\ UNCHANGED <<state, consecutiveErrors>>
    /\ UNCHANGED <<betVars, stopVars, cashOutFailures, hostVars>>

RiskApproved ==
    /\ EntryConditions(roundState)
    /\ Move({"ENTRY_EVALUATING"}, "ENTRY_APPROVED")
    /\ UNCHANGED <<roundVars, betVars, stopVars, countVars, hostVars>>

\* RISK_REJECTED and ENTRY_CHECKS_FAILED
EntryRefused ==
    /\ Move({"ENTRY_EVALUATING"}, "OBSERVING")
    /\ UNCHANGED <<roundVars, betVars, stopVars, countVars, hostVars>>

\* Mutant: the conditions held at approval, they are not asked again.
EntryChecksTrusted ==
    /\ Move({"ENTRY_APPROVED"}, "BET_PLACING")
    /\ UNCHANGED <<roundVars, betVars, stopVars, countVars, hostVars>>

EntryChecksPassed ==
    /\ EntryConditions(roundState)
    /\ Move({"ENTRY_APPROVED"}, "BET_PLACING")
    /\ UNCHANGED <<roundVars, betVars, stopVars, countVars, hostVars>>

BetSubmitted(b) ==
    /\ EntryConditions(roundState)
    /\ Move({"ENTRY_APPROVED"}, "BET_PLACING")
    /\ currentBetId' = b
    /\ UNCHANGED <<roundVars, openBetExists, unresolved, stopVars, countVars,
                   hostVars>>

\* Mutant: a confirmation overtakes the submission.
BetConfirmedEarly(b) ==
    /\ Move({"ENTRY_APPROVED", "BET_PLACING"}, "BET_ACTIVE")
    /\ openBetExists' = TRUE
    /\ currentBetId' = b
    /\ consecutiveErrors' = 0
    /\ unresolved' = TRUE
    /\ UNCHANGED <<roundVars, stopVars, cashOutFailures, hostVars>>

\* Mutant: the id is taken from the submission, which may have had none.
BetConfirmedAnonymously(b) ==
    /\ Move({"BET_PLACING"}, "BET_ACTIVE")
    /\ openBetExists' = TRUE
    /\ consecutiveErrors' = 0
    /\ unresolved' = TRUE
    /\ UNCHANGED <<roundVars, currentBetId, stopVars, cashOutFailures, hostVars>>

BetConfirmed(b) ==
    /\ Move({"BET_PLACING"}, "BET_ACTIVE")
    /\ openBetExists' = TRUE
    /\ currentBetId' = b
    /\ consecutiveErrors' = 0
    /\ unresolved' = TRUE
    /\ UNCHANGED <<roundVars, stopVars, cashOutFailures, hostVars>>

\* BET_PLACEMENT_FAILED and BET_PLACEMENT_TIMEOUT
PlacementFailed ==
    /\ Move({"BET_PLACING"}, "ERROR")
    /\ consecutiveErrors' = consecutiveErrors + 1
    /\ UNCHANGED <<roundVars, betVars, stopVars, cashOutFailures, hostVars>>

-----------------------------------------------------------------------------
(* Cash-out and the end of a round                                         *)

TargetReached ==
    /\ Move({"BET_ACTIVE"}, "CASH_OUT_ARMED")
    /\ UNCHANGED <<roundVars, betVars, stopVars, countVars, hostVars>>

CashOutTriggered ==
    /\ CanCashOut
    /\ Move({"CASH_OUT_ARMED"}, "CASH_OUT_REQUESTED")
    /\ UNCHANGED <<roundVars, betVars, stopVars, countVars, hostVars>>

\* Clearing the bet is one idea in the code's context updates.
ForgetBet == openBetExists' = FALSE /\ currentBetId' = None

CashOutConfirmed ==
    /\ Move({"CASH_OUT_REQUESTED"}, "ROUND_COMPLETE")
    /\ ForgetBet
    /\ unresolved' = FALSE
    /\ cashOutFailures' = 0
    /\ UNCHANGED <<roundVars, stopVars, consecutiveErrors, hostVars>>

\* CASH_OUT_FAILED and CASH_OUT_TIMEOUT
CashOutFailed ==
    /\ Move({"CASH_OUT_REQUESTED"}, "ERROR")
    /\ cashOutFailures' = cashOutFailures + 1
    /\ UNCHANGED <<roundVars, betVars, stopVars, consecutiveErrors, hostVars>>

\* There is no rule for a crash while the cash-out is only armed.
RoundCrashed ==
    /\ Move({"BET_ACTIVE", "CASH_OUT_REQUESTED"}, "ROUND_COMPLETE")
    /\ ForgetBet
    /\ unresolved' = FALSE
    /\ UNCHANGED <<roundVars, stopVars, countVars, hostVars>>

OutcomeRecorded ==
    /\ Move({"ROUND_COMPLETE"}, "RESULT_RECORDED")
    /\ cooling' = TRUE
    /\ UNCHANGED <<roundVars, betVars, stopVars, countVars, impaired>>

CooldownElapsed ==
    /\ \/ Move({"RESULT_RECORDED"}, "COOLDOWN")
       \/ Move({"COOLDOWN"}, "OBSERVING")
    /\ UNCHANGED <<roundVars, betVars, stopVars, countVars, hostVars>>

-----------------------------------------------------------------------------
(* Operator, faults and recovery                                           *)

PauseRequested ==
    /\ Move({"OBSERVING", "ENTRY_EVALUATING", "ENTRY_APPROVED", "COOLDOWN"},
            "PAUSED")
    /\ paused' = TRUE
    /\ UNCHANGED <<roundVars, betVars, killSwitch, countVars, hostVars>>

ResumeRequested ==
    /\ CanResume
    /\ Move({"PAUSED"}, "OBSERVING")
    /\ paused' = FALSE
    /\ UNCHANGED <<roundVars, betVars, killSwitch, countVars, hostVars>>

\* STALE_MULTIPLIER, HEALTH_DEGRADED and CRITICAL_ERROR share one effect.
Fault ==
    /\ Move({"OBSERVING", "ENTRY_EVALUATING", "BET_PLACING", "BET_ACTIVE",
             "CASH_OUT_REQUESTED"}, "ERROR")
    /\ UNCHANGED <<roundVars, betVars, stopVars, countVars, hostVars>>

\* Mutant: a state the table does not have.
RecoverRenamed ==
    /\ CanRecover
    /\ Move({"ERROR"}, "RECOVERING")
    /\ UNCHANGED <<roundVars, betVars, stopVars, countVars, hostVars>>

Recover ==
    /\ CanRecover
    /\ Move({"ERROR"}, "RECONCILING")
    /\ UNCHANGED <<roundVars, betVars, stopVars, countVars, hostVars>>

Reconcile ==
    /\ Move({"OBSERVING", "ENTRY_EVALUATING", "BET_PLACING", "BET_ACTIVE",
             "CASH_OUT_ARMED", "CASH_OUT_REQUESTED", "COOLDOWN", "ERROR"},
            "RECONCILING")
    /\ UNCHANGED <<roundVars, betVars, stopVars, countVars, hostVars>>

\* The bet leaves the context whatever the resolution says; a CASHED_OUT or
\* LOST resolution is evidence about the bet, UNKNOWN is the lack of it.
ReconciliationComplete(resolution) ==
    /\ Move({"RECONCILING"}, "OBSERVING")
    /\ ForgetBet
    /\ unresolved' = (unresolved /\ resolution = "UNKNOWN")
    /\ UNCHANGED <<roundVars, stopVars, countVars, hostVars>>

RecoveryComplete ==
    /\ Move({"RECONCILING"}, "OBSERVING")
    /\ UNCHANGED <<roundVars, betVars, stopVars, countVars, hostVars>>

Halt ==
    /\ Move({"ERROR", "OBSERVING", "PAUSED", "RECONCILING", "BET_ACTIVE"},
            "HALTED")
    /\ killSwitch' = TRUE
    /\ UNCHANGED <<roundVars, betVars, paused, countVars, hostVars>>

Reset ==
    /\ Move({"HALTED", "ERROR", "PAUSED"}, "IDLE")
    /\ ForgetBet
    /\ consecutiveErrors' = 0
    /\ cashOutFailures' = 0
    /\ paused' = FALSE
    /\ killSwitch' = FALSE
    /\ UNCHANGED <<roundVars, unresolved, hostVars>>

\* forceState(): the state alone changes, the context stays.
ForceState(target) ==
    /\ state' = target
    /\ UNCHANGED <<roundVars, betVars, stopVars, countVars, hostVars>>

\* updateContext(): the host refreshes health and balance, or the kill switch.
UpdateHealth(findings) ==
    /\ impaired' = findings
    /\ UNCHANGED <<state, roundVars, betVars, stopVars, countVars, cooling>>

UpdateKillSwitch(engaged) ==
    /\ killSwitch' = engaged
    /\ UNCHANGED <<state, roundVars, betVars, paused, countVars, hostVars>>

\* Wall-clock time passes cooldownMs after the last bet.
CooldownPasses ==
    /\ cooling
    /\ cooling' = FALSE
    /\ UNCHANGED <<state, roundVars, betVars, stopVars, countVars, impaired>>

Next ==
    \/ BrowserReady \/ GameLoaded
    \/ \E r \in Rounds, rs \in RoundStates : RoundStarted(r, rs)
    \/ RiskApproved \/ EntryRefused \/ EntryChecksPassed
    \/ \E b \in Bets : BetSubmitted(b) \/ BetConfirmed(b)
    \/ PlacementFailed
    \/ TargetReached \/ CashOutTriggered \/ CashOutConfirmed \/ CashOutFailed
    \/ RoundCrashed \/ OutcomeRecorded \/ CooldownElapsed
    \/ PauseRequested \/ ResumeRequested \/ Fault
    \/ Recover \/ Reconcile \/ RecoveryComplete
    \/ \E res \in {"CASHED_OUT", "LOST", "UNKNOWN"} : ReconciliationComplete(res)
    \/ Halt \/ Reset
    \/ \E target \in ForceTargets : ForceState(target)
    \/ \E findings \in SUBSET Impairments : UpdateHealth(findings)
    \/ \E engaged \in BOOLEAN : UpdateKillSwitch(engaged)
    \/ CooldownPasses

Spec == Init /\ [][Next]_vars

-----------------------------------------------------------------------------
(* Properties                                                              *)

\* guardNoOpenBet is asked at each of the three steps towards a placement:
\* whatever order of faults, recoveries and resets led here, the machine is
\* never on its way to a bet while the context holds an open one.
EntryNeverOverOpenBet == state \in EntryStates => ~openBetExists

\* A confirmed bet can always be cashed out: in the states that wait for the
\* target and for the exit, guardCanCashOut has what it asks for, so
\* CASH_OUT_TRIGGERED is never refused and the stake never stranded.
ActiveBetIsCashable == state \in ActiveStates => CanCashOut

\* The thresholds bite before the failure that would exceed them: a bet is
\* only in progress while both counters are below their limits, hence the
\* cash-out failures never run past theirs, across recoveries and resumes.
FailureBudget ==
    /\ state \in EntryStates \cup ActiveStates =>
          /\ consecutiveErrors < MaxConsecutiveErrors
          /\ cashOutFailures < MaxCashOutFailures
    /\ cashOutFailures <= MaxCashOutFailures

\* The inputs of the approval may change between approval and placement: a
\* step into BET_PLACING is taken only with betting permitted at that moment.
PlacementOnlyWhenPermitted ==
    [][(state' = "BET_PLACING" /\ state # "BET_PLACING") =>
          /\ ~paused /\ ~killSwitch /\ impaired = {} /\ ~cooling
          /\ RoundPermitsEntry(roundState)]_vars

\* The machine drives one position at a time: never a second placement over
\* an open bet, never an open bet that was not placed.
OnePosition == INSTANCE SinglePosition WITH
    position <- IF openBetExists THEN "open"
                ELSE IF state = "BET_PLACING" THEN "placing" ELSE "flat"

ImplementsSinglePosition == OnePosition!Spec

\* ledger/reconciliation.ts: "when in doubt, the bet stays UNKNOWN and the
\* system remains in RECONCILING state until an operator resolves it".  A
\* reconciliation drops the open bet only once its outcome is known.
DoubtKeepsTheBet ==
    [][(state = "RECONCILING" /\ openBetExists /\ ~openBetExists')
          => ~unresolved']_vars

=============================================================================
