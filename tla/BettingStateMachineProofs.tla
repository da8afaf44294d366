--------------------- MODULE BettingStateMachineProofs ---------------------
(***************************************************************************)
(* The safety properties of BettingStateMachine for every choice of its    *)
(* constants.  The invariant is the conjunction of the three named ones:   *)
(* ActiveBetIsCashable needs the type of currentBetId, FailureBudget needs *)
(* the guards of every entry step, and the mapping to one position needs   *)
(* EntryNeverOverOpenBet.                                                  *)
(***************************************************************************)
EXTENDS BettingStateMachine, TLAPS

Inv == TypeOK /\ EntryNeverOverOpenBet /\ ActiveBetIsCashable /\ FailureBudget

LEMMA InitInv == Init => Inv
<1> SUFFICES ASSUME Init PROVE Inv
  OBVIOUS
<1> USE ConstantsAssumption DEF ConstantsAssumption, Init
<1>1. TypeOK
  BY DEF TypeOK, States
<1>2. EntryNeverOverOpenBet /\ ActiveBetIsCashable
  BY DEF EntryNeverOverOpenBet, ActiveBetIsCashable, EntryStates, ActiveStates
<1>3. FailureBudget
  BY DEF FailureBudget, EntryStates, ActiveStates
<1> QED
  BY <1>1, <1>2, <1>3 DEF Inv

\* Every event preserves the invariant.
LEMMA NextInv == Inv /\ [Next]_vars => Inv'
<1> SUFFICES ASSUME Inv, [Next]_vars PROVE Inv'
  OBVIOUS
<1> USE ConstantsAssumption
    DEF ConstantsAssumption, Inv, TypeOK, States, EntryStates, ActiveStates,
        EntryNeverOverOpenBet, ActiveBetIsCashable, FailureBudget, CanCashOut,
        Move, roundVars, betVars, stopVars, countVars, hostVars
<1>1. CASE BrowserReady
  BY <1>1 DEF BrowserReady
<1>2. CASE GameLoaded
  BY <1>2 DEF GameLoaded
<1>3. ASSUME NEW r \in Rounds, NEW rs \in RoundStates, RoundStarted(r, rs)
      PROVE  Inv'
  <2>1. TypeOK'
    BY <1>3 DEF RoundStarted
  <2>2. (EntryNeverOverOpenBet /\ ActiveBetIsCashable /\ FailureBudget)'
    BY <1>3 DEF RoundStarted, EntryConditions
  <2> QED BY <2>1, <2>2
<1>4. CASE RiskApproved
  BY <1>4 DEF RiskApproved, EntryConditions
<1>5. CASE EntryRefused
  BY <1>5 DEF EntryRefused
<1>6. CASE EntryChecksPassed
  BY <1>6 DEF EntryChecksPassed, EntryConditions
<1>7. ASSUME NEW b \in Bets, BetSubmitted(b) PROVE Inv'
  BY <1>7 DEF BetSubmitted, EntryConditions
<1>8. ASSUME NEW b \in Bets, BetConfirmed(b) PROVE Inv'
  BY <1>8 DEF BetConfirmed
<1>9. CASE PlacementFailed
  BY <1>9 DEF PlacementFailed
<1>10. CASE TargetReached
  BY <1>10 DEF TargetReached
<1>11. CASE CashOutTriggered
  BY <1>11 DEF CashOutTriggered
<1>12. CASE CashOutConfirmed
  <2>1. TypeOK'
    BY <1>12 DEF CashOutConfirmed, ForgetBet
  <2>2. (EntryNeverOverOpenBet /\ ActiveBetIsCashable /\ FailureBudget)'
    BY <1>12 DEF CashOutConfirmed, ForgetBet
  <2> QED BY <2>1, <2>2
<1>13. CASE CashOutFailed
  BY <1>13 DEF CashOutFailed
<1>14. CASE RoundCrashed
  BY <1>14 DEF RoundCrashed, ForgetBet
<1>15. CASE OutcomeRecorded
  BY <1>15 DEF OutcomeRecorded
<1>16. CASE CooldownElapsed
  BY <1>16 DEF CooldownElapsed
<1>17. CASE PauseRequested
  BY <1>17 DEF PauseRequested
<1>18. CASE ResumeRequested
  BY <1>18 DEF ResumeRequested
<1>19. CASE Fault
  BY <1>19 DEF Fault
<1>20. CASE Recover
  BY <1>20 DEF Recover
<1>21. CASE Reconcile
  BY <1>21 DEF Reconcile
<1>22. CASE RecoveryComplete
  BY <1>22 DEF RecoveryComplete
<1>23. ASSUME NEW res \in {"CASHED_OUT", "LOST", "UNKNOWN"},
              ReconciliationComplete(res)
       PROVE  Inv'
  BY <1>23 DEF ReconciliationComplete, ForgetBet
<1>24. CASE Halt
  BY <1>24 DEF Halt
<1>25. CASE Reset
  <2>1. TypeOK'
    BY <1>25 DEF Reset, ForgetBet
  <2>2. (EntryNeverOverOpenBet /\ ActiveBetIsCashable /\ FailureBudget)'
    BY <1>25 DEF Reset, ForgetBet
  <2> QED BY <2>1, <2>2
<1>26. ASSUME NEW target \in ForceTargets, ForceState(target) PROVE Inv'
  BY <1>26, ForceAssumption DEF ForceAssumption, ForceState
<1>27. ASSUME NEW findings \in SUBSET Impairments, UpdateHealth(findings)
       PROVE  Inv'
  BY <1>27 DEF UpdateHealth
<1>28. ASSUME NEW engaged \in BOOLEAN, UpdateKillSwitch(engaged) PROVE Inv'
  BY <1>28 DEF UpdateKillSwitch
<1>29. CASE CooldownPasses
  BY <1>29 DEF CooldownPasses
<1>30. CASE UNCHANGED vars
  BY <1>30 DEF vars
<1> QED
  BY <1>1, <1>2, <1>3, <1>4, <1>5, <1>6, <1>7, <1>8, <1>9, <1>10, <1>11,
     <1>12, <1>13, <1>14, <1>15, <1>16, <1>17, <1>18, <1>19, <1>20, <1>21,
     <1>22, <1>23, <1>24, <1>25, <1>26, <1>27, <1>28, <1>29, <1>30
  DEF Next

LEMMA Invariance == Spec => []Inv
  BY InitInv, NextInv, PTL DEF Spec

\* send() keeps the context well formed.
THEOREM TypeCorrect == Spec => []TypeOK
  BY Invariance, PTL DEF Inv

\* On the way to a bet there is never an open one.
THEOREM NoEntryOverOpenBet == Spec => []EntryNeverOverOpenBet
  BY Invariance, PTL DEF Inv

\* A confirmed bet can always be cashed out.
THEOREM CashOutNeverRefused == Spec => []ActiveBetIsCashable
  BY Invariance, PTL DEF Inv

\* Betting stops before a failure threshold is exceeded.
THEOREM BudgetKept == Spec => []FailureBudget
  BY Invariance, PTL DEF Inv

-----------------------------------------------------------------------------
(* The last guard before the bet, and the refinement                       *)

\* A step into BET_PLACING is one of the two guarded ones.
LEMMA PlacementStep ==
  ASSUME Next, state' = "BET_PLACING", state # "BET_PLACING"
  PROVE  EntryConditions(roundState)
  BY ForceAssumption
  DEF ForceAssumption, EntryStates, Next, Move, BrowserReady, GameLoaded,
      RoundStarted, RiskApproved, EntryRefused, EntryChecksPassed,
      BetSubmitted, BetConfirmed, PlacementFailed, TargetReached,
      CashOutTriggered, CashOutConfirmed, CashOutFailed, RoundCrashed,
      OutcomeRecorded, CooldownElapsed, PauseRequested, ResumeRequested, Fault,
      Recover, Reconcile, RecoveryComplete, ReconciliationComplete, Halt,
      Reset, ForceState, UpdateHealth, UpdateKillSwitch, CooldownPasses

\* No bet is placed unless betting is permitted at the moment of placement.
THEOREM PlacementPermitted == Spec => PlacementOnlyWhenPermitted
<1>1. [Next]_vars =>
        [(state' = "BET_PLACING" /\ state # "BET_PLACING") =>
            /\ ~paused /\ ~killSwitch /\ impaired = {} /\ ~cooling
            /\ RoundPermitsEntry(roundState)]_vars
  BY PlacementStep DEF EntryConditions
<1> QED
  BY <1>1, PTL DEF Spec, PlacementOnlyWhenPermitted

position == IF openBetExists THEN "open"
            ELSE IF state = "BET_PLACING" THEN "placing" ELSE "flat"

\* Only BET_CONFIRMED opens a position, from BET_PLACING.
LEMMA OpensFromPlacing ==
  ASSUME Next, ~openBetExists, openBetExists'
  PROVE  state = "BET_PLACING"
  BY DEF Next, Move, BrowserReady, GameLoaded, RoundStarted, RiskApproved,
      EntryRefused, EntryChecksPassed, BetSubmitted, BetConfirmed,
      PlacementFailed, TargetReached, CashOutTriggered, CashOutConfirmed,
      CashOutFailed, RoundCrashed, OutcomeRecorded, CooldownElapsed,
      PauseRequested, ResumeRequested, Fault, Recover, Reconcile,
      RecoveryComplete, ReconciliationComplete, Halt, Reset, ForceState,
      UpdateHealth, UpdateKillSwitch, CooldownPasses, ForgetBet, betVars

\* The step that closes a position does not land in BET_PLACING.
LEMMA ClosesToFlat ==
  ASSUME Inv, Next, openBetExists, ~openBetExists'
  PROVE  state' # "BET_PLACING"
  BY PlacementStep DEF Inv, EntryNeverOverOpenBet, EntryStates, EntryConditions,
      Next, Move, BrowserReady, GameLoaded, RoundStarted, RiskApproved,
      EntryRefused, EntryChecksPassed, BetSubmitted, BetConfirmed,
      PlacementFailed, TargetReached, CashOutTriggered, CashOutConfirmed,
      CashOutFailed, RoundCrashed, OutcomeRecorded, CooldownElapsed,
      PauseRequested, ResumeRequested, Fault, Recover, Reconcile,
      RecoveryComplete, ReconciliationComplete, Halt, Reset, ForceState,
      UpdateHealth, UpdateKillSwitch, CooldownPasses, ForgetBet, betVars

\* The state machine implements the one-position specification.
THEOREM OnePositionAtATime == Spec => ImplementsSinglePosition
<1>1. Init => OnePosition!Init
  BY DEF Init, OnePosition!Init
<1>2. Inv /\ [Next]_vars => [OnePosition!Next]_position
  <2> SUFFICES ASSUME Inv, Next PROVE OnePosition!Next \/ UNCHANGED position
    BY DEF vars, betVars, position
  <2> USE DEF position, OnePosition!Next, OnePosition!Commit,
          OnePosition!Accept, OnePosition!Abandon, OnePosition!Close
  <2>1. CASE openBetExists /\ openBetExists'
    BY <2>1
  <2>2. CASE openBetExists /\ ~openBetExists'
    BY <2>2, ClosesToFlat
  <2>3. CASE ~openBetExists /\ openBetExists'
    BY <2>3, OpensFromPlacing
  <2>4. CASE ~openBetExists /\ ~openBetExists'
    BY <2>4
  <2> QED
    BY <2>1, <2>2, <2>3, <2>4
<1> QED
  BY <1>1, <1>2, Invariance, PTL
  DEF Spec, ImplementsSinglePosition, OnePosition!Spec, position

=============================================================================
