------------------------------ MODULE SheathMode ------------------------------
(***************************************************************************)
(* Sheath mode (core/sheath-mode/sheath-mode.ts): betting is suspended     *)
(* while triggers are evaluated, active, or recovered from.  Workers       *)
(* report and clear triggers, the operator sheathes and unsheathes, rounds *)
(* tick.  A report of several triggers is several reports; a degraded      *)
(* calibration is reported as a divergence is, and is not told from it.    *)
(***************************************************************************)
EXTENDS Naturals

CONSTANTS EvaluateHighRounds, EvaluateMediumRounds, RecoveryRequiredRounds,
          MaxRecoveryTries         \* maxRecoveryAttempts

ASSUME SheathAssumption ==
  {EvaluateHighRounds, EvaluateMediumRounds, RecoveryRequiredRounds, MaxRecoveryTries}
    \subseteq Nat \ {0}

VARIABLES sheath,       \* state
          triggers,     \* severity of each active trigger, or "none"
          evalRounds,   \* evaluateRoundCount
          goodRounds,   \* consecutiveRecoveryRounds
          badChecks,    \* recoveryAttempts
          quiet         \* history: good rounds in a row since betting was last stopped

sheathVars == <<sheath, triggers, evalRounds, goodRounds, badChecks, quiet>>

(* What may be reported under each id.                                     *)
Reports == [operator_command |-> {"manual"},
            prediction_cold_state |-> {"critical"},
            prediction_divergence |-> {"high", "critical"},
            poor_prediction_accuracy |-> {"medium"}]
Ids == DOMAIN Reports
Clear == [i \in Ids |-> "none"]
Severities(trs) == {trs[i] : i \in Ids} \ {"none"}
Stands(sev, trs) == sev \in Severities(trs)

SheathInit ==
  /\ sheath = "NORMAL" /\ triggers = Clear /\ evalRounds = 0 /\ goodRounds = 0 /\ badChecks = 0
  /\ quiet = RecoveryRequiredRounds

Suspended == sheath # "NORMAL"       \* isBettingSuspended
EntriesBlocked ==                    \* isPredictionEntriesBlocked
  \/ triggers["prediction_divergence"] = "critical"
  \/ triggers["prediction_cold_state"] # "none"
  \/ Suspended
-----------------------------------------------------------------------------
(* reportTriggers.  A trigger that is there already takes the new          *)
(* severity.  'manual' hides a critical one from the test made while       *)
(* recovering, and is itself no reason to stop the recovery.               *)
Stops(trs) ==
  IF sheath = "RECOVERING"
  THEN ~Stands("manual", trs) /\ (Stands("critical", trs) \/ Stands("high", trs))
  ELSE sheath # "PERSISTENT" /\ (Stands("critical", trs) \/ Stands("manual", trs))

React(trs) ==
  CASE Stops(trs) ->
         /\ sheath' = "ACTIVE" /\ quiet' = 0
         /\ goodRounds' = (IF sheath = "RECOVERING" THEN 0 ELSE goodRounds)
         /\ UNCHANGED evalRounds
    [] ~Stops(trs) /\ sheath = "NORMAL" ->
         sheath' = "EVALUATING" /\ evalRounds' = 0 /\ UNCHANGED <<goodRounds, quiet>>
    [] OTHER -> UNCHANGED <<sheath, evalRounds, goodRounds, quiet>>

ReportTrigger ==
  \E i \in Ids : \E sev \in Reports[i] :
    LET reported == [triggers EXCEPT ![i] = sev] IN
    triggers' = reported /\ React(reported) /\ UNCHANGED badChecks

BeginRecovery == sheath' = "RECOVERING" /\ goodRounds' = 0 /\ quiet' = 0

ClearTrigger ==
  \E i \in Ids :
    /\ triggers' = [triggers EXCEPT ![i] = "none"]
    /\ IF sheath = "ACTIVE" /\ triggers' = Clear
       THEN BeginRecovery
       ELSE UNCHANGED <<sheath, goodRounds, quiet>>
    /\ UNCHANGED <<evalRounds, badChecks>>

(* operatorUnsheath: recovery starts, or an evaluation is called off.      *)
Unsheath ==
  \/ /\ sheath \in {"ACTIVE", "PERSISTENT"}
     /\ BeginRecovery
     /\ UNCHANGED <<triggers, evalRounds, badChecks>>
  \/ /\ sheath = "EVALUATING"
     /\ triggers' = [i \in Ids |-> IF triggers[i] = "critical" THEN "critical" ELSE "none"]
     /\ IF triggers' = Clear
        THEN sheath' = "NORMAL" /\ evalRounds' = 0
        ELSE UNCHANGED <<sheath, evalRounds>>
     /\ UNCHANGED <<goodRounds, badChecks, quiet>>
-----------------------------------------------------------------------------
(* onRoundTick.  EndEvaluation is a mutant: the evaluation ends in NORMAL  *)
(* with whatever triggers are left.                                        *)
Threshold == IF Severities(triggers) = {"medium"} THEN EvaluateMediumRounds ELSE EvaluateHighRounds

StillEvaluating == sheath' = "EVALUATING" /\ evalRounds' = evalRounds + 1 /\ UNCHANGED quiet
EndEvaluation == sheath' = "NORMAL" /\ evalRounds' = 0 /\ UNCHANGED quiet
BackToActive == sheath' = "ACTIVE" /\ evalRounds' = evalRounds + 1 /\ quiet' = 0

DecideOnTriggers == IF triggers = Clear THEN EndEvaluation ELSE BackToActive
Decide == DecideOnTriggers

EvaluationTick ==
  /\ sheath = "EVALUATING"
  /\ IF evalRounds + 1 < Threshold THEN StillEvaluating ELSE Decide
  /\ UNCHANGED <<triggers, goodRounds, badChecks>>

(* The last good round of a recovery forgets every trigger, also one that  *)
(* was reported during the recovery and left standing.                     *)
GoodTick ==
  /\ sheath = "RECOVERING"
  /\ IF goodRounds + 1 < RecoveryRequiredRounds
     THEN goodRounds' = goodRounds + 1 /\ UNCHANGED <<sheath, triggers, badChecks>>
     ELSE sheath' = "NORMAL" /\ triggers' = Clear /\ goodRounds' = 0 /\ badChecks' = 0
  /\ quiet' = quiet + 1
  /\ UNCHANGED evalRounds

BadTick ==
  /\ sheath = "RECOVERING"
  /\ goodRounds' = 0 /\ quiet' = 0
  /\ badChecks' = badChecks + 1
  /\ sheath' = IF badChecks + 1 >= MaxRecoveryTries THEN "PERSISTENT" ELSE sheath
  /\ UNCHANGED <<triggers, evalRounds>>

(* Nothing bounds badChecks: after PERSISTENT each /unsheath may fail once *)
(* more.  Bound: a few beyond the limit.                                   *)
SheathNext ==
  \/ ReportTrigger \/ ClearTrigger \/ Unsheath \/ EvaluationTick \/ GoodTick
  \/ badChecks <= MaxRecoveryTries /\ BadTick

SheathSpec == SheathInit /\ [][SheathNext]_sheathVars
-----------------------------------------------------------------------------
SheathTypeOK ==
  /\ sheath \in {"NORMAL", "EVALUATING", "ACTIVE", "RECOVERING", "PERSISTENT"}
  /\ \A i \in Ids : triggers[i] \in Reports[i] \cup {"none"}
  /\ evalRounds \in Nat /\ goodRounds \in 0..RecoveryRequiredRounds
  /\ badChecks \in 0..MaxRecoveryTries + 1
  /\ quiet \in 0..RecoveryRequiredRounds

(* Betting is resumed only as the checks allow: whatever was reported,     *)
(* reported again with another severity, cleared or unsheathed in between, *)
(* it is never on over a trigger or anything that blocks entries, a        *)
(* critical or manual trigger is never merely evaluated, and since betting *)
(* was last stopped, or a check last failed, all the good rounds required  *)
(* have passed in a row.  What the recovery does not stop for, a /sheath   *)
(* among it, is not counted as stopping: see GoodTick.                     *)
(* (sheath-mode.ts, all transitions)                                       *)
SuspendedWhileTriggered ==
  /\ ~Suspended => triggers = Clear /\ ~EntriesBlocked
  /\ sheath = "EVALUATING" => ~Stands("critical", triggers) /\ ~Stands("manual", triggers)
  /\ sheath \in {"NORMAL", "EVALUATING"} => quiet = RecoveryRequiredRounds
  /\ sheath = "RECOVERING" => quiet = goodRounds
=============================================================================
