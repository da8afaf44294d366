---------------------------- MODULE ModelRollout ----------------------------
(***************************************************************************)
(* The stages of the prediction models (prediction/lifecycle/              *)
(* model-lifecycle.ts) and the controller that rolls a candidate out       *)
(* (production-controller.ts).  Shares of the traffic are percentages.     *)
(*                                                                         *)
(* rollbackTo() names the model to go back to, yet the automatic rollback  *)
(* calls it with the canary itself: the model whose predictions diverge    *)
(* becomes the production model.  The model does as the code does.         *)
(***************************************************************************)
EXTENDS Naturals

CONSTANTS Models  \* name@version of the models ever registered

VARIABLES stage,    \* stage of each model, "none" before it is registered
          share,    \* trafficShare
          current   \* productionName

rolloutVars == <<stage, share, current>>

NoModel == "none"

ASSUME RolloutAssumption == NoModel \notin Models

Order == [DEVELOPMENT |-> 1, BACKTEST |-> 2, VALIDATION |-> 3, SHADOW |-> 4,
          CANARY |-> 5, PRODUCTION |-> 6, DEPRECATION |-> 7]
Stages == DOMAIN Order

RolloutInit ==
  /\ stage = [m \in Models |-> NoModel]
  /\ share = [m \in Models |-> 0]
  /\ current = NoModel

(* The prewarm registers one production model; what is registered later    *)
(* is a candidate.                                                         *)
Register(m) ==
  /\ stage[m] = NoModel
  /\ \E s \in {"VALIDATION", "SHADOW", "PRODUCTION"} :
       /\ (s = "PRODUCTION") = (\A other \in Models : stage[other] = NoModel)
       /\ stage' = [stage EXCEPT ![m] = s]
       /\ share' = [share EXCEPT ![m] = IF s = "PRODUCTION" THEN 100 ELSE 0]
       /\ current' = IF s = "PRODUCTION" THEN m ELSE current

(* The share a stage brings with it.                                       *)
ShareAt(s, old) ==
  CASE s = "CANARY" -> 5 [] s = "PRODUCTION" -> 100 [] s = "SHADOW" -> 0 [] OTHER -> old

(* promote.  Any later stage will do, and DEPRECATION from any stage.      *)
(* KeepBoth is a mutant: the previous production model stays.              *)
KeepBoth(m, next) ==
  /\ stage' = [stage EXCEPT ![m] = next]
  /\ share' = [share EXCEPT ![m] = ShareAt(next, @)]
  /\ current' = IF next = "PRODUCTION" THEN m ELSE current

PromoteTo(m, next) ==
  LET replaced == IF next = "PRODUCTION" THEN {current} \ {m, NoModel} ELSE {} IN
  /\ stage' = [x \in Models |-> IF x \in replaced THEN "DEPRECATION"
                                ELSE IF x = m THEN next ELSE stage[x]]
  /\ share' = [x \in Models |-> IF x \in replaced THEN 0
                                ELSE IF x = m THEN ShareAt(next, share[m]) ELSE share[x]]
  /\ current' = IF next = "PRODUCTION" THEN m ELSE current

PromoteModel(m, next) ==
  /\ stage[m] # NoModel
  /\ Order[next] >= Order[stage[m]]
  /\ PromoteTo(m, next)

(* advanceCanary: 5 to 25, 25 to 50, 50 to production.                     *)
AdvanceCanary(m) ==
  \/ stage[m] = "SHADOW" /\ PromoteTo(m, "CANARY")
  \/ stage[m] = "CANARY" /\ share[m] >= 30 /\ PromoteTo(m, "PRODUCTION")
  \/ /\ stage[m] = "CANARY" /\ share[m] < 30
     /\ share' = [share EXCEPT ![m] = IF @ < 10 THEN 25 ELSE 50]
     /\ UNCHANGED <<stage, current>>

SetCanaryShare(m) ==
  /\ stage[m] = "CANARY"
  /\ \E s \in {5, 25, 50} : share' = [share EXCEPT ![m] = s]
  /\ UNCHANGED <<stage, current>>

RollbackTo(m) ==
  /\ stage[m] # NoModel
  /\ LET live == {x \in Models : stage[x] \in {"PRODUCTION", "CANARY"}} IN
       /\ stage' = [x \in Models |-> IF x = m THEN "PRODUCTION"
                                     ELSE IF x \in live THEN "DEPRECATION" ELSE stage[x]]
       /\ share' = [x \in Models |-> IF x = m THEN 100 ELSE IF x \in live THEN 0 ELSE share[x]]
  /\ current' = m

(* observeOutcome at divergence level 3 or above: of the canaries the one  *)
(* registered first; any of them here.                                     *)
DivergenceRollsBack == \E m \in Models : stage[m] = "CANARY" /\ RollbackTo(m)

RolloutNext ==
  \/ \E m \in Models : Register(m) \/ AdvanceCanary(m) \/ SetCanaryShare(m) \/ RollbackTo(m)
  \/ \E m \in Models, next \in Stages : PromoteModel(m, next)
  \/ DivergenceRollsBack

RolloutSpec == RolloutInit /\ [][RolloutNext]_rolloutVars
-----------------------------------------------------------------------------
RolloutTypeOK ==
  /\ stage \in [Models -> Stages \cup {NoModel}]
  /\ share \in [Models -> {0, 5, 25, 50, 100}]
  /\ current \in Models \cup {NoModel}

(* However promotions, rollbacks and deprecations follow one another, one  *)
(* model at most answers as the production model: status() takes the       *)
(* first it finds.  (model-lifecycle.ts promote, rollbackTo)               *)
OneProduction ==
  \A m, n \in Models : stage[m] = "PRODUCTION" /\ stage[n] = "PRODUCTION" => m = n
=============================================================================
