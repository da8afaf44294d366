----------------------- MODULE MCBettingStateMachine -----------------------
(***************************************************************************)
(* BettingStateMachine on a small instance: one round and one bet id (ids  *)
(* are only ever compared with null), a snapshot that permits entry and    *)
(* one that does not for each of the two reasons, and thresholds of two    *)
(* errors and two cash-out failures, so that a first failure is survived   *)
(* and the second one bites.                                               *)
(***************************************************************************)
EXTENDS BettingStateMachine

MCRoundStates ==
    { [phase |-> "starting", confidence |-> "high"],
      [phase |-> "running",  confidence |-> "medium"],
      [phase |-> "crashed",  confidence |-> "high"] }

MCForceTargets == {"IDLE", "OBSERVING", "ERROR", "HALTED", "RECONCILING"}

=============================================================================
