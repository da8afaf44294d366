----------------------------- MODULE Observation -----------------------------
(***************************************************************************)
(* The round feed and the dry run as the composition root wires them       *)
(* (app/composition.ts): the bus dispatches the observer's events to the   *)
(* bridge; /pause and /resume stop and start the supervisor and the        *)
(* controller.                                                             *)
(***************************************************************************)
EXTENDS RoundFeed, DryRun

VARIABLES resuming,  \* resumeSystem, or the first start, awaits the supervisor
          failed     \* phase of the supervisor after a start that threw

obsVars == <<feedVars, dryVars, resuming, failed>>

ObsInit == FeedInit /\ DryInit /\ resuming = FALSE /\ failed = FALSE

Game == GameRuns /\ UNCHANGED <<dryVars, resuming, failed>>
Feed == FeedWorks /\ UNCHANGED <<dryVars, resuming, failed>>

DispatchStart ==
  /\ Dispatch /\ bus[1].kind = "RoundStarted"
  /\ BridgeRoundStarted(bus[1].round)
  /\ UNCHANGED <<page, feed, polls, looking, adapter, observer, lastKind, resuming, failed>>

DispatchCrash ==
  /\ Dispatch /\ bus[1].kind = "RoundCrashed"
  /\ BridgeRoundCrashed(bus[1].round, bus[1].mult)
  /\ UNCHANGED <<page, feed, polls, looking, adapter, observer, lastKind, resuming, failed>>

(* pauseSystem and stopSystem: both stops take effect before the next      *)
(* event.                                                                  *)
PauseSystem ==
  /\ Quiet /\ FeedStops /\ ControllerSet(FALSE)
  /\ failed' = FALSE /\ UNCHANGED resuming

(* resumeSystem, one at a time: the supervisor starts only from a stop,    *)
(* and may fail in the browser; the controller starts when that has        *)
(* returned or thrown.                                                     *)
ResumeSystem ==
  /\ Quiet /\ ~resuming
  /\ \/ /\ feed = "off" /\ ~failed
        /\ AdapterStarts /\ resuming' = TRUE
        /\ UNCHANGED <<dryVars, failed>>
     \/ /\ ControllerSet(TRUE)
        /\ failed' = (feed = "off")
        /\ UNCHANGED <<feedVars, resuming>>

(* The supervisor's start goes on: the adapter has seen the game, or its   *)
(* wait has run out, and the observer subscribes.  A stop in between left  *)
(* it no observer, and it throws.                                          *)
SupervisorObserves ==
  /\ resuming
  /\ \/ ObserverStarts /\ UNCHANGED failed
     \/ Quiet /\ feed = "off" /\ failed' = TRUE /\ UNCHANGED feedVars
  /\ resuming' = FALSE /\ ControllerSet(TRUE)

ObsNext == \/ Game \/ Feed \/ DispatchStart \/ DispatchCrash
           \/ PauseSystem \/ ResumeSystem \/ SupervisorObserves

ObsSpec == ObsInit /\ [][ObsNext]_obsVars
ObsTypeOK == FeedTypeOK /\ DryTypeOK /\ resuming \in BOOLEAN /\ failed \in BOOLEAN
=============================================================================
