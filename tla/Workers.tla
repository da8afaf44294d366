--------------------------------- MODULE Workers ---------------------------------
(***************************************************************************)
(* A worker (workers/framework/base-worker.ts) with its bounded            *)
(* concurrency and FIFO queue, under the fleet that starts it, restarts it *)
(* when it has failed, and stops it (worker-fleet.ts).  stop() waits until *)
(* the queue is drained, and meanwhile anything else happens.  No worker   *)
(* overrides onStart or onStop, so start() has no await that matters.      *)
(***************************************************************************)
EXTENDS Naturals

CONSTANTS Concurrency, MaxErrors,   \* concurrency, maxConsecutiveErrors
          MaxQueue, MaxRestarts     \* bounds: items that wait, restarts that drain

ASSUME WorkerAssumption ==
  Concurrency \in Nat \ {0} /\ MaxErrors \in Nat \ {0} /\ MaxQueue \in Nat /\ MaxRestarts \in Nat

VARIABLES fleet,       \* "new", "up", "stopping", "down"
          restartDue,  \* the worker has a restart timer
          draining,    \* restarts that have fired and wait for the drain
          wstatus, wrunning, accepting,
          pending, active,   \* items that wait, items a handler runs for
          errors,      \* consecutiveErrors, up to MaxErrors
          restartRaced \* history: stopAll met a restart that was draining

workVars ==
  <<fleet, restartDue, draining, wstatus, wrunning, accepting, pending, active, errors, restartRaced>>

WorkInit ==
  /\ fleet = "new" /\ restartDue = FALSE /\ draining = 0
  /\ wstatus = "stopped" /\ wrunning = FALSE /\ accepting = FALSE
  /\ pending = 0 /\ active = 0 /\ errors = 0 /\ restartRaced = FALSE

(* start: nothing if it runs already; the error count is not reset.        *)
StartWorker ==
  IF wrunning THEN UNCHANGED <<wstatus, wrunning, accepting>>
  ELSE wstatus' = "running" /\ wrunning' = TRUE /\ accepting' = TRUE

(* stop, up to the drain and after it.                                     *)
BeginStop == accepting' = FALSE /\ wstatus' = "stopping" /\ UNCHANGED wrunning
Drained == pending = 0 /\ active = 0

(* pump: items are taken up while a slot is free.                          *)
Pump(waiting, busy) ==
  LET free == Concurrency - busy
      taken == IF ~wrunning THEN 0 ELSE IF waiting < free THEN waiting ELSE free
  IN pending' = waiting - taken /\ active' = busy + taken
-----------------------------------------------------------------------------
Process ==
  /\ wrunning /\ accepting /\ wstatus # "failed"
  /\ pending < MaxQueue
  /\ Pump(pending + 1, active)
  /\ UNCHANGED <<fleet, restartDue, draining, wstatus, wrunning, accepting, errors, restartRaced>>

(* A handler ends, well or with an error; the slot it frees is used.       *)
(* FreeSlot is a mutant: nobody pumps.                                     *)
FreeSlot == active' = active - 1 /\ UNCHANGED pending
FreeSlotAndPump == Pump(pending, active - 1)
HandlerReturns == FreeSlotAndPump

Handled ==
  /\ active > 0
  /\ HandlerReturns
  /\ \/ errors' = 0 /\ UNCHANGED wstatus
     \/ /\ errors' = IF errors < MaxErrors THEN errors + 1 ELSE errors
        /\ wstatus' = IF errors' = MaxErrors THEN "failed" ELSE wstatus
  /\ UNCHANGED <<fleet, restartDue, draining, wrunning, accepting, restartRaced>>
-----------------------------------------------------------------------------
StartAll ==
  /\ fleet \in {"new", "down"} /\ fleet' = "up"
  /\ StartWorker
  /\ UNCHANGED <<restartDue, draining, pending, active, errors, restartRaced>>

Supervise ==
  /\ fleet = "up" /\ wstatus = "failed" /\ ~restartDue
  /\ restartDue' = TRUE
  /\ UNCHANGED <<fleet, draining, wstatus, wrunning, accepting, pending, active, errors, restartRaced>>

RestartFires ==
  /\ restartDue /\ restartDue' = FALSE
  /\ draining < MaxRestarts /\ draining' = draining + 1
  /\ BeginStop
  /\ UNCHANGED <<fleet, pending, active, errors, restartRaced>>

(* The drain is over: the worker is stopped and started again.             *)
Restarted ==
  /\ draining > 0 /\ Drained /\ draining' = draining - 1
  /\ wstatus' = "running" /\ wrunning' = TRUE /\ accepting' = TRUE
  /\ UNCHANGED <<fleet, restartDue, pending, active, errors, restartRaced>>

StopAll ==
  /\ fleet = "up" /\ fleet' = "stopping"
  /\ restartDue' = FALSE
  /\ restartRaced' = (draining > 0)
  /\ BeginStop
  /\ UNCHANGED <<draining, pending, active, errors>>

StoppedAll ==
  /\ fleet = "stopping" /\ Drained /\ fleet' = "down"
  /\ wrunning' = FALSE /\ wstatus' = "stopped"
  /\ UNCHANGED <<restartDue, draining, accepting, pending, active, errors, restartRaced>>

WorkNext == \/ Process \/ Handled \/ StartAll \/ Supervise \/ RestartFires \/ Restarted
            \/ StopAll \/ StoppedAll

WorkSpec == WorkInit /\ [][WorkNext]_workVars
-----------------------------------------------------------------------------
WorkTypeOK ==
  /\ fleet \in {"new", "up", "stopping", "down"} /\ restartDue \in BOOLEAN /\ draining \in 0..MaxRestarts
  /\ wstatus \in {"stopped", "running", "stopping", "failed"}
  /\ wrunning \in BOOLEAN /\ accepting \in BOOLEAN /\ restartRaced \in BOOLEAN
  /\ pending \in 0..MaxQueue /\ active \in 0..Concurrency /\ errors \in 0..MaxErrors

(* No accepted item is left behind: while the worker runs, an item waits   *)
(* only because every slot is taken, failed or draining though it may be;  *)
(* when it does not run, none waits and no handler is at work.  And a      *)
(* fleet that was stopped stays stopped, unless it was stopped in the      *)
(* middle of a restart, which then starts the worker again.  (pump, run,   *)
(* drain; supervise, stopAll)                                              *)
NoWorkLost ==
  /\ wrunning /\ pending > 0 => active = Concurrency
  /\ ~wrunning => Drained
  /\ fleet = "down" /\ ~restartRaced => ~wrunning
=============================================================================
