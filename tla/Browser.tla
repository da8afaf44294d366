-------------------------------- MODULE Browser --------------------------------
(***************************************************************************)
(* The browser manager (browser/manager.ts): launch, close, and the        *)
(* recovery that a dying page schedules, with a back-off timer and a       *)
(* budget of attempts.  Operator calls and recoveries overlap at their     *)
(* awaits.                                                                 *)
(***************************************************************************)
EXTENDS Naturals

CONSTANT MaxRecoveryAttempts   \* maxRecoveryAttempts

ASSUME BrowserAssumption == MaxRecoveryAttempts \in Nat

VARIABLES context,     \* this.browser is there
          tab,         \* this.page: "none", "ok" or "crashed"
          enabled,     \* recoveryEnabled
          timer,       \* recoveryTimer is set
          attempts,    \* recoveryAttempts
          call,        \* the await the operator's call is at
          relaunch,    \* the await the recovery is at
          closed,      \* history: close() has returned since the last launch()
          raced        \* history: the last close() met a recovery under way

webVars == <<context, tab, enabled, timer, attempts, call, relaunch, closed, raced>>

WebInit ==
  /\ context = FALSE /\ tab = "none" /\ enabled = TRUE /\ timer = FALSE /\ attempts = 0
  /\ call = "none" /\ relaunch = "none" /\ closed = TRUE /\ raced = FALSE

(* scheduleRecovery: not while it is disabled, not twice, not for ever.    *)
ScheduleRecovery ==
  IF enabled /\ ~timer /\ attempts < MaxRecoveryAttempts
  THEN timer' = TRUE /\ attempts' = attempts + 1
  ELSE UNCHANGED <<timer, attempts>>

(* The 'crash' and 'close' events of the page.                             *)
PageDies ==
  /\ tab = "ok"
  /\ tab' \in {"crashed", "none"}
  /\ ScheduleRecovery
  /\ UNCHANGED <<context, enabled, call, relaunch, closed, raced>>
-----------------------------------------------------------------------------
(* launch(): a browser that has a page is used as it is.                   *)

Launch ==
  /\ call = "none"
  /\ closed' = FALSE
  /\ call' = IF context /\ tab # "none" THEN "none" ELSE "launching"
  /\ UNCHANGED <<context, tab, enabled, timer, attempts, relaunch, raced>>

Launched ==
  /\ call = "launching" /\ call' = "none"
  /\ \/ context' = TRUE /\ tab' = "ok"
     \/ UNCHANGED <<context, tab>>
  /\ UNCHANGED <<enabled, timer, attempts, relaunch, closed, raced>>

(* close(): recovery is off and its timer cleared, the page and then the   *)
(* browser are closed, recovery is on again.  ForgetTimer is a mutant: the *)
(* scheduled recovery is left to fire.                                     *)
ClearTimer == timer' = FALSE
ForgetTimer == UNCHANGED timer
CancelTimer == ClearTimer

Close ==
  /\ call = "none"
  /\ enabled' = FALSE /\ CancelTimer
  /\ raced' = (relaunch # "none")
  /\ call' = "closing"
  /\ UNCHANGED <<context, tab, attempts, relaunch, closed>>

Closed ==
  /\ call = "closing" /\ call' = "none"
  /\ context' = FALSE /\ tab' = "none" /\ enabled' = TRUE
  /\ closed' = TRUE
  /\ UNCHANGED <<timer, attempts, relaunch, raced>>
-----------------------------------------------------------------------------
(* relaunch(), when the timer fires: close what is there, launch again; a  *)
(* success gives the budget back, a failure schedules the next.            *)

TimerFires ==
  /\ timer
  /\ timer' = FALSE /\ enabled' = FALSE /\ relaunch' = "closing"
  /\ UNCHANGED <<context, tab, attempts, call, closed, raced>>

OldClosed ==
  /\ relaunch = "closing" /\ relaunch' = "launching"
  /\ context' = FALSE /\ tab' = "none" /\ enabled' = TRUE
  /\ UNCHANGED <<timer, attempts, call, closed, raced>>

Relaunched ==
  /\ relaunch = "launching" /\ relaunch' = "none"
  /\ \/ context' = TRUE /\ tab' = "ok" /\ attempts' = 0 /\ UNCHANGED timer
     \/ ScheduleRecovery /\ UNCHANGED <<context, tab>>
  /\ UNCHANGED <<enabled, call, closed, raced>>

Recovery == TimerFires \/ OldClosed \/ Relaunched
WebNext == PageDies \/ Launch \/ Launched \/ Close \/ Closed \/ Recovery
WebSpec == WebInit /\ [][WebNext]_webVars
-----------------------------------------------------------------------------
WebTypeOK ==
  /\ context \in BOOLEAN /\ enabled \in BOOLEAN /\ timer \in BOOLEAN
  /\ closed \in BOOLEAN /\ raced \in BOOLEAN
  /\ tab \in {"none", "ok", "crashed"} /\ attempts \in 0..MaxRecoveryAttempts
  /\ call \in {"none", "launching", "closing"} /\ relaunch \in {"none", "closing", "launching"}

(* A browser that was closed on purpose stays closed: unless a recovery    *)
(* was already relaunching it, nothing scheduled before brings it back.    *)
(* (browser/manager.ts close, scheduleRecovery; a session supervisor that  *)
(* reports "stopped" relies on it.)                                        *)
ClosedStaysClosed ==
  closed /\ call = "none" /\ ~raced => ~context /\ tab = "none" /\ ~timer /\ relaunch = "none"
=============================================================================
