-------------------------------- MODULE CashOut --------------------------------
(***************************************************************************)
(* One bet and its cash-out monitor (betting/cashout.ts) over the page     *)
(* (betting/adapters/browser.ts): ticks, the crash, an abort and a safety  *)
(* timeout race with the cash-out in flight to resolve the monitor once.   *)
(* Ticks and the crash are heard some time after the table shows them.     *)
(*                                                                         *)
(* The page only tells that the active bet has gone from it, which is so   *)
(* when the bet was cashed out and when it was lost.  No adapter offers    *)
(* the table's own automatic cash-out.                                     *)
(***************************************************************************)
EXTENDS Naturals

VARIABLES flight,     \* the round flies, or is "over"
          peaked,     \* it has reached the target
          wager,      \* the bet, as the table knows it: "riding", "paid", "lost"
          triggered,  \* state.triggered, which is cashOutInFlight
          aborted,
          request,    \* executeCashOut: "none", "clicking", "confirming", "done"
          clicks,     \* history: cash-out clicks
          verdict     \* finalState the monitor resolved with, or "none"

outVars == <<flight, peaked, wager, triggered, aborted, request, clicks, verdict>>

OutInit ==
  /\ flight = "up" /\ peaked = FALSE /\ wager = "riding"
  /\ triggered = FALSE /\ aborted = FALSE
  /\ request = "none" /\ clicks = 0 /\ verdict = "none"

(* resolveOnce: the first verdict stays.                                   *)
Resolved == verdict # "none"
ResolveOnce(v) == verdict' = IF Resolved THEN verdict ELSE v
-----------------------------------------------------------------------------
(* The table.                                                              *)

ReachesTarget ==
  /\ flight = "up" /\ ~peaked /\ peaked' = TRUE
  /\ UNCHANGED <<flight, wager, triggered, aborted, request, clicks, verdict>>

Crashes ==
  /\ flight = "up" /\ flight' = "over"
  /\ wager' = IF wager = "riding" THEN "lost" ELSE wager
  /\ UNCHANGED <<peaked, triggered, aborted, request, clicks, verdict>>
-----------------------------------------------------------------------------
(* The monitor.                                                            *)

HearsTarget ==
  /\ peaked
  /\ ~Resolved /\ ~aborted /\ ~triggered
  /\ triggered' = TRUE /\ request' = "clicking"
  /\ UNCHANGED <<flight, peaked, wager, aborted, clicks, verdict>>

(* A round crashes before the target or after it.  CrashIsLoss is a        *)
(* mutant: the handler without the tests on the cash-out in flight.        *)
CrashIsLoss == ResolveOnce("LOST")
CrashUnlessInFlight == IF triggered THEN UNCHANGED verdict ELSE ResolveOnce("LOST")
CrashVerdict == CrashUnlessInFlight

HearsCrash ==
  /\ flight = "over" /\ ~Resolved
  /\ CrashVerdict
  /\ UNCHANGED <<flight, peaked, wager, triggered, aborted, request, clicks>>

SafetyTimeout ==
  /\ ~Resolved /\ ResolveOnce("UNKNOWN")
  /\ UNCHANGED <<flight, peaked, wager, triggered, aborted, request, clicks>>

Abort ==
  /\ ~aborted /\ aborted' = TRUE
  /\ UNCHANGED <<flight, peaked, wager, triggered, request, clicks, verdict>>
-----------------------------------------------------------------------------
(* executeCashOut over the page.  A click may reach the table whatever the *)
(* page says of it; it pays if the bet still rides.                        *)

ClickCashOut ==
  /\ request = "clicking"
  /\ clicks' = clicks + 1
  /\ wager' \in {wager} \cup (IF wager = "riding" THEN {"paid"} ELSE {})
  /\ \/ request' = "confirming" /\ UNCHANGED verdict
     \/ request' = "done" /\ ResolveOnce("FAILED")
  /\ UNCHANGED <<flight, peaked, triggered, aborted>>

ConfirmCashOut ==
  /\ request = "confirming" /\ request' = "done"
  /\ \/ wager # "riding" /\ ResolveOnce("CASHED_OUT")
     \/ ResolveOnce("FAILED")
  /\ UNCHANGED <<flight, peaked, wager, triggered, aborted, clicks>>

OutNext == \/ ReachesTarget \/ Crashes \/ HearsTarget \/ HearsCrash \/ SafetyTimeout
           \/ Abort \/ ClickCashOut \/ ConfirmCashOut

OutSpec == OutInit /\ [][OutNext]_outVars
-----------------------------------------------------------------------------
OutTypeOK ==
  /\ flight \in {"up", "over"} /\ peaked \in BOOLEAN /\ wager \in {"riding", "paid", "lost"}
  /\ triggered \in BOOLEAN /\ aborted \in BOOLEAN
  /\ request \in {"none", "clicking", "confirming", "done"} /\ clicks \in Nat
  /\ verdict \in {"none", "CASHED_OUT", "FAILED", "LOST", "UNKNOWN"}

(* What the monitor resolves with is what the table can bear, in every     *)
(* order of tick, crash, abort and timeout: a cash-out is clicked once; a  *)
(* bet reported lost was never asked to be cashed out and was not paid;    *)
(* one reported cashed out was asked for once and rides no longer.         *)
(* (cashout.ts runMonitor, resolveOnce)                                    *)
VerdictMatchesTable ==
  /\ clicks <= 1
  /\ verdict = "LOST" => clicks = 0 /\ wager = "lost"
  /\ verdict = "CASHED_OUT" => clicks = 1 /\ wager # "riding"
=============================================================================
