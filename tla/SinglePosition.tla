--------------------------- MODULE SinglePosition ---------------------------
(***************************************************************************)
(* What every betting path of CrashWave promises about the account: at any *)
(* time there is at most one position.  A stake is first in flight         *)
(* ("placing"), then on the table ("open"), and only a flat account may    *)
(* put another one in flight.  A position never opens out of nowhere and   *)
(* an open one is never overlaid by a second placement.                    *)
(*                                                                         *)
(* The components that drive a bet are shown to implement this module      *)
(* under a refinement mapping of their own (see BettingStateMachine).      *)
(***************************************************************************)

VARIABLE position

Positions == {"flat", "placing", "open"}

TypeOK == position \in Positions

Init == position = "flat"

\* A stake leaves the account for the table.
Commit == position = "flat" /\ position' = "placing"

\* The game accepted the stake.
Accept == position = "placing" /\ position' = "open"

\* The stake in flight was refused, lost track of or abandoned.
Abandon == position = "placing" /\ position' = "flat"

\* The open position was won, lost or written off.
Close == position = "open" /\ position' = "flat"

Next == Commit \/ Accept \/ Abandon \/ Close

Spec == Init /\ [][Next]_position

=============================================================================
