--------------------------- MODULE MCBetExecutor ---------------------------
(***************************************************************************)
(* Three calls: two compete for the same round, one of another round only  *)
(* competes for the mutex and is a dry run.  One retry per call.           *)
(***************************************************************************)
EXTENDS BetExecutor

CONSTANTS c1, c2, c3, r1, r2

MCCalls == {c1, c2, c3}
MCRounds == {r1, r2}
MCRoundOf == [c \in MCCalls |-> IF c = c3 THEN r2 ELSE r1]
MCDryRunCalls == {c3}

=============================================================================
