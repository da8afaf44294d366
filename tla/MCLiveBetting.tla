---------------------------- MODULE MCLiveBetting ----------------------------
(***************************************************************************)
(* Two rounds; the first is announced twice, so that the deliveries        *)
(* compete for its key as well as for the mutex, and may still be at work  *)
(* in the second.  One retry per call.                                     *)
(***************************************************************************)
EXTENDS LiveBetting

CONSTANTS s1, s2

MCStarts  == {s1, s2}
MCRounds  == 1..2
MCRoundOf == [s \in MCStarts |-> 1]

=============================================================================
