---------------------------- MODULE MCSettlement ----------------------------
(***************************************************************************)
(* Two orders, a boot sweep and a periodic one.  The reported payout is    *)
(* below the wager, so that a win may book a loss; where the provider      *)
(* reports none, a win pays the wager back.                                *)
(***************************************************************************)
EXTENDS Settlement

MCOrders  == 1..2
MCWager   == [o \in MCOrders |-> 2]
MCPayouts == {1}

=============================================================================
