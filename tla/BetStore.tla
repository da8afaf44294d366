------------------------------ MODULE BetStore ------------------------------
(***************************************************************************)
(* The bet repository over PostgreSQL                                      *)
(* (persistence/repositories/bet-repo.ts).  create and update write the    *)
(* row, a financial event and an outbox event in one transaction; the      *)
(* table and the function of the two events exist in the full schema, not  *)
(* in the personal one the migrations build.  The code catches the errors  *)
(* of the two event statements.  PostgreSQL does not forget them: the      *)
(* first one aborts the transaction, and its COMMIT rolls back without an  *)
(* error.                                                                  *)
(*                                                                         *)
(* An operation is one step: the row it works on is new or locked.         *)
(***************************************************************************)
EXTENDS Naturals, FiniteSets

CONSTANTS BetIds,      \* ids the database hands out
          FullSchema   \* financial_ledger_events and enqueue_outbox_event exist

VARIABLES rows,      \* the bets table: state of each stored bet, or NoRow
          returned   \* ids of the records create() has returned, less the deleted

betVars == <<rows, returned>>

States == {"PENDING", "RESERVED", "PLACED", "CONFIRMED", "ACTIVE", "CASH_OUT_REQUESTED",
           "CASHED_OUT", "LOST", "FAILED", "UNKNOWN", "RECONCILED"}
NoRow == "no row"

BetInit == rows = [b \in BetIds |-> NoRow] /\ returned = {}

(* COMMIT of a transaction that did or did not try the event statements.   *)
CommitRow(b, state, withEvents) ==
  rows' = IF withEvents /\ ~FullSchema THEN rows ELSE [rows EXCEPT ![b] = state]

CreateBet(b) ==
  /\ rows[b] = NoRow /\ b \notin returned
  /\ \E s \in States : CommitRow(b, s, TRUE)
  /\ returned' = returned \cup {b}

(* The state's events are written only when the state changes; the other   *)
(* columns of the update are data.                                         *)
UpdateBet(b) ==
  /\ rows[b] # NoRow
  /\ \E s \in States : CommitRow(b, s, s # rows[b])
  /\ UNCHANGED returned

DeleteBet(b) ==
  /\ rows' = [rows EXCEPT ![b] = NoRow]
  /\ returned' = IF rows[b] = NoRow THEN returned ELSE returned \ {b}

BetNext == \E b \in BetIds : CreateBet(b) \/ UpdateBet(b) \/ DeleteBet(b)
BetSpec == BetInit /\ [][BetNext]_betVars
-----------------------------------------------------------------------------
(* A record that create() returned is in the table until it is deleted.    *)
(* (bet-repo.ts create: the events are best effort)                        *)
CreatedIsStored == \A b \in returned : rows[b] # NoRow
=============================================================================
