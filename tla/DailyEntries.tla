---------------------------- MODULE DailyEntries ----------------------------
(***************************************************************************)
(* The daily entry ledger: one day's rows and its counter row.             *)
(*                                                                         *)
(* The repository has three implementations with the same operations, each *)
(* under a lock or a SERIALIZABLE transaction, so an operation is a step.  *)
(* The attempt and failure statistics are left out.  The implementations   *)
(* differ in the rows that release() and confirm() accept, which are       *)
(* parameters here:                    Releasable          Confirmable     *)
(*   DailyEntryLedger                                                      *)
(*     (daily-entries.ts)           RESERVED, CONFIRMED   RESERVED         *)
(*   InMemoryDailyEntryLedger                                              *)
(*     (daily-entries.ts)           RESERVED, CONFIRMED   RESERVED,        *)
(*                                                        RELEASED         *)
(*   InMemoryDailyEntryLedger                                              *)
(*     (in-memory-daily-ledger.ts)  RESERVED              RESERVED         *)
(***************************************************************************)
EXTENDS Naturals, FiniteSets

CONSTANTS
    Rows,        \* rows the day may ever get: the bound of the model
    MaxEntries,  \* maxEntries
    Releasable,  \* statuses of the rows release() takes back
    Confirmable, \* statuses of the rows confirm() confirms
    MaxUnheld    \* bound of the model on unheld

ASSUME DailyEntriesAssumption ==
    /\ IsFiniteSet(Rows)
    /\ MaxEntries \in Nat
    /\ Releasable \subseteq {"RESERVED", "CONFIRMED"}
    /\ Confirmable \subseteq {"RESERVED", "RELEASED"}
    /\ MaxUnheld \in Nat

VARIABLES
    status,     \* daily_entries.status, "none" for a row not inserted yet
    confirmed,  \* daily_stats.entries_confirmed
    reserved,   \* daily_stats.entries_reserved
    unheld      \* history: times a row that held no reserved slot gave one up

vars == <<status, confirmed, reserved, unheld>>

Statuses == {"none", "RESERVED", "CONFIRMED", "RELEASED"}

TypeOK ==
    /\ status \in [Rows -> Statuses]
    /\ confirmed \in Nat
    /\ reserved \in Nat
    /\ unheld \in 0..MaxUnheld

Init ==
    /\ status = [r \in Rows |-> "none"]
    /\ confirmed = 0
    /\ reserved = 0
    /\ unheld = 0

\* GREATEST(n - 1, 0)
Decrement(n) == IF n > 0 THEN n - 1 ELSE 0

\* confirm() and release() take a slot off the reserved counter whatever the
\* row's status was.
GivesUpSlot(r) ==
    /\ reserved' = Decrement(reserved)
    /\ unheld' = unheld + (IF status[r] = "RESERVED" THEN 0 ELSE 1)
    /\ unheld' <= MaxUnheld

-----------------------------------------------------------------------------

\* Mutant: only confirmed entries count towards the limit.
HasCapacityConfirmed == confirmed < MaxEntries

\* Reserved slots count towards the limit.
HasCapacity == confirmed + reserved < MaxEntries

\* Nothing keeps a bet from holding several rows, so the rows stand for
\* themselves; a bet's confirm() or release() may find any of its rows.
Reserve ==
    /\ HasCapacity
    /\ \E r \in Rows :
          /\ status[r] = "none"
          /\ status' = [status EXCEPT ![r] = "RESERVED"]
    /\ reserved' = reserved + 1
    /\ UNCHANGED <<confirmed, unheld>>

\* Mutant: a confirmed entry is confirmed, and counted, again.
ConfirmAgain(r) ==
    /\ status[r] \in Confirmable \cup {"CONFIRMED"}
    /\ status' = [status EXCEPT ![r] = "CONFIRMED"]
    /\ confirmed' = confirmed + 1
    /\ GivesUpSlot(r)

\* confirm() of some row of the bet; a row in another status is refused, or
\* left alone if it is confirmed.
Confirm(r) ==
    /\ status[r] \in Confirmable
    /\ status' = [status EXCEPT ![r] = "CONFIRMED"]
    /\ confirmed' = confirmed + 1
    /\ GivesUpSlot(r)

\* release() of some row of the bet.
Release(r) ==
    /\ status[r] \in Releasable
    /\ status' = [status EXCEPT ![r] = "RELEASED"]
    /\ GivesUpSlot(r)
    /\ confirmed' = IF status[r] = "CONFIRMED" THEN Decrement(confirmed)
                                               ELSE confirmed

Next ==
    \/ Reserve
    \/ \E r \in Rows : Confirm(r) \/ Release(r)

Spec == Init /\ [][Next]_vars

-----------------------------------------------------------------------------
(* Properties                                                              *)

InStatus(s) == {r \in Rows : status[r] = s}

\* The confirmed counter is the number of confirmed rows.  The reserved one
\* never promises a slot that no row holds; it falls short of the rows by the
\* slots given up for rows that held none, and by no more.
CountersMatchRows ==
    LET held == Cardinality(InStatus("RESERVED")) IN
    /\ confirmed = Cardinality(InStatus("CONFIRMED"))
    /\ reserved <= held
    /\ held <= reserved + unheld

\* Entries confirmed and under way stay within the limit of the day, but for
\* one more with each confirmed entry that was released and each released one
\* that was confirmed.  A ledger that refuses both keeps the limit.
EntriesWithinLimit ==
    Cardinality(InStatus("CONFIRMED")) + Cardinality(InStatus("RESERVED"))
        <= MaxEntries + unheld

\* daily-entries.ts: "Core invariant: confirmed entries for a day never
\* exceed 100."
ConfirmedWithinLimit == Cardinality(InStatus("CONFIRMED")) <= MaxEntries

=============================================================================
