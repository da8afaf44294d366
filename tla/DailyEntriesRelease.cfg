\* A day with a limit of two entries and six rows, enough for the limit to be
\* reached, released and reached again, in the ledger of the database.
SPECIFICATION Spec
CONSTANTS
    Rows = {r1, r2, r3, r4, r5, r6}
    MaxEntries = 2
    Releasable = {"RESERVED", "CONFIRMED"}
    Confirmable = {"RESERVED"}
    MaxUnheld = 2
INVARIANT ConfirmedWithinLimit
CHECK_DEADLOCK FALSE
