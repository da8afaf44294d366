----------------------------- MODULE Settlement -----------------------------
(***************************************************************************)
(* The settlement ledger: AuthoritativeSettlementEngine, the boot-time     *)
(* reconcile and the SettlementReconciler that feed it with evidence, over *)
(* the schema of migration 017 (settlement_orders with its transition      *)
(* trigger, ledger_entries).                                               *)
(*                                                                         *)
(* Every engine call is one SERIALIZABLE transaction, so it happens at     *)
(* once or not at all.  What interleaves are the sweeps: each takes a      *)
(* batch of orders, and awaits the evidence provider and then the engine   *)
(* for one order after the other, while other sweeps, new orders, new      *)
(* evidence and crashes come in between.                                   *)
(***************************************************************************)
EXTENDS Integers, FiniteSets

CONSTANTS
    Orders,       \* client order ids, numbered in the order of creation
    Wager,        \* wager_amount of an order
    Payouts,      \* gross payouts a provider may report
    Sweeps,       \* concurrent reconciliation passes
    BootSweeps,   \* those among them run by bootReconcileOpenOrders
    BatchSize,    \* LIMIT of the scan
    None,         \* no evidence, no reported payout
    Waiting       \* a sweep that has not asked for evidence yet

Outcome  == {"WIN", "LOSS", "VOID"}
Evidence == [status : Outcome, gross : Payouts \cup {None}]

ASSUME SettlementAssumption ==
    /\ Orders \subseteq Nat
    /\ Wager \in [Orders -> Nat]
    /\ Payouts \subseteq Nat
    /\ BootSweeps \subseteq Sweeps
    /\ None \notin Evidence \cup Payouts
    /\ Waiting \notin Evidence \cup {None}

VARIABLES
    status,     \* settlement_orders.status, "absent" before the INSERT
    payout,     \* settlement_orders.gross_payout
    net,        \* ledger_entries of an order: debits - credits per account
    evidence,   \* what the provider knows of an order
    aged,       \* created_at is before the reconciler's cutoff
    booting,    \* the process has started and not yet reconciled
    todo,       \* rows a sweep still has to process
    answer      \* evidence a sweep has fetched for its current row

vars == <<status, payout, net, evidence, aged, booting, todo, answer>>

Accounts == {"HOT_WALLET", "UNSETTLED", "REALIZED_PNL"}
Settled  == {"SETTLED_WIN", "SETTLED_LOSS", "VOID"}
Open     == {"ORDER_INTENT", "DISPATCHED", "PENDING_SETTLEMENT", "RECONCILING"}
Statuses == Settled \cup Open \cup {"FAILED", "absent"}

TypeOK ==
    /\ status \in [Orders -> Statuses]
    /\ payout \in [Orders -> Nat]
    /\ net \in [Orders -> [Accounts -> Int]]
    /\ evidence \in [Orders -> Evidence \cup {None}]
    /\ aged \in [Orders -> BOOLEAN]
    /\ booting \in BOOLEAN
    /\ todo \in [Sweeps -> SUBSET Orders]
    /\ answer \in [Sweeps -> Evidence \cup {None, Waiting}]

Init ==
    /\ status = [o \in Orders |-> "absent"]
    /\ payout = [o \in Orders |-> 0]
    /\ net = [o \in Orders |-> [a \in Accounts |-> 0]]
    /\ evidence = [o \in Orders |-> None]
    /\ aged = [o \in Orders |-> FALSE]
    /\ booting = TRUE
    /\ todo = [s \in Sweeps |-> {}]
    /\ answer = [s \in Sweeps |-> Waiting]

-----------------------------------------------------------------------------
(* The engine's transactions                                               *)

\* validate_settlement_order_transition(): what the trigger lets through.
CanMove(from, to) ==
    \/ from = "ORDER_INTENT" /\ to \in {"DISPATCHED", "FAILED"}
    \/ from = "DISPATCHED" /\ to \in Settled \cup
                                     {"PENDING_SETTLEMENT", "RECONCILING", "FAILED"}
    \/ from = "PENDING_SETTLEMENT" /\ to \in Settled \cup {"RECONCILING"}
    \/ from = "RECONCILING" /\ to \in Settled \cup {"FAILED"}

\* insertEntry() for each line, then assertBalanced().
Post(o, hot, unsettled, pnl) ==
    /\ net' = [net EXCEPT ![o] =
                 [a \in Accounts |-> @[a] + CASE a = "HOT_WALLET"   -> hot
                                              [] a = "UNSETTLED"    -> unsettled
                                              [] a = "REALIZED_PNL" -> pnl]]
    /\ net'[o]["HOT_WALLET"] + net'[o]["UNSETTLED"] + net'[o]["REALIZED_PNL"] = 0

CreateOrderIntent(o) ==
    /\ status[o] = "absent"
    /\ \A p \in Orders : p < o => status[p] # "absent"
    /\ status' = [status EXCEPT ![o] = "ORDER_INTENT"]
    /\ Post(o, -Wager[o], Wager[o], 0)
    /\ UNCHANGED <<payout, evidence, aged, booting, todo, answer>>

\* Mutant: no evidence after the deadline is taken for a refund.
MarkReconcilingVoids(o) ==
    IF status[o] = "DISPATCHED"
    THEN /\ status' = [status EXCEPT ![o] = "VOID"]
         /\ Post(o, Wager[o], -Wager[o], 0)
         /\ UNCHANGED payout
    ELSE UNCHANGED <<status, payout, net>>

MarkDispatched(o) ==
    /\ status[o] = "ORDER_INTENT"
    /\ status' = [status EXCEPT ![o] = "DISPATCHED"]
    /\ UNCHANGED <<payout, net, evidence, aged, booting, todo, answer>>

\* The UPDATE asks for an order not yet reconciling; the trigger refuses one
\* that was never dispatched.
MarkReconciling(o) ==
    /\ IF status[o] \in Open \ {"RECONCILING"} /\ CanMove(status[o], "RECONCILING")
       THEN status' = [status EXCEPT ![o] = "RECONCILING"]
       ELSE UNCHANGED status
    /\ UNCHANGED <<payout, net>>

FinalStatus(outcome) ==
    CASE outcome = "WIN"  -> "SETTLED_WIN"
      [] outcome = "LOSS" -> "SETTLED_LOSS"
      [] outcome = "VOID" -> "VOID"

\* Mutant: a loss for which the provider names no payout.
GrossOfUnchecked(o, ev) ==
    IF ev.gross # None \/ ev.status = "LOSS" THEN ev.gross ELSE Wager[o]

\* The payout a sweep reports when the provider names none.
GrossOf(o, ev) ==
    IF ev.gross # None THEN ev.gross
    ELSE IF ev.status = "LOSS" THEN 0 ELSE Wager[o]

\* Mutant: any known order may be settled, again if need be.
SettleableAgain(o, final) == status[o] # "absent" /\ final \in Settled

\* settleOrder() on a row it has locked: a final order is left alone, and so
\* is one the trigger refuses.
Settleable(o, final) == status[o] \notin Settled /\ CanMove(status[o], final)

SettleOrder(o, outcome, gross) ==
    IF Settleable(o, FinalStatus(outcome))
    THEN /\ status' = [status EXCEPT ![o] = FinalStatus(outcome)]
         /\ payout' = [payout EXCEPT ![o] = gross]
         /\ \/ outcome = "VOID" /\ Post(o, Wager[o], -Wager[o], 0)
            \/ outcome = "LOSS" /\ Post(o, 0, -Wager[o], Wager[o])
            \/ outcome = "WIN"  /\ Post(o, gross, -Wager[o], Wager[o] - gross)
    ELSE UNCHANGED <<status, payout, net>>

-----------------------------------------------------------------------------
(* The sweeps: bootReconcileOpenOrders() and SettlementReconciler.tick()   *)

Idle(s) == todo[s] = {}

\* ORDER BY created_at ASC LIMIT BatchSize
Oldest(rows) ==
    {o \in rows : Cardinality({p \in rows : p < o}) < BatchSize}

BootScan(s) ==
    /\ s \in BootSweeps
    /\ booting
    /\ booting' = FALSE
    /\ todo' = [todo EXCEPT ![s] =
                  Oldest({o \in Orders : status[o] \notin Settled \cup
                                                          {"FAILED", "absent"}})]
    /\ answer' = [answer EXCEPT ![s] = Waiting]
    /\ UNCHANGED <<status, payout, net, evidence, aged>>

\* Mutant: orders already RECONCILING are not scanned again.
TickScanOnce(s) ==
    /\ s \notin BootSweeps
    /\ Idle(s)
    /\ todo' = [todo EXCEPT ![s] =
          Oldest({o \in Orders : status[o] \in Open \ {"RECONCILING"} /\ aged[o]})]
    /\ answer' = [answer EXCEPT ![s] = Waiting]
    /\ UNCHANGED <<status, payout, net, evidence, aged, booting>>

\* setInterval does not wait for the tick before: ticks may overlap.
TickScan(s) ==
    /\ s \notin BootSweeps
    /\ Idle(s)
    /\ todo' = [todo EXCEPT ![s] =
                  Oldest({o \in Orders : status[o] \in Open /\ aged[o]})]
    /\ answer' = [answer EXCEPT ![s] = Waiting]
    /\ UNCHANGED <<status, payout, net, evidence, aged, booting>>

\* Rows are processed in the order of the result.
Current(s, o) == o \in todo[s] /\ \A p \in todo[s] : o <= p

\* getEvidence(): an UNKNOWN or PENDING answer is treated like none.
FetchEvidence(s, o) ==
    /\ Current(s, o)
    /\ answer[s] = Waiting
    /\ answer' = [answer EXCEPT ![s] = evidence[o]]
    /\ UNCHANGED <<status, payout, net, evidence, aged, booting, todo>>

NextRow(s, o) ==
    /\ todo' = [todo EXCEPT ![s] = @ \ {o}]
    /\ answer' = [answer EXCEPT ![s] = Waiting]
    /\ UNCHANGED <<evidence, aged, booting>>

\* Evidence settles the order; none leaves it RECONCILING, never VOID.
ApplyEvidence(s, o) ==
    /\ Current(s, o)
    /\ answer[s] # Waiting
    /\ IF answer[s] \in Evidence
       THEN SettleOrder(o, answer[s].status, GrossOf(o, answer[s]))
       ELSE MarkReconciling(o)
    /\ NextRow(s, o)

\* The provider or the database failed: the row is skipped.
RowFailed(s, o) ==
    /\ Current(s, o)
    /\ NextRow(s, o)
    /\ UNCHANGED <<status, payout, net>>

-----------------------------------------------------------------------------
(* The environment                                                         *)

\* The operator's history learns how an order ended.
EvidenceArrives(o) ==
    /\ status[o] # "absent"
    /\ evidence[o] = None
    /\ \E ev \in Evidence : evidence' = [evidence EXCEPT ![o] = ev]
    /\ UNCHANGED <<status, payout, net, aged, booting, todo, answer>>

Age(o) ==
    /\ status[o] # "absent"
    /\ ~aged[o]
    /\ aged' = [aged EXCEPT ![o] = TRUE]
    /\ UNCHANGED <<status, payout, net, evidence, booting, todo, answer>>

Crash ==
    /\ todo' = [s \in Sweeps |-> {}]
    /\ answer' = [s \in Sweeps |-> Waiting]
    /\ booting' = TRUE
    /\ UNCHANGED <<status, payout, net, evidence, aged>>

Sweep(s) ==
    \/ BootScan(s) \/ TickScan(s)
    \/ \E o \in Orders : FetchEvidence(s, o) \/ ApplyEvidence(s, o) \/ RowFailed(s, o)

Next ==
    \/ \E o \in Orders : \/ CreateOrderIntent(o) \/ MarkDispatched(o)
                         \/ EvidenceArrives(o) \/ Age(o)
    \/ \E s \in Sweeps : Sweep(s)
    \/ Crash

Spec == Init /\ [][Next]_vars

\* The interval timer keeps firing; the provider and the database do not
\* fail one order for ever, nor does the process crash at every row.
Fairness ==
    \A s \in Sweeps \ BootSweeps :
        /\ WF_vars(TickScan(s))
        /\ \A o \in Orders : /\ SF_vars(FetchEvidence(s, o))
                             /\ SF_vars(ApplyEvidence(s, o))

FairSpec == Spec /\ Fairness

-----------------------------------------------------------------------------
(* Properties                                                              *)

Balances(hot, unsettled, pnl) ==
    [a \in Accounts |-> CASE a = "HOT_WALLET"   -> hot
                          [] a = "UNSETTLED"    -> unsettled
                          [] a = "REALIZED_PNL" -> pnl]

\* The journal says what the status says: an open order locks its wager as
\* exposure, a settled one has none left and books exactly one outcome, no
\* matter how many sweeps settled it, how often, and from what evidence.
LedgerMatchesStatus ==
    \A o \in Orders :
        net[o] = CASE status[o] = "absent"       -> Balances(0, 0, 0)
                   [] status[o] = "VOID"         -> Balances(0, 0, 0)
                   [] status[o] = "SETTLED_LOSS" ->
                          Balances(-Wager[o], 0, Wager[o])
                   [] status[o] = "SETTLED_WIN"  ->
                          Balances(payout[o] - Wager[o], 0, Wager[o] - payout[o])
                   [] OTHER                      ->
                          Balances(-Wager[o], Wager[o], 0)

\* Absence of evidence is never taken for an outcome, and evidence fetched
\* for one order never settles another.
SettledAsEvidenced ==
    \A o \in Orders :
        status[o] \in Settled =>
            /\ evidence[o] # None
            /\ status[o] = FinalStatus(evidence[o].status)
            /\ payout[o] = GrossOf(o, evidence[o])

\* A settled order is final: no later sweep reopens, rewrites or rebooks it.
SettledIsFinal ==
    [][\A o \in Orders : status[o] \in Settled =>
          /\ status'[o] = status[o]
          /\ payout'[o] = payout[o]
          /\ net'[o] = net[o]]_vars

\* An order that was dispatched and that the provider can account for is
\* settled in the end, through crashes and failing rows.
EvidenceSettles ==
    \A o \in Orders :
        (status[o] \in {"DISPATCHED", "RECONCILING"} /\ evidence[o] # None)
            /\ aged[o] ~> status[o] \in Settled

\* settlement-reconciler.ts: "Orders stuck in DISPATCHED / PENDING_SETTLEMENT
\* / RECONCILING past deadline are marked RECONCILING".
StuckOrdersAreReconciled ==
    \A o \in Orders :
        status[o] = "DISPATCHED" /\ aged[o] ~> status[o] # "DISPATCHED"

=============================================================================
