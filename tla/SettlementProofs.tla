-------------------------- MODULE SettlementProofs --------------------------
(***************************************************************************)
(* The ledger of Settlement agrees with the order statuses, statuses with  *)
(* the evidence, and a settled order never changes, for any number of      *)
(* orders and of concurrent sweeps, any wagers, payouts and batch size.    *)
(*                                                                         *)
(* What makes the invariant inductive is AnswerOK: what a sweep holds in   *)
(* its hand is evidence of the row it is at.                               *)
(***************************************************************************)
EXTENDS Settlement, TLAPS

AnswerOK ==
    \A s \in Sweeps : \A o \in Orders :
        Current(s, o) /\ answer[s] \in Evidence => evidence[o] = answer[s]

\* LedgerMatchesStatus, one order and one account at a time.
NetIs(o, hot, unsettled, pnl) ==
    /\ net[o]["HOT_WALLET"] = hot
    /\ net[o]["UNSETTLED"] = unsettled
    /\ net[o]["REALIZED_PNL"] = pnl

BookOK(o) ==
    /\ status[o] \in {"absent", "VOID"} => NetIs(o, 0, 0, 0)
    /\ status[o] = "SETTLED_LOSS" => NetIs(o, -Wager[o], 0, Wager[o])
    /\ status[o] = "SETTLED_WIN" =>
          NetIs(o, payout[o] - Wager[o], 0, Wager[o] - payout[o])
    /\ status[o] \in Open \cup {"FAILED"} => NetIs(o, -Wager[o], Wager[o], 0)

EvidencedOK(o) ==
    status[o] \in Settled =>
        /\ evidence[o] # None
        /\ status[o] = FinalStatus(evidence[o].status)
        /\ payout[o] = GrossOf(o, evidence[o])

OrderOK(o) == BookOK(o) /\ EvidencedOK(o)

Inv == TypeOK /\ AnswerOK /\ \A o \in Orders : OrderOK(o)

-----------------------------------------------------------------------------

LEMMA PostNet ==
  ASSUME TypeOK, NEW o \in Orders, NEW h \in Int, NEW u \in Int, NEW p \in Int,
         Post(o, h, u, p)
  PROVE  /\ net' \in [Orders -> [Accounts -> Int]]
         /\ net'[o]["HOT_WALLET"] = net[o]["HOT_WALLET"] + h
         /\ net'[o]["UNSETTLED"] = net[o]["UNSETTLED"] + u
         /\ net'[o]["REALIZED_PNL"] = net[o]["REALIZED_PNL"] + p
         /\ \A q \in Orders \ {o} : net'[q] = net[q]
<1> DEFINE line == [a \in Accounts |->
                      net[o][a] + CASE a = "HOT_WALLET"   -> h
                                    [] a = "UNSETTLED"    -> u
                                    [] a = "REALIZED_PNL" -> p]
<1>1. net \in [Orders -> [Accounts -> Int]]
  BY DEF TypeOK
<1>2. net' = [net EXCEPT ![o] = line]
  BY DEF Post
<1>3. line \in [Accounts -> Int]
  BY <1>1 DEF Accounts
<1>4. /\ line["HOT_WALLET"] = net[o]["HOT_WALLET"] + h
      /\ line["UNSETTLED"] = net[o]["UNSETTLED"] + u
      /\ line["REALIZED_PNL"] = net[o]["REALIZED_PNL"] + p
  BY DEF Accounts
<1> HIDE DEF line
<1> QED BY <1>1, <1>2, <1>3, <1>4

LEMMA BookIsLedger ==
  ASSUME TypeOK
  PROVE  (\A o \in Orders : BookOK(o)) => LedgerMatchesStatus
<1> SUFFICES ASSUME NEW o \in Orders, BookOK(o)
             PROVE  net[o] = CASE status[o] = "absent"       -> Balances(0, 0, 0)
                   [] status[o] = "VOID"         -> Balances(0, 0, 0)
                   [] status[o] = "SETTLED_LOSS" ->
                          Balances(-Wager[o], 0, Wager[o])
                   [] status[o] = "SETTLED_WIN"  ->
                          Balances(payout[o] - Wager[o], 0, Wager[o] - payout[o])
                   [] OTHER                      ->
                          Balances(-Wager[o], Wager[o], 0)
  BY DEF LedgerMatchesStatus
<1>1. net[o] \in [Accounts -> Int] /\ status[o] \in Statuses
  BY DEF TypeOK
<1>2. ASSUME NEW h, NEW u, NEW p, NetIs(o, h, u, p)
      PROVE  net[o] = Balances(h, u, p)
  BY <1>1, <1>2 DEF NetIs, Balances, Accounts
<1>3. CASE status[o] \in {"absent", "VOID"}
  BY <1>2, <1>3 DEF BookOK
<1>4. CASE status[o] = "SETTLED_LOSS"
  BY <1>2, <1>4 DEF BookOK
<1>5. CASE status[o] = "SETTLED_WIN"
  BY <1>2, <1>5 DEF BookOK
<1>6. CASE status[o] \in Open \cup {"FAILED"}
  BY <1>2, <1>6 DEF BookOK, Open
<1> QED BY <1>1, <1>3, <1>4, <1>5, <1>6 DEF Statuses, Settled

-----------------------------------------------------------------------------
(* The transactions of the engine                                          *)

BookType ==
    /\ status \in [Orders -> Statuses]
    /\ payout \in [Orders -> Nat]
    /\ net \in [Orders -> [Accounts -> Int]]

\* What a transaction on o may do, as far as the orders are concerned.
Settling(o) ==
    /\ BookType'
    /\ OrderOK(o)'
    /\ \A q \in Orders \ {o} : /\ status'[q] = status[q]
                               /\ payout'[q] = payout[q]
                               /\ net'[q] = net[q]
    /\ status[o] \in Settled => /\ status'[o] = status[o]
                                /\ payout'[o] = payout[o]
                                /\ net'[o] = net[o]

LEMMA SettleOrderOK ==
  ASSUME Inv, NEW o \in Orders, evidence[o] \in Evidence, evidence' = evidence,
         SettleOrder(o, evidence[o].status, GrossOf(o, evidence[o]))
  PROVE  Settling(o)
<1> DEFINE ev == evidence[o]
           gross == GrossOf(o, ev)
<1>1. /\ ev.status \in Outcome /\ gross \in Nat /\ Wager[o] \in Nat
      /\ ev # None
  BY SettlementAssumption DEF SettlementAssumption, Evidence, GrossOf
<1>2. BookType /\ OrderOK(o)
  BY DEF Inv, TypeOK, BookType
<1>3. CASE ~Settleable(o, FinalStatus(ev.status))
  <2>1. status' = status /\ payout' = payout /\ net' = net
    BY <1>3 DEF SettleOrder
  <2> QED BY <1>2, <2>1 DEF Settling, BookType, OrderOK, BookOK, EvidencedOK, NetIs,
                            GrossOf
<1>4. CASE Settleable(o, FinalStatus(ev.status))
  <2> DEFINE final == FinalStatus(ev.status)
  <2>1. /\ status' = [status EXCEPT ![o] = final]
        /\ payout' = [payout EXCEPT ![o] = gross]
        /\ \/ ev.status = "VOID" /\ Post(o, Wager[o], -Wager[o], 0)
           \/ ev.status = "LOSS" /\ Post(o, 0, -Wager[o], Wager[o])
           \/ ev.status = "WIN"  /\ Post(o, gross, -Wager[o], Wager[o] - gross)
    BY <1>4 DEF SettleOrder
  <2>2. final \in Settled /\ status[o] \in Open
    BY <1>1, <1>4 DEF Settleable, CanMove, FinalStatus, Outcome, Settled, Open
  <2>3. NetIs(o, -Wager[o], Wager[o], 0)
    BY <1>2, <2>2 DEF OrderOK, BookOK, Open
  <2>4. /\ status' \in [Orders -> Statuses] /\ status'[o] = final
        /\ payout' \in [Orders -> Nat] /\ payout'[o] = gross
        /\ \A q \in Orders \ {o} : status'[q] = status[q] /\ payout'[q] = payout[q]
    BY <1>1, <1>2, <2>1, <2>2 DEF BookType, Statuses
  <2>5. EvidencedOK(o)'
    BY <1>1, <2>4 DEF EvidencedOK, GrossOf
  <2>6. /\ net' \in [Orders -> [Accounts -> Int]]
        /\ \A q \in Orders \ {o} : net'[q] = net[q]
        /\ ev.status = "VOID" => NetIs(o, 0, 0, 0)'
        /\ ev.status = "LOSS" => NetIs(o, -Wager[o], 0, Wager[o])'
        /\ ev.status = "WIN"  => /\ net'[o]["HOT_WALLET"] = gross - Wager[o]
                                 /\ net'[o]["UNSETTLED"] = 0
                                 /\ net'[o]["REALIZED_PNL"] = Wager[o] - gross
    <3>1. CASE ev.status = "VOID"
      <4>1. Post(o, Wager[o], -Wager[o], 0)
        BY <2>1, <3>1
      <4>2. Wager[o] \in Int /\ -Wager[o] \in Int /\ 0 \in Int
        BY <1>1
      <4> HIDE DEF gross
      <4>3. /\ net' \in [Orders -> [Accounts -> Int]]
            /\ net'[o]["HOT_WALLET"] = net[o]["HOT_WALLET"] + Wager[o]
            /\ net'[o]["UNSETTLED"] = net[o]["UNSETTLED"] + (-Wager[o])
            /\ net'[o]["REALIZED_PNL"] = net[o]["REALIZED_PNL"] + 0
            /\ \A q \in Orders \ {o} : net'[q] = net[q]
        BY <4>1, <4>2, PostNet DEF Inv
      <4>4. NetIs(o, 0, 0, 0)'
        BY <1>1, <2>3, <4>3 DEF NetIs
      <4> QED BY <3>1, <4>3, <4>4
    <3>2. CASE ev.status = "LOSS"
      <4>1. Post(o, 0, -Wager[o], Wager[o])
        BY <2>1, <3>2
      <4>2. 0 \in Int /\ -Wager[o] \in Int /\ Wager[o] \in Int
        BY <1>1
      <4> HIDE DEF gross
      <4>3. /\ net' \in [Orders -> [Accounts -> Int]]
            /\ net'[o]["HOT_WALLET"] = net[o]["HOT_WALLET"] + 0
            /\ net'[o]["UNSETTLED"] = net[o]["UNSETTLED"] + (-Wager[o])
            /\ net'[o]["REALIZED_PNL"] = net[o]["REALIZED_PNL"] + Wager[o]
            /\ \A q \in Orders \ {o} : net'[q] = net[q]
        BY <4>1, <4>2, PostNet DEF Inv
      <4>4. NetIs(o, -Wager[o], 0, Wager[o])'
        BY <1>1, <2>3, <4>3 DEF NetIs
      <4> QED BY <3>2, <4>3, <4>4
    <3>3. CASE ev.status = "WIN"
      <4>1. Post(o, gross, -Wager[o], Wager[o] - gross)
        BY <2>1, <3>3
      <4>2. gross \in Int /\ -Wager[o] \in Int /\ Wager[o] - gross \in Int
        BY <1>1
      <4> HIDE DEF gross
      <4>3. /\ net' \in [Orders -> [Accounts -> Int]]
            /\ net'[o]["HOT_WALLET"] = net[o]["HOT_WALLET"] + gross
            /\ net'[o]["UNSETTLED"] = net[o]["UNSETTLED"] + (-Wager[o])
            /\ net'[o]["REALIZED_PNL"] = net[o]["REALIZED_PNL"] + (Wager[o] - gross)
            /\ \A q \in Orders \ {o} : net'[q] = net[q]
        BY <4>1, <4>2, PostNet DEF Inv
      <4>4. /\ net'[o]["HOT_WALLET"] = gross - Wager[o]
            /\ net'[o]["UNSETTLED"] = 0
            /\ net'[o]["REALIZED_PNL"] = Wager[o] - gross
        BY <1>1, <2>3, <4>3 DEF NetIs
      <4> QED BY <3>3, <4>3, <4>4
    <3> QED BY <1>1, <3>1, <3>2, <3>3 DEF Outcome
  <2>7. BookOK(o)'
    <3>1. CASE ev.status = "VOID"
      BY <2>4, <2>6, <3>1 DEF BookOK, FinalStatus, Open, NetIs
    <3>2. CASE ev.status = "LOSS"
      BY <2>4, <2>6, <3>2 DEF BookOK, FinalStatus, Open, NetIs
    <3>3. CASE ev.status = "WIN"
      BY <2>4, <2>6, <3>3 DEF BookOK, FinalStatus, Open, NetIs
    <3> QED BY <1>1, <3>1, <3>2, <3>3 DEF Outcome
  <2>8. status[o] \notin Settled
    BY <1>4 DEF Settleable
  <2> QED BY <2>4, <2>5, <2>6, <2>7, <2>8 DEF Settling, BookType, OrderOK
<1> QED BY <1>3, <1>4

LEMMA MarkReconcilingOK ==
  ASSUME Inv, NEW o \in Orders, evidence' = evidence, MarkReconciling(o)
  PROVE  Settling(o)
<1>1. BookType /\ OrderOK(o)
  BY DEF Inv, TypeOK, BookType
<1>2. CASE status' = status
  BY <1>1, <1>2 DEF MarkReconciling, Settling, BookType, OrderOK, BookOK,
                    EvidencedOK, NetIs, GrossOf
<1>3. CASE /\ status[o] \in Open
           /\ status' = [status EXCEPT ![o] = "RECONCILING"]
  <2>1. /\ status' \in [Orders -> Statuses] /\ status'[o] = "RECONCILING"
        /\ \A q \in Orders \ {o} : status'[q] = status[q]
        /\ payout' = payout /\ net' = net
    BY <1>1, <1>3 DEF BookType, Statuses, Open, MarkReconciling
  <2>2. status[o] \notin Settled
    BY <1>3 DEF Open, Settled
  <2>3. BookOK(o)'
    BY <1>1, <1>3, <2>1 DEF OrderOK, BookOK, Open, NetIs
  <2>4. EvidencedOK(o)'
    BY <2>1 DEF EvidencedOK, Settled
  <2> QED BY <1>1, <2>1, <2>2, <2>3, <2>4 DEF Settling, BookType, OrderOK
<1> QED BY <1>2, <1>3 DEF MarkReconciling

LEMMA Others ==
  ASSUME Inv, NEW o \in Orders, evidence' = evidence, Settling(o)
  PROVE  \A q \in Orders : OrderOK(q)'
<1> TAKE q \in Orders
<1>1. CASE q = o
  BY <1>1 DEF Settling
<1>2. CASE q # o
  <2>1. status'[q] = status[q] /\ payout'[q] = payout[q] /\ net'[q] = net[q]
    BY <1>2 DEF Settling
  <2> QED BY <2>1 DEF Inv, OrderOK, BookOK, EvidencedOK, NetIs, GrossOf
<1> QED BY <1>1, <1>2

-----------------------------------------------------------------------------
(* The actions                                                             *)

SweepType ==
    /\ evidence \in [Orders -> Evidence \cup {None}]
    /\ aged \in [Orders -> BOOLEAN]
    /\ booting \in BOOLEAN
    /\ todo \in [Sweeps -> SUBSET Orders]
    /\ answer \in [Sweeps -> Evidence \cup {None, Waiting}]

LEMMA TypeSplit == TypeOK <=> BookType /\ SweepType
BY DEF TypeOK, BookType, SweepType

LEMMA NextRowOK ==
  ASSUME Inv, NEW s \in Sweeps, NEW o \in Orders, NextRow(s, o)
  PROVE  SweepType' /\ AnswerOK'
<1> USE SettlementAssumption DEF Inv, NextRow, SweepType
<1>1. SweepType
  BY TypeSplit
<1>2. SweepType'
  BY <1>1
<1>3. \A t \in Sweeps : \/ t = s /\ answer'[t] = Waiting
                        \/ todo'[t] = todo[t] /\ answer'[t] = answer[t]
  BY <1>1
<1>4. AnswerOK'
  BY <1>3 DEF AnswerOK, Current, SettlementAssumption
<1> QED BY <1>2, <1>4

LEMMA ScanOK ==
  ASSUME Inv, NEW s \in Sweeps, NEW rows \in SUBSET Orders,
         todo' = [todo EXCEPT ![s] = rows], answer' = [answer EXCEPT ![s] = Waiting],
         booting' \in BOOLEAN, UNCHANGED <<status, payout, net, evidence, aged>>
  PROVE  Inv'
<1>1. BookType /\ SweepType
  BY TypeSplit DEF Inv
<1>2. BookType' /\ SweepType'
  BY <1>1 DEF BookType, SweepType
<1>3. \A t \in Sweeps : \/ t = s /\ answer'[t] = Waiting
                        \/ todo'[t] = todo[t] /\ answer'[t] = answer[t]
  BY <1>1 DEF SweepType
<1>4. AnswerOK'
  BY <1>3, SettlementAssumption DEF Inv, AnswerOK, Current, SettlementAssumption
<1>5. \A q \in Orders : OrderOK(q)'
  BY DEF Inv, OrderOK, BookOK, EvidencedOK, NetIs, GrossOf
<1> QED BY <1>2, <1>4, <1>5, TypeSplit DEF Inv, TypeOK, BookType, SweepType

LEMMA RowOK ==
  ASSUME Inv, NEW s \in Sweeps, NEW o \in Orders,
         ApplyEvidence(s, o) \/ RowFailed(s, o)
  PROVE  Inv' /\ Settling(o)
<1>1. NextRow(s, o) /\ evidence' = evidence
  BY DEF ApplyEvidence, RowFailed, NextRow
<1>2. SweepType' /\ AnswerOK'
  BY <1>1, NextRowOK
<1>3. Settling(o)
  <2>1. CASE RowFailed(s, o)
    BY <2>1, <1>1 DEF RowFailed, Settling, Inv, TypeOK, BookType, OrderOK,
                      BookOK, EvidencedOK, NetIs, GrossOf
  <2>2. CASE ApplyEvidence(s, o) /\ answer[s] \in Evidence
    <3>1. evidence[o] = answer[s]
      BY <2>2 DEF ApplyEvidence, Inv, AnswerOK
    <3>2. SettleOrder(o, evidence[o].status, GrossOf(o, evidence[o]))
      BY <2>2, <3>1 DEF ApplyEvidence
    <3> QED BY <2>2, <3>1, <3>2, <1>1, SettleOrderOK
  <2>3. CASE ApplyEvidence(s, o) /\ answer[s] \notin Evidence
    BY <2>3, <1>1, MarkReconcilingOK DEF ApplyEvidence
  <2> QED BY <2>1, <2>2, <2>3
<1>4. \A q \in Orders : OrderOK(q)'
  BY <1>1, <1>3, Others
<1>5. BookType'
  BY <1>3 DEF Settling
<1> QED BY <1>2, <1>3, <1>4, <1>5 DEF Inv, TypeOK, BookType, SweepType

LEMMA OrderInv ==
  ASSUME Inv, NEW o \in Orders, CreateOrderIntent(o) \/ MarkDispatched(o)
  PROVE  Inv' /\ Settling(o)
<1>1. BookType /\ SweepType /\ OrderOK(o)
  BY TypeSplit DEF Inv
<1>2. SweepType' /\ AnswerOK' /\ evidence' = evidence
  BY <1>1 DEF Inv, SweepType, AnswerOK, Current, CreateOrderIntent, MarkDispatched
<1>3. Settling(o)
  <2>1. CASE CreateOrderIntent(o)
    <3>1. /\ status[o] = "absent" /\ NetIs(o, 0, 0, 0)
          /\ status' = [status EXCEPT ![o] = "ORDER_INTENT"] /\ payout' = payout
          /\ Wager[o] \in Int /\ -Wager[o] \in Int
          /\ Post(o, -Wager[o], Wager[o], 0)
      BY <1>1, <2>1, SettlementAssumption
         DEF CreateOrderIntent, OrderOK, BookOK, SettlementAssumption
    <3>2. /\ net' \in [Orders -> [Accounts -> Int]]
          /\ NetIs(o, -Wager[o], Wager[o], 0)'
          /\ \A q \in Orders \ {o} : net'[q] = net[q]
      BY <3>1, PostNet DEF Inv, NetIs
    <3>3. BookOK(o)' /\ EvidencedOK(o)' /\ BookType'
      BY <1>1, <3>1, <3>2
         DEF BookOK, EvidencedOK, Open, Settled, BookType, Statuses
    <3> QED BY <1>1, <3>1, <3>2, <3>3 DEF Settling, OrderOK, BookType, Settled
  <2>2. CASE MarkDispatched(o)
    <3>1. /\ status[o] = "ORDER_INTENT" /\ payout' = payout /\ net' = net
          /\ status' = [status EXCEPT ![o] = "DISPATCHED"]
      BY <2>2 DEF MarkDispatched
    <3>2. BookOK(o)' /\ EvidencedOK(o)' /\ BookType'
      BY <1>1, <3>1 DEF BookOK, EvidencedOK, OrderOK, Open, Settled, BookType,
                        Statuses, NetIs
    <3> QED BY <1>1, <3>1, <3>2 DEF Settling, OrderOK, BookType, Settled
  <2> QED BY <2>1, <2>2
<1>4. \A q \in Orders : OrderOK(q)'
  BY <1>2, <1>3, Others
<1>5. BookType'
  BY <1>3 DEF Settling
<1> QED BY <1>2, <1>3, <1>4, <1>5 DEF Inv, TypeOK, BookType, SweepType

\* Neither the provider nor time touches the books.
LEMMA EnvironmentInv ==
  ASSUME Inv, \/ Crash
              \/ \E o \in Orders : EvidenceArrives(o) \/ Age(o)
              \/ \E s \in Sweeps : \E o \in Orders : FetchEvidence(s, o)
  PROVE  Inv' /\ UNCHANGED <<status, payout, net>>
<1>1. BookType /\ SweepType
  BY TypeSplit DEF Inv
<1>2. CASE Crash
  <2>1. SweepType' /\ AnswerOK'
    BY <1>1, <1>2, SettlementAssumption
       DEF Crash, SweepType, AnswerOK, SettlementAssumption
  <2> QED BY <1>1, <1>2, <2>1
          DEF Crash, Inv, TypeOK, BookType, SweepType, OrderOK, BookOK,
              EvidencedOK, NetIs, GrossOf
<1>3. ASSUME NEW o \in Orders, Age(o)
      PROVE  Inv' /\ UNCHANGED <<status, payout, net>>
  <2>1. SweepType' /\ AnswerOK'
    BY <1>1, <1>3 DEF Inv, Age, SweepType, AnswerOK, Current
  <2> QED BY <1>1, <1>3, <2>1
          DEF Age, Inv, TypeOK, BookType, SweepType, OrderOK, BookOK,
              EvidencedOK, NetIs, GrossOf
<1>4. ASSUME NEW o \in Orders, EvidenceArrives(o)
      PROVE  Inv' /\ UNCHANGED <<status, payout, net>>
  <2>1. SweepType'
    BY <1>1, <1>4 DEF EvidenceArrives, SweepType
  <2>2. /\ evidence[o] = None
        /\ \A q \in Orders : q # o => evidence'[q] = evidence[q]
    BY <1>1, <1>4 DEF EvidenceArrives, SweepType
  <2>3. AnswerOK'
    BY <1>4, <2>2, SettlementAssumption
       DEF EvidenceArrives, Inv, AnswerOK, Current, SettlementAssumption
  <2>4. \A q \in Orders : OrderOK(q)'
    BY <1>4, <2>2
       DEF EvidenceArrives, Inv, OrderOK, BookOK, EvidencedOK, NetIs, GrossOf
  <2> QED BY <1>1, <1>4, <2>1, <2>3, <2>4
          DEF EvidenceArrives, Inv, TypeOK, BookType, SweepType
<1>5. ASSUME NEW s \in Sweeps, NEW o \in Orders, FetchEvidence(s, o)
      PROVE  Inv' /\ UNCHANGED <<status, payout, net>>
  <2>1. SweepType'
    BY <1>1, <1>5 DEF FetchEvidence, SweepType
  <2>2. /\ answer'[s] = evidence[o] /\ Current(s, o)
        /\ \A t \in Sweeps : t # s => answer'[t] = answer[t]
    BY <1>1, <1>5 DEF FetchEvidence, SweepType
  <2>3. \A p \in Orders : Current(s, p) => p = o
    BY <2>2, SettlementAssumption DEF Current, SettlementAssumption
  <2>4. AnswerOK'
    BY <1>5, <2>2, <2>3 DEF FetchEvidence, Inv, AnswerOK, Current
  <2> QED BY <1>1, <1>5, <2>1, <2>4
          DEF FetchEvidence, Inv, TypeOK, BookType, SweepType, OrderOK, BookOK,
              EvidencedOK, NetIs, GrossOf
<1> QED BY <1>2, <1>3, <1>4, <1>5

LEMMA ScansInv ==
  ASSUME Inv, NEW s \in Sweeps, BootScan(s) \/ TickScan(s)
  PROVE  Inv' /\ UNCHANGED <<status, payout, net>>
<1>1. booting \in BOOLEAN
  BY DEF Inv, TypeOK
<1>2. CASE BootScan(s)
  <2> DEFINE rows == Oldest({o \in Orders : status[o] \notin Settled \cup
                                                          {"FAILED", "absent"}})
  <2>1. rows \in SUBSET Orders
    BY DEF Oldest
  <2> HIDE DEF rows
  <2> QED BY <1>2, <2>1, ScanOK DEF BootScan, rows
<1>3. CASE TickScan(s)
  <2> DEFINE rows == Oldest({o \in Orders : status[o] \in Open /\ aged[o]})
  <2>1. rows \in SUBSET Orders
    BY DEF Oldest
  <2> HIDE DEF rows
  <2> QED BY <1>1, <1>3, <2>1, ScanOK DEF TickScan, rows
<1> QED BY <1>2, <1>3

LEMMA InitInv == Init => Inv
<1> SUFFICES ASSUME Init PROVE Inv
  OBVIOUS
<1> USE SettlementAssumption DEF Init, SettlementAssumption
<1>1. TypeOK
  BY DEF TypeOK, Statuses
<1>2. AnswerOK
  BY DEF AnswerOK, Current
<1>3. \A o \in Orders : OrderOK(o)
  BY DEF OrderOK, BookOK, EvidencedOK, NetIs, Settled, Open, Accounts
<1> QED BY <1>1, <1>2, <1>3 DEF Inv

\* What every step does to the books, besides keeping the invariant.
LEMMA NextInv ==
  ASSUME Inv, [Next]_vars
  PROVE  Inv' /\ (\/ UNCHANGED <<status, payout, net>>
                  \/ \E o \in Orders : Settling(o))
<1>1. CASE UNCHANGED vars
  <2>1. /\ status' = status /\ payout' = payout /\ net' = net
        /\ evidence' = evidence /\ aged' = aged /\ booting' = booting
        /\ todo' = todo /\ answer' = answer
    BY <1>1 DEF vars
  <2> QED BY <2>1 DEF Inv, TypeOK, AnswerOK, Current, OrderOK, BookOK,
                      EvidencedOK, NetIs, GrossOf
<1>2. CASE Crash
  BY <1>2, EnvironmentInv
<1>3. ASSUME NEW o \in Orders,
             \/ CreateOrderIntent(o) \/ MarkDispatched(o)
             \/ EvidenceArrives(o) \/ Age(o)
      PROVE  Inv' /\ (\/ UNCHANGED <<status, payout, net>>
                      \/ \E q \in Orders : Settling(q))
  BY <1>3, OrderInv, EnvironmentInv
<1>4. ASSUME NEW s \in Sweeps, Sweep(s)
      PROVE  Inv' /\ (\/ UNCHANGED <<status, payout, net>>
                      \/ \E q \in Orders : Settling(q))
  <2>1. CASE BootScan(s) \/ TickScan(s)
    BY <2>1, ScansInv
  <2>2. ASSUME NEW o \in Orders,
               FetchEvidence(s, o) \/ ApplyEvidence(s, o) \/ RowFailed(s, o)
        PROVE  Inv' /\ (\/ UNCHANGED <<status, payout, net>>
                        \/ \E q \in Orders : Settling(q))
    BY <2>2, RowOK, EnvironmentInv
  <2> QED BY <1>4, <2>1, <2>2 DEF Sweep
<1> QED BY <1>1, <1>2, <1>3, <1>4 DEF Next

LEMMA Invariant == Spec => []Inv
<1>1. Inv /\ [Next]_vars => Inv'
  BY NextInv
<1> QED BY InitInv, <1>1, PTL DEF Spec

-----------------------------------------------------------------------------

\* The orders, their journal and the sweeps keep their types; net amounts
\* stay whole and statuses are those of the schema.
THEOREM TypeCorrect == Spec => []TypeOK
BY Invariant, PTL DEF Inv

\* The double-entry journal agrees with the order statuses at every moment:
\* no interleaving of boot, ticks and crashes locks a wager twice, releases
\* it twice, or books two outcomes.
THEOREM LedgerCorrect == Spec => []LedgerMatchesStatus
<1>1. Inv => LedgerMatchesStatus
  BY BookIsLedger DEF Inv, OrderOK
<1> QED BY <1>1, Invariant, PTL

\* No order is settled without evidence of its own: neither age nor a failed
\* lookup becomes a VOID.
THEOREM EvidenceRequired == Spec => []SettledAsEvidenced
<1>1. Inv => SettledAsEvidenced
  BY DEF Inv, OrderOK, EvidencedOK, SettledAsEvidenced
<1> QED BY <1>1, Invariant, PTL

\* settleOrder is idempotent across sweeps: a settled order is never touched
\* again.
THEOREM SettlementIsFinal == Spec => SettledIsFinal
<1> DEFINE Kept == \A o \in Orders : status[o] \in Settled =>
                      /\ status'[o] = status[o]
                      /\ payout'[o] = payout[o]
                      /\ net'[o] = net[o]
<1>1. Inv /\ [Next]_vars => Kept
  BY NextInv DEF Settling
<1>2. Inv /\ [Next]_vars => [Kept]_vars
  BY <1>1
<1> QED BY <1>2, Invariant, PTL DEF Spec, SettledIsFinal

=============================================================================
