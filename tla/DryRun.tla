------------------------------- MODULE DryRun -------------------------------
(***************************************************************************)
(* The dry run: the bridge that hears round starts and crashes             *)
(* (core/dry-run/dry-run-bridge.ts), the controller with its gates         *)
(* (dry-run-controller.ts), the ledger of virtual trades                   *)
(* (virtual-ledger.ts).                                                    *)
(*                                                                         *)
(* The bridge awaits two calls that do no I/O as they are wired, so its    *)
(* handler runs before the next event.  Every evaluation makes a fresh     *)
(* prediction id, which is the trade's signal id: the ledger's check for a *)
(* repeated signal never meets a repeat.                                   *)
(***************************************************************************)
EXTENDS Naturals, Integers, Sequences, FiniteSets

CONSTANTS Stake,           \* stake of a virtual trade
          InitialBalance,  \* virtual money at the start
          MaxDaily,        \* maxDailyVirtualTrades
          MaxTrades        \* bound: trades in a behaviour

ASSUME DryRunAssumption ==
  /\ Stake \in Nat \ {0} /\ InitialBalance \in Nat /\ MaxDaily \in Nat /\ MaxTrades \in Nat

VARIABLES running,      \* running flag of the controller
          dailyTrades,  \* trades counted against the day's limit
          ledger,       \* virtual trades in the order they were opened
          balance, netPnl, wins, losses

dryVars == <<running, dailyTrades, ledger, balance, netPnl, wins, losses>>

DryInit ==
  /\ running = TRUE /\ dailyTrades = 0
  /\ ledger = <<>>
  /\ balance = InitialBalance /\ netPnl = 0 /\ wins = 0 /\ losses = 0
-----------------------------------------------------------------------------
(* openTrade after the controller's gates.  OneMore is a mutant: the day's *)
(* limit may be passed by one.                                             *)
OneMore(counted) == counted <= MaxDaily
UnderDailyLimit(counted) == counted < MaxDaily

OpenTrade(r, counted) ==
  /\ UnderDailyLimit(counted)
  /\ Stake <= balance
  /\ Len(ledger) < MaxTrades
  /\ ledger' = Append(ledger, [round |-> r, status |-> "OPEN"])
  /\ balance' = balance - Stake
  /\ dailyTrades' = counted + 1
  /\ UNCHANGED <<netPnl, wins, losses>>

Refuse(counted) ==
  /\ dailyTrades' = counted
  /\ UNCHANGED <<ledger, balance, netPnl, wins, losses>>

(* onRoundStartedForDryRun.  The system's mode may be live, there may be   *)
(* no signal, its probability or its confidence may be too low, and the    *)
(* day may have changed.                                                   *)
BridgeRoundStarted(r) ==
  /\ IF running
     THEN \/ \E counted \in {0, dailyTrades} : OpenTrade(r, counted) \/ Refuse(counted)
          \/ Refuse(dailyTrades)
     ELSE Refuse(dailyTrades)
  /\ UNCHANGED running

(* resolveRound pays the target, which is twice the stake, or nothing.     *)
(* ResolveAgain is a mutant: trades of the round are resolved whatever     *)
(* their status.                                                           *)
Outcome(cp) == IF cp >= 2 THEN "WIN" ELSE "LOSS"

Resolve(hit, cp) ==
  LET n == Cardinality(hit) IN
  /\ ledger' = [i \in DOMAIN ledger |->
                  IF i \in hit THEN [ledger[i] EXCEPT !.status = Outcome(cp)] ELSE ledger[i]]
  /\ IF Outcome(cp) = "WIN"
     THEN /\ balance' = balance + 2 * Stake * n /\ netPnl' = netPnl + Stake * n
          /\ wins' = wins + n /\ UNCHANGED losses
     ELSE /\ netPnl' = netPnl - Stake * n
          /\ losses' = losses + n /\ UNCHANGED <<balance, wins>>

ResolveAgain(r, cp) == Resolve({i \in DOMAIN ledger : ledger[i].round = r}, cp)

ResolveRound(r, cp) ==
  Resolve({i \in DOMAIN ledger : ledger[i].round = r /\ ledger[i].status = "OPEN"}, cp)

(* onRoundCrashedForDryRun: a stopped controller leaves the ledger alone.  *)
BridgeRoundCrashed(r, cp) ==
  /\ IF running THEN ResolveRound(r, cp) ELSE UNCHANGED <<ledger, balance, netPnl, wins, losses>>
  /\ UNCHANGED <<running, dailyTrades>>

ControllerSet(on) ==
  /\ running' = on
  /\ UNCHANGED <<dailyTrades, ledger, balance, netPnl, wins, losses>>
-----------------------------------------------------------------------------
TradeStatuses == {"OPEN", "WIN", "LOSS"}
With(status) == Cardinality({i \in DOMAIN ledger : ledger[i].status = status})

DryTypeOK ==
  /\ running \in BOOLEAN /\ dailyTrades \in 0..MaxDaily
  /\ Len(ledger) <= MaxTrades
  /\ \A i \in DOMAIN ledger : ledger[i].status \in TradeStatuses
  /\ balance \in Int /\ netPnl \in Int /\ wins \in Nat /\ losses \in Nat

(* The virtual money agrees with the trades: every trade was paid for      *)
(* once, and paid out or written off at most once, however often its       *)
(* round's start and crash are heard.  (virtual-ledger.ts openTrade,       *)
(* resolveRound)                                                           *)
VirtualMoney ==
  /\ balance >= 0
  /\ wins = With("WIN") /\ losses = With("LOSS")
  /\ netPnl = Stake * wins - Stake * losses
  /\ balance = InitialBalance + netPnl - Stake * With("OPEN")
=============================================================================
