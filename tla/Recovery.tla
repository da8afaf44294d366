-------------------------------- MODULE Recovery --------------------------------
(***************************************************************************)
(* Recovery: the manager decides whether betting may resume                *)
(* (core/recovery-manager.ts) after a sweep over the UNKNOWN bets          *)
(* (ledger/unknown-state-recovery.ts) and a reconciliation of the balance  *)
(* (ledger/balance-reconciliation.ts).  Runs may overlap at every query,   *)
(* and bets become UNKNOWN at any time.                                    *)
(***************************************************************************)
EXTENDS Naturals, FiniteSets

CONSTANTS Bets,            \* ids of bets
          Runs,            \* calls of runRecovery under way at once
          MaxBetsPerSweep  \* maxBetsPerSweep

ASSUME RecoveryAssumption == MaxBetsPerSweep \in Nat \ {0}

VARIABLES betState,     \* state of each record: "OPEN", "UNKNOWN", "SETTLED"
          halted,       \* RecoveryManager.halted
          recovery,       \* RecoveryManager.phase: "idle", "running", "failed"
          sweeping,     \* UnknownStateRecovery.isReconciling
          step,         \* the await each run is at
          swept,        \* bets a run's sweep has still to look at
          leftUnknown,  \* its sweep failed or left a bet UNKNOWN
          resolving,    \* bets an operator's manualResolve has found UNKNOWN
          fresh,        \* history: bets UNKNOWN only since the count a caller resumes by
          resumedOver   \* history: bets UNKNOWN at that count, over which betting resumed

recVars == <<betState, halted, recovery, sweeping, step, swept, leftUnknown, resolving,
             fresh, resumedOver>>

Callers == Runs \cup {"operator"}   \* the operator's forceResume counts too
Unknown == {b \in Bets : betState[b] = "UNKNOWN"}

RecInit ==
  /\ betState = [b \in Bets |-> "OPEN"]
  /\ halted = FALSE /\ recovery = "idle" /\ sweeping = FALSE
  /\ step = [r \in Callers |-> "none"]
  /\ swept = [r \in Runs |-> {}] /\ leftUnknown = [r \in Runs |-> FALSE]
  /\ resolving = {} /\ fresh = [r \in Callers |-> {}] /\ resumedOver = {}

ToStep(r, s) == step' = [step EXCEPT ![r] = s]

BecomesUnknown ==
  \E b \in Bets :
    /\ betState[b] = "OPEN" /\ betState' = [betState EXCEPT ![b] = "UNKNOWN"]
    /\ fresh' = [r \in Callers |-> IF step[r] = "resume" THEN fresh[r] \cup {b} ELSE fresh[r]]
    /\ UNCHANGED <<halted, recovery, sweeping, step, swept, leftUnknown, resolving, resumedOver>>
-----------------------------------------------------------------------------
(* runRecovery.  A query that throws ends the run halted.                  *)

RunFails(r) ==
  /\ ToStep(r, "none") /\ recovery' = "failed" /\ halted' = TRUE
  /\ UNCHANGED <<betState, sweeping, swept, leftUnknown, resolving, fresh, resumedOver>>

StartRun(r) ==
  /\ step[r] = "none" /\ ToStep(r, "count") /\ recovery' = "running"
  /\ UNCHANGED <<betState, halted, sweeping, swept, leftUnknown, resolving, fresh, resumedOver>>

CountUnknown(r) ==
  /\ step[r] = "count"
  /\ \/ /\ IF Unknown # {} THEN ToStep(r, "sweep") /\ halted' = TRUE
                           ELSE ToStep(r, "balance") /\ UNCHANGED halted
        /\ recovery' = "running"
        /\ UNCHANGED <<betState, sweeping, swept, leftUnknown, resolving, fresh, resumedOver>>
     \/ RunFails(r)

(* runRecoverySweep, unless one is under way: then there is nothing to     *)
(* report.  The query returns at most MaxBetsPerSweep bets.                *)
BeginSweep(r) ==
  /\ step[r] = "sweep"
  /\ \/ /\ sweeping
        /\ ToStep(r, "balance") /\ UNCHANGED <<sweeping, swept, leftUnknown>>
     \/ /\ ~sweeping
        /\ sweeping' = TRUE /\ ToStep(r, "bets") /\ UNCHANGED leftUnknown
        /\ \E batch \in SUBSET Unknown :
             /\ \/ Cardinality(batch) = MaxBetsPerSweep
                \/ batch = Unknown /\ Cardinality(batch) < MaxBetsPerSweep
             /\ swept' = [swept EXCEPT ![r] = batch]
     \/ /\ ~sweeping                                    \* the query fails
        /\ leftUnknown' = [leftUnknown EXCEPT ![r] = TRUE]
        /\ ToStep(r, "balance") /\ UNCHANGED <<sweeping, swept>>
  /\ recovery' = "running"
  /\ UNCHANGED <<betState, halted, resolving, fresh, resumedOver>>

(* recoverBet: with authoritative evidence the record is settled, whatever *)
(* it says by now; without, or on an error, it stays.                      *)
RecoverBet(r) ==
  \E b \in swept[r] :
    /\ step[r] = "bets" /\ swept' = [swept EXCEPT ![r] = @ \ {b}]
    /\ \/ betState' = [betState EXCEPT ![b] = "SETTLED"] /\ UNCHANGED leftUnknown
       \/ leftUnknown' = [leftUnknown EXCEPT ![r] = TRUE] /\ UNCHANGED betState
    /\ UNCHANGED <<halted, recovery, sweeping, step, resolving, fresh, resumedOver>>

EndSweep(r) ==
  /\ step[r] = "bets" /\ swept[r] = {}
  /\ sweeping' = FALSE /\ ToStep(r, "balance") /\ recovery' = "running"
  /\ UNCHANGED <<betState, halted, swept, leftUnknown, resolving, fresh, resumedOver>>

(* reconcile: the balance is unknown, is off, or agrees with the ledger;   *)
(* then UNKNOWN bets are counted, and a count that fails counts for none.  *)
(* WithinTolerance is a mutant: reconciled without the count.              *)
WithinTolerance(agrees, unresolved) == agrees
BalanceAndBets(agrees, unresolved) == agrees /\ unresolved = {}
Reconciled(agrees, unresolved) == BalanceAndBets(agrees, unresolved)

Evaluate(r, reconciled) ==
  IF reconciled /\ ~leftUnknown[r]
  THEN step' = [step EXCEPT ![r] = "resume"]
  ELSE step' = [step EXCEPT ![r] = "halt"]

Reconcile(r) ==
  /\ step[r] = "balance"
  /\ \/ \E agrees \in BOOLEAN : Evaluate(r, Reconciled(agrees, Unknown)) /\ UNCHANGED fresh
     \/ \E agrees \in BOOLEAN :            \* the count fails
          /\ Evaluate(r, Reconciled(agrees, {}))
          /\ fresh' = [fresh EXCEPT ![r] = Bets]
     \/ ToStep(r, "halt") /\ UNCHANGED fresh
  /\ UNCHANGED <<betState, halted, recovery, sweeping, swept, leftUnknown, resolving, resumedOver>>

(* What is decided takes effect when reconcile's result is awaited; the    *)
(* run's own variables end with it.                                        *)
Conclude(r) ==
  /\ \/ step[r] = "resume" /\ halted' = FALSE /\ recovery' = "idle"
        /\ resumedOver' = resumedOver \cup (Unknown \ fresh[r])
     \/ step[r] = "halt" /\ halted' = TRUE /\ recovery' = "failed" /\ UNCHANGED resumedOver
  /\ ToStep(r, "none")
  /\ leftUnknown' = [leftUnknown EXCEPT ![r] = FALSE] /\ fresh' = [fresh EXCEPT ![r] = {}]
  /\ UNCHANGED <<betState, sweeping, swept, resolving>>
-----------------------------------------------------------------------------
(* The operator: forceResume counts, and resumes over none; manualResolve  *)
(* reads a bet and settles it, whatever it says by now.                    *)

ForceResumeCounts ==
  /\ step["operator"] = "none" /\ Unknown = {}
  /\ ToStep("operator", "resume")
  /\ UNCHANGED <<betState, halted, recovery, sweeping, swept, leftUnknown, resolving, fresh, resumedOver>>

ForceResume ==
  /\ step["operator"] = "resume" /\ ToStep("operator", "none")
  /\ halted' = FALSE /\ recovery' = "idle"
  /\ resumedOver' = resumedOver \cup (Unknown \ fresh["operator"])
  /\ fresh' = [fresh EXCEPT !["operator"] = {}]
  /\ UNCHANGED <<betState, sweeping, swept, leftUnknown, resolving>>

ManualResolve ==
  \E b \in Bets :
    /\ \/ b \in Unknown \ resolving /\ resolving' = resolving \cup {b} /\ UNCHANGED betState
       \/ /\ b \in resolving /\ resolving' = resolving \ {b}
          /\ betState' = [betState EXCEPT ![b] = "SETTLED"]
    /\ UNCHANGED <<halted, recovery, sweeping, step, swept, leftUnknown, fresh, resumedOver>>

RecNext ==
  \/ BecomesUnknown \/ ForceResumeCounts \/ ForceResume \/ ManualResolve
  \/ \E r \in Runs : \/ StartRun(r) \/ CountUnknown(r) \/ BeginSweep(r) \/ RecoverBet(r)
                     \/ EndSweep(r) \/ Reconcile(r) \/ Conclude(r)

RecSpec == RecInit /\ [][RecNext]_recVars
-----------------------------------------------------------------------------
RecTypeOK ==
  /\ betState \in [Bets -> {"OPEN", "UNKNOWN", "SETTLED"}]
  /\ halted \in BOOLEAN /\ sweeping \in BOOLEAN /\ recovery \in {"idle", "running", "failed"}
  /\ step \in [Callers -> {"none", "count", "sweep", "bets", "balance", "resume", "halt"}]
  /\ swept \in [Runs -> SUBSET Bets] /\ leftUnknown \in [Runs -> BOOLEAN]
  /\ resolving \subseteq Bets /\ resumedOver \subseteq Bets
  /\ fresh \in [Callers -> SUBSET Bets]

(* Betting resumes over no UNKNOWN bet that was there to be counted: not   *)
(* when the sweep is bounded, not when it was skipped because another run  *)
(* was sweeping, not by the operator's word.  The exceptions are in the    *)
(* definition of fresh: bets that became UNKNOWN after the count, and a    *)
(* count that failed.  (evaluateResumption, reconcile, forceResume)        *)
ResumeSawZero == resumedOver = {}
=============================================================================
