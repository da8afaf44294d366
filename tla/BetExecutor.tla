---------------------------- MODULE BetExecutor ----------------------------
(***************************************************************************)
(* Bet placement: BetExecutor.placeBet (betting/executor.ts) with the      *)
(* FIFO Mutex it runs under (utils/async.ts) and the Redis-backed          *)
(* IdempotencyKeyStore (betting/idempotency.ts).                           *)
(*                                                                         *)
(* A call is one invocation of placeBet.  Every await of the code is a     *)
(* point where other calls, a key expiry or a crash may come in between,   *)
(* so each stretch of code between two awaits is one action.  The adapter  *)
(* and the game behind it are nondeterministic: a submission the adapter   *)
(* accepted, or that threw, may or may not have reached the table.         *)
(***************************************************************************)
EXTENDS Naturals, Sequences, FiniteSets

CONSTANTS
    Calls,                \* invocations of placeBet, each with its own betId
    Rounds,               \* rounds of one session: the idempotency keys
    RoundOf,              \* request.roundId of a call
    DryRunCalls,          \* calls with request.dryRun
    MaxPlacementRetries,  \* config.maxPlacementRetries
    None

ASSUME BetExecutorAssumption ==
    /\ RoundOf \in [Calls -> Rounds]
    /\ DryRunCalls \subseteq Calls
    /\ MaxPlacementRetries \in Nat
    /\ None \notin {"CONFIRMED", "FAILED", "UNKNOWN"}

VARIABLES
    client,      \* redis-client.ts: redisClient is not null
    pc,          \* where each call is between two awaits
    locked,      \* Mutex.locked
    queue,       \* Mutex.queue: calls waiting for the lock
    key,         \* idempotency record of a round: its status, or "absent"
    attempt,     \* loop variable of placeBet
    sideEffect,  \* externalSideEffectAttempted
    outcome,     \* what the call returns: BetExecutionResult.state
    unrecorded,  \* history: calls whose verdict met a closed client
    landed,      \* history: bets of a call that reached the table
    exposure     \* history: bets of a round since its key was last created

vars == <<client, pc, locked, queue, key, attempt, sideEffect, outcome,
          unrecorded, landed, exposure>>

\* Program points that run under the mutex.
Critical  == {"reserve", "submit", "confirm", "read", "write"}
Steps     == Critical \cup {"idle", "queued", "returned", "lost"}
KeyStatus == {"absent", "PENDING", "COMPLETED", "FAILED", "UNKNOWN"}
Outcomes  == {"CONFIRMED", "FAILED", "UNKNOWN"}

TypeOK ==
    /\ client \in BOOLEAN
    /\ pc \in [Calls -> Steps]
    /\ locked \in BOOLEAN
    /\ queue \in Seq(Calls)
    /\ key \in [Rounds -> KeyStatus]
    /\ attempt \in [Calls -> 0..MaxPlacementRetries]
    /\ sideEffect \in [Calls -> BOOLEAN]
    /\ outcome \in [Calls -> Outcomes \cup {None}]
    /\ unrecorded \subseteq Calls
    /\ landed \in [Calls -> Nat]
    /\ exposure \in [Rounds -> Nat]

Init ==
    /\ client = FALSE
    /\ pc = [c \in Calls |-> "idle"]
    /\ locked = FALSE
    /\ queue = <<>>
    /\ key = [r \in Rounds |-> "absent"]
    /\ attempt = [c \in Calls |-> 0]
    /\ sideEffect = [c \in Calls |-> FALSE]
    /\ outcome = [c \in Calls |-> None]
    /\ unrecorded = {}
    /\ landed = [c \in Calls |-> 0]
    /\ exposure = [r \in Rounds |-> 0]

-----------------------------------------------------------------------------
(* The mutex                                                               *)

\* acquire(): the lock is taken at once, or the caller waits in line.
PlaceBet(c) ==
    /\ pc[c] = "idle"
    /\ locked' = TRUE
    /\ IF locked
       THEN /\ pc' = [pc EXCEPT ![c] = "queued"]
            /\ queue' = Append(queue, c)
       ELSE /\ pc' = [pc EXCEPT ![c] = "reserve"]
            /\ UNCHANGED queue
    /\ UNCHANGED <<client, key, attempt, sideEffect, outcome, unrecorded,
                   landed, exposure>>

\* Mutant: unlocks although the lock is handed over.
ReturnAndUnlock(c) ==
    /\ locked' = FALSE
    /\ IF queue = <<>>
       THEN /\ pc' = [pc EXCEPT ![c] = "returned"]
            /\ UNCHANGED queue
       ELSE /\ pc' = [pc EXCEPT ![c] = "returned", ![Head(queue)] = "reserve"]
            /\ queue' = Tail(queue)

\* The finally block: the call returns and hands the lock to the first
\* waiter, or unlocks.
ReturnAndRelease(c) ==
    IF queue = <<>>
    THEN /\ pc' = [pc EXCEPT ![c] = "returned"]
         /\ locked' = FALSE
         /\ UNCHANGED queue
    ELSE /\ pc' = [pc EXCEPT ![c] = "returned", ![Head(queue)] = "reserve"]
         /\ queue' = Tail(queue)
         /\ UNCHANGED locked

Goto(c, step) ==
    /\ pc' = [pc EXCEPT ![c] = step]
    /\ UNCHANGED <<locked, queue>>

-----------------------------------------------------------------------------
(* The body of placeBet                                                    *)

\* Mutant: a dry run goes on to the table.
ReserveAndSubmit(c) ==
    /\ pc[c] = "reserve" /\ client
    /\ key[RoundOf[c]] = "absent"
    /\ key' = [key EXCEPT ![RoundOf[c]] = "PENDING"]
    /\ exposure' = [exposure EXCEPT ![RoundOf[c]] = 0]
    /\ Goto(c, "submit")
    /\ UNCHANGED <<client, attempt, sideEffect, outcome, unrecorded, landed>>

\* The verdict o of a call is reached, and complete(), fail() or
\* markUnknown() is called with it.  Each takes the client before its try:
\* without one it throws, the catch around placeBet tries fail(), which
\* throws as well, and the call returns FAILED whatever its verdict was.
Verdict(c, o) ==
    IF client
    THEN /\ outcome' = [outcome EXCEPT ![c] = o]
         /\ Goto(c, "read")
         /\ UNCHANGED unrecorded
    ELSE /\ outcome' = [outcome EXCEPT ![c] = "FAILED"]
         /\ unrecorded' = unrecorded \cup {c}
         /\ ReturnAndRelease(c)

\* reserve(): SET NX succeeded.  A dry run completes the key at once.
Reserve(c) ==
    /\ pc[c] = "reserve" /\ client
    /\ key[RoundOf[c]] = "absent"
    /\ key' = [key EXCEPT ![RoundOf[c]] = "PENDING"]
    /\ exposure' = [exposure EXCEPT ![RoundOf[c]] = 0]
    /\ IF c \in DryRunCalls
       THEN Verdict(c, "CONFIRMED")
       ELSE /\ Goto(c, "submit")
            /\ UNCHANGED <<outcome, unrecorded>>
    /\ UNCHANGED <<client, attempt, sideEffect, landed>>

\* The key exists, Redis failed (before or after it executed the SET), or
\* there is no client: the call is refused without touching the game.
ReserveRefused(c) ==
    /\ pc[c] = "reserve"
    /\ \/ client /\ key[RoundOf[c]] # "absent" /\ UNCHANGED <<key, exposure>>
       \/ UNCHANGED <<key, exposure>>            \* Redis error, or no client
       \/ /\ key[RoundOf[c]] = "absent" /\ client  \* error after the SET
          /\ key' = [key EXCEPT ![RoundOf[c]] = "PENDING"]
          /\ exposure' = [exposure EXCEPT ![RoundOf[c]] = 0]
    /\ outcome' = [outcome EXCEPT ![c] = "FAILED"]
    /\ ReturnAndRelease(c)
    /\ UNCHANGED <<client, attempt, sideEffect, unrecorded, landed>>

\* The game took n bets (0 or 1) with this submission.
Lands(c, n) ==
    /\ landed' = [landed EXCEPT ![c] = @ + n]
    /\ exposure' = [exposure EXCEPT ![RoundOf[c]] = @ + n]

\* submitBet() resolved to true: the side effect counts as attempted.
SubmitAccepted(c) ==
    /\ pc[c] = "submit"
    /\ \E n \in {0, 1} : Lands(c, n)
    /\ sideEffect' = [sideEffect EXCEPT ![c] = TRUE]
    /\ Goto(c, "confirm")
    /\ UNCHANGED <<client, key, attempt, outcome, unrecorded>>

\* Mutant: one attempt too many.
RetryOnceMore(c) ==
    IF attempt[c] <= MaxPlacementRetries
    THEN /\ attempt' = [attempt EXCEPT ![c] = @ + 1]
         /\ Goto(c, "submit")
         /\ UNCHANGED <<outcome, unrecorded>>
    ELSE /\ Verdict(c, "FAILED")
         /\ UNCHANGED attempt

\* Bottom of the loop: another attempt, or the verdict after the last one.
RetryOrGiveUp(c) ==
    IF attempt[c] < MaxPlacementRetries
    THEN /\ attempt' = [attempt EXCEPT ![c] = @ + 1]
         /\ Goto(c, "submit")
         /\ UNCHANGED <<outcome, unrecorded>>
    ELSE /\ Verdict(c, "FAILED")
         /\ UNCHANGED attempt

\* submitBet() resolved to false: the adapter vouches that nothing was placed.
SubmitRefused(c) ==
    /\ pc[c] = "submit"
    /\ RetryOrGiveUp(c)
    /\ UNCHANGED <<client, key, sideEffect, landed, exposure>>

\* submitBet() threw: the request may have left, and is retried all the same.
SubmitThrew(c) ==
    /\ pc[c] = "submit"
    /\ \E n \in {0, 1} : Lands(c, n)
    /\ RetryOrGiveUp(c)
    /\ UNCHANGED <<client, key, sideEffect>>

\* The adapter confirms a bet only if there is one.
Confirmed(c) ==
    /\ pc[c] = "confirm"
    /\ landed[c] > 0
    /\ Verdict(c, "CONFIRMED")
    /\ UNCHANGED <<client, key, attempt, sideEffect, landed, exposure>>

\* waitForConfirmation() resolved to false, or withTimeout() rejected with
\* "timed out": taken for a clean no, the side effect is forgotten.
NotConfirmed(c) ==
    /\ pc[c] = "confirm"
    /\ sideEffect' = [sideEffect EXCEPT ![c] = FALSE]
    /\ RetryOrGiveUp(c)
    /\ UNCHANGED <<client, key, landed, exposure>>

\* Mutant: a lost confirmation is one more reason to try again.
ConfirmationRetried(c) ==
    /\ pc[c] = "confirm"
    /\ RetryOrGiveUp(c)
    /\ UNCHANGED <<client, key, sideEffect, landed, exposure>>

\* waitForConfirmation() threw anything else: the loop stops, the verdict is
\* UNKNOWN.
ConfirmationLost(c) ==
    /\ pc[c] = "confirm"
    /\ Verdict(c, "UNKNOWN")
    /\ UNCHANGED <<client, key, attempt, sideEffect, landed, exposure>>

-----------------------------------------------------------------------------
(* complete(), fail() and markUnknown(): GET, then SET of the new record   *)

\* Mutant: the record takes the outcome's own name.
StatusAsIs(o) == o

StatusFor(o) == IF o = "CONFIRMED" THEN "COMPLETED" ELSE o

ReadKey(c) ==
    /\ pc[c] = "read"
    /\ key[RoundOf[c]] # "absent"
    /\ Goto(c, "write")
    /\ UNCHANGED <<client, key, attempt, sideEffect, outcome, unrecorded,
                   landed, exposure>>

\* Mutant: the store waits for the record to come back.
ReadKeyAgain(c) ==
    /\ pc[c] = "read"
    /\ Goto(c, "read")
    /\ UNCHANGED <<client, key, attempt, sideEffect, outcome, unrecorded,
                   landed, exposure>>

\* The key has expired, or the GET failed, which the store swallows: the call
\* returns its outcome all the same.
ReadKeyFailed(c) ==
    /\ pc[c] = "read"
    /\ ReturnAndRelease(c)
    /\ UNCHANGED <<client, key, attempt, sideEffect, outcome, unrecorded,
                   landed, exposure>>

\* The SET is unconditional: a key that expired since the GET comes back.
\* If Redis fails, the key stays as it was.
WriteKey(c) ==
    /\ pc[c] = "write"
    /\ \/ key' = [key EXCEPT ![RoundOf[c]] = StatusFor(outcome[c])]
       \/ UNCHANGED key
    /\ ReturnAndRelease(c)
    /\ UNCHANGED <<client, attempt, sideEffect, outcome, unrecorded, landed,
                   exposure>>

-----------------------------------------------------------------------------
(* The environment                                                         *)

\* The TTL of a record runs out (5 min pending or completed, at most 60 s
\* failed, at least 30 min unknown).
Expire(r) ==
    /\ key[r] # "absent"
    /\ key' = [key EXCEPT ![r] = "absent"]
    /\ UNCHANGED <<client, pc, locked, queue, attempt, sideEffect, outcome,
                   unrecorded, landed, exposure>>

\* createRedisClient() and closeRedisClient(): the client is shared by the
\* process, and is opened and closed without regard to placements under way.
OpenClient ==
    /\ ~client /\ client' = TRUE
    /\ UNCHANGED <<pc, locked, queue, key, attempt, sideEffect, outcome,
                   unrecorded, landed, exposure>>

CloseClient ==
    /\ client /\ client' = FALSE
    /\ UNCHANGED <<pc, locked, queue, key, attempt, sideEffect, outcome,
                   unrecorded, landed, exposure>>

\* The process dies: the client, the mutex and the calls under way are gone,
\* the records in Redis and the bets on the table are not.
Crash ==
    /\ locked
    /\ pc' = [c \in Calls |-> IF pc[c] \in Critical \cup {"queued"}
                              THEN "lost" ELSE pc[c]]
    /\ locked' = FALSE
    /\ queue' = <<>>
    /\ client' = FALSE
    /\ UNCHANGED <<key, attempt, sideEffect, outcome, unrecorded, landed,
                   exposure>>

Step(c) ==
    \/ Reserve(c) \/ ReserveRefused(c)
    \/ SubmitAccepted(c) \/ SubmitRefused(c) \/ SubmitThrew(c)
    \/ Confirmed(c) \/ NotConfirmed(c) \/ ConfirmationLost(c)
    \/ ReadKey(c) \/ ReadKeyFailed(c) \/ WriteKey(c)

Next ==
    \/ \E c \in Calls : PlaceBet(c) \/ Step(c)
    \/ \E r \in Rounds : Expire(r)
    \/ OpenClient \/ CloseClient \/ Crash

\* Every await of a running call settles: the store answers or fails, the
\* confirmation is under withTimeout, and the adapter's own page calls have
\* timeouts.
Fairness == \A c \in Calls : WF_vars(Step(c))

Spec == Init /\ [][Next]_vars

FairSpec == Spec /\ Fairness

-----------------------------------------------------------------------------
(* Properties                                                              *)

InProgress(c) == pc[c] \in Critical

\* One placement at a time, and the lock is never lost: it is held exactly
\* while some call runs, and only then does anyone wait for it.
MutexCorrect ==
    /\ \A c, d \in Calls : InProgress(c) /\ InProgress(d) => c = d
    /\ locked <=> \E c \in Calls : InProgress(c)
    /\ queue # <<>> => locked

\* However many calls name a round, and across crashes, the table receives
\* at most one call's attempts as long as the round's key lives.
ExposureBounded ==
    \A r \in Rounds : exposure[r] <= MaxPlacementRetries + 1

\* CONFIRMED is only reported for a bet that is on the table, a dry run
\* never puts one there.
ConfirmedIsReal ==
    \A c \in Calls :
        IF c \in DryRunCalls THEN landed[c] = 0
        ELSE outcome[c] = "CONFIRMED" => landed[c] > 0

\* A submission whose confirmation was lost is never followed by another, and
\* only such a one is reported UNKNOWN.  It is reported FAILED in one case
\* alone: the client of the store was closed when the verdict was to be
\* recorded, which may hide a confirmed bet as well.
UncertainIsUnknown ==
    \A c \in Calls :
        /\ pc[c] = "submit" => ~sideEffect[c]
        /\ outcome[c] = "UNKNOWN" => sideEffect[c]
        /\ outcome[c] = "FAILED" /\ sideEffect[c] => c \in unrecorded

\* Every call that entered placeBet returns or dies with the process: the
\* hand-off of the mutex strands nobody.
EveryCallReturns ==
    \A c \in Calls : pc[c] # "idle" ~> pc[c] \in {"returned", "lost"}

\* executor.ts: "Once submitBet() has been called, a timeout/uncertain
\* outcome is UNKNOWN and must be reconciled - never blindly retried", and
\* idempotency.ts: "only one physical bet is ever placed per round".
OnePhysicalBetPerRound == \A r \in Rounds : exposure[r] <= 1

=============================================================================
