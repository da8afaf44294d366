----------------------------- MODULE LiveBetting -----------------------------
(***************************************************************************)
(* The live path: the bridge from RoundStarted / RoundCrashed events       *)
(* (core/live-bridge.ts) to LiveBetExecutor and LiveCashOutExecutor, which *)
(* click on the page, and EmergencyStop, which halts them.                 *)
(*                                                                         *)
(* A start is one delivery of a RoundStarted event; a round may be         *)
(* announced more than once.  The page belongs to the round in progress:   *)
(* a click, and the indicator and the cash-out button it waits for, are    *)
(* those of the round the game is in by then, whatever round they were     *)
(* meant for.  Whether the decision service approves is left open.         *)
(***************************************************************************)
EXTENDS Integers, Sequences, FiniteSets

CONSTANTS
    Starts,               \* deliveries of RoundStarted
    Rounds,               \* rounds, numbered in the order they are played
    RoundOf,              \* the round a delivery announces
    MaxPlacementRetries   \* config.maxPlacementRetries

ASSUME LiveBettingAssumption ==
    /\ Rounds \subseteq Nat
    /\ RoundOf \in [Starts -> Rounds]
    /\ MaxPlacementRetries \in Nat

VARIABLES
    round,        \* the game: round in progress
    flying,       \* the game: it has not crashed yet
    table,        \* the game: our open bets in the round in progress
    pc,           \* where each delivery's handler is between two awaits
    busySeen,     \* openBetExists of the risk input: isBusy() when it was built
    locked,       \* LiveBetExecutor.mutex.locked
    queue,        \* LiveBetExecutor.mutex.queue
    key,          \* idempotency keys in memory, by round
    attempt,      \* retryCount of a handler
    row,          \* the bet's record in the database
    openLiveBets, \* rounds with a bet reported placed
    cashing,      \* rounds whose cash-out is under way
    stopped,      \* stopped of both executors
    estop,        \* EmergencyStop.state
    toRead,       \* a sweep of the emergency stop has yet to read the records
    toCancel,     \* records a sweep has read and will fail
    clicksLeft,   \* history: clicks a call had left when the executor was
                  \* stopped, less those it has made since
    clicks,       \* history: clicks on "Bet" for a round under its latest key
    cashOuts      \* history: cash-outs started for a round by this process

game  == <<round, flying, table>>
mutex == <<locked, queue>>
halt  == <<stopped, estop, toRead, toCancel, clicksLeft>>
vars  == <<game, pc, busySeen, mutex, key, attempt, row, openLiveBets, cashing,
           halt, clicks, cashOuts>>

\* Program points under the mutex, and all between entry and return.
Critical == {"reserve", "create", "click", "confirm"}
Inside   == Critical \cup {"queued"}
Steps    == Inside \cup {"idle", "deciding", "placed", "failed", "lost"}

TypeOK ==
    /\ round \in Rounds /\ flying \in BOOLEAN /\ table \in Nat
    /\ pc \in [Starts -> Steps]
    /\ busySeen \in [Starts -> BOOLEAN]
    /\ locked \in BOOLEAN
    /\ queue \in Seq(Starts)
    /\ key \in [Rounds -> {"absent", "PENDING", "COMPLETED"}]
    /\ attempt \in [Starts -> 0..MaxPlacementRetries]
    /\ row \in [Starts -> {"none", "PENDING", "FAILED"}]
    /\ openLiveBets \subseteq Rounds
    /\ cashing \subseteq Rounds
    /\ stopped \in BOOLEAN
    /\ estop \in {"armed", "triggered"}
    /\ toRead \in BOOLEAN
    /\ toCancel \subseteq Starts
    /\ clicksLeft \in [Starts -> Int]
    /\ clicks \in [Rounds -> Nat]
    /\ cashOuts \in [Rounds -> Nat]

Init ==
    /\ round \in {r \in Rounds : \A q \in Rounds : r <= q}
    /\ flying = TRUE
    /\ table = 0
    /\ pc = [s \in Starts |-> "idle"]
    /\ busySeen = [s \in Starts |-> FALSE]
    /\ locked = FALSE
    /\ queue = <<>>
    /\ key = [r \in Rounds |-> "absent"]
    /\ attempt = [s \in Starts |-> 0]
    /\ row = [s \in Starts |-> "none"]
    /\ openLiveBets = {}
    /\ cashing = {}
    /\ stopped = FALSE
    /\ estop = "armed"
    /\ toRead = FALSE
    /\ toCancel = {}
    /\ clicksLeft = [s \in Starts |-> 0]
    /\ clicks = [r \in Rounds |-> 0]
    /\ cashOuts = [r \in Rounds |-> 0]

-----------------------------------------------------------------------------
(* The game                                                                *)

GameCrashes ==
    /\ flying
    /\ flying' = FALSE
    /\ table' = 0
    /\ UNCHANGED <<round, pc, busySeen, mutex, key, attempt, row, openLiveBets,
                   cashing, halt, clicks, cashOuts>>

NextRound ==
    /\ ~flying
    /\ round + 1 \in Rounds
    /\ round' = round + 1
    /\ flying' = TRUE
    /\ UNCHANGED <<table, pc, busySeen, mutex, key, attempt, row, openLiveBets,
                   cashing, halt, clicks, cashOuts>>

HasCrashed(r) == r < round \/ (r = round /\ ~flying)

-----------------------------------------------------------------------------
(* onRoundStartedForLive and the entry of placeLiveBet                     *)

\* buildRiskInput() reads isBusy() now; the decision is awaited.
RoundStarted(s) ==
    /\ pc[s] = "idle"
    /\ RoundOf[s] <= round
    /\ pc' = [pc EXCEPT ![s] = "deciding"]
    /\ busySeen' = [busySeen EXCEPT ![s] = locked]
    /\ UNCHANGED <<game, mutex, key, attempt, row, openLiveBets, cashing, halt,
                   clicks, cashOuts>>

\* No signal, not approved, the mode gate closed or no page.
Declined(s) ==
    /\ pc[s] = "deciding"
    /\ pc' = [pc EXCEPT ![s] = "failed"]
    /\ UNCHANGED <<game, busySeen, mutex, key, attempt, row, openLiveBets,
                   cashing, halt, clicks, cashOuts>>

\* Mutant: nothing asks whether the executor was stopped.
ApprovedUnasked(s) ==
    /\ pc[s] = "deciding"
    /\ ~busySeen[s]
    /\ locked' = TRUE
    /\ IF locked
       THEN /\ pc' = [pc EXCEPT ![s] = "queued"]
            /\ queue' = Append(queue, s)
       ELSE /\ pc' = [pc EXCEPT ![s] = "reserve"]
            /\ UNCHANGED queue
    /\ UNCHANGED <<game, busySeen, key, attempt, row, openLiveBets, cashing,
                   halt, clicks, cashOuts>>

\* Approved (on a risk input that had no open bet): placeLiveBet is entered
\* unless stopped, and takes the mutex or waits in line for it.
Approved(s) ==
    /\ pc[s] = "deciding"
    /\ ~busySeen[s]
    /\ ~stopped
    /\ locked' = TRUE
    /\ IF locked
       THEN /\ pc' = [pc EXCEPT ![s] = "queued"]
            /\ queue' = Append(queue, s)
       ELSE /\ pc' = [pc EXCEPT ![s] = "reserve"]
            /\ UNCHANGED queue
    /\ UNCHANGED <<game, busySeen, key, attempt, row, openLiveBets, cashing,
                   halt, clicks, cashOuts>>

-----------------------------------------------------------------------------
(* placeLiveBet under the mutex; stopped is not asked again                *)

\* Mutant: the waiter is let in, and so is everybody else.
ReturnsUnlocking(s, result) ==
    /\ locked' = FALSE
    /\ IF queue = <<>>
       THEN /\ pc' = [pc EXCEPT ![s] = result]
            /\ UNCHANGED queue
       ELSE /\ pc' = [pc EXCEPT ![s] = result, ![Head(queue)] = "reserve"]
            /\ queue' = Tail(queue)

\* Mutant: the mutex is not released on the way out.
ReturnsHolding(s, result) ==
    /\ pc' = [pc EXCEPT ![s] = result]
    /\ UNCHANGED mutex

\* The finally block releases the mutex to the first waiter.
Returns(s, result) ==
    IF queue = <<>>
    THEN /\ pc' = [pc EXCEPT ![s] = result]
         /\ locked' = FALSE
         /\ UNCHANGED queue
    ELSE /\ pc' = [pc EXCEPT ![s] = result, ![Head(queue)] = "reserve"]
         /\ queue' = Tail(queue)
         /\ UNCHANGED locked

Goto(s, step) ==
    /\ pc' = [pc EXCEPT ![s] = step]
    /\ UNCHANGED mutex

\* Mutant: the key of the round is written without being read.
ReserveBlindly(s) ==
    /\ pc[s] = "reserve"
    /\ key' = [key EXCEPT ![RoundOf[s]] = "PENDING"]
    /\ clicks' = [clicks EXCEPT ![RoundOf[s]] =
                     IF key[RoundOf[s]] = "absent" THEN 0 ELSE @]
    /\ Goto(s, "create")
    /\ UNCHANGED <<game, busySeen, attempt, row, openLiveBets, cashing, halt,
                   cashOuts>>

\* A key in the store, whatever became of the call that took it, is refused.
Reserve(s) ==
    /\ pc[s] = "reserve"
    /\ IF key[RoundOf[s]] = "absent"
       THEN /\ key' = [key EXCEPT ![RoundOf[s]] = "PENDING"]
            /\ clicks' = [clicks EXCEPT ![RoundOf[s]] = 0]
            /\ Goto(s, "create")
       ELSE /\ Returns(s, "failed")
            /\ UNCHANGED <<key, clicks>>
    /\ UNCHANGED <<game, busySeen, attempt, row, openLiveBets, cashing, halt,
                   cashOuts>>

\* cleanup() removes a key five minutes after it was taken: three attempts on
\* an unresponsive page take as long, so the call may still be clicking.
KeyExpires(r) ==
    /\ key[r] # "absent"
    /\ key' = [key EXCEPT ![r] = "absent"]
    /\ UNCHANGED <<game, pc, busySeen, mutex, attempt, row, openLiveBets,
                   cashing, halt, clicks, cashOuts>>

\* The record is created PENDING and never written again on this path; if it
\* cannot be created the placement goes on without one.
CreateRecord(s) ==
    /\ pc[s] = "create"
    /\ \E state \in {"PENDING", "none"} : row' = [row EXCEPT ![s] = state]
    /\ Goto(s, "click")
    /\ UNCHANGED <<game, busySeen, key, attempt, openLiveBets, cashing, halt,
                   clicks, cashOuts>>

\* The click reached the page: the round in progress takes n bets.
Lands(s) ==
    /\ \E n \in {0, 1} : table' = IF flying THEN table + n ELSE table
    /\ clicks' = [clicks EXCEPT ![RoundOf[s]] = @ + 1]
    /\ clicksLeft' = IF stopped THEN [clicksLeft EXCEPT ![s] = @ - 1] ELSE clicksLeft
    /\ UNCHANGED <<round, flying>>

Click(s) ==
    /\ pc[s] = "click"
    /\ Lands(s)
    /\ Goto(s, "confirm")
    /\ UNCHANGED <<busySeen, key, attempt, row, openLiveBets, cashing, stopped,
                   estop, toRead, toCancel, cashOuts>>

\* Mutant: one attempt too many.
RetryOnceMore(s) ==
    IF attempt[s] <= MaxPlacementRetries
    THEN /\ attempt' = [attempt EXCEPT ![s] = @ + 1]
         /\ Goto(s, "click")
    ELSE /\ Returns(s, "failed")
         /\ UNCHANGED attempt

\* Bottom of the loop: another attempt, or the verdict after the last one.
RetryOrFail(s) ==
    IF attempt[s] < MaxPlacementRetries
    THEN /\ attempt' = [attempt EXCEPT ![s] = @ + 1]
         /\ Goto(s, "click")
    ELSE /\ Returns(s, "failed")
         /\ UNCHANGED attempt

\* A locator timed out, or the click threw (and may have reached the page).
ClickFailed(s) ==
    /\ pc[s] = "click"
    /\ Lands(s) \/ UNCHANGED <<game, clicks, clicksLeft>>
    /\ RetryOrFail(s)
    /\ UNCHANGED <<busySeen, key, row, openLiveBets, cashing, stopped, estop,
                   toRead, toCancel, cashOuts>>

\* The indicator became visible: some bet is open in the round in progress.
Confirmed(s) ==
    /\ pc[s] = "confirm"
    /\ table > 0
    /\ key' = [key EXCEPT ![RoundOf[s]] =
                  IF @ = "absent" THEN @ ELSE "COMPLETED"]
    /\ openLiveBets' = openLiveBets \cup {RoundOf[s]}
    /\ Returns(s, "placed")
    /\ UNCHANGED <<game, busySeen, attempt, row, cashing, halt, clicks, cashOuts>>

NotConfirmed(s) ==
    /\ pc[s] = "confirm"
    /\ RetryOrFail(s)
    /\ UNCHANGED <<game, busySeen, key, row, openLiveBets, cashing, halt, clicks,
                   cashOuts>>

-----------------------------------------------------------------------------
(* onRoundCrashedForLive and LiveCashOutExecutor.cashOut                   *)

\* Mutant: the round leaves the set only when its cash-out has returned.
RoundCrashedKeeping(r) ==
    /\ HasCrashed(r)
    /\ r \in openLiveBets
    /\ cashOuts' = [cashOuts EXCEPT ![r] = @ + 1]
    /\ cashing' = IF stopped THEN cashing ELSE cashing \cup {r}
    /\ UNCHANGED <<game, pc, busySeen, mutex, key, attempt, row, openLiveBets,
                   halt, clicks>>

\* The round leaves the set before the cash-out is awaited; a round not in
\* it is none of the bridge's business.  A stopped executor does nothing.
RoundCrashed(r) ==
    /\ HasCrashed(r)
    /\ r \in openLiveBets
    /\ openLiveBets' = openLiveBets \ {r}
    /\ cashOuts' = [cashOuts EXCEPT ![r] = @ + 1]
    /\ cashing' = IF stopped THEN cashing ELSE cashing \cup {r}
    /\ UNCHANGED <<game, pc, busySeen, mutex, key, attempt, row, halt, clicks>>

\* The button was there and clicked, in whatever round the page shows, or it
\* was not.
CashOutReturns(r) ==
    /\ r \in cashing
    /\ cashing' = cashing \ {r}
    /\ \/ table > 0 /\ table' = table - 1
       \/ UNCHANGED table
    /\ UNCHANGED <<round, flying, pc, busySeen, mutex, key, attempt, row,
                   openLiveBets, halt, clicks, cashOuts>>

-----------------------------------------------------------------------------
(* EmergencyStop                                                           *)

\* The attempts a call in placeLiveBet has before it, and so its clicks.
AttemptsLeft(s) ==
    CASE pc[s] \in Inside \ {"confirm"} -> MaxPlacementRetries - attempt[s] + 1
      [] pc[s] = "confirm" -> MaxPlacementRetries - attempt[s]
      [] OTHER -> 0

\* trigger() stops the executors; its sweep over the records is awaited.  Two
\* sweeps that have yet to read would read the same records: they are one.
Trigger ==
    /\ estop = "armed"
    /\ estop' = "triggered"
    /\ stopped' = TRUE
    /\ toRead' = TRUE
    /\ clicksLeft' = IF stopped THEN clicksLeft
                     ELSE [s \in Starts |-> AttemptsLeft(s)]
    /\ UNCHANGED <<game, pc, busySeen, mutex, key, attempt, row, openLiveBets,
                   cashing, toCancel, clicks, cashOuts>>

\* findByState('PENDING'); an error is swallowed and cancels nothing.
ReadPending ==
    /\ toRead
    /\ toRead' = FALSE
    /\ \/ toCancel' = toCancel \cup {s \in Starts : row[s] = "PENDING"}
       \/ UNCHANGED toCancel
    /\ UNCHANGED <<game, pc, busySeen, mutex, key, attempt, row, openLiveBets,
                   cashing, stopped, estop, clicksLeft, clicks, cashOuts>>

\* updateState(id, 'FAILED'), or an error that leaves the record alone.
CancelRecord(s) ==
    /\ s \in toCancel
    /\ toCancel' = toCancel \ {s}
    /\ \/ row' = [row EXCEPT ![s] = "FAILED"]
       \/ UNCHANGED row
    /\ UNCHANGED <<game, pc, busySeen, mutex, key, attempt, openLiveBets, cashing,
                   stopped, estop, toRead, clicksLeft, clicks, cashOuts>>

\* reset() re-arms the switch; the executors stay stopped.
Reset ==
    /\ estop = "triggered"
    /\ estop' = "armed"
    /\ UNCHANGED <<game, pc, busySeen, mutex, key, attempt, row, openLiveBets,
                   cashing, stopped, toRead, toCancel, clicksLeft, clicks,
                   cashOuts>>

-----------------------------------------------------------------------------

\* The process restarts: all but the game and the records is gone, the
\* emergency stop included.
Restart ==
    /\ pc' = [s \in Starts |-> IF pc[s] \in Inside \cup {"deciding"}
                               THEN "lost" ELSE pc[s]]
    /\ locked' = FALSE
    /\ queue' = <<>>
    /\ key' = [r \in Rounds |-> "absent"]
    /\ openLiveBets' = {}
    /\ cashing' = {}
    /\ stopped' = FALSE
    /\ estop' = "armed"
    /\ toRead' = FALSE
    /\ toCancel' = {}
    /\ clicksLeft' = [s \in Starts |-> 0]
    /\ clicks' = [r \in Rounds |-> 0]
    /\ cashOuts' = [r \in Rounds |-> 0]
    /\ UNCHANGED <<game, busySeen, attempt, row>>

Step(s) ==
    \/ Declined(s) \/ Approved(s) \/ Reserve(s) \/ CreateRecord(s)
    \/ Click(s) \/ ClickFailed(s) \/ Confirmed(s) \/ NotConfirmed(s)

Next ==
    \/ GameCrashes \/ NextRound
    \/ \E s \in Starts : RoundStarted(s) \/ Step(s) \/ CancelRecord(s)
    \/ \E r \in Rounds : RoundCrashed(r) \/ CashOutReturns(r) \/ KeyExpires(r)
    \/ Trigger \/ ReadPending \/ Reset
    \/ Restart

\* Every await of a running placement settles: each page call has a timeout,
\* the key store is in memory, the database answers or fails.
Fairness == \A s \in Starts : WF_vars(Step(s))

Spec == Init /\ [][Next]_vars

FairSpec == Spec /\ Fairness

-----------------------------------------------------------------------------
(* Properties                                                              *)

InProgress(s) == pc[s] \in Critical

\* Two placements never share the page, and a mutex held means a placement
\* that will release it: the handover in release() loses neither.
OnePlacementAtATime ==
    /\ \A s, t \in Starts : InProgress(s) /\ InProgress(t) => s = t
    /\ locked <=> \E s \in Starts : InProgress(s)

\* However often a round is announced, "Bet" is clicked for it no more often
\* than one call may: while its key lives nobody else gets past the key, and
\* when the key dies under a call that still clicks, the mutex is in the way.
ClicksBounded == \A r \in Rounds : clicks[r] <= MaxPlacementRetries + 1

\* However often a crash is announced, and although the cash-out is awaited,
\* a round is cashed out no more often than a bet was reported placed in it.
CashOutsAnswerPlacements ==
    \A r \in Rounds :
        cashOuts[r] <= Cardinality({s \in Starts : /\ RoundOf[s] = r
                                                   /\ pc[s] = "placed"})

\* What a stop leaves to be clicked is what it found: a call that had entered
\* placeLiveBet clicks no more often than it had attempts left, waiting for
\* the mutex included, and a call that had not never clicks; whatever key
\* expires and however often the emergency stop is reset and triggered again.
\* (live-executor.ts placeLiveBet, stop; emergency-stop.ts trigger, reset)
LateClicksBounded == stopped => \A s \in Starts : clicksLeft[s] >= 0

\* A stopped executor comes to rest, with the mutex free.
StopDrains == stopped ~> (~locked \/ ~stopped)

\* emergency-stop.ts: "Halts the live executor and cash-out executor
\* immediately": a stopped executor does not click.
NoClickAfterStop ==
    [][stopped => \A r \in Rounds : clicks'[r] <= clicks[r]]_vars

=============================================================================
