------------------------- MODULE BetExecutorProofs -------------------------
(***************************************************************************)
(* MutexCorrect, ExposureBounded, UncertainIsUnknown and ConfirmedIsReal   *)
(* for any number of calls, rounds and retries.                            *)
(*                                                                         *)
(* The mutex half of the invariant says that the queue lists queued calls, *)
(* each once, so that a hand-off wakes a waiter and leaves the others      *)
(* waiting.  The exposure half ties the bets of a round to the attempts of *)
(* the one call that may still submit for it.                              *)
(***************************************************************************)
EXTENDS BetExecutor, SequenceTheorems, TLAPS

QueueOK ==
    /\ \A i \in 1..Len(queue) : pc[queue[i]] = "queued"
    /\ \A i, j \in 1..Len(queue) : queue[i] = queue[j] => i = j

\* What a call's place in the code says of its round and of itself.  A call
\* about to submit, or to hear of its submission, is the only one left that
\* can raise the exposure of its round; the outcome is decided when a call
\* leaves the loop, the flag before.
CallOK(c) ==
    /\ pc[c] = "submit" => exposure[RoundOf[c]] <= attempt[c]
    /\ pc[c] = "confirm" => exposure[RoundOf[c]] <= attempt[c] + 1
    /\ pc[c] \in {"idle", "queued", "reserve", "submit", "confirm"} =>
          outcome[c] = None
    /\ pc[c] \in {"read", "write"} => outcome[c] \in Outcomes
    /\ pc[c] \in {"idle", "queued", "reserve", "submit"} => ~sideEffect[c]
    /\ pc[c] = "confirm" => sideEffect[c]
    /\ outcome[c] = "FAILED" /\ sideEffect[c] => c \in unrecorded
    /\ outcome[c] = "UNKNOWN" => sideEffect[c]
    /\ c \in DryRunCalls => landed[c] = 0 /\ pc[c] \notin {"submit", "confirm"}
    /\ c \notin DryRunCalls /\ outcome[c] = "CONFIRMED" => landed[c] > 0

Inv == /\ TypeOK /\ MutexCorrect /\ QueueOK
       /\ ExposureBounded /\ \A c \in Calls : CallOK(c)

-----------------------------------------------------------------------------
(* The mutex                                                               *)

LockType == pc \in [Calls -> Steps] /\ locked \in BOOLEAN /\ queue \in Seq(Calls)
LockInv  == LockType /\ MutexCorrect /\ QueueOK

LEMMA PlaceBetLock ==
  ASSUME LockInv, NEW c \in Calls, PlaceBet(c)
  PROVE  LockInv'
<1> USE DEF LockInv, LockType, MutexCorrect, QueueOK, InProgress, PlaceBet,
        Critical, Steps
<1>1. CASE locked
  <2>1. queue' = Append(queue, c) /\ pc' = [pc EXCEPT ![c] = "queued"]
    BY <1>1
  <2>2. /\ queue' \in Seq(Calls)
        /\ Len(queue') = Len(queue) + 1
        /\ \A i \in 1..Len(queue) : queue'[i] = queue[i] /\ queue[i] \in Calls
        /\ queue'[Len(queue) + 1] = c
    BY <2>1, AppendProperties, ElementOfSeq
  <2>3. \A i \in 1..Len(queue) : queue[i] # c
    OBVIOUS
  <2>4. QueueOK'
    BY <2>1, <2>2, <2>3, LenProperties
  <2>5. MutexCorrect'
    BY <1>1, <2>1
  <2> QED BY <1>1, <2>1, <2>2, <2>4, <2>5
<1>2. CASE ~locked
  <2>1. queue = <<>> /\ queue' = queue /\ pc' = [pc EXCEPT ![c] = "reserve"]
    BY <1>2
  <2>2. MutexCorrect'
    BY <1>2, <2>1
  <2> QED BY <1>2, <2>1, <2>2
<1> QED BY <1>1, <1>2

LEMMA GotoLock ==
  ASSUME LockInv, NEW c \in Calls, InProgress(c), NEW step \in Critical,
         Goto(c, step)
  PROVE  LockInv'
<1> USE DEF LockInv, LockType, MutexCorrect, QueueOK, InProgress, Goto,
        Critical, Steps
<1>1. LockType'
  OBVIOUS
<1>2. MutexCorrect'
  OBVIOUS
<1>3. QueueOK'
  <2>1. \A i \in 1..Len(queue) : queue[i] \in Calls /\ queue[i] # c
    BY ElementOfSeq
  <2> QED BY <2>1
<1> QED BY <1>1, <1>2, <1>3

LEMMA ReleaseLock ==
  ASSUME LockInv, NEW c \in Calls, InProgress(c), ReturnAndRelease(c)
  PROVE  LockInv'
<1> USE DEF LockInv, LockType, MutexCorrect, QueueOK, InProgress,
        ReturnAndRelease, Critical, Steps
<1>1. CASE queue = <<>>
  <2>1. LockType' /\ MutexCorrect'
    BY <1>1
  <2>2. QueueOK'
    BY <1>1
  <2> QED BY <2>1, <2>2
<1>2. CASE queue # <<>>
  <2> DEFINE h == Head(queue)
  <2>1. /\ h \in Calls /\ h = queue[1] /\ Tail(queue) \in Seq(Calls)
        /\ Len(queue) \in Nat \ {0}
        /\ Len(Tail(queue)) = Len(queue) - 1
        /\ \A i \in 1..Len(Tail(queue)) : Tail(queue)[i] = queue[i + 1]
    BY <1>2, HeadTailProperties, EmptySeq, LenProperties
  <2>2. pc[h] = "queued" /\ h # c
    BY <2>1
  <2>3. /\ pc' = [pc EXCEPT ![c] = "returned", ![h] = "reserve"]
        /\ queue' = Tail(queue) /\ locked' = locked
    BY <1>2
  <2>4. LockType'
    BY <2>1, <2>2, <2>3
  <2>5. MutexCorrect'
    <3>1. \A d \in Calls : d # c => ~InProgress(d)
      OBVIOUS
    <3>2. \A d \in Calls : pc'[d] = IF d = h THEN "reserve"
                                     ELSE IF d = c THEN "returned" ELSE pc[d]
      BY <2>1, <2>2, <2>3
    <3>3. \A d \in Calls : InProgress(d)' <=> d = h
      BY <3>1, <3>2
    <3>4. locked'
      BY <2>3, <1>2
    <3> HIDE DEF InProgress
    <3> QED BY <3>3, <3>4, <2>1
  <2>6. QueueOK'
    <3>1. \A i \in 1..Len(Tail(queue)) :
             /\ i + 1 \in 1..Len(queue)
             /\ Tail(queue)[i] = queue[i + 1]
             /\ queue[i + 1] \in Calls
             /\ queue[i + 1] # h
             /\ queue[i + 1] # c
      BY <2>1, ElementOfSeq
    <3>2. \A i \in 1..Len(queue') : pc'[queue'[i]] = "queued"
      BY <2>1, <2>3, <3>1
    <3>3. \A i, j \in 1..Len(queue') : queue'[i] = queue'[j] => i = j
      BY <2>1, <2>3, <3>1
    <3> QED BY <3>2, <3>3
  <2> QED BY <2>4, <2>5, <2>6
<1> QED BY <1>1, <1>2

LEMMA CrashLock ==
  ASSUME LockInv, Crash
  PROVE  LockInv'
<1> USE DEF LockInv, LockType, QueueOK, Crash
<1>1. \A d \in Calls : pc'[d] \in Steps /\ pc'[d] \notin Critical
  BY DEF Critical, Steps
<1>2. LockType'
  <2>1. pc' \in [Calls -> Steps]
    BY <1>1
  <2>2. locked' \in BOOLEAN /\ queue' \in Seq(Calls)
    BY EmptySeq
  <2> QED BY <2>1, <2>2
<1>3. MutexCorrect'
  BY <1>1 DEF MutexCorrect, InProgress
<1>4. QueueOK'
  OBVIOUS
<1> QED BY <1>2, <1>3, <1>4

-----------------------------------------------------------------------------
(* The actions                                                             *)

RestType ==
    /\ client \in BOOLEAN /\ unrecorded \subseteq Calls
    /\ key \in [Rounds -> KeyStatus]
    /\ attempt \in [Calls -> 0..MaxPlacementRetries]
    /\ sideEffect \in [Calls -> BOOLEAN]
    /\ outcome \in [Calls -> Outcomes \cup {None}]
    /\ landed \in [Calls -> Nat]
    /\ exposure \in [Rounds -> Nat]

\* What a step does to the mutex does not matter to the rest of the
\* invariant beyond this: the calls that move are the caller, and a waiter
\* that is woken.
OnlyMoves(c, step) ==
    \A d \in Calls : IF d = c THEN pc'[d] = step
                     ELSE \/ pc'[d] = pc[d]
                          \/ pc[d] = "queued" /\ pc'[d] = "reserve"

LEMMA GotoMoves ==
  ASSUME LockInv, NEW c \in Calls, InProgress(c), NEW step \in Critical,
         Goto(c, step)
  PROVE  OnlyMoves(c, step)
BY DEF LockInv, LockType, Goto, OnlyMoves

LEMMA ReleaseMoves ==
  ASSUME LockInv, NEW c \in Calls, InProgress(c), ReturnAndRelease(c)
  PROVE  OnlyMoves(c, "returned")
<1> USE DEF LockInv, LockType, QueueOK, ReturnAndRelease, OnlyMoves
<1>1. CASE queue = <<>>
  BY <1>1
<1>2. CASE queue # <<>>
  <2>1. Head(queue) \in Calls /\ Head(queue) = queue[1] /\ 1 \in 1..Len(queue)
    BY <1>2, HeadTailProperties, EmptySeq, LenProperties
  <2>2. pc[Head(queue)] = "queued" /\ Head(queue) # c
    BY <2>1 DEF InProgress, Critical
  <2> QED BY <1>2, <2>1, <2>2
<1> QED BY <1>1, <1>2

\* The caller is the only call past "reserve".
LEMMA CallerIsAlone ==
  ASSUME MutexCorrect, NEW c \in Calls, InProgress(c), NEW step \in Steps,
         OnlyMoves(c, step)
  PROVE  /\ pc'[c] = step
         /\ \A d \in Calls \ {c} :
               /\ pc[d] \notin Critical
               /\ pc'[d] \notin {"submit", "confirm", "read", "write"}
               /\ pc'[d] \in {"idle", "queued", "reserve"} =>
                     pc[d] \in {"idle", "queued", "reserve"}
BY DEF MutexCorrect, OnlyMoves, InProgress, Critical

RestInv == RestType /\ ExposureBounded /\ \A c \in Calls : CallOK(c)

LEMMA InvSplit == Inv <=> LockInv /\ RestInv
BY DEF Inv, LockInv, RestInv, LockType, RestType, TypeOK

LEMMA StepMoves ==
  ASSUME Inv, NEW c \in Calls, Step(c)
  PROVE  /\ InProgress(c)
         /\ LockInv'
         /\ \E step \in Steps : OnlyMoves(c, step)
<1>1. LockInv
  BY InvSplit
<1>2. InProgress(c)
  BY DEF Step, InProgress, Critical, Reserve, ReserveRefused, SubmitAccepted,
         SubmitRefused, SubmitThrew, Confirmed, NotConfirmed, ConfirmationLost,
         ReadKey, ReadKeyFailed, WriteKey
<1>3. ReturnAndRelease(c) \/ \E step \in Critical : Goto(c, step)
  <2>1. CASE Reserve(c)
    BY <2>1 DEF Reserve, Verdict, Critical
  <2>2. CASE SubmitAccepted(c)
    BY <2>2 DEF SubmitAccepted, Critical
  <2>3. CASE SubmitRefused(c) \/ SubmitThrew(c) \/ NotConfirmed(c)
    BY <2>3 DEF SubmitRefused, SubmitThrew, NotConfirmed, RetryOrGiveUp,
                 Verdict, Critical
  <2>4. CASE Confirmed(c) \/ ConfirmationLost(c) \/ ReadKey(c)
    BY <2>4 DEF Confirmed, ConfirmationLost, Verdict, ReadKey, Critical
  <2>5. CASE ReserveRefused(c) \/ ReadKeyFailed(c) \/ WriteKey(c)
    BY <2>5 DEF ReserveRefused, ReadKeyFailed, WriteKey
  <2> QED BY <2>1, <2>2, <2>3, <2>4, <2>5 DEF Step
<1>4. CASE ReturnAndRelease(c)
  BY <1>1, <1>2, <1>4, ReleaseLock, ReleaseMoves DEF Steps
<1>5. ASSUME NEW step \in Critical, Goto(c, step)
      PROVE  LockInv' /\ OnlyMoves(c, step)
  BY <1>1, <1>2, <1>5, GotoLock, GotoMoves
<1> QED BY <1>2, <1>3, <1>4, <1>5 DEF Steps

\* A step of a call leaves the records of the others, and the exposure of
\* the other rounds, alone.
Alone(c) ==
    \A d \in Calls \ {c} :
        /\ pc'[d] \notin {"submit", "confirm", "read", "write"}
        /\ pc'[d] \in {"idle", "queued", "reserve"} =>
              pc[d] \in {"idle", "queued", "reserve"}
        /\ outcome'[d] = outcome[d]
        /\ sideEffect'[d] = sideEffect[d]
        /\ landed'[d] = landed[d]
        /\ d \in unrecorded => d \in unrecorded'

ExposureOf(c) ==
    /\ \A r \in Rounds \ {RoundOf[c]} : exposure'[r] = exposure[r]
    /\ exposure'[RoundOf[c]] <= MaxPlacementRetries + 1

LEMMA Framed ==
  ASSUME RestInv, NEW c \in Calls, RestType', Alone(c), ExposureOf(c),
         CallOK(c)'
  PROVE  RestInv'
<1>1. ExposureBounded'
  BY DEF ExposureOf, RestInv, ExposureBounded
<1>2. ASSUME NEW d \in Calls \ {c}
      PROVE  CallOK(d)'
  BY <1>2 DEF Alone, RestInv, CallOK
<1> QED BY <1>1, <1>2 DEF RestInv

LEMMA StepRest ==
  ASSUME Inv, NEW c \in Calls, Step(c),
         \A d \in Calls \ {c} :
            /\ pc'[d] \notin {"submit", "confirm", "read", "write"}
            /\ pc'[d] \in {"idle", "queued", "reserve"} =>
                  pc[d] \in {"idle", "queued", "reserve"},
         ReturnAndRelease(c) => pc'[c] = "returned"
  PROVE  RestInv'
<1> USE BetExecutorAssumption DEF BetExecutorAssumption
<1>0. /\ RestInv /\ RestType /\ ExposureBounded /\ CallOK(c)
      /\ pc \in [Calls -> Steps]
  BY InvSplit DEF RestInv, LockInv, LockType
<1>t. RoundOf[c] \in Rounds
  OBVIOUS
<1>1. CASE Reserve(c)
  <2> USE <1>0, <1>t, <1>1 DEF RestType, Reserve, Verdict
  <2>1. RestType'
    BY DEF KeyStatus, Outcomes
  <2>2. Alone(c)
    BY DEF Alone
  <2>3. ExposureOf(c)
    BY DEF ExposureOf, ExposureBounded, CallOK
  <2>4. CallOK(c)'
    BY DEF CallOK, Goto, Outcomes
  <2> QED BY <2>1, <2>2, <2>3, <2>4, Framed
<1>2. CASE ReserveRefused(c)
  <2> USE <1>0, <1>t, <1>2 DEF RestType, ReserveRefused
  <2>1. RestType'
    BY DEF KeyStatus, Outcomes
  <2>2. Alone(c)
    BY DEF Alone
  <2>3. ExposureOf(c)
    BY DEF ExposureOf, ExposureBounded, CallOK
  <2>4. CallOK(c)'
    BY DEF CallOK, Goto, Outcomes
  <2> QED BY <2>1, <2>2, <2>3, <2>4, Framed
<1>3. CASE SubmitAccepted(c)
  <2> USE <1>0, <1>t, <1>3 DEF RestType, SubmitAccepted, Lands
  <2>1. RestType'
    BY DEF KeyStatus, Outcomes
  <2>2. Alone(c)
    BY DEF Alone
  <2>3. ExposureOf(c)
    BY DEF ExposureOf, ExposureBounded, CallOK
  <2>4. CallOK(c)'
    BY DEF CallOK, Goto, Outcomes
  <2> QED BY <2>1, <2>2, <2>3, <2>4, Framed
<1>4. CASE SubmitRefused(c)
  <2> USE <1>0, <1>t, <1>4 DEF RestType, SubmitRefused, RetryOrGiveUp, Verdict
  <2>1. RestType'
    BY DEF KeyStatus, Outcomes
  <2>2. Alone(c)
    BY DEF Alone
  <2>3. ExposureOf(c)
    BY DEF ExposureOf, ExposureBounded, CallOK
  <2>4. CallOK(c)'
    BY DEF CallOK, Goto, Outcomes
  <2> QED BY <2>1, <2>2, <2>3, <2>4, Framed
<1>5. CASE SubmitThrew(c)
  <2> USE <1>0, <1>t, <1>5 DEF RestType, SubmitThrew, Lands, RetryOrGiveUp, Verdict
  <2>1. RestType'
    BY DEF KeyStatus, Outcomes
  <2>2. Alone(c)
    BY DEF Alone
  <2>3. ExposureOf(c)
    BY DEF ExposureOf, ExposureBounded, CallOK
  <2>4. CallOK(c)'
    BY DEF CallOK, Goto, Outcomes
  <2> QED BY <2>1, <2>2, <2>3, <2>4, Framed
<1>6. CASE Confirmed(c)
  <2> USE <1>0, <1>t, <1>6 DEF RestType, Confirmed, Verdict
  <2>1. RestType'
    BY DEF KeyStatus, Outcomes
  <2>2. Alone(c)
    BY DEF Alone
  <2>3. ExposureOf(c)
    BY DEF ExposureOf, ExposureBounded, CallOK
  <2>4. CallOK(c)'
    BY DEF CallOK, Goto, Outcomes
  <2> QED BY <2>1, <2>2, <2>3, <2>4, Framed
<1>7. CASE NotConfirmed(c)
  <2> USE <1>0, <1>t, <1>7 DEF RestType, NotConfirmed, RetryOrGiveUp, Verdict
  <2>1. RestType'
    BY DEF KeyStatus, Outcomes
  <2>2. Alone(c)
    BY DEF Alone
  <2>3. ExposureOf(c)
    BY DEF ExposureOf, ExposureBounded, CallOK
  <2>4. CallOK(c)'
    BY DEF CallOK, Goto, Outcomes
  <2> QED BY <2>1, <2>2, <2>3, <2>4, Framed
<1>8. CASE ConfirmationLost(c)
  <2> USE <1>0, <1>t, <1>8 DEF RestType, ConfirmationLost, Verdict
  <2>1. RestType'
    BY DEF KeyStatus, Outcomes
  <2>2. Alone(c)
    BY DEF Alone
  <2>3. ExposureOf(c)
    BY DEF ExposureOf, ExposureBounded, CallOK
  <2>4. CallOK(c)'
    BY DEF CallOK, Goto, Outcomes
  <2> QED BY <2>1, <2>2, <2>3, <2>4, Framed
<1>9. CASE ReadKey(c)
  <2> USE <1>0, <1>t, <1>9 DEF RestType, ReadKey
  <2>1. RestType'
    BY DEF KeyStatus, Outcomes
  <2>2. Alone(c)
    BY DEF Alone
  <2>3. ExposureOf(c)
    BY DEF ExposureOf, ExposureBounded, CallOK
  <2>4. CallOK(c)'
    BY DEF CallOK, Goto, Outcomes
  <2> QED BY <2>1, <2>2, <2>3, <2>4, Framed
<1>10. CASE ReadKeyFailed(c)
  <2> USE <1>0, <1>t, <1>10 DEF RestType, ReadKeyFailed
  <2>1. RestType'
    BY DEF KeyStatus, Outcomes
  <2>2. Alone(c)
    BY DEF Alone
  <2>3. ExposureOf(c)
    BY DEF ExposureOf, ExposureBounded, CallOK
  <2>4. CallOK(c)'
    BY DEF CallOK, Goto, Outcomes
  <2> QED BY <2>1, <2>2, <2>3, <2>4, Framed
<1>11. CASE WriteKey(c)
  <2> USE <1>0, <1>t, <1>11 DEF RestType, WriteKey
  <2>1. RestType'
    BY DEF KeyStatus, Outcomes, StatusFor, CallOK
  <2>2. Alone(c)
    BY DEF Alone
  <2>3. ExposureOf(c)
    BY DEF ExposureOf, ExposureBounded, CallOK
  <2>4. CallOK(c)'
    BY DEF CallOK, Goto, Outcomes
  <2> QED BY <2>1, <2>2, <2>3, <2>4, Framed
<1> QED BY <1>1, <1>2, <1>3, <1>4, <1>5, <1>6, <1>7, <1>8, <1>9, <1>10, <1>11 DEF Step

LEMMA StepInv ==
  ASSUME Inv, NEW c \in Calls, Step(c)
  PROVE  Inv'
<1>1. LockInv /\ MutexCorrect
  BY InvSplit DEF LockInv
<1>2. InProgress(c) /\ LockInv'
  BY StepMoves
<1>3. PICK step \in Steps : OnlyMoves(c, step)
  BY StepMoves
<1>4. ReturnAndRelease(c) => pc'[c] = "returned"
  BY <1>1, <1>2, ReleaseMoves DEF OnlyMoves
<1>5. RestInv'
  BY <1>1, <1>2, <1>3, <1>4, CallerIsAlone, StepRest
<1> QED BY <1>2, <1>5, InvSplit DEF Inv, LockInv, RestInv, LockType, RestType, TypeOK

LEMMA PlaceBetInv ==
  ASSUME Inv, NEW c \in Calls, PlaceBet(c)
  PROVE  Inv'
<1>1. LockInv /\ RestInv /\ pc \in [Calls -> Steps]
  BY InvSplit DEF LockInv, LockType
<1>2. LockInv'
  BY <1>1, PlaceBetLock
<1>3. \A d \in Calls : /\ d # c => pc'[d] = pc[d]
                       /\ pc[c] = "idle" /\ pc'[c] \in {"queued", "reserve"}
  BY <1>1 DEF PlaceBet
<1>4. \A d \in Calls : CallOK(d)'
  BY <1>1, <1>3 DEF RestInv, CallOK, PlaceBet
<1>5. RestType' /\ ExposureBounded'
  BY <1>1 DEF RestInv, RestType, ExposureBounded, PlaceBet
<1> QED BY <1>2, <1>4, <1>5 DEF Inv, LockInv, LockType, RestType, TypeOK

LEMMA EnvironmentInv ==
  ASSUME Inv, \/ Crash \/ OpenClient \/ CloseClient
              \/ \E r \in Rounds : Expire(r)
  PROVE  Inv'
<1>1. LockInv /\ RestInv
  BY InvSplit
<1>2. ASSUME NEW r \in Rounds, Expire(r) PROVE Inv'
  <2>1. RestType' /\ ExposureBounded'
    BY <1>1, <1>2 DEF RestInv, RestType, ExposureBounded, Expire, KeyStatus
  <2>2. LockInv'
    BY <1>1, <1>2 DEF Expire, LockInv, LockType, MutexCorrect, QueueOK, InProgress
  <2>3. \A d \in Calls : CallOK(d)'
    BY <1>1, <1>2 DEF RestInv, CallOK, Expire
  <2> QED BY <2>1, <2>2, <2>3 DEF Inv, LockInv, LockType, RestType, TypeOK
<1>3. ASSUME Crash PROVE Inv'
  <2>1. RestType' /\ ExposureBounded'
    BY <1>1, <1>3 DEF RestInv, RestType, ExposureBounded, Crash
  <2>2. LockInv'
    BY <1>1, <1>3, CrashLock
  <2>3. \A d \in Calls : pc'[d] = "lost" \/ pc'[d] = pc[d]
    BY <1>3 DEF Crash
  <2>4. \A d \in Calls : CallOK(d)'
    BY <1>1, <1>3, <2>3 DEF RestInv, CallOK, Crash
  <2> QED BY <2>1, <2>2, <2>4 DEF Inv, LockInv, LockType, RestType, TypeOK
<1>4. ASSUME OpenClient \/ CloseClient PROVE Inv'
  <2>1. RestType' /\ ExposureBounded'
    BY <1>1, <1>4 DEF RestInv, RestType, ExposureBounded, OpenClient, CloseClient
  <2>2. LockInv'
    BY <1>1, <1>4 DEF OpenClient, CloseClient, LockInv, LockType, MutexCorrect,
                      QueueOK, InProgress
  <2>3. \A d \in Calls : CallOK(d)'
    BY <1>1, <1>4 DEF RestInv, CallOK, OpenClient, CloseClient
  <2> QED BY <2>1, <2>2, <2>3 DEF Inv, LockInv, LockType, RestType, TypeOK
<1> QED BY <1>2, <1>3, <1>4

LEMMA InitInv == Init => Inv
<1> SUFFICES ASSUME Init PROVE Inv
  OBVIOUS
<1> USE BetExecutorAssumption DEF Init, BetExecutorAssumption
<1>1. TypeOK
  <2>1. queue \in Seq(Calls)
    BY EmptySeq
  <2>2. attempt \in [Calls -> 0..MaxPlacementRetries]
    OBVIOUS
  <2>3. pc \in [Calls -> Steps] /\ key \in [Rounds -> KeyStatus]
    BY DEF Steps, KeyStatus
  <2>4. sideEffect \in [Calls -> BOOLEAN] /\ locked \in BOOLEAN
    OBVIOUS
  <2> QED BY <2>1, <2>2, <2>3, <2>4 DEF TypeOK
<1>2. MutexCorrect
  BY DEF MutexCorrect, InProgress, Critical
<1>3. QueueOK
  BY DEF QueueOK
<1>4. ExposureBounded
  BY DEF ExposureBounded
<1>5. \A c \in Calls : CallOK(c)
  BY DEF CallOK
<1> QED BY <1>1, <1>2, <1>3, <1>4, <1>5 DEF Inv

LEMMA NextInv == Inv /\ [Next]_vars => Inv'
<1> SUFFICES ASSUME Inv, [Next]_vars PROVE Inv'
  OBVIOUS
<1>1. CASE UNCHANGED vars
  <2>1. pc' = pc /\ locked' = locked /\ queue' = queue /\ key' = key
        /\ attempt' = attempt /\ sideEffect' = sideEffect
        /\ client' = client /\ unrecorded' = unrecorded
        /\ outcome' = outcome /\ landed' = landed /\ exposure' = exposure
    BY <1>1 DEF vars
  <2> QED BY <2>1 DEF Inv, TypeOK, MutexCorrect, InProgress, QueueOK,
                      ExposureBounded, CallOK
<1>2. CASE Next
  BY <1>2, StepInv, PlaceBetInv, EnvironmentInv DEF Next
<1> QED BY <1>1, <1>2

LEMMA Invariant == Spec => []Inv
BY InitInv, NextInv, PTL DEF Spec

-----------------------------------------------------------------------------

\* The state of placeBet, its mutex and its keys keeps its types.
THEOREM TypeCorrect == Spec => []TypeOK
BY Invariant, PTL DEF Inv

\* One placement at a time: the FIFO hand-off of the Mutex never lets two
\* calls in, never loses the lock and never leaves a waiter behind an open
\* one, whatever crashes and however many calls queue.
THEOREM OnePlacementAtATime == Spec => []MutexCorrect
BY Invariant, PTL DEF Inv

\* However many calls race for a round, the table receives no more than one
\* call's retry budget while the round's key lives.
THEOREM ExposureOfARound == Spec => []ExposureBounded
BY Invariant, PTL DEF Inv

\* Whatever is retried, lost or swallowed, CONFIRMED is the truth, and a dry
\* run is dry.
THEOREM ConfirmationIsHonest == Spec => []ConfirmedIsReal
<1>1. Inv => ConfirmedIsReal
  BY DEF Inv, CallOK, ConfirmedIsReal
<1> QED BY <1>1, Invariant, PTL

\* A submission whose confirmation was lost is never resubmitted, and is
\* reported UNKNOWN unless the client of the store was closed under it.
THEOREM UncertaintyIsReported == Spec => []UncertainIsUnknown
<1>1. Inv => UncertainIsUnknown
  BY DEF Inv, CallOK, UncertainIsUnknown
<1> QED BY <1>1, Invariant, PTL

=============================================================================
