------------------------- MODULE LiveBettingProofs -------------------------
(***************************************************************************)
(* The live path for any number of deliveries, rounds and retries: its     *)
(* types, one placement at a time, bounded clicks, bounded cash-outs and   *)
(* bounded clicks after a stop.                                            *)
(*                                                                         *)
(* The invariant has four parts that are proved apart: the mutex, where    *)
(* the queue lists queued handlers, each once; the clicks, tied to the     *)
(* attempts of the one handler that may still click; the cash-outs, where  *)
(* a round in openLiveBets is a cash-out still to be answered for; and the *)
(* clicks after a stop, where the attempts before a call are covered by    *)
(* what it had left when the executor was stopped.                         *)
(***************************************************************************)
EXTENDS LiveBetting, FiniteSetTheorems, SequenceTheorems, TLAPS

QueueOK ==
    /\ \A i \in 1..Len(queue) : pc[queue[i]] = "queued"
    /\ \A i, j \in 1..Len(queue) : queue[i] = queue[j] => i = j

LockType == pc \in [Starts -> Steps] /\ locked \in BOOLEAN /\ queue \in Seq(Starts)
LockInv  == LockType /\ OnePlacementAtATime /\ QueueOK

\* A handler about to click, or waiting for the indicator, has clicked for
\* its round no more often than it has tried.
ClickOK(s) ==
    /\ pc[s] \in {"create", "click"} => clicks[RoundOf[s]] <= attempt[s]
    /\ pc[s] = "confirm" => clicks[RoundOf[s]] <= attempt[s] + 1

ClickType == /\ clicks \in [Rounds -> Nat]
             /\ attempt \in [Starts -> 0..MaxPlacementRetries]
ClickInv  == ClickType /\ ClicksBounded /\ \A s \in Starts : ClickOK(s)

Placed(r) == {s \in Starts : RoundOf[s] = r /\ pc[s] = "placed"}

\* A round in openLiveBets has a placement no cash-out was started for yet.
CashOK(r) ==
    /\ IsFiniteSet(Placed(r))
    /\ cashOuts[r] + (IF r \in openLiveBets THEN 1 ELSE 0)
          <= Cardinality(Placed(r))

CashType == cashOuts \in [Rounds -> Nat] /\ openLiveBets \subseteq Rounds
CashInv  == CashType /\ \A r \in Rounds : CashOK(r)

GameType == round \in Rounds /\ flying \in BOOLEAN /\ table \in Nat
HaltType == /\ stopped \in BOOLEAN
            /\ estop \in {"armed", "triggered"}
            /\ toRead \in BOOLEAN
            /\ toCancel \subseteq Starts
            /\ clicksLeft \in [Starts -> Int]
DataType == /\ busySeen \in [Starts -> BOOLEAN]
            /\ key \in [Rounds -> {"absent", "PENDING", "COMPLETED"}]
            /\ row \in [Starts -> {"none", "PENDING", "FAILED"}]
            /\ cashing \subseteq Rounds
RestType == GameType /\ HaltType /\ DataType

\* What a call may still click is covered by what it had left at the stop.
StopOK(s) == stopped => clicksLeft[s] >= AttemptsLeft(s)
StopInv   == \A s \in Starts : StopOK(s)

Inv == LockInv /\ ClickInv /\ CashInv /\ RestType /\ StopInv

-----------------------------------------------------------------------------
(* The mutex                                                               *)

LEMMA ApprovedLock ==
  ASSUME LockInv, NEW s \in Starts, Approved(s)
  PROVE  LockInv'
<1> USE DEF LockInv, LockType, OnePlacementAtATime, QueueOK, InProgress,
        Approved, Critical, Inside, Steps
<1>1. CASE locked
  <2>1. queue' = Append(queue, s) /\ pc' = [pc EXCEPT ![s] = "queued"]
    BY <1>1
  <2>2. /\ queue' \in Seq(Starts)
        /\ Len(queue') = Len(queue) + 1
        /\ \A i \in 1..Len(queue) : queue'[i] = queue[i] /\ queue[i] \in Starts
        /\ queue'[Len(queue) + 1] = s
    BY <2>1, AppendProperties, ElementOfSeq
  <2>3. \A i \in 1..Len(queue) : queue[i] # s
    OBVIOUS
  <2>4. QueueOK'
    BY <2>1, <2>2, <2>3, LenProperties
  <2>5. OnePlacementAtATime'
    BY <1>1, <2>1
  <2> QED BY <1>1, <2>1, <2>2, <2>4, <2>5
<1>2. CASE ~locked
  <2>1. queue' = queue /\ pc' = [pc EXCEPT ![s] = "reserve"] /\ locked'
    BY <1>2
  <2>2. OnePlacementAtATime'
    BY <1>2, <2>1
  <2>3. QueueOK'
    <3>1. \A i \in 1..Len(queue) : queue[i] \in Starts /\ queue[i] # s
      BY ElementOfSeq
    <3> QED BY <2>1, <3>1
  <2> QED BY <1>2, <2>1, <2>2, <2>3
<1> QED BY <1>1, <1>2

LEMMA GotoLock ==
  ASSUME LockInv, NEW s \in Starts, InProgress(s), NEW step \in Critical,
         Goto(s, step)
  PROVE  LockInv'
<1> USE DEF LockInv, LockType, OnePlacementAtATime, QueueOK, InProgress, Goto,
        mutex, Critical, Inside, Steps
<1>1. LockType' /\ OnePlacementAtATime'
  OBVIOUS
<1>2. QueueOK'
  <2>1. \A i \in 1..Len(queue) : queue[i] \in Starts /\ queue[i] # s
    BY ElementOfSeq
  <2> QED BY <2>1
<1> QED BY <1>1, <1>2

\* A handler that is not inside placeLiveBet, and stays outside.
LEMMA OutsideLock ==
  ASSUME LockInv, NEW s \in Starts, pc[s] \notin Inside,
         NEW step \in Steps \ Inside,
         pc' = [pc EXCEPT ![s] = step], UNCHANGED mutex
  PROVE  LockInv'
<1> USE DEF LockInv, LockType, OnePlacementAtATime, QueueOK, InProgress, mutex,
        Critical, Inside, Steps
<1>1. LockType' /\ OnePlacementAtATime'
  OBVIOUS
<1>2. QueueOK'
  <2>1. \A i \in 1..Len(queue) : queue[i] \in Starts /\ queue[i] # s
    BY ElementOfSeq
  <2> QED BY <2>1
<1> QED BY <1>1, <1>2

LEMMA ReturnsLock ==
  ASSUME LockInv, NEW s \in Starts, InProgress(s),
         NEW result \in {"placed", "failed"}, Returns(s, result)
  PROVE  LockInv'
<1> USE DEF LockInv, LockType, OnePlacementAtATime, QueueOK, InProgress,
        Returns, Critical, Inside, Steps
<1>1. CASE queue = <<>>
  <2>1. LockType' /\ OnePlacementAtATime'
    BY <1>1
  <2>2. QueueOK'
    BY <1>1
  <2> QED BY <2>1, <2>2
<1>2. CASE queue # <<>>
  <2> DEFINE h == Head(queue)
  <2>1. /\ h \in Starts /\ h = queue[1] /\ Tail(queue) \in Seq(Starts)
        /\ Len(queue) \in Nat \ {0}
        /\ Len(Tail(queue)) = Len(queue) - 1
        /\ \A i \in 1..Len(Tail(queue)) : Tail(queue)[i] = queue[i + 1]
    BY <1>2, HeadTailProperties, EmptySeq, LenProperties
  <2>2. pc[h] = "queued" /\ h # s
    BY <2>1
  <2>3. /\ pc' = [pc EXCEPT ![s] = result, ![h] = "reserve"]
        /\ queue' = Tail(queue) /\ locked' = locked
    BY <1>2
  <2>4. LockType'
    BY <2>1, <2>2, <2>3
  <2>5. OnePlacementAtATime'
    <3>1. \A d \in Starts : d # s => ~InProgress(d)
      OBVIOUS
    <3>2. \A d \in Starts : pc'[d] = IF d = h THEN "reserve"
                                      ELSE IF d = s THEN result ELSE pc[d]
      BY <2>1, <2>2, <2>3
    <3>3. \A d \in Starts : InProgress(d)' <=> d = h
      BY <3>1, <3>2
    <3>4. locked'
      BY <2>3
    <3> HIDE DEF InProgress
    <3> QED BY <3>3, <3>4, <2>1
  <2>6. QueueOK'
    <3>1. \A i \in 1..Len(Tail(queue)) :
             /\ i + 1 \in 1..Len(queue)
             /\ Tail(queue)[i] = queue[i + 1]
             /\ queue[i + 1] \in Starts
             /\ queue[i + 1] # h
             /\ queue[i + 1] # s
      BY <2>1, ElementOfSeq
    <3>2. \A i \in 1..Len(queue') : pc'[queue'[i]] = "queued"
      BY <2>1, <2>3, <3>1
    <3>3. \A i, j \in 1..Len(queue') : queue'[i] = queue'[j] => i = j
      BY <2>1, <2>3, <3>1
    <3> QED BY <3>2, <3>3
  <2> QED BY <2>4, <2>5, <2>6
<1> QED BY <1>1, <1>2

LEMMA RestartLock ==
  ASSUME LockInv, Restart
  PROVE  LockInv'
<1> USE DEF LockInv, LockType, QueueOK, Restart
<1>1. \A d \in Starts : pc'[d] \in Steps /\ pc'[d] \notin Critical
  BY DEF Critical, Inside, Steps
<1>2. LockType'
  <2>1. pc' \in [Starts -> Steps]
    BY <1>1
  <2>2. locked' \in BOOLEAN /\ queue' \in Seq(Starts)
    BY EmptySeq
  <2> QED BY <2>1, <2>2
<1>3. OnePlacementAtATime'
  BY <1>1 DEF OnePlacementAtATime, InProgress
<1>4. QueueOK'
  OBVIOUS
<1> QED BY <1>2, <1>3, <1>4

-----------------------------------------------------------------------------
(* What a step of a handler does to the others                             *)

\* The handlers that move are the one that runs, and a waiter it wakes.
OnlyMoves(s, step) ==
    \A d \in Starts : IF d = s THEN pc'[d] = step
                      ELSE \/ pc'[d] = pc[d]
                           \/ pc[d] = "queued" /\ pc'[d] = "reserve"

LEMMA GotoMoves ==
  ASSUME LockType, NEW s \in Starts, NEW step \in Steps, Goto(s, step)
  PROVE  OnlyMoves(s, step)
BY DEF LockType, Goto, OnlyMoves

LEMMA ReturnsMoves ==
  ASSUME LockInv, NEW s \in Starts, InProgress(s),
         NEW result \in {"placed", "failed"}, Returns(s, result)
  PROVE  OnlyMoves(s, result)
<1> USE DEF LockInv, LockType, QueueOK, Returns, OnlyMoves
<1>1. CASE queue = <<>>
  BY <1>1
<1>2. CASE queue # <<>>
  <2>1. Head(queue) \in Starts /\ Head(queue) = queue[1] /\ 1 \in 1..Len(queue)
    BY <1>2, HeadTailProperties, EmptySeq, LenProperties
  <2>2. pc[Head(queue)] = "queued" /\ Head(queue) # s
    BY <2>1 DEF InProgress, Critical
  <2> QED BY <1>2, <2>1, <2>2
<1> QED BY <1>1, <1>2

\* Where a handler under the mutex can be after its step.
Outcome(s) ==
    \/ \E step \in Critical : Goto(s, step)
    \/ \E result \in {"placed", "failed"} : Returns(s, result)

Working(s) ==
    \/ Reserve(s) \/ CreateRecord(s) \/ Click(s)
    \/ ClickFailed(s) \/ Confirmed(s) \/ NotConfirmed(s)

LEMMA WorkingMoves ==
  ASSUME LockInv, NEW s \in Starts, Working(s)
  PROVE  InProgress(s) /\ LockInv' /\ \E step \in Steps : OnlyMoves(s, step)
<1>1. InProgress(s)
  BY DEF Working, InProgress, Critical, Reserve, CreateRecord, Click,
         ClickFailed, Confirmed, NotConfirmed
<1>2. Outcome(s)
  <2>1. CASE Reserve(s)
    BY <2>1 DEF Reserve, Outcome, Critical
  <2>2. CASE CreateRecord(s) \/ Click(s)
    BY <2>2 DEF CreateRecord, Click, Outcome, Critical
  <2>3. CASE ClickFailed(s) \/ NotConfirmed(s)
    BY <2>3 DEF ClickFailed, NotConfirmed, RetryOrFail, Outcome, Critical
  <2>4. CASE Confirmed(s)
    BY <2>4 DEF Confirmed, Outcome
  <2> QED BY <2>1, <2>2, <2>3, <2>4 DEF Working
<1>3. ASSUME NEW step \in Critical, Goto(s, step)
      PROVE  LockInv' /\ step \in Steps /\ OnlyMoves(s, step)
  BY <1>1, <1>3, GotoLock, GotoMoves DEF LockInv, Steps, Inside
<1>4. ASSUME NEW result \in {"placed", "failed"}, Returns(s, result)
      PROVE  LockInv' /\ result \in Steps /\ OnlyMoves(s, result)
  BY <1>1, <1>4, ReturnsLock, ReturnsMoves DEF Steps
<1> QED BY <1>1, <1>2, <1>3, <1>4 DEF Outcome

\* The others are neither clicking nor placed by the step.
Others(s) ==
    \A d \in Starts \ {s} : /\ pc'[d] \notin {"create", "click", "confirm"}
                            /\ pc'[d] = "placed" <=> pc[d] = "placed"

LEMMA WorkingOthers ==
  ASSUME LockInv, NEW s \in Starts, Working(s)
  PROVE  Others(s)
<1>1. InProgress(s) /\ OnePlacementAtATime
  BY WorkingMoves DEF LockInv
<1>2. PICK step \in Steps : OnlyMoves(s, step)
  BY WorkingMoves
<1> QED BY <1>1, <1>2 DEF OnePlacementAtATime, InProgress, OnlyMoves, Others, Critical

-----------------------------------------------------------------------------
(* The clicks                                                              *)

LEMMA ClicksFramed ==
  ASSUME ClickInv, NEW s \in Starts, Others(s), ClickType', ClickOK(s)',
         \A r \in Rounds \ {RoundOf[s]} : clicks'[r] = clicks[r],
         clicks'[RoundOf[s]] <= MaxPlacementRetries + 1
  PROVE  ClickInv'
<1>1. ClicksBounded'
  BY DEF ClickInv, ClicksBounded
<1>2. \A d \in Starts \ {s} : ClickOK(d)'
  BY DEF Others, ClickOK
<1> QED BY <1>1, <1>2 DEF ClickInv

LEMMA WorkingClicks ==
  ASSUME LockInv, ClickInv, NEW s \in Starts, Working(s)
  PROVE  ClickInv'
<1> USE LiveBettingAssumption DEF LiveBettingAssumption
<1>1. /\ RoundOf[s] \in Rounds
      /\ attempt[s] \in 0..MaxPlacementRetries
      /\ clicks[RoundOf[s]] \in Nat
      /\ clicks[RoundOf[s]] <= MaxPlacementRetries + 1
      /\ ClickType /\ ClickOK(s) /\ Others(s)
  BY WorkingOthers DEF ClickInv, ClickType, ClicksBounded
<1>2. /\ pc \in [Starts -> Steps] /\ InProgress(s)
      /\ \A result \in {"placed", "failed"} :
            Returns(s, result) => pc'[s] = result
  BY WorkingMoves, ReturnsMoves DEF LockInv, LockType, OnlyMoves
<1>3. CASE Reserve(s)
  <2>1. ClickType'
    BY <1>1, <1>3 DEF ClickType, Reserve
  <2>2. pc'[s] \in {"create", "failed"}
    BY <1>2, <1>3 DEF Reserve, Goto
  <2>3. /\ \A r \in Rounds \ {RoundOf[s]} : clicks'[r] = clicks[r]
        /\ clicks'[RoundOf[s]] <= MaxPlacementRetries + 1
    BY <1>1, <1>3 DEF Reserve, ClickType
  <2>4. pc'[s] = "create" => clicks'[RoundOf[s]] <= attempt'[s]
    BY <1>1, <1>2, <1>3 DEF Reserve, ClickType
  <2> QED BY <1>1, <2>1, <2>2, <2>3, <2>4, ClicksFramed DEF ClickOK
<1>4. CASE CreateRecord(s)
  <2>1. /\ clicks' = clicks /\ attempt' = attempt
        /\ pc[s] = "create" /\ pc'[s] = "click"
    BY <1>2, <1>4 DEF CreateRecord, Goto
  <2> QED BY <1>1, <2>1, ClicksFramed DEF ClickOK, ClickType
<1>5. CASE Click(s)
  <2>1. /\ clicks' = [clicks EXCEPT ![RoundOf[s]] = @ + 1]
        /\ attempt' = attempt
        /\ pc[s] = "click" /\ pc'[s] = "confirm"
    BY <1>2, <1>5 DEF Click, Goto, Lands
  <2>2. clicks[RoundOf[s]] + 1 <= MaxPlacementRetries + 1
    BY <1>1, <2>1 DEF ClickOK
  <2>3. ClickType' /\ ClickOK(s)'
    BY <1>1, <2>1 DEF ClickOK, ClickType
  <2> QED BY <1>1, <2>1, <2>2, <2>3, ClicksFramed DEF ClickType
<1>6. ASSUME RetryOrFail(s), NEW n \in {0, 1},
             clicks' = [clicks EXCEPT ![RoundOf[s]] = @ + n],
             clicks[RoundOf[s]] + n <= attempt[s] + 1
      PROVE  ClickInv'
  <2>1. \/ /\ attempt[s] < MaxPlacementRetries
           /\ attempt' = [attempt EXCEPT ![s] = @ + 1]
           /\ pc'[s] = "click"
        \/ attempt' = attempt /\ pc'[s] = "failed"
    BY <1>2, <1>6 DEF RetryOrFail, Goto
  <2>2. ClickType' /\ ClickOK(s)'
    BY <1>1, <1>6, <2>1 DEF ClickOK, ClickType
  <2>3. /\ \A r \in Rounds \ {RoundOf[s]} : clicks'[r] = clicks[r]
        /\ clicks'[RoundOf[s]] <= MaxPlacementRetries + 1
    BY <1>1, <1>6 DEF ClickType
  <2> QED BY <1>1, <2>2, <2>3, ClicksFramed
<1>7. CASE ClickFailed(s)
  <2>1. \E n \in {0, 1} : clicks' = [clicks EXCEPT ![RoundOf[s]] = @ + n]
    <3>1. CASE Lands(s)
      BY <3>1 DEF Lands
    <3>2. CASE clicks' = clicks
      BY <1>1, <3>2 DEF ClickType
    <3> QED BY <1>7, <3>1, <3>2 DEF ClickFailed
  <2>2. clicks[RoundOf[s]] <= attempt[s] /\ RetryOrFail(s)
    BY <1>1, <1>7 DEF ClickOK, ClickFailed
  <2>3. PICK n \in {0, 1} : clicks' = [clicks EXCEPT ![RoundOf[s]] = @ + n]
    BY <2>1
  <2>4. clicks[RoundOf[s]] + n <= attempt[s] + 1
    BY <1>1, <2>2
  <2> QED BY <1>6, <2>2, <2>3, <2>4
<1>8. CASE NotConfirmed(s)
  <2>1. clicks' = [clicks EXCEPT ![RoundOf[s]] = @ + 0]
    BY <1>1, <1>8 DEF NotConfirmed, ClickType
  <2>2. clicks[RoundOf[s]] + 0 <= attempt[s] + 1 /\ RetryOrFail(s)
    BY <1>1, <1>8 DEF ClickOK, NotConfirmed
  <2> QED BY <1>6, <2>1, <2>2
<1>9. CASE Confirmed(s)
  <2>1. clicks' = clicks /\ attempt' = attempt /\ pc'[s] = "placed"
    BY <1>2, <1>9 DEF Confirmed
  <2> QED BY <1>1, <2>1, ClicksFramed DEF ClickOK, ClickType
<1> QED BY <1>3, <1>4, <1>5, <1>7, <1>8, <1>9 DEF Working

-----------------------------------------------------------------------------
(* The cash-outs                                                           *)

LEMMA CashFramed ==
  ASSUME CashInv, UNCHANGED <<cashOuts, openLiveBets>>,
         \A d \in Starts : pc'[d] = "placed" <=> pc[d] = "placed"
  PROVE  CashInv'
<1>1. \A r \in Rounds : Placed(r)' = Placed(r)
  BY DEF Placed
<1> QED BY <1>1 DEF CashInv, CashType, CashOK

LEMMA WorkingCash ==
  ASSUME LockInv, CashInv, NEW s \in Starts, Working(s)
  PROVE  CashInv'
<1> USE LiveBettingAssumption DEF LiveBettingAssumption
<1>1. Others(s) /\ InProgress(s) /\ pc[s] # "placed" /\ RoundOf[s] \in Rounds
  BY WorkingOthers, WorkingMoves DEF InProgress, Critical
<1>2. pc \in [Starts -> Steps] /\ \A result \in {"placed", "failed"} :
         Returns(s, result) => pc'[s] = result
  BY <1>1, ReturnsMoves DEF LockInv, LockType, OnlyMoves
<1>3. CASE Confirmed(s)
  <2> DEFINE q == RoundOf[s]
  <2>1. /\ pc'[s] = "placed"
        /\ cashOuts' = cashOuts
        /\ openLiveBets' = openLiveBets \cup {q}
    BY <1>2, <1>3 DEF Confirmed
  <2>2. Placed(q)' = Placed(q) \cup {s} /\ s \notin Placed(q)
    BY <1>1, <2>1 DEF Placed, Others
  <2>3. IsFiniteSet(Placed(q)) /\ Cardinality(Placed(q)) \in Nat
    BY <1>1, FS_CardinalityType DEF CashInv, CashOK
  <2>4. /\ IsFiniteSet(Placed(q)')
        /\ Cardinality(Placed(q)') = Cardinality(Placed(q)) + 1
    BY <2>2, <2>3, FS_AddElement
  <2>5. CashOK(q)'
    <3>1. cashOuts[q] <= Cardinality(Placed(q)) /\ cashOuts[q] \in Nat
      <4>1. CashOK(q) /\ cashOuts[q] \in Nat
        BY <1>1 DEF CashInv, CashType
      <4> QED BY <2>3, <4>1 DEF CashOK
    <3>2. cashOuts'[q] + 1 <= Cardinality(Placed(q)')
      BY <2>1, <2>3, <2>4, <3>1
    <3> QED BY <2>1, <2>4, <3>2 DEF CashOK
  <2>6. ASSUME NEW r \in Rounds \ {q} PROVE CashOK(r)'
    <3>1. Placed(r)' = Placed(r)
      BY <1>1, <2>1, <2>6 DEF Placed, Others
    <3> QED BY <2>1, <2>6, <3>1 DEF CashInv, CashOK
  <2> QED BY <1>1, <2>1, <2>5, <2>6 DEF CashInv, CashType
<1>4. CASE ~Confirmed(s)
  <2>1. pc'[s] # "placed"
    BY <1>2, <1>4 DEF Working, Reserve, CreateRecord, Click, ClickFailed,
                      NotConfirmed, RetryOrFail, Goto
  <2>2. UNCHANGED <<cashOuts, openLiveBets>>
    BY <1>4 DEF Working, Reserve, CreateRecord, Click, ClickFailed,
                NotConfirmed, RetryOrFail
  <2> QED BY <1>1, <2>1, <2>2, CashFramed DEF Others
<1> QED BY <1>3, <1>4

LEMMA RoundCrashedCash ==
  ASSUME CashInv, NEW q \in Rounds, RoundCrashed(q)
  PROVE  CashInv'
<1>1. CashType'
  BY DEF CashInv, CashType, RoundCrashed
<1>2. ASSUME NEW r \in Rounds PROVE CashOK(r)'
  <2>1. Placed(r)' = Placed(r) /\ CashOK(r) /\ cashOuts[r] \in Nat
    BY DEF Placed, CashInv, CashType, RoundCrashed
  <2>2. CASE r = q
    <3>1. /\ q \in openLiveBets /\ q \notin openLiveBets'
          /\ cashOuts'[q] = cashOuts[q] + 1
      BY DEF RoundCrashed, CashInv, CashType
    <3> QED BY <2>1, <2>2, <3>1 DEF CashOK
  <2>3. CASE r # q
    <3>1. /\ r \in openLiveBets <=> r \in openLiveBets'
          /\ cashOuts'[r] = cashOuts[r]
      BY <2>3 DEF RoundCrashed, CashInv, CashType
    <3> QED BY <2>1, <3>1 DEF CashOK
  <2> QED BY <2>2, <2>3
<1> QED BY <1>1, <1>2 DEF CashInv

-----------------------------------------------------------------------------
(* The rest of the types                                                   *)

LEMMA GameTypeInv ==
  ASSUME GameType, Next
  PROVE  GameType'
<1> USE DEF GameType
<1>1. CASE GameCrashes \/ NextRound
  <2>1. CASE GameCrashes
    BY <2>1 DEF GameCrashes
  <2>2. CASE NextRound
    BY <2>2 DEF NextRound
  <2> QED BY <1>1, <2>1, <2>2
<1>2. ASSUME NEW s \in Starts, Lands(s) PROVE GameType'
  BY <1>2 DEF Lands
<1>3. ASSUME NEW r \in Rounds, CashOutReturns(r) PROVE GameType'
  BY <1>3 DEF CashOutReturns
<1>4. CASE UNCHANGED game
  BY <1>4 DEF game
<1>5. \/ GameCrashes \/ NextRound \/ UNCHANGED game
      \/ \E s \in Starts : Lands(s)
      \/ \E r \in Rounds : CashOutReturns(r)
  BY DEF Next, Step, RoundStarted, Declined, Approved, Reserve, CreateRecord,
         Click, ClickFailed, Confirmed, NotConfirmed, RoundCrashed, KeyExpires,
         Trigger, ReadPending, CancelRecord, Reset, Restart
<1> QED BY <1>1, <1>2, <1>3, <1>4, <1>5

LEMMA HaltTypeInv ==
  ASSUME HaltType, ClickType, Next
  PROVE  HaltType'
<1> USE DEF HaltType
<1>1. CASE Trigger \/ ReadPending \/ Reset \/ Restart
  <2>1. CASE Trigger
    <3>1. \A s \in Starts : AttemptsLeft(s) \in Int
      <4>1. \A s \in Starts : MaxPlacementRetries - attempt[s] \in Int
        BY LiveBettingAssumption DEF LiveBettingAssumption, ClickType
      <4> QED BY <4>1 DEF AttemptsLeft
    <3>2. clicksLeft' \in [Starts -> Int]
      BY <2>1, <3>1 DEF Trigger
    <3> QED BY <2>1, <3>2 DEF Trigger
  <2>2. CASE ReadPending \/ Reset
    BY <2>2 DEF ReadPending, Reset
  <2>3. CASE Restart
    <3>1. clicksLeft' = [s \in Starts |-> 0] /\ stopped' = FALSE /\ estop' = "armed"
          /\ toRead' = FALSE /\ toCancel' = {}
      BY <2>3, Zenon DEF Restart
    <3>2. clicksLeft' \in [Starts -> Int]
      BY <3>1
    <3> QED BY <3>1, <3>2
  <2> QED BY <1>1, <2>1, <2>2, <2>3
<1>2. ASSUME NEW s \in Starts, CancelRecord(s) PROVE HaltType'
  BY <1>2 DEF CancelRecord
<1>3. CASE UNCHANGED halt
  BY <1>3 DEF halt
<1>5. ASSUME NEW s \in Starts, Click(s) \/ ClickFailed(s) PROVE HaltType'
  <2>1. UNCHANGED <<stopped, estop, toRead, toCancel>>
    BY <1>5 DEF Click, ClickFailed
  <2>2. \/ UNCHANGED clicksLeft
        \/ clicksLeft' = [clicksLeft EXCEPT ![s] = @ - 1]
    BY <1>5 DEF Click, ClickFailed, Lands
  <2> QED BY <2>1, <2>2
<1>4. \/ Trigger \/ ReadPending \/ Reset \/ Restart \/ UNCHANGED halt
      \/ \E s \in Starts : CancelRecord(s) \/ Click(s) \/ ClickFailed(s)
  BY DEF Next, Step, RoundStarted, Declined, Approved, Reserve, CreateRecord,
         Click, ClickFailed, Confirmed, NotConfirmed, RoundCrashed, KeyExpires,
         GameCrashes, NextRound, CashOutReturns, halt
<1> QED BY <1>1, <1>2, <1>3, <1>4, <1>5

LEMMA DataTypeInv ==
  ASSUME DataType, locked \in BOOLEAN, Next
  PROVE  DataType'
<1> USE LiveBettingAssumption DEF LiveBettingAssumption, DataType
<1>1. ASSUME NEW s \in Starts, RoundStarted(s) \/ Step(s) \/ CancelRecord(s)
      PROVE  DataType'
  <2>1. CASE RoundStarted(s)
    BY <2>1 DEF RoundStarted
  <2>2. CASE Declined(s) \/ Approved(s)
    BY <2>2 DEF Declined, Approved
  <2>3. CASE Reserve(s) \/ CreateRecord(s)
    BY <2>3 DEF Reserve, CreateRecord
  <2>4. CASE Click(s) \/ ClickFailed(s) \/ NotConfirmed(s)
    BY <2>4 DEF Click, ClickFailed, NotConfirmed
  <2>5. CASE Confirmed(s)
    BY <2>5 DEF Confirmed
  <2>6. CASE CancelRecord(s)
    BY <2>6 DEF CancelRecord
  <2> QED BY <1>1, <2>1, <2>2, <2>3, <2>4, <2>5, <2>6 DEF Step
<1>2. ASSUME NEW r \in Rounds,
             RoundCrashed(r) \/ CashOutReturns(r) \/ KeyExpires(r)
      PROVE  DataType'
  BY <1>2 DEF RoundCrashed, CashOutReturns, KeyExpires
<1>3. CASE GameCrashes \/ NextRound \/ Trigger \/ ReadPending \/ Reset
  BY <1>3 DEF GameCrashes, NextRound, Trigger, ReadPending, Reset
<1>4. CASE Restart
  BY <1>4 DEF Restart
<1> QED BY <1>1, <1>2, <1>3, <1>4 DEF Next

-----------------------------------------------------------------------------
(* The clicks after a stop                                                 *)

\* A handler's attempts are those of its place and its count.
LEMMA AttemptsFramed ==
  ASSUME NEW s \in Starts, attempt'[s] = attempt[s],
         \/ pc'[s] = pc[s]
         \/ {pc[s], pc'[s]} \subseteq Inside \ {"confirm"}
         \/ {pc[s], pc'[s]} \cap Inside = {}
  PROVE  AttemptsLeft(s)' = AttemptsLeft(s)
BY DEF AttemptsLeft, Inside, Critical

\* A handler that moves on with its count of attempts and clicks.
LEMMA WorkingStop ==
  ASSUME LockInv, ClickType, HaltType, StopInv, NEW s \in Starts, Working(s)
  PROVE  StopInv'
<1> USE LiveBettingAssumption DEF LiveBettingAssumption
<1>1. /\ attempt[s] \in 0..MaxPlacementRetries /\ attempt \in [Starts -> 0..MaxPlacementRetries]
      /\ clicksLeft \in [Starts -> Int] /\ StopOK(s)
      /\ pc \in [Starts -> Steps] /\ pc[s] \in Critical
  BY WorkingMoves DEF ClickType, HaltType, StopInv, LockInv, LockType, InProgress
<1>2. UNCHANGED stopped
  BY DEF Working, Reserve, CreateRecord, Click, ClickFailed, Confirmed, NotConfirmed, halt
<1>3. ASSUME NEW d \in Starts \ {s} PROVE StopOK(d)'
  <2>1. attempt'[d] = attempt[d] /\ clicksLeft'[d] = clicksLeft[d]
    BY <1>1 DEF Working, Reserve, CreateRecord, Click, ClickFailed, Confirmed, NotConfirmed,
                RetryOrFail, Lands, halt
  <2>2. pc'[d] = pc[d] \/ (pc[d] = "queued" /\ pc'[d] = "reserve")
    BY WorkingMoves DEF OnlyMoves
  <2>3. AttemptsLeft(d)' = AttemptsLeft(d)
    BY <2>1, <2>2, AttemptsFramed DEF Inside, Critical
  <2> QED BY <1>2, <2>1, <2>3 DEF StopOK, StopInv
<1>4. \A result \in {"placed", "failed"} : Returns(s, result) => pc'[s] = result
  BY ReturnsMoves, <1>1 DEF OnlyMoves, InProgress
<1>5. CASE ~stopped
  BY <1>2, <1>3, <1>5 DEF StopInv, StopOK
<1>6. CASE stopped
  <2>1. clicksLeft[s] >= AttemptsLeft(s)
    BY <1>1, <1>6 DEF StopOK
  <2>2. /\ pc[s] \in {"reserve", "create", "click"} =>
               clicksLeft[s] >= MaxPlacementRetries - attempt[s] + 1
        /\ pc[s] = "confirm" => clicksLeft[s] >= MaxPlacementRetries - attempt[s]
    BY <2>1 DEF AttemptsLeft, Inside, Critical
  <2>3. ASSUME Reserve(s) \/ CreateRecord(s) PROVE StopOK(s)'
    <3>1. /\ UNCHANGED <<attempt, clicksLeft>> /\ pc[s] \in {"reserve", "create"}
          /\ pc'[s] \in {"create", "click", "failed"}
      BY <1>1, <1>4, <2>3 DEF Reserve, CreateRecord, Goto, halt
    <3>2. AttemptsLeft(s)' <= MaxPlacementRetries - attempt[s] + 1
      BY <1>1, <3>1 DEF AttemptsLeft, Inside, Critical
    <3> QED BY <1>1, <2>2, <3>1, <3>2 DEF StopOK, AttemptsLeft, Inside, Critical
  <2>4. ASSUME Click(s) PROVE StopOK(s)'
    <3>1. /\ attempt' = attempt /\ pc[s] = "click" /\ pc'[s] = "confirm"
          /\ clicksLeft'[s] = clicksLeft[s] - 1
      BY <1>1, <1>6, <2>4 DEF Click, Lands, Goto
    <3> QED BY <1>1, <2>2, <3>1 DEF StopOK, AttemptsLeft, Inside, Critical
  <2>5. ASSUME RetryOrFail(s), NEW n \in Int, clicksLeft'[s] = n,
               n >= MaxPlacementRetries - attempt[s]
        PROVE  StopOK(s)'
    <3>1. \/ /\ attempt'[s] = attempt[s] + 1 /\ pc'[s] = "click"
          \/ pc'[s] = "failed"
      BY <1>1, <1>4, <2>5 DEF RetryOrFail, Goto
    <3>2. CASE attempt'[s] = attempt[s] + 1 /\ pc'[s] = "click"
      BY <1>1, <2>5, <3>2 DEF StopOK, AttemptsLeft, Inside, Critical
    <3>3. CASE pc'[s] = "failed"
      BY <1>1, <2>5, <3>3 DEF StopOK, AttemptsLeft, Inside, Critical
    <3> QED BY <3>1, <3>2, <3>3
  <2>6. ASSUME ClickFailed(s) PROVE StopOK(s)'
    <3>1. /\ RetryOrFail(s) /\ pc[s] = "click"
          /\ clicksLeft'[s] \in {clicksLeft[s] - 1, clicksLeft[s]}
      BY <1>1, <1>6, <2>6 DEF ClickFailed, Lands
    <3> QED BY <1>1, <2>2, <2>5, <3>1
  <2>7. ASSUME NotConfirmed(s) PROVE StopOK(s)'
    <3>1. RetryOrFail(s) /\ pc[s] = "confirm" /\ clicksLeft'[s] = clicksLeft[s]
      BY <2>7 DEF NotConfirmed, halt
    <3> QED BY <1>1, <2>2, <2>5, <3>1
  <2>8. ASSUME Confirmed(s) PROVE StopOK(s)'
    <3>1. /\ pc'[s] = "placed" /\ UNCHANGED <<attempt, clicksLeft>> /\ pc[s] = "confirm"
      BY <1>4, <2>8 DEF Confirmed, halt
    <3> QED BY <1>1, <2>2, <3>1 DEF StopOK, AttemptsLeft, Inside, Critical
  <2>9. StopOK(s)'
    BY <2>3, <2>4, <2>6, <2>7, <2>8 DEF Working
  <2> QED BY <1>3, <2>9 DEF StopInv
<1> QED BY <1>5, <1>6

\* No other step touches what is left but the first stop and a restart.
LEMMA StopNext ==
  ASSUME Inv, Next
  PROVE  StopInv'
<1>1. LockInv /\ ClickType /\ HaltType /\ StopInv
  BY DEF Inv, ClickInv, RestType
<1>2. ASSUME NEW s \in Starts, Working(s) PROVE StopInv'
  BY <1>1, <1>2, WorkingStop
<1>3. ASSUME NEW s \in Starts, RoundStarted(s) \/ Declined(s) PROVE StopInv'
  <2>1. /\ UNCHANGED <<attempt, stopped, clicksLeft>>
        /\ \A d \in Starts : pc'[d] = pc[d] \/ {pc[d], pc'[d]} \cap Inside = {}
    BY <1>1, <1>3 DEF RoundStarted, Declined, halt, LockInv, LockType, Inside, Critical
  <2>2. \A d \in Starts : AttemptsLeft(d)' = AttemptsLeft(d)
    BY <2>1, AttemptsFramed
  <2> QED BY <1>1, <2>1, <2>2 DEF StopInv, StopOK
<1>4. ASSUME NEW s \in Starts, Approved(s) PROVE StopInv'
  BY <1>4 DEF Approved, halt, StopInv, StopOK
<1>5. CASE Trigger
  <2>1. UNCHANGED <<pc, attempt>>
    BY <1>5 DEF Trigger
  <2>2. \A d \in Starts : AttemptsLeft(d)' = AttemptsLeft(d)
    BY <2>1, AttemptsFramed
  <2>3. CASE stopped
    BY <1>1, <1>5, <2>2, <2>3 DEF Trigger, StopInv, StopOK
  <2>4. CASE ~stopped
    <3>1. \A d \in Starts : clicksLeft'[d] = AttemptsLeft(d)
      BY <1>5, <2>4 DEF Trigger
    <3>2. \A d \in Starts : AttemptsLeft(d) \in Int
      <4>1. \A d \in Starts : MaxPlacementRetries - attempt[d] \in Int
        BY <1>1, LiveBettingAssumption DEF LiveBettingAssumption, ClickType
      <4> QED BY <4>1 DEF AttemptsLeft
    <3>3. \A d \in Starts : clicksLeft'[d] = AttemptsLeft(d)' /\ AttemptsLeft(d)' \in Int
      BY <2>2, <3>1, <3>2
    <3> QED BY <3>3 DEF StopInv, StopOK
  <2> QED BY <2>3, <2>4
<1>6. CASE Restart
  BY <1>6 DEF Restart, StopInv, StopOK
<1>7. CASE UNCHANGED <<pc, attempt, stopped, clicksLeft>>
  <2>1. \A d \in Starts : AttemptsLeft(d)' = AttemptsLeft(d)
    BY <1>7, AttemptsFramed
  <2> QED BY <1>1, <1>7, <2>1 DEF StopInv, StopOK
<1>8. \/ \E s \in Starts : Working(s) \/ RoundStarted(s) \/ Declined(s) \/ Approved(s)
      \/ Trigger \/ Restart
      \/ UNCHANGED <<pc, attempt, stopped, clicksLeft>>
  BY DEF Next, Step, Working, halt, GameCrashes, NextRound, CancelRecord,
         RoundCrashed, CashOutReturns, KeyExpires, ReadPending, Reset
<1> QED BY <1>2, <1>3, <1>4, <1>5, <1>6, <1>7, <1>8

-----------------------------------------------------------------------------
(* The invariant                                                           *)

LEMMA WorkingInv ==
  ASSUME Inv, NEW s \in Starts, Working(s)
  PROVE  LockInv' /\ ClickInv' /\ CashInv'
BY WorkingMoves, WorkingClicks, WorkingCash DEF Inv

\* What happens before a handler is under the mutex.
LEMMA EntryInv ==
  ASSUME Inv, NEW s \in Starts, RoundStarted(s) \/ Declined(s) \/ Approved(s)
  PROVE  LockInv' /\ ClickInv' /\ CashInv'
<1>1. LockInv /\ ClickInv /\ CashInv /\ pc \in [Starts -> Steps]
  BY DEF Inv, LockInv, LockType
<1>2. LockInv'
  <2>1. CASE RoundStarted(s)
    BY <1>1, <2>1, OutsideLock DEF RoundStarted, Inside, Critical, Steps
  <2>2. CASE Declined(s)
    BY <1>1, <2>2, OutsideLock DEF Declined, Inside, Critical, Steps
  <2>3. CASE Approved(s)
    BY <1>1, <2>3, ApprovedLock
  <2> QED BY <2>1, <2>2, <2>3
<1>3. /\ \A d \in Starts \ {s} : pc'[d] = pc[d]
      /\ pc[s] \in {"idle", "deciding"}
      /\ pc'[s] \in {"deciding", "failed", "queued", "reserve"}
      /\ UNCHANGED <<clicks, attempt, cashOuts, openLiveBets>>
  BY <1>1 DEF RoundStarted, Declined, Approved
<1>4. ClickInv'
  BY <1>1, <1>3 DEF ClickInv, ClickType, ClicksBounded, ClickOK
<1>5. CashInv'
  BY <1>1, <1>3, CashFramed
<1> QED BY <1>2, <1>4, <1>5

\* Steps that leave the handlers alone.
LEMMA ElsewhereInv ==
  ASSUME Inv, UNCHANGED <<pc, mutex, clicks, attempt>>
  PROVE  LockInv' /\ ClickInv'
BY DEF Inv, LockInv, LockType, OnePlacementAtATime, InProgress, QueueOK, mutex,
       ClickInv, ClickType, ClicksBounded, ClickOK

LEMMA RestartInv ==
  ASSUME Inv, Restart
  PROVE  LockInv' /\ ClickInv' /\ CashInv'
<1> USE LiveBettingAssumption DEF LiveBettingAssumption
<1>1. LockInv /\ ClickInv /\ CashInv
  BY DEF Inv
<1>2. LockInv'
  BY <1>1, RestartLock
<1>3. \A d \in Starts : /\ pc'[d] \notin Critical
                        /\ pc'[d] = "placed" <=> pc[d] = "placed"
  BY DEF Restart, Inside, Critical
<1>4. ClickInv'
  BY <1>1, <1>3 DEF ClickInv, ClickType, ClicksBounded, ClickOK, Critical, Restart
<1>5. CashInv'
  <2>1. CashType'
    BY DEF Restart, CashType
  <2>2. ASSUME NEW r \in Rounds PROVE CashOK(r)'
    <3>1. Placed(r)' = Placed(r) /\ IsFiniteSet(Placed(r))
      BY <1>1, <1>3 DEF Placed, CashInv, CashOK
    <3>2. Cardinality(Placed(r)) \in Nat
      BY <3>1, FS_CardinalityType
    <3>3. cashOuts'[r] = 0 /\ r \notin openLiveBets'
      BY DEF Restart
    <3> QED BY <3>1, <3>2, <3>3 DEF CashOK
  <2> QED BY <2>1, <2>2 DEF CashInv
<1> QED BY <1>2, <1>4, <1>5

LEMMA NextInv == Inv /\ [Next]_vars => Inv'
<1> SUFFICES ASSUME Inv, [Next]_vars PROVE Inv'
  OBVIOUS
<1>1. CASE UNCHANGED vars
  <2>1. /\ UNCHANGED <<pc, mutex, clicks, attempt>>
        /\ UNCHANGED <<cashOuts, openLiveBets>>
        /\ RestType' /\ StopInv'
    BY <1>1 DEF vars, game, halt, mutex, Inv, RestType, GameType, HaltType,
                DataType, StopInv, StopOK, AttemptsLeft
  <2> QED BY <2>1, ElsewhereInv, CashFramed DEF Inv
<1>2. CASE Next
  <2>1. RestType'
    BY <1>2, GameTypeInv, HaltTypeInv, DataTypeInv
    DEF Inv, RestType, LockInv, LockType, ClickInv
  <2>2. ASSUME NEW s \in Starts, RoundStarted(s) \/ Step(s)
        PROVE  LockInv' /\ ClickInv' /\ CashInv'
    BY <2>2, EntryInv, WorkingInv DEF Step, Working
  <2>3. ASSUME NEW r \in Rounds, RoundCrashed(r)
        PROVE  LockInv' /\ ClickInv' /\ CashInv'
    BY <2>3, ElsewhereInv, RoundCrashedCash DEF RoundCrashed, Inv
  <2>4. ASSUME \/ GameCrashes \/ NextRound \/ Trigger \/ ReadPending \/ Reset
               \/ \E s \in Starts : CancelRecord(s)
               \/ \E r \in Rounds : CashOutReturns(r) \/ KeyExpires(r)
        PROVE  LockInv' /\ ClickInv' /\ CashInv'
    <3>1. /\ UNCHANGED <<pc, mutex, clicks, attempt>>
          /\ UNCHANGED <<cashOuts, openLiveBets>>
      BY <2>4 DEF GameCrashes, NextRound, Trigger, ReadPending, Reset,
                  CancelRecord, CashOutReturns, KeyExpires
    <3> QED BY <3>1, ElsewhereInv, CashFramed DEF Inv
  <2>5. ASSUME Restart PROVE LockInv' /\ ClickInv' /\ CashInv'
    BY <2>5, RestartInv
  <2>6. LockInv' /\ ClickInv' /\ CashInv'
    <3>1. \/ \E s \in Starts : RoundStarted(s) \/ Step(s)
          \/ \E r \in Rounds : RoundCrashed(r)
          \/ GameCrashes \/ NextRound \/ Trigger \/ ReadPending \/ Reset
          \/ \E s \in Starts : CancelRecord(s)
          \/ \E r \in Rounds : CashOutReturns(r) \/ KeyExpires(r)
          \/ Restart
      BY <1>2 DEF Next
    <3> QED BY <2>2, <2>3, <2>4, <2>5, <3>1
  <2> QED BY <1>2, <2>1, <2>6, StopNext DEF Inv
<1> QED BY <1>1, <1>2

LEMMA InitInv == Init => Inv
<1> SUFFICES ASSUME Init PROVE Inv
  OBVIOUS
<1> USE LiveBettingAssumption DEF Init, LiveBettingAssumption
<1>1. LockInv
  <2>1. queue \in Seq(Starts)
    BY EmptySeq
  <2>2. LockType
    BY <2>1 DEF LockType, Steps
  <2>3. \A s \in Starts : ~InProgress(s)
    BY DEF InProgress, Critical
  <2>4. OnePlacementAtATime
    BY <2>3 DEF OnePlacementAtATime
  <2>5. QueueOK
    BY DEF QueueOK
  <2> QED BY <2>2, <2>4, <2>5 DEF LockInv
<1>2. ClickInv
  BY DEF ClickInv, ClickType, ClicksBounded, ClickOK
<1>3. CashInv
  <2>1. \A r \in Rounds : Placed(r) = {}
    BY DEF Placed
  <2>2. IsFiniteSet({}) /\ Cardinality({}) = 0
    BY FS_EmptySet
  <2>3. ASSUME NEW r \in Rounds PROVE CashOK(r)
    <3>1. IsFiniteSet(Placed(r)) /\ Cardinality(Placed(r)) = 0
      BY <2>1, <2>2
    <3>2. cashOuts[r] = 0 /\ r \notin openLiveBets
      OBVIOUS
    <3> QED BY <3>1, <3>2 DEF CashOK
  <2> QED BY <2>3 DEF CashInv, CashType
<1>4. RestType
  <2>1. clicksLeft \in [Starts -> Int]
    <3>1. clicksLeft = [s \in Starts |-> 0]
      OBVIOUS
    <3> QED BY <3>1
  <2>2. GameType /\ DataType
    BY DEF GameType, DataType
  <2>3. HaltType
    BY <2>1 DEF HaltType
  <2> QED BY <2>2, <2>3 DEF RestType
<1>5. StopInv
  BY DEF StopInv, StopOK
<1> QED BY <1>1, <1>2, <1>3, <1>4, <1>5 DEF Inv

LEMMA Invariant == Spec => []Inv
BY InitInv, NextInv, PTL DEF Spec

-----------------------------------------------------------------------------

\* The bridge, the executors, the emergency stop, the page and the records
\* keep their types; no handler tries more often than it may.
THEOREM TypeCorrect == Spec => []TypeOK
<1>1. Inv => TypeOK
  BY DEF Inv, TypeOK, LockInv, LockType, ClickInv, ClickType, CashInv, CashType,
         RestType, GameType, HaltType, DataType
<1> QED BY <1>1, Invariant, PTL

\* However many rounds are announced, and however often, one handler at a
\* time is on the page, and the mutex is held exactly while one is.
THEOREM OneHandlerOnThePage == Spec => []OnePlacementAtATime
BY Invariant, PTL DEF Inv, LockInv

\* A round is clicked for no more often than one call may try, although the
\* key may expire under the call and the round be announced again.
THEOREM ClicksOfARound == Spec => []ClicksBounded
BY Invariant, PTL DEF Inv, ClickInv

\* No crash event, repeated or not, starts a cash-out that no placement
\* answers for.
THEOREM CashOutsOfARound == Spec => []CashOutsAnswerPlacements
<1>1. Inv => CashOutsAnswerPlacements
  <2> SUFFICES ASSUME Inv, NEW r \in Rounds
               PROVE  cashOuts[r] <= Cardinality(Placed(r))
    BY DEF CashOutsAnswerPlacements, Placed
  <2>1. CashOK(r) /\ cashOuts[r] \in Nat
    BY DEF Inv, CashInv, CashType
  <2>2. Cardinality(Placed(r)) \in Nat
    BY <2>1, FS_CardinalityType DEF CashOK
  <2> QED BY <2>1, <2>2 DEF CashOK
<1> QED BY <1>1, Invariant, PTL

\* After a stop a call that had entered placeLiveBet clicks no more often
\* than it had attempts left, and no other call clicks at all.
THEOREM LateClicks == Spec => []LateClicksBounded
<1>1. Inv => LateClicksBounded
  <2> SUFFICES ASSUME Inv, stopped, NEW s \in Starts PROVE clicksLeft[s] >= 0
    BY DEF LateClicksBounded
  <2>1. /\ attempt[s] \in 0..MaxPlacementRetries /\ clicksLeft[s] \in Int
        /\ clicksLeft[s] >= AttemptsLeft(s)
    BY DEF Inv, ClickInv, ClickType, RestType, HaltType, StopInv, StopOK
  <2>2. AttemptsLeft(s) \in Nat
    <3>1. MaxPlacementRetries - attempt[s] \in Nat
      BY <2>1, LiveBettingAssumption DEF LiveBettingAssumption
    <3> QED BY <3>1 DEF AttemptsLeft
  <2> QED BY <2>1, <2>2
<1> QED BY <1>1, Invariant, PTL

=============================================================================
