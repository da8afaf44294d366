------------------------------- MODULE JobQueue -------------------------------
(***************************************************************************)
(* The job queue of a process and the offload that feeds it                *)
(* (core/job-queue): buckets by priority (three of the five), one handler  *)
(* at a time, retries with a doubling delay, one timer for all.  Beside it *)
(* the circuit breaker of utils/retry.ts, whose calls overlap.  Time is    *)
(* counted in retry delays (retryBaseMs), the breaker's in parts of its    *)
(* reset time.                                                             *)
(***************************************************************************)
EXTENDS Naturals, Sequences

CONSTANTS Jobs, JobAttempts,      \* the jobs of a run; maxAttempts of what is not critical: 3
          ShedDepth, QueueDepth,  \* maxQueueDepth of the offload: 500; maxDepth: 10000
          MaxJobTime,             \* bound: the time of a run
          BreakAfter, HalfOpenCalls, ResetTime,   \* of the breaker: 5, 3, 30 s
          MaxCalls                \* bound: calls at a time through the breaker

ASSUME JobQueueAssumption ==
  /\ {JobAttempts, BreakAfter, HalfOpenCalls, ResetTime, MaxJobTime} \subseteq Nat \ {0}
  /\ {ShedDepth, QueueDepth, MaxCalls} \subseteq Nat /\ "none" \notin Jobs

VARIABLES jobNow, buckets,  \* the time; the jobs that wait, by priority
          job,              \* of every job: priority, attempts, availableAt and what became of it
          inHandler,        \* the job its handler runs for, "none"
          retryTimer        \* when it fires, 0: not armed
VARIABLES breaker, failures,       \* CircuitBreaker: state, failures
          sinceFailure,            \* the time since lastFailureTime, up to ResetTime, or NeverFailed
          halfOpenCalls, admitted, \* the calls that ended well half open; those under way
          callsMet                 \* history: two calls were under way at a time

queueVars == <<jobNow, buckets, job, inHandler, retryTimer>>
breakerVars == <<breaker, failures, sinceFailure, halfOpenCalls, admitted, callsMet>>

NeverFailed == ResetTime + 1
Priorities == {"critical", "normal", "background"}
MoreUrgent == [critical |-> {}, normal |-> {"critical"}, background |-> {"critical", "normal"}]
AttemptsOf(p) == IF p = "critical" THEN 1 ELSE JobAttempts

JobQueueInit ==
  /\ jobNow = 1 /\ buckets = [p \in Priorities |-> <<>>]
  /\ job = [j \in Jobs |->
              [priority |-> "background", attempts |-> 0, availableAt |-> 0, is |-> "new",
               behind |-> FALSE]]
  /\ inHandler = "none" /\ retryTimer = 0
  /\ breaker = "CLOSED" /\ failures = 0 /\ sinceFailure = NeverFailed /\ halfOpenCalls = 0
  /\ admitted = 0 /\ callsMet = FALSE

Depth == Len(buckets["critical"]) + Len(buckets["normal"]) + Len(buckets["background"])

Without(s, k) == SubSeq(s, 1, k - 1) \o SubSeq(s, k + 1, Len(s))

(* dequeue and pump: if the one slot is free, the first job that is due in *)
(* the most urgent bucket that has one is taken, and its attempt counts.   *)
Pumped(waiting, jobs, busy) ==
  LET due(p) == {k \in 1..Len(waiting[p]) : jobs[waiting[p][k]].availableAt <= jobNow}
      first(p) == {k \in due(p) : \A i \in due(p) : k <= i}
      urgent == {p \in Priorities : due(p) # {} /\ \A q \in MoreUrgent[p] : due(q) = {}}
  IN IF busy # "none" \/ urgent = {}
     THEN buckets' = waiting /\ job' = jobs /\ inHandler' = busy
     ELSE \E p \in urgent : \E k \in first(p) :
            LET j == waiting[p][k] IN
            /\ buckets' = [waiting EXCEPT ![p] = Without(@, k)]
            /\ job' = [jobs EXCEPT ![j] = [@ EXCEPT !.attempts = jobs[j].attempts + 1, !.is = "running"]]
            /\ inHandler' = j
-----------------------------------------------------------------------------
(* enqueue: the offload sheds background work over its own limit, the      *)
(* queue throws over the other; the rest waits, and is pumped at once.     *)
Enqueue(j, p) ==
  /\ job[j].is = "new"
  /\ IF (Depth >= ShedDepth /\ p = "background") \/ Depth >= QueueDepth
     THEN /\ job' = [job EXCEPT ![j] = [@ EXCEPT !.is = "refused", !.priority = p]]
          /\ UNCHANGED <<buckets, inHandler>>
     ELSE Pumped([buckets EXCEPT ![p] = Append(@, j)],
                 [job EXCEPT ![j] = [@ EXCEPT !.is = "waiting", !.priority = p, !.availableAt = jobNow]],
                 inHandler)
  /\ UNCHANGED <<jobNow, retryTimer>>

HandlerSucceeds ==
  /\ inHandler # "none"
  /\ Pumped(buckets, [job EXCEPT ![inHandler].is = "done"], "none")
  /\ UNCHANGED <<jobNow, retryTimer>>

(* A job that has attempts left waits again, behind the others, with no    *)
(* look at the depth, and the timer is armed unless it is already; one     *)
(* that has none is dropped: the offload gives no dead-letter hook.        *)
(* DropOnFailure is a mutant: the retry is never pushed.                   *)
PushAgain(j) == [buckets EXCEPT ![job[j].priority] = Append(@, j)]
DropOnFailure(j) == buckets
WaitAgain(j) == PushAgain(j)

HandlerFails ==
  /\ inHandler # "none"
  /\ LET j == inHandler
         due == jobNow + 2 ^ (job[j].attempts - 1)
     IN IF job[j].attempts < AttemptsOf(job[j].priority)
        THEN /\ Pumped(WaitAgain(j),
                       [job EXCEPT ![j] = [@ EXCEPT !.is = "waiting", !.availableAt = due,
                                                    !.behind = retryTimer # 0 /\ retryTimer < due]],
                       "none")
             /\ retryTimer' = IF retryTimer = 0 THEN due ELSE retryTimer
        ELSE /\ Pumped(buckets, [job EXCEPT ![j].is = "dropped"], "none")
             /\ UNCHANGED retryTimer
  /\ UNCHANGED jobNow

RetryTimerFires ==
  /\ retryTimer # 0 /\ retryTimer <= jobNow
  /\ retryTimer' = 0
  /\ Pumped(buckets, job, inHandler)
  /\ UNCHANGED jobNow

JobTimePasses ==
  /\ jobNow < MaxJobTime /\ jobNow' = jobNow + 1
  /\ UNCHANGED <<buckets, job, inHandler, retryTimer>>

QueueNext ==
  \/ HandlerSucceeds \/ HandlerFails \/ RetryTimerFires \/ JobTimePasses
  \/ \E j \in Jobs, p \in Priorities : Enqueue(j, p)
-----------------------------------------------------------------------------
(* withCircuitBreaker asks canExecute, which half opens an open circuit    *)
(* when its time is over, and counts nothing.                              *)
CallAdmitted ==
  /\ admitted < MaxCalls
  /\ \/ breaker = "CLOSED" /\ UNCHANGED <<breaker, halfOpenCalls>>
     \/ /\ breaker = "OPEN" /\ sinceFailure = ResetTime
        /\ breaker' = "HALF_OPEN" /\ halfOpenCalls' = 0
     \/ breaker = "HALF_OPEN" /\ halfOpenCalls < HalfOpenCalls /\ UNCHANGED <<breaker, halfOpenCalls>>
  /\ admitted' = admitted + 1 /\ callsMet' = (callsMet \/ admitted > 0)
  /\ UNCHANGED <<failures, sinceFailure>>

(* recordSuccess, which takes an open circuit for a closed one.            *)
CallSucceeds ==
  /\ admitted > 0 /\ admitted' = admitted - 1
  /\ IF breaker = "HALF_OPEN" /\ halfOpenCalls + 1 < HalfOpenCalls
     THEN halfOpenCalls' = halfOpenCalls + 1 /\ UNCHANGED <<breaker, failures, sinceFailure>>
     ELSE /\ halfOpenCalls' = IF breaker = "HALF_OPEN" THEN halfOpenCalls + 1 ELSE halfOpenCalls
          /\ breaker' = IF breaker = "HALF_OPEN" THEN "CLOSED" ELSE breaker
          /\ failures' = 0 /\ sinceFailure' = NeverFailed
  /\ UNCHANGED callsMet

(* recordFailure; the count of an open circuit goes on, here to BreakAfter.*)
CallFails ==
  /\ admitted > 0 /\ admitted' = admitted - 1
  /\ sinceFailure' = 0
  /\ failures' = IF breaker = "HALF_OPEN" \/ failures = BreakAfter THEN failures ELSE failures + 1
  /\ breaker' = IF breaker = "HALF_OPEN" \/ failures' = BreakAfter THEN "OPEN" ELSE breaker
  /\ UNCHANGED <<halfOpenCalls, callsMet>>

BreakerWaits ==
  /\ sinceFailure \in 0..ResetTime - 1 /\ sinceFailure' = sinceFailure + 1
  /\ UNCHANGED <<breaker, failures, halfOpenCalls, admitted, callsMet>>

BreakerNext == CallAdmitted \/ CallSucceeds \/ CallFails \/ BreakerWaits
-----------------------------------------------------------------------------
JobQueueTypeOK ==
  /\ jobNow \in 1..MaxJobTime /\ retryTimer \in Nat /\ inHandler \in Jobs \cup {"none"}
  /\ buckets \in [Priorities -> Seq(Jobs)]
  /\ job \in [Jobs -> [priority : Priorities, attempts : 0..JobAttempts, availableAt : Nat,
                       is : {"new", "refused", "waiting", "running", "done", "dropped"},
                       behind : BOOLEAN]]
  /\ breaker \in {"CLOSED", "OPEN", "HALF_OPEN"} /\ failures \in 0..BreakAfter
  /\ sinceFailure \in 0..ResetTime \cup {NeverFailed} /\ halfOpenCalls \in 0..HalfOpenCalls
  /\ admitted \in 0..MaxCalls /\ callsMet \in BOOLEAN

PlacesIn(p, j) == {k \in DOMAIN buckets[p] : buckets[p][k] = j}

(* A job that was accepted is in its bucket once, at its handler, done, or *)
(* dropped after all its attempts; a first attempt waits for the slot      *)
(* only; and a retry that waits has something to wake it, unless it was    *)
(* queued behind a timer that was due before it: that timer finds it not   *)
(* due, and none is armed for it.                                          *)
(* (core/job-queue/priority-queue.ts dequeue, scheduleRetryPump, run)      *)
JobsAreKept ==
  \A j \in Jobs :
    LET r == job[j] IN
    /\ (r.is = "running") = (inHandler = j)
    /\ \A p \in Priorities :
         IF r.is = "waiting" /\ p = r.priority
         THEN \E k \in PlacesIn(p, j) : PlacesIn(p, j) = {k}
         ELSE PlacesIn(p, j) = {}
    /\ r.attempts <= AttemptsOf(r.priority)
    /\ r.is = "dropped" => r.attempts = AttemptsOf(r.priority)
    /\ r.is = "waiting" /\ inHandler = "none" =>
         r.attempts > 0 /\ (retryTimer # 0 \/ r.behind)

(* A closed circuit has had fewer failures in a row than open it, and an   *)
(* open one has the time from which it is tried again - unless calls       *)
(* overlapped: a success that comes late clears the time, and the circuit  *)
(* stays open for ever.                                                    *)
(* (utils/retry.ts CircuitBreaker, withCircuitBreaker)                     *)
BreakerRecovers ==
  /\ breaker = "CLOSED" => failures < BreakAfter
  /\ breaker = "OPEN" /\ ~callsMet => sinceFailure # NeverFailed
=============================================================================
