------------------------------ MODULE Notices -------------------------------
(***************************************************************************)
(* What the system says and whom it listens to.  Four independent parts:   *)
(*   - the throttle in front of Telegram (telegram/throttle.ts), one       *)
(*     severity with a policy that batches, and critical notices;          *)
(*   - the alert log (observability/alerts/live-alerts.ts), fed by the     *)
(*     health checks (observability/health/live-checks.ts);                *)
(*   - the Telegram gateway with its middleware: identity, rate limit,     *)
(*     routing (telegram/gateway.ts, auth.ts, router.ts);                  *)
(*   - the health monitor's verdict (observability/health/monitor.ts).     *)
(* What a command does to the system is OperatorControl's.                 *)
(***************************************************************************)
EXTENDS Naturals, Sequences, FiniteSets

LOCAL INSTANCE Functions

CONSTANTS MaxNotices,    \* bound: notices submitted
          MinuteLimit, HourLimit,   \* of the policy
          Components,    \* components with a health
          MaxHistory,    \* alerts kept (500)
          AlertLimit,    \* alerts a minute (30)
          DegradedLimit, \* degradationThreshold (3)
          MaxMinutes,    \* bound: the clock of the alerts
          Senders,       \* Telegram users
          CommandLimit,  \* messages a minute and user (30)
          MaxLaunches    \* attempts to launch (5)

ASSUME NoticeAssumption ==
  /\ {MaxNotices, MinuteLimit, HourLimit, MaxHistory, AlertLimit, DegradedLimit, MaxMinutes,
      CommandLimit} \subseteq Nat
  /\ MaxLaunches \in Nat \ {0}

VARIABLES submitted,     \* notices, numbered in the order submitted
          waiting,       \* what is in state.pending, in the order of the numbers
          noticeTimer,   \* state.timer # null
          deliveries,    \* batches whose onSend is awaited
          sent, dropped, \* notices sent, and reported to onDrop
          merged,        \* duplicates left out of a batch
          hourCount,     \* state.count
          throttleOff,   \* stopped
          minute,        \* minutes passed
          alertLog,      \* alertHistory
          alertKeys,     \* recentAlertKeys: minute of the last alert, by key
          alertCount, alertWindow,   \* alertCountThisMinute, rateLimitWindowStart
          toAlert,       \* alerts handlers are about to send
          degradedRuns,  \* consecutiveDegraded
          gateway,       \* "down", "launching", "up"
          launches,      \* attempts of launchPolling so far
          heard,         \* messages in each user's window
          routed         \* commands handled in each user's window

throttleVars == <<submitted, waiting, noticeTimer, deliveries, sent, dropped, merged, hourCount,
                  throttleOff>>
alertVars == <<minute, alertLog, alertKeys, alertCount, alertWindow, toAlert, degradedRuns>>
gatewayVars == <<gateway, launches, heard, routed>>
noticeVars == <<throttleVars, alertVars, gatewayVars>>
-----------------------------------------------------------------------------
(* The throttle.  Every other notice repeats the one two before.           *)
Says(n) == n % 2

ThrottleInit ==
  /\ submitted = 0 /\ waiting = {} /\ noticeTimer = FALSE /\ deliveries = {}
  /\ sent = {} /\ dropped = {} /\ merged = {} /\ hourCount = 0 /\ throttleOff = FALSE

Submits == submitted < MaxNotices /\ submitted' = submitted + 1

SubmitStopped ==
  /\ throttleOff /\ Submits /\ dropped' = dropped \cup {submitted'}
  /\ UNCHANGED <<waiting, noticeTimer, deliveries, sent, merged, hourCount, throttleOff>>

(* Critical notices pass everything; a failure is the caller's.            *)
SubmitCritical ==
  /\ ~throttleOff /\ Submits
  /\ deliveries' = deliveries \cup {[batch |-> {submitted'}, critical |-> TRUE]}
  /\ UNCHANGED <<waiting, noticeTimer, sent, dropped, merged, hourCount, throttleOff>>

(* How much of the count falls into the last minute is an approximation    *)
(* between nothing and all of it; the hour's window starts afresh with a   *)
(* submission.                                                             *)
RateAllows(count, thisMinute) ==
  /\ thisMinute + Cardinality(waiting) < MinuteLimit
  /\ count + Cardinality(waiting) < HourLimit

Submit ==
  /\ ~throttleOff /\ Submits
  /\ \E count \in {0, hourCount} : \E thisMinute \in 0..count :
       /\ hourCount' = count
       /\ IF RateAllows(count, thisMinute)
          THEN /\ waiting' = waiting \cup {submitted'} /\ noticeTimer' = TRUE
               /\ UNCHANGED dropped
          ELSE dropped' = dropped \cup {submitted'} /\ UNCHANGED <<waiting, noticeTimer>>
  /\ UNCHANGED <<deliveries, sent, merged, throttleOff>>

FirstOfItsKind(batch) ==
  {n \in batch : \A k \in batch : Says(k) = Says(n) => k >= n}

(* flush(), by the timer or, for everything, flushAll(), which leaves the  *)
(* timer armed.                                                            *)
FlushNotices ==
  /\ waiting # {}
  /\ \/ noticeTimer /\ noticeTimer' = FALSE
     \/ UNCHANGED noticeTimer
  /\ waiting' = {}
  /\ deliveries' = deliveries \cup {[batch |-> FirstOfItsKind(waiting), critical |-> FALSE]}
  /\ merged' = merged \cup (waiting \ FirstOfItsKind(waiting))
  /\ UNCHANGED <<submitted, sent, dropped, hourCount, throttleOff>>

IdleTimer ==
  /\ noticeTimer /\ waiting = {} /\ noticeTimer' = FALSE
  /\ UNCHANGED <<submitted, waiting, deliveries, sent, dropped, merged, hourCount, throttleOff>>

(* The pending list was emptied before the batch was sent; EmptiedNow is a *)
(* mutant that does it afterwards.                                         *)
EmptiedNow == {}
AfterSending == waiting

Delivered(d) ==
  /\ d \in deliveries /\ deliveries' = deliveries \ {d}
  /\ sent' = sent \cup d.batch /\ waiting' = AfterSending
  /\ hourCount' = IF d.critical THEN hourCount ELSE hourCount + Cardinality(d.batch)
  /\ UNCHANGED <<submitted, noticeTimer, dropped, merged, throttleOff>>

DeliveryFails(d) ==
  /\ d \in deliveries /\ deliveries' = deliveries \ {d}
  /\ dropped' = dropped \cup d.batch
  /\ UNCHANGED <<submitted, waiting, noticeTimer, sent, merged, hourCount, throttleOff>>

StopThrottle ==
  /\ throttleOff' = TRUE /\ noticeTimer' = FALSE
  /\ waiting' = {} /\ dropped' = dropped \cup waiting
  /\ UNCHANGED <<submitted, deliveries, sent, merged, hourCount>>

ThrottleNext ==
  \/ SubmitStopped \/ SubmitCritical \/ Submit \/ FlushNotices \/ IdleTimer \/ StopThrottle
  \/ \E d \in deliveries : Delivered(d) \/ DeliveryFails(d)
-----------------------------------------------------------------------------
(* Alerts.  A key is the severity and the component.                       *)
AlertKinds == {"warning", "critical"} \X Components
NoMinute == MaxMinutes + 1
HealthOf ==   \* at most one is unhealthy at a check
  {h \in [Components -> {"healthy", "degraded", "critical"}] :
     Cardinality({c \in Components : h[c] # "healthy"}) <= 1}

AlertInit ==
  /\ minute = 0 /\ alertLog = <<>> /\ alertKeys = [k \in AlertKinds |-> NoMinute]
  /\ alertCount = 0 /\ alertWindow = 0 /\ toAlert = {} /\ degradedRuns = 0

MinutePasses ==
  /\ minute < MaxMinutes /\ minute' = minute + 1
  /\ UNCHANGED <<alertLog, alertKeys, alertCount, alertWindow, toAlert, degradedRuns>>

(* One cycle of the checks; three unhealthy ones in a row make the report  *)
(* critical, whatever the components are.                                  *)
OverallOf(health) ==
  IF "critical" \in Range(health) THEN "critical"
  ELSE IF "degraded" \in Range(health) THEN "degraded" ELSE "healthy"

AlertsFor(health) ==
  {<<"warning", c>> : c \in {d \in Components : health[d] = "degraded"}}
    \cup {<<"critical", c>> : c \in {d \in Components : health[d] = "critical"}}

RunCheck(health) ==
  /\ degradedRuns' = IF OverallOf(health) = "healthy" THEN 0
                     ELSE IF degradedRuns < DegradedLimit THEN degradedRuns + 1 ELSE DegradedLimit
  /\ toAlert' = toAlert \cup AlertsFor(health)
  /\ UNCHANGED <<minute, alertLog, alertKeys, alertCount, alertWindow>>

(* A reconciliation, a recovery or an emergency stop reports.              *)
OnResult(k) ==
  /\ toAlert' = toAlert \cup {k}
  /\ UNCHANGED <<minute, alertLog, alertKeys, alertCount, alertWindow, degradedRuns>>

(* pruneRateLimit: a minute after the window began.                        *)
WindowOver == minute - alertWindow >= 1
CountNow == IF WindowOver THEN 0 ELSE alertCount

Recent(k) == alertKeys[k] # NoMinute /\ minute - alertKeys[k] < 1
(* A mutant: keys are not remembered.                                      *)
ForgetKey(k) == alertKeys
RememberKey(k) == [alertKeys EXCEPT ![k] = minute]

SendAlert(k) ==
  /\ k \in toAlert /\ toAlert' = toAlert \ {k}
  /\ alertWindow' = IF WindowOver THEN minute ELSE alertWindow
  /\ IF CountNow >= AlertLimit \/ Recent(k)
     THEN alertCount' = CountNow /\ UNCHANGED <<alertLog, alertKeys>>
     ELSE /\ alertCount' = CountNow + 1
          /\ alertKeys' = RememberKey(k)
          /\ LET log == Append(alertLog, [kind |-> k, at |-> minute, seen |-> FALSE]) IN
             alertLog' = IF Len(log) > MaxHistory THEN Tail(log) ELSE log
  /\ UNCHANGED <<minute, degradedRuns>>

AcknowledgeAlert(i) ==
  /\ ~alertLog[i].seen /\ alertLog' = [alertLog EXCEPT ![i].seen = TRUE]
  /\ UNCHANGED <<minute, alertKeys, alertCount, alertWindow, toAlert, degradedRuns>>

ClearHistory ==
  /\ alertLog' = <<>> /\ alertKeys' = [k \in AlertKinds |-> NoMinute] /\ alertCount' = 0
  /\ UNCHANGED <<minute, alertWindow, toAlert, degradedRuns>>

AlertNext ==
  \/ MinutePasses \/ ClearHistory
  \/ \E health \in HealthOf : RunCheck(health)
  \/ \E k \in AlertKinds : OnResult(k) \/ SendAlert(k)
  \/ \E i \in 1..Len(alertLog) : AcknowledgeAlert(i)
-----------------------------------------------------------------------------
(* The gateway.  launchPolling tries again after a conflict (409) with     *)
(* another poller; updates are handled as soon as the bot polls.           *)
GatewayInit ==
  /\ gateway = "down" /\ launches = 0
  /\ heard = [u \in Senders |-> 0] /\ routed = [u \in Senders |-> 0]

(* start() makes a new bot, with new counts; it is refused only while      *)
(* isRunning.                                                              *)
GatewayStart ==
  /\ gateway = "down" /\ gateway' = "launching" /\ launches' = 1
  /\ heard' = [u \in Senders |-> 0] /\ routed' = [u \in Senders |-> 0]

LaunchPolling ==
  /\ gateway = "launching"
  /\ \/ gateway' = "up" /\ UNCHANGED launches
     \/ launches < MaxLaunches /\ launches' = launches + 1 /\ UNCHANGED gateway
     \/ gateway' = "down" /\ UNCHANGED launches
  /\ UNCHANGED <<heard, routed>>

(* stop() does nothing before isRunning.                                   *)
GatewayStop == gateway = "up" /\ gateway' = "down" /\ UNCHANGED <<launches, heard, routed>>

(* An identified user in a private chat; whether it is an administrator is *)
(* noted, and asked by no command.                                         *)
Admitted == Senders

(* Every message counts against the limit, a refused one too.              *)
Message(u, route) ==
  /\ gateway # "down"
  /\ heard' = [heard EXCEPT ![u] = IF @ > CommandLimit THEN @ ELSE @ + 1]
  /\ routed' = [routed EXCEPT ![u] = IF heard'[u] > CommandLimit THEN @ ELSE @ + route]
  /\ UNCHANGED <<gateway, launches>>

(* The router counts commands only, and again.                             *)
RouterAllows(u) == routed[u] < CommandLimit
Command(u) == Message(u, IF RouterAllows(u) THEN 1 ELSE 0)
LoginReply(u) == Message(u, 0)

(* The two windows begin with a message each, and so end apart.            *)
NextMinute(u) ==
  /\ \/ heard[u] > 0 /\ heard' = [heard EXCEPT ![u] = 0] /\ UNCHANGED routed
     \/ routed[u] > 0 /\ routed' = [routed EXCEPT ![u] = 0] /\ UNCHANGED heard
  /\ UNCHANGED <<gateway, launches>>

GatewayNext ==
  \/ GatewayStart \/ LaunchPolling \/ GatewayStop
  \/ \E u \in Admitted : Command(u) \/ LoginReply(u) \/ NextMinute(u)
-----------------------------------------------------------------------------
(* The monitor's fold over its checks, and what it should come to.         *)
Statuses4 == <<"OK", "UNKNOWN", "DEGRADED", "FAILING">>
WorseOf(worst, status) ==
  IF status = "FAILING" THEN "FAILING"
  ELSE IF status = "DEGRADED" /\ worst # "FAILING" THEN "DEGRADED"
  ELSE IF status = "UNKNOWN" /\ worst = "OK" THEN "UNKNOWN"
  ELSE worst
WorstStatus(checks) ==
  LET worst[i \in 0..Len(checks)] == IF i = 0 THEN "OK" ELSE WorseOf(worst[i - 1], checks[i])
  IN worst[Len(checks)]
Severity(status) == CHOOSE i \in 1..4 : Statuses4[i] = status
-----------------------------------------------------------------------------
NoticeInit == ThrottleInit /\ AlertInit /\ GatewayInit

NoticeTypeOK ==
  /\ submitted \in 0..MaxNotices /\ Cardinality(waiting) < MinuteLimit + 1 /\ noticeTimer \in BOOLEAN
  /\ sent \cup dropped \cup merged \subseteq 1..submitted /\ throttleOff \in BOOLEAN
  /\ minute \in 0..MaxMinutes /\ Len(alertLog) <= MaxHistory /\ toAlert \subseteq AlertKinds
  /\ alertCount <= AlertLimit /\ degradedRuns \in 0..DegradedLimit
  /\ gateway \in {"down", "launching", "up"} /\ launches \in 0..MaxLaunches
  /\ \A u \in Senders : heard[u] <= CommandLimit + 1 /\ routed[u] <= CommandLimit

(* Every notice is in exactly one place: waiting, on its way, sent,        *)
(* reported as dropped, or left out for another one that says the same.    *)
(* What waits has a timer.  (throttle.ts submit, flush, stop)              *)
NoticesAccounted ==
  LET flying == UNION {d.batch : d \in deliveries}
      places == <<waiting, flying, sent, dropped, merged>>
  IN
  /\ 1..submitted = UNION {places[i] : i \in 1..5}
  /\ \A i, j \in 1..5 : i # j => places[i] \cap places[j] = {}
  /\ \A d, e \in deliveries : d # e => d.batch \cap e.batch = {}
  /\ \A n \in merged : \E k \in flying \cup sent \cup dropped : k < n /\ Says(k) = Says(n)
  /\ waiting # {} => noticeTimer /\ ~throttleOff

(* Two alerts of one kind are a minute apart and no window has more than   *)
(* its limit, whichever handlers alert.  (live-alerts.ts sendAlert)        *)
AlertsPaced ==
  /\ \A i, j \in 1..Len(alertLog) :
       i < j /\ alertLog[i].kind = alertLog[j].kind => alertLog[j].at - alertLog[i].at >= 1
  /\ Cardinality({i \in DOMAIN alertLog : alertLog[i].at >= alertWindow}) <= AlertLimit

(* The monitor's verdict is the worst of its checks', whatever their order.*)
(* (monitor.ts runChecks)                                                  *)
WorstIsWorst ==
  \A checks \in UNION {[1..n -> Range(Statuses4)] : n \in 0..3} :
    /\ \A i \in DOMAIN checks : Severity(WorstStatus(checks)) >= Severity(checks[i])
    /\ WorstStatus(checks) \in Range(checks) \cup {"OK"}
=============================================================================
