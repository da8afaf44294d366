---------------------------- MODULE BrowserWorker ----------------------------
(***************************************************************************)
(* The browser worker (browser/worker): an HTTP server that owns one       *)
(* browser in another region, its clients, whose calls time out while the  *)
(* server goes on with them, and the circuit that watches its health.      *)
(* Every session command goes through ensureBrowser and an await or two,   *)
(* and nothing keeps two of them apart.  The page and the browser are      *)
(* external; a browser is named by the request that launched it.           *)
(***************************************************************************)
EXTENDS Naturals, Sequences

CONSTANTS Requests,        \* the calls of a run
          ProbeThreshold   \* threshold of the health circuit: 3

ASSUME BrowserWorkerAssumption == 0 \notin Requests /\ ProbeThreshold \in Nat \ {0}

VARIABLES serving,      \* the server: "up", "closing" its browser, "draining", "down"
          command,      \* of every request, until the server is done with it
          handling,     \* where the server is with it
          given,        \* the browser it works with, or closes; 0: none; given[0]: stop()'s
          reply,        \* what its client was told: "none" yet, "ok" or "error"
          browserManager, \* by its browser; 0: null
          browsers,     \* every browser's state
          commandsMet,  \* history: a session command met another, or the stop
          mishap        \* history: a page crashed, or a launch left half a browser
VARIABLES probeFailures, circuitOpen,   \* of the health circuit
          lastProbes    \* history: how the last probes ended, the latest last

workerVars == <<serving, command, handling, given, reply, browserManager, browsers, commandsMet, mishap>>
circuitVars == <<probeFailures, circuitOpen, lastProbes>>

SessionCommands == {"start_session", "classify_login_page", "login", "login without credentials"}
WorkerCommands == SessionCommands \cup {"status", "stop_session"}
AtServer == {"launching", "working", "stopping"}

BrowserWorkerInit ==
  /\ serving = "up" /\ browserManager = 0
  /\ command = [r \in Requests |-> "none"] /\ handling = [r \in Requests |-> "none"]
  /\ given = [r \in Requests \cup {0} |-> 0] /\ reply = [r \in Requests |-> "none"]
  /\ browsers = [r \in Requests |-> "none"]
  /\ commandsMet = FALSE /\ mishap = FALSE
  /\ probeFailures = 0 /\ circuitOpen = FALSE /\ lastProbes = <<>>

Busy == serving = "closing" \/ \E r \in Requests : handling[r] \in AtServer
Alive == {b \in Requests : browsers[b] \in {"launching", "up", "closing", "crashed", "half"}}
-----------------------------------------------------------------------------
(* The client.  Invoke: the request is on its way.  Its timer, or a broken *)
(* connection, answers INTERNAL_ERROR, whatever becomes of the request.    *)
Invoke(r) ==
  /\ command[r] = "none"
  /\ \E c \in WorkerCommands : command' = [command EXCEPT ![r] = c]
  /\ handling' = [handling EXCEPT ![r] = "sent"]
  /\ UNCHANGED <<serving, given, reply, browserManager, browsers, commandsMet, mishap>>

ClientGivesUp(r) ==
  /\ command[r] # "none" /\ reply[r] = "none"
  /\ reply' = [reply EXCEPT ![r] = "error"]
  /\ \/ UNCHANGED <<command, handling>>
     \/ /\ handling[r] = "sent" /\ handling' = [handling EXCEPT ![r] = "over"]
        /\ command' = [command EXCEPT ![r] = "over"]
  /\ UNCHANGED <<serving, given, browserManager, browsers, commandsMet, mishap>>

(* The answer reaches a client that still waits.                           *)
Answer(r, code) ==
  /\ handling' = [handling EXCEPT ![r] = "over"] /\ command' = [command EXCEPT ![r] = "over"]
  /\ given' = [given EXCEPT ![r] = 0]
  /\ reply' = [reply EXCEPT ![r] = IF @ # "none" THEN @ ELSE IF code = "OK" THEN "ok" ELSE "error"]
-----------------------------------------------------------------------------
(* handle and dispatch.  A bad token, path or body is refused, a ping or a *)
(* status answered, before any await that matters.                         *)
RefuseRequest(r) ==
  /\ serving \in {"up", "closing"} /\ handling[r] = "sent"
  /\ \E code \in {"UNAUTHORIZED", "INVALID_REQUEST"} : Answer(r, code)
  /\ UNCHANGED <<serving, browserManager, browsers, commandsMet, mishap>>

Status(r) ==
  /\ serving \in {"up", "closing"} /\ handling[r] = "sent" /\ command[r] = "status"
  /\ Answer(r, "OK")
  /\ UNCHANGED <<serving, browserManager, browsers, commandsMet, mishap>>

(* ensureBrowser: the browser on record if it is launched (a closing one   *)
(* is until its page is gone), else a new one, on record at once.          *)
Reuse(r) ==
  /\ browserManager # 0 /\ browsers[browserManager] \in {"up", "closing"}
  /\ given' = [given EXCEPT ![r] = browserManager] /\ handling' = [handling EXCEPT ![r] = "working"]
  /\ UNCHANGED <<browserManager, browsers>>

LaunchNew(r) ==
  /\ browserManager # 0 => browsers[browserManager] # "up"
  /\ browserManager' = r /\ browsers' = [browsers EXCEPT ![r] = "launching"]
  /\ given' = [given EXCEPT ![r] = r] /\ handling' = [handling EXCEPT ![r] = "launching"]

EnsureBrowser(r) == Reuse(r) \/ LaunchNew(r)

BeginSession(r) ==
  /\ serving \in {"up", "closing"} /\ handling[r] = "sent" /\ command[r] \in SessionCommands
  /\ EnsureBrowser(r)
  /\ commandsMet' = (commandsMet \/ Busy)
  /\ UNCHANGED <<serving, command, reply, mishap>>

(* launch() ends: a browser, an error, or an error after the context was   *)
(* there, which nobody closes.                                             *)
LaunchEnds(r) ==
  /\ handling[r] = "launching"
  /\ \/ /\ browsers' = [browsers EXCEPT ![r] = "up"]
        /\ handling' = [handling EXCEPT ![r] = "working"]
        /\ UNCHANGED <<command, given, reply, mishap>>
     \/ /\ browsers' = [browsers EXCEPT ![r] = "down"]
        /\ \E code \in {"BROWSER_FAILED", "INTERNAL_ERROR"} : Answer(r, code)
        /\ UNCHANGED mishap
     \/ /\ browsers' = [browsers EXCEPT ![r] = "half"] /\ mishap' = TRUE
        /\ Answer(r, "INTERNAL_ERROR")
  /\ UNCHANGED <<serving, browserManager, commandsMet>>

(* What a session command answers of the page it sees; a session start is  *)
(* well for anything but the region, whatever the page shows.              *)
Seen == {"LOGIN_FORM", "AUTHENTICATED", "GEO_RESTRICTED", "SECURITY_CHALLENGE", "UNKNOWN"}

StartCode(page) == IF page = "GEO_RESTRICTED" THEN "BC_GAME_ACCESS_BLOCKED" ELSE "OK"

ClassifyCode(page) ==
  CASE page = "GEO_RESTRICTED" -> "BC_GAME_ACCESS_BLOCKED"
    [] page \in {"LOGIN_FORM", "AUTHENTICATED"} -> "OK"
    [] page = "SECURITY_CHALLENGE" -> "SECURITY_CHALLENGE"
    [] OTHER -> "LOGIN_PAGE_UNKNOWN"

SessionCodes(cmd) ==
  CASE cmd = "start_session" -> {StartCode(page) : page \in Seen}
    [] cmd = "classify_login_page" -> {ClassifyCode(page) : page \in Seen}
    [] cmd = "login" -> {"OK", "BC_GAME_ACCESS_BLOCKED", "SECURITY_CHALLENGE", "AUTH_TIMEOUT",
                         "AUTH_FAILED", "LOGIN_PAGE_UNKNOWN"}
    [] cmd = "login without credentials" -> {"INVALID_REQUEST"}

(* Only a page that is there answers; one that died or was closed under    *)
(* the command, or that throws, is an error.                               *)
WorkEnds(r) ==
  /\ handling[r] = "working"
  /\ \/ /\ browsers[given[r]] \in {"up", "closing"}
        /\ \E code \in SessionCodes(command[r]) : Answer(r, code)
     \/ \E code \in {"BROWSER_FAILED", "INTERNAL_ERROR"} : Answer(r, code)
  /\ UNCHANGED <<serving, browserManager, browsers, commandsMet, mishap>>
-----------------------------------------------------------------------------
(* close() of the browser on record: what it has is closed; a launch under *)
(* way has nothing yet and goes on.  KeepRunning is a mutant: the browser  *)
(* is dropped, not closed.                                                 *)
Closing(b) ==
  IF browsers[b] \in {"up", "crashed", "half"} THEN [browsers EXCEPT ![b] = "closing"] ELSE browsers
KeepRunning(b) == browsers
CloseAsked(b) == Closing(b)

(* The await of a close() is over when nothing of its browser is left.     *)
CloseDone(b) == browsers[b] # "closing"

StopSession(r) ==
  /\ serving \in {"up", "closing"} /\ handling[r] = "sent" /\ command[r] = "stop_session"
  /\ IF browserManager = 0
     THEN Answer(r, "OK") /\ UNCHANGED browsers
     ELSE /\ browsers' = CloseAsked(browserManager)
          /\ given' = [given EXCEPT ![r] = browserManager]
          /\ handling' = [handling EXCEPT ![r] = "stopping"]
          /\ UNCHANGED <<command, reply>>
  /\ commandsMet' = (commandsMet \/ Busy)
  /\ UNCHANGED <<serving, browserManager, mishap>>

(* After the await the record is cleared, whatever is on it by then.       *)
SessionStopped(r) ==
  /\ handling[r] = "stopping" /\ CloseDone(given[r])
  /\ browserManager' = 0
  /\ Answer(r, "OK")
  /\ UNCHANGED <<serving, browsers, commandsMet, mishap>>

(* The server's stop(): the browser, then the listener; requests that were *)
(* accepted are waited for.                                                *)
StopServer ==
  /\ serving = "up"
  /\ IF browserManager = 0
     THEN serving' = "draining" /\ UNCHANGED <<given, browsers>>
     ELSE /\ serving' = "closing" /\ given' = [given EXCEPT ![0] = browserManager]
          /\ browsers' = CloseAsked(browserManager)
  /\ commandsMet' = (commandsMet \/ Busy)
  /\ UNCHANGED <<command, handling, reply, browserManager, mishap>>

ListenerCloses ==
  /\ serving = "closing" /\ CloseDone(given[0])
  /\ serving' = "draining" /\ browserManager' = 0
  /\ UNCHANGED <<command, handling, given, reply, browsers, commandsMet, mishap>>

ServerDown ==
  /\ serving = "draining" /\ ~Busy /\ serving' = "down"
  /\ UNCHANGED <<command, handling, given, reply, browserManager, browsers, commandsMet, mishap>>
-----------------------------------------------------------------------------
(* External: a page crashes, its manager recovers it, on record or not; a  *)
(* browser that is being closed is gone.                                   *)
BrowserEvent(b) ==
  /\ \/ /\ browsers[b] = "up" /\ browsers' = [browsers EXCEPT ![b] = "crashed"]
        /\ mishap' = TRUE
     \/ /\ browsers[b] = "crashed" /\ browsers' = [browsers EXCEPT ![b] = "up"]
        /\ UNCHANGED mishap
     \/ /\ browsers[b] = "closing" /\ browsers' = [browsers EXCEPT ![b] = "down"]
        /\ UNCHANGED mishap
  /\ UNCHANGED <<serving, command, handling, given, reply, browserManager, commandsMet>>

BrowserWorkerNext ==
  \/ StopServer \/ ListenerCloses \/ ServerDown
  \/ \E r \in Requests :
       \/ Invoke(r) \/ ClientGivesUp(r) \/ RefuseRequest(r) \/ Status(r) \/ BeginSession(r) \/ LaunchEnds(r)
       \/ WorkEnds(r) \/ StopSession(r) \/ SessionStopped(r) \/ BrowserEvent(r)
-----------------------------------------------------------------------------
(* A probe of the health circuit ends.  Any JSON answer is health whatever *)
(* its status; the count goes on over a cool-down, up to the threshold.    *)
ProbeEnds ==
  \E healthy \in BOOLEAN :
    /\ probeFailures' = IF healthy THEN 0
                        ELSE IF probeFailures < ProbeThreshold THEN probeFailures + 1
                        ELSE probeFailures
    /\ circuitOpen' = (~healthy /\ (probeFailures' = ProbeThreshold \/ circuitOpen))
    /\ lastProbes' = IF Len(lastProbes) < ProbeThreshold THEN Append(lastProbes, healthy)
                     ELSE Append(Tail(lastProbes), healthy)

CooledDown == circuitOpen /\ circuitOpen' = FALSE /\ UNCHANGED <<probeFailures, lastProbes>>

CircuitNext == ProbeEnds \/ CooledDown
-----------------------------------------------------------------------------
BrowserWorkerTypeOK ==
  /\ serving \in {"up", "closing", "draining", "down"} /\ browserManager \in Requests \cup {0}
  /\ command \in [Requests -> WorkerCommands \cup {"none", "over"}]
  /\ handling \in [Requests -> AtServer \cup {"none", "sent", "over"}]
  /\ given \in [Requests \cup {0} -> Requests \cup {0}]
  /\ reply \in [Requests -> {"none", "ok", "error"}]
  /\ browsers \in [Requests -> {"none", "launching", "up", "closing", "crashed", "half", "down"}]
  /\ commandsMet \in BOOLEAN /\ mishap \in BOOLEAN
  /\ probeFailures \in 0..ProbeThreshold /\ circuitOpen \in BOOLEAN

(* Every browser that runs is the one on record, so stop_session and the   *)
(* server's stop leave none behind, and "idle" is said only when none      *)
(* runs: as long as no page crashed, no launch failed half-way and session *)
(* commands did not overlap.  A client that gives up and calls again makes *)
(* them overlap; then a browser may be lost to its owner.                  *)
(* (browser/worker/server.ts ensureBrowser, dispatch, stop)                *)
BrowsersAreOwned ==
  ~commandsMet /\ ~mishap =>
    /\ Alive \subseteq {browserManager}
    /\ serving = "down" => Alive = {}
    /\ ~Busy /\ browserManager # 0 => browsers[browserManager] \in {"up", "down"}

(* The circuit is open only while the last probes to end have all failed,  *)
(* as many as the threshold: one success closes it, whichever of two       *)
(* overlapping probes it was.  (browser/worker/health-circuit.ts probe)    *)
CircuitIsEarned ==
  circuitOpen =>
    Len(lastProbes) = ProbeThreshold /\ \A k \in DOMAIN lastProbes : ~lastProbes[k]
=============================================================================
