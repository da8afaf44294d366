---------------------------- MODULE Application ----------------------------
(***************************************************************************)
(* The process: bootstrap and graceful shutdown (index.ts), and the        *)
(* start, stop and event wiring of the composition (app/composition.ts).   *)
(* Every appStage of start() awaits something, and rounds may be announced *)
(* from the moment the supervisor observes, long before start() returns.   *)
(* Signals are handled only once it has returned, operator commands only   *)
(* while the bot polls; both then interleave with the shutdown.            *)
(*                                                                         *)
(* The latest trades that the operator sees (runtime.recentTrades) are a   *)
(* bounded mirror: dry-run trades enter it as they are opened, a live      *)
(* trade only when its placement has returned.                             *)
(***************************************************************************)
EXTENDS Naturals, Sequences, FiniteSets

CONSTANTS AppRounds,     \* rounds announced
          MaxRecent      \* trades the mirror keeps (50)

ASSUME AppAssumption == MaxRecent \in Nat

VARIABLES appStage,     \* how far bootstrap, start or shutdown has come
          wired,     \* subscriptions in the list of unsubscribers
          skipped,   \* history: feeds whose wiring failed, until the shutdown
          started,   \* what has been started and not stopped
          reached,   \* who was handed the last round event
          recent,    \* runtime.recentTrades, the latest first
          placing,   \* rounds whose live placement has not returned
          crashed    \* rounds that have crashed

appVars == <<appStage, wired, skipped, started, reached, recent, placing, crashed>>

Bridges == {"dry-run", "live"}
StartFeeds == Bridges \cup {"rounds", "workers"}
CrashFeeds == StartFeeds \cup {"worker crashes"}
StartStages == {"boot", "recovery", "wiring", "supervisor", "prewarm", "fleet", "telegram", "up"}
StopStages == {"stop supervisor", "stop telegram", "stop fleet", "close", "exited"}
ShuttingDown == appStage \in StopStages

AppInit ==
  /\ appStage = "boot" /\ wired = {} /\ skipped = {} /\ started = {} /\ reached = {}
  /\ recent = <<>> /\ placing = {} /\ crashed = {}

Goes(from, to) == appStage = from /\ appStage' = to
NoRounds == UNCHANGED <<reached, recent, placing, crashed>>
-----------------------------------------------------------------------------
(* Without a healthy database the process exits; start() begins with the   *)
(* dry-run controller and the recovery.                                    *)
Bootstrap ==
  /\ \/ Goes("boot", "recovery") /\ started' = {"pool", "server", "dry run"}
     \/ Goes("boot", "exited") /\ UNCHANGED started
  /\ UNCHANGED <<wired, skipped>> /\ NoRounds

(* A failed recovery is logged.                                            *)
Recovers == Goes("recovery", "wiring") /\ UNCHANGED <<wired, skipped, started>> /\ NoRounds

(* Every feed is wired in a try of its own (an import may fail, or the bus *)
(* refuse): one that fails is logged, and the start goes on without it.    *)
WireAll(feeds) ==
  \E failed \in SUBSET feeds :
     /\ wired' = wired \cup (feeds \ failed)
     /\ skipped' = skipped \cup failed

Wire ==
  /\ Goes("wiring", "supervisor")
  /\ WireAll(StartFeeds)
  /\ UNCHANGED started /\ NoRounds

(* The supervisor's start() may take the observation up at any time before *)
(* it returns, or not at all.                                              *)
Observes ==
  /\ appStage = "supervisor" /\ "observation" \notin started
  /\ started' = started \cup {"observation"}
  /\ UNCHANGED <<appStage, wired, skipped>> /\ NoRounds

MovesOn(from, to) == Goes(from, to) /\ UNCHANGED <<wired, skipped, started>> /\ NoRounds
SupervisorStarted == MovesOn("supervisor", "prewarm")
Prewarmed == MovesOn("prewarm", "fleet")

FleetStarted ==
  /\ Goes("fleet", "telegram")
  /\ started' = started \cup {"workers"} /\ WireAll({"worker crashes"})
  /\ NoRounds

(* The bot starts or fails to; the daily report is scheduled, and signals  *)
(* are handled from here on.                                               *)
Started ==
  /\ Goes("telegram", "up")
  /\ \E bot \in {{}, {"bot"}} : started' = started \cup {"daily report"} \cup bot
  /\ UNCHANGED <<wired, skipped>> /\ NoRounds
-----------------------------------------------------------------------------
(* SIGTERM, SIGINT or an uncaught exception.  KeepWired is a mutant: the   *)
(* list of unsubscribers is not worked off.                                *)
KeepWired == wired
Unwired == {}

Shutdown ==
  /\ Goes("up", "stop supervisor")
  /\ wired' = Unwired
  /\ started' = started \ {"daily report", "dry run"}
  /\ skipped' = {} /\ NoRounds

ShutdownStep ==
  /\ \/ Goes("stop supervisor", "stop telegram") /\ started' = started \ {"observation"}
     \/ Goes("stop telegram", "stop fleet") /\ started' = started \ {"bot"}
     \/ Goes("stop fleet", "close") /\ started' = started \ {"workers"}
     \/ Goes("close", "exited") /\ started' = {}
  /\ UNCHANGED <<wired, skipped>> /\ NoRounds

(* pauseSystem, resumeSystem and stopSystem, whenever the bot polls.       *)
Operator ==
  /\ "bot" \in started
  /\ \/ started' = started \ {"dry run", "observation"}
     \/ \E seen \in {{}, {"observation"}} : started' = started \cup {"dry run"} \cup seen
     \/ started' = started \ {"dry run", "observation", "bot"}
  /\ UNCHANGED <<appStage, wired, skipped>> /\ NoRounds
-----------------------------------------------------------------------------
(* A feed of the workers skips the ones that are not started.              *)
Hear(feeds) ==
  reached' = (wired \cap feeds) \ (IF "workers" \in started THEN {} ELSE {"workers", "worker crashes"})

Latest(trades) == SubSeq(trades, 1, IF Len(trades) < MaxRecent THEN Len(trades) ELSE MaxRecent)
Mirror(r, path) == recent' = Latest(<<[round |-> r, path |-> path, status |-> "OPEN"]>> \o recent)

(* The dry-run bridge may open a trade, or the live one begin a placement. *)
StartsRound(r) ==
  /\ "observation" \in started /\ r \notin crashed
  /\ Hear(StartFeeds)
  /\ \/ UNCHANGED <<recent, placing>>
     \/ "dry-run" \in wired /\ "dry run" \in started /\ Mirror(r, "dry-run") /\ UNCHANGED placing
     \/ "live" \in wired /\ placing' = placing \cup {r} /\ UNCHANGED recent
  /\ UNCHANGED <<appStage, wired, skipped, started, crashed>>

(* onRoundCompleted, wrapped: the mirror follows the ledger.               *)
EndsRound(r) ==
  /\ "observation" \in started /\ r \notin crashed
  /\ crashed' = crashed \cup {r}
  /\ Hear(CrashFeeds \ {"workers"})
  /\ recent' = IF "dry-run" \in wired
               THEN [i \in DOMAIN recent |-> IF recent[i].round = r
                                             THEN [recent[i] EXCEPT !.status = "CLOSED"] ELSE recent[i]]
               ELSE recent
  /\ UNCHANGED <<appStage, wired, skipped, started, placing>>

(* onRoundStartedForLive has returned; what it placed is mirrored, even if *)
(* its round is over.                                                      *)
PlacementReturns(r) ==
  /\ r \in placing /\ placing' = placing \ {r}
  /\ Mirror(r, "live") \/ UNCHANGED recent
  /\ UNCHANGED <<appStage, wired, skipped, started, reached, crashed>>

AppNext ==
  \/ Bootstrap \/ Recovers \/ Wire \/ Observes \/ SupervisorStarted \/ Prewarmed \/ FleetStarted
  \/ Started \/ Shutdown \/ ShutdownStep \/ Operator
  \/ \E r \in AppRounds : StartsRound(r) \/ EndsRound(r) \/ PlacementReturns(r)

AppSpec == AppInit /\ [][AppNext]_appVars
-----------------------------------------------------------------------------
AppTypeOK ==
  /\ appStage \in StartStages \cup StopStages /\ wired \subseteq CrashFeeds /\ skipped \subseteq CrashFeeds
  /\ started \subseteq {"pool", "server", "dry run", "observation", "workers", "bot", "daily report"}
  /\ reached \subseteq CrashFeeds
  /\ Len(recent) <= MaxRecent /\ placing \subseteq AppRounds /\ crashed \subseteq AppRounds

(* No round is announced over the heads of the bridges, however early in   *)
(* the start it comes: one misses it only if its own wiring failed and was *)
(* logged as skipped.  Once the shutdown has begun no round reaches them   *)
(* any more, even if an operator's command takes the observation up again. *)
(* (composition.ts start, stop)                                            *)
RoundsReachBridges ==
  /\ "observation" \in started /\ ~ShuttingDown => Bridges \ skipped \subseteq wired
  /\ ShuttingDown => wired = {}
=============================================================================
