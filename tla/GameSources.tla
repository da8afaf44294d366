----------------------------- MODULE GameSources -----------------------------
(***************************************************************************)
(* Three ways to see the game and their aggregation (game/adapters): the   *)
(* DOM adapter polls the page, the API adapter reads the history and other *)
(* responses (one part, with the game, which is external), the WebSocket   *)
(* interceptor is told by the page (a second part) and the aggregator      *)
(* takes what any of them may say (a third).  A response holds one round   *)
(* here: the rounds of one are handled one after the other, with awaits    *)
(* between.  Nothing wires these sources: game/adapter.ts does its own.    *)
(***************************************************************************)
EXTENDS Integers, FiniteSets

CONSTANTS GameRounds,    \* bound: rounds of the game
          MaxCrashes,    \* bound: crash events one source reports
          MinAgreeing    \* CONFIDENCE_THRESHOLDS.high.minAgreeingSources

\* constants.ts:100, two sources at least.
ASSUME SourcesAssumption == MinAgreeing \in Nat \ {0, 1} /\ GameRounds \in Nat

Sources == {"dom", "websocket", "api"}

VARIABLES gamePhase, gameRound, gameMult,   \* what the game does (external)
          domPrev, domRound, domMult,       \* lastSnapshot, currentRoundId, lastMultiplier
          missedRun,                        \* history: no two polls saw this round come to run
          domCrashes,                       \* history: round named, round on the page, missedRun
          knownRounds, apiCrashes,          \* knownRoundIds; history: crashes reported, per round
          wsRound, wsStage,                 \* currentRoundId; start() is at
          exposed, scripted,                \* the callback exists; the init script is registered
          patched, wsHeard,                   \* this document's WebSocket is wrapped; is listened to
          navigatedInStart,                 \* history: the page navigated between the two steps
          wsDelivered,                      \* history: a message came through
          subscribed, freshSources,                \* the aggregator's subscriptions; sources not stale
          lastSeen,                         \* lastSnapshot of each source
          observation                       \* currentObservation

pageVars == <<gamePhase, gameRound, gameMult, domPrev, domRound, domMult, missedRun, domCrashes,
              knownRounds, apiCrashes>>
wsVars == <<wsRound, wsStage, exposed, scripted, patched, wsHeard, navigatedInStart, wsDelivered>>
aggVars == <<subscribed, freshSources, lastSeen, observation>>
sourceVars == <<pageVars, wsVars, aggVars>>

NoRound == 0
NoReading == [round |-> NoRound, phase |-> "none", mult |-> 0, crash |-> 0]

SourceInit ==
  /\ gamePhase = "idle" /\ gameRound = 0 /\ gameMult = 0
  /\ domPrev = "none" /\ domRound = NoRound /\ domMult = 0 /\ missedRun = TRUE /\ domCrashes = {}
  /\ knownRounds = {} /\ apiCrashes = [r \in 1..GameRounds |-> 0]
  /\ wsRound = NoRound /\ wsStage = "stopped" /\ exposed = FALSE /\ scripted = FALSE
  /\ patched = FALSE /\ wsHeard = FALSE /\ navigatedInStart = FALSE /\ wsDelivered = FALSE
  /\ subscribed = {} /\ freshSources = {} /\ lastSeen = [s \in Sources |-> NoReading]
  /\ observation = [round |-> NoRound, phase |-> "idle", confidence |-> "low", sources |-> {}]
-----------------------------------------------------------------------------
(* The game (external).                                                    *)
RoundOver(r) == r < gameRound \/ (r = gameRound /\ gamePhase \in {"crashed", "idle"})

GameMoves ==
  /\ \/ /\ gamePhase = "idle" /\ gameRound < GameRounds
        /\ gamePhase' = "starting" /\ gameRound' = gameRound + 1 /\ gameMult' = 0
     \/ gamePhase = "starting" /\ gamePhase' = "running" /\ gameMult' = 1 /\ UNCHANGED gameRound
     \/ gamePhase = "running" /\ gameMult < 2 /\ gameMult' = 2 /\ UNCHANGED <<gamePhase, gameRound>>
     \/ gamePhase = "running" /\ gamePhase' = "crashed" /\ UNCHANGED <<gameRound, gameMult>>
     \/ gamePhase = "crashed" /\ gamePhase' = "idle" /\ gameMult' = 0 /\ UNCHANGED gameRound
  /\ missedRun' = IF gamePhase = "idle" THEN TRUE ELSE missedRun
  /\ UNCHANGED <<domPrev, domRound, domMult, domCrashes, knownRounds, apiCrashes>>
-----------------------------------------------------------------------------
(* The aggregator.  Two snapshots conflict over a round or a phase both    *)
(* know, over the multiplier or over the crash point; ConflictsByRound     *)
(* alone is a mutant.                                                      *)
ConflictsByRound(a, b) == IF a.round # NoRound /\ b.round # NoRound /\ a.round # b.round THEN 1 ELSE 0
Conflicts(a, b) ==
  ConflictsByRound(a, b)
  + (IF a.phase # b.phase /\ {a.phase, b.phase} \cap {"none", "unknown"} = {} THEN 1 ELSE 0)
  + (IF a.mult # 0 /\ b.mult # 0 /\ a.mult # b.mult THEN 1 ELSE 0)
  + (IF a.crash # 0 /\ b.crash # 0 /\ a.crash # b.crash THEN 1 ELSE 0)

AllConflicts(seen, sources) ==
  LET between(s, t) == IF {s, t} \subseteq sources THEN Conflicts(seen[s], seen[t]) ELSE 0
  IN between("dom", "websocket") + between("dom", "api") + between("websocket", "api")

Primary(sources) ==
  IF "websocket" \in sources THEN "websocket" ELSE IF "dom" \in sources THEN "dom" ELSE "api"

(* lag: the mean latency of the snapshots, below 500 ms, below 1000, more. *)
ConfidenceOf(sources, conflicts, lag) ==
  IF Cardinality(sources) >= MinAgreeing /\ conflicts = 0 /\ lag = "fast" THEN "high"
  ELSE IF conflicts <= 1 /\ lag # "stuck" THEN "medium"
  ELSE "low"

(* The fields of the observation are the primary source's, whose event it  *)
(* may not be: the aggregated event has the type of the other source's.    *)
HandleSourceEvent(src, snapshot) ==
  /\ src \in subscribed
  /\ lastSeen' = [lastSeen EXCEPT ![src] = snapshot] /\ freshSources' = freshSources \cup {src}
  /\ \E lag \in {"fast", "slow", "stuck"} :
       LET top == lastSeen'[Primary(freshSources')] IN
       observation' = [round |-> top.round, phase |-> top.phase,
                       confidence |-> ConfidenceOf(freshSources', AllConflicts(lastSeen', freshSources'), lag),
                       sources |-> freshSources']
  /\ UNCHANGED subscribed

AggregatorStart ==
  /\ subscribed = {} /\ subscribed' = Sources
  /\ UNCHANGED <<freshSources, lastSeen, observation>>

(* stop() drops every subscription; an adapter's stop() drops its own, and *)
(* its start() does not bring it back.                                     *)
AggregatorStop ==
  /\ subscribed' = {}
  /\ UNCHANGED <<freshSources, lastSeen, observation>>

AdapterRestarts(src) ==
  /\ subscribed' = subscribed \ {src}
  /\ UNCHANGED <<freshSources, lastSeen, observation>>

GoesStale(src) ==
  /\ freshSources' = freshSources \ {src}
  /\ UNCHANGED <<subscribed, lastSeen, observation>>

(* What the sources may say: a round that runs, its crash at one point or  *)
(* at another (the multiplier of a crash is its point), the next round.    *)
Snapshots == {[round |-> 1, phase |-> "running", mult |-> 2, crash |-> 0],
              [round |-> 1, phase |-> "crashed", mult |-> 2, crash |-> 2],
              [round |-> 1, phase |-> "crashed", mult |-> 1, crash |-> 1],
              [round |-> 2, phase |-> "running", mult |-> 1, crash |-> 0]}

AggNext ==
  \/ AggregatorStart \/ AggregatorStop
  \/ \E src \in Sources :
       AdapterRestarts(src) \/ GoesStale(src) \/ (\E s \in Snapshots : HandleSourceEvent(src, s))
-----------------------------------------------------------------------------
(* The DOM adapter.  A poll reads what the page shows: the round's id may  *)
(* not be there, nor the number.                                           *)
(* StartFromIdle is a mutant.                                              *)
StartFromIdle(phase, shown) == domPrev = "idle" /\ phase = "running" /\ shown # NoRound
StartSeen(phase, shown) ==
  domPrev \in {"idle", "starting", "crashed"} /\ phase = "running" /\ shown # NoRound
CrashSeen(phase) == domPrev \in {"running", "starting"} /\ phase = "crashed"

CrashedRound(shown) == IF domRound # NoRound THEN domRound ELSE shown

DomPoll(shown, mult) ==
  /\ Cardinality(domCrashes) < MaxCrashes
  /\ domPrev' = gamePhase
  /\ IF StartSeen(gamePhase, shown) THEN domRound' = shown /\ domMult' = mult
     ELSE /\ UNCHANGED domRound
          /\ domMult' = IF CrashSeen(gamePhase) THEN 0
                        ELSE IF gamePhase = "running" /\ mult # 0 THEN mult ELSE domMult
  /\ missedRun' = (missedRun /\ ~(/\ gamePhase = "running" /\ shown # NoRound
                                 /\ domPrev \in {"idle", "starting", "crashed"}))
  /\ domCrashes' = IF CrashSeen(gamePhase)
                   THEN domCrashes \cup {<<CrashedRound(shown), gameRound, missedRun>>}
                   ELSE domCrashes
  /\ UNCHANGED <<gamePhase, gameRound, gameMult, knownRounds, apiCrashes>>
-----------------------------------------------------------------------------
(* The API adapter.  A round of the history, or the one under "round" or   *)
(* "data", is a crash if it has an id and some number: a running round     *)
(* with a multiplier too, and its crash is then known already.             *)
(* NeverKnown is a mutant.                                                 *)
NeverKnown(r) == FALSE
Known(r) == r \in knownRounds

ApiRound(r) ==
  /\ RoundOver(r) \/ (r = gameRound /\ gamePhase = "running")
  /\ apiCrashes[r] < MaxCrashes
  /\ ~Known(r) /\ knownRounds' = knownRounds \cup {r}
  /\ apiCrashes' = [apiCrashes EXCEPT ![r] = @ + 1]
  /\ UNCHANGED <<gamePhase, gameRound, gameMult, domPrev, domRound, domMult, missedRun, domCrashes>>

PageNext ==
  \/ GameMoves
  \/ \E r \in 1..GameRounds : ApiRound(r)
  \/ \E shown \in {NoRound, gameRound}, mult \in {0, gameMult} : DomPoll(shown, mult)
-----------------------------------------------------------------------------
(* The WebSocket interceptor.  start() registers a script for the next     *)
(* documents, then listens in this one: a document both wrapped and        *)
(* listened to needs a navigation in between.                              *)
WsInject ==
  /\ wsStage = "stopped" /\ wsStage' = "injected" /\ scripted' = TRUE
  /\ UNCHANGED <<wsRound, exposed, patched, wsHeard,
                 navigatedInStart, wsDelivered>>

(* exposeFunction throws the second time, and nothing is added.            *)
WsListen ==
  /\ wsStage = "injected" /\ wsStage' = "started"
  /\ exposed' = TRUE /\ wsHeard' = (wsHeard \/ ~exposed)
  /\ UNCHANGED <<wsRound, scripted, patched,
                 navigatedInStart, wsDelivered>>

(* A mutant: the new document is listened to as well.                      *)
StillHeard == wsHeard
HeardAfterNavigation == FALSE

GameNavigates ==
  /\ patched' = scripted /\ wsHeard' = HeardAfterNavigation
  /\ navigatedInStart' = (navigatedInStart \/ wsStage = "injected")
  /\ UNCHANGED <<wsRound, wsStage, exposed, scripted, wsDelivered>>

WsStop ==
  /\ wsStage = "started" /\ wsStage' = "stopped"
  /\ UNCHANGED <<wsRound, exposed, scripted, patched, wsHeard, navigatedInStart, wsDelivered>>

(* The words in a type, in the order they are looked for.  Every type has  *)
(* "crash:" in it, so the last branch is never taken.                      *)
WsTypes == [ round_start |-> {"crash", "start"}, round_update |-> {"crash", "update"},
             round_crash |-> {"crash"}, round_end |-> {"crash", "end"}, tick |-> {"crash", "tick"},
             state |-> {"crash", "state"}, player_bet |-> {"crash"}, player_cashout |-> {"crash"},
             balance |-> {"crash"} ]
BranchOf(words) ==
  IF "start" \in words THEN "round-started"
  ELSE IF words \cap {"tick", "update"} # {} THEN "multiplier-tick"
  ELSE IF words \cap {"crash", "end"} # {} THEN "round-crashed"
  ELSE IF words \cap {"state", "phase"} # {} THEN "game-state-change"
  ELSE "none"

(* A message with a round's id, or without.                                *)
WsMessage(type, round) ==
  /\ patched /\ wsHeard /\ wsStage # "stopped"
  /\ wsRound' = IF round # NoRound /\ BranchOf(WsTypes[type]) # "none" THEN round ELSE wsRound
  /\ wsDelivered' = TRUE
  /\ UNCHANGED <<wsStage, exposed, scripted, patched, wsHeard, navigatedInStart>>

WsNext ==
  \/ WsInject \/ WsListen \/ WsStop \/ GameNavigates
  \/ \E type \in DOMAIN WsTypes, round \in 0..1 : WsMessage(type, round)
-----------------------------------------------------------------------------
SourceTypeOK ==
  /\ gamePhase \in {"idle", "starting", "running", "crashed"} /\ gameRound \in 0..GameRounds
  /\ domPrev \in {"none", "idle", "starting", "running", "crashed"} /\ domRound \in 0..GameRounds
  /\ knownRounds \subseteq 1..GameRounds /\ wsStage \in {"stopped", "injected", "started"}
  /\ subscribed \subseteq Sources /\ freshSources \subseteq Sources /\ observation.sources \subseteq Sources
  /\ observation.confidence \in {"low", "medium", "high"}

(* However polls and intercepted responses overlap, the API adapter        *)
(* reports at most one crash of a round.  That is all that holds of its    *)
(* reports: a response about a round that still runs, with a multiplier,   *)
(* is reported as that round's crash too, with confidence "high", and the  *)
(* crash itself then never, the round being known.  It does not confirm a  *)
(* crash point.  (api-adapter.ts knownRoundIds, processRoundHistoryItem)   *)
ApiCrashOnce == \A r \in 1..GameRounds : apiCrashes[r] <= 1

(* A crash the DOM adapter reports is that of the round on the page, or of *)
(* an earlier one when no two polls saw the round come to run: never of a  *)
(* later one.  (dom-adapter.ts processSnapshot)                            *)
DomCrashIsThisRound == \A c \in domCrashes : c[1] = c[2] \/ (c[1] < c[2] /\ c[3])

(* High confidence of the aggregate means that all the sources counted     *)
(* said the same: the round, the phase, and the crash point if they know   *)
(* one.  (aggregator.ts calculateConfidence, detectConflicts)              *)
HighMeansAgreed ==
  observation.confidence = "high" =>
    /\ Cardinality(observation.sources) >= 2
    /\ \A s, t \in observation.sources :
         /\ lastSeen[s].round = lastSeen[t].round \/ NoRound \in {lastSeen[s].round, lastSeen[t].round}
         /\ lastSeen[s].phase = lastSeen[t].phase
         /\ lastSeen[s].crash = lastSeen[t].crash \/ 0 \in {lastSeen[s].crash, lastSeen[t].crash}

(* A message of a WebSocket reaches the interceptor only when the page was *)
(* navigated between the two steps of a start().  (ws-interceptor.ts       *)
(* injectInterceptor, setupPageListener)                                   *)
HeardOnlyByChance == wsDelivered => navigatedInStart

(* What the sources of the game say, as far as it holds: see each part.    *)
SourcesAreTrue == ApiCrashOnce /\ DomCrashIsThisRound /\ HighMeansAgreed /\ HeardOnlyByChance
=============================================================================
