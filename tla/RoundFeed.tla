------------------------------ MODULE RoundFeed ------------------------------
(***************************************************************************)
(* The round feed: the page of the game, the adapter that polls it and     *)
(* listens to its WebSocket (game/adapter.ts), the observer that turns the *)
(* adapter's events into round starts and crashes (game/observer.ts), and  *)
(* the event bus they are published on (core/event-bus/bus.ts).            *)
(*                                                                         *)
(* Two things make it hard.  A poll's answer and a WebSocket frame reach   *)
(* the adapter in an order that need not be the page's.  And the crash     *)
(* branch of processStateChange copies the adapter's state, then waits for *)
(* a second look at the page, then assigns the copy.                       *)
(*                                                                         *)
(* The log the bus is wired with is in memory, so an event is dispatched   *)
(* before the next callback of the page: bus holds at most one event and   *)
(* nothing else happens while it does.                                     *)
(***************************************************************************)
EXTENDS Naturals, Sequences

CONSTANTS MaxRound,       \* bound: rounds the game plays
          MaxPending      \* bound: polls and crash branches waiting for the page

ASSUME FeedAssumption == MaxRound \in Nat \ {0} /\ MaxPending \in Nat

VARIABLES page,       \* what the game shows
          feed,       \* "off", "adapter" (polling, nobody listens) or "observing"
          polls,      \* answers of the polls under way, oldest first
          looking,    \* copies kept by crash branches that wait for the page
          adapter,    \* currentState of the adapter
          observer,   \* currentState of the observer
          bus,        \* the event not dispatched yet, if any
          lastKind    \* history: kind of the last event this observer published

feedVars == <<page, feed, polls, looking, adapter, observer, bus, lastKind>>

(* A round id or a multiplier that is missing is None.  A multiplier is 1, *)
(* below the cash-out target, or 2, at the target or above.                *)
None == 0
Multipliers == {1, 2}
Orelse(a, b) == IF a # None THEN a ELSE b

FreshAdapter == [phase |-> "idle", round |-> None, mult |-> None]
FreshObserver == [phase |-> "idle", round |-> None, mult |-> 1]

FeedInit ==
  /\ page = [round |-> 1, phase |-> "starting", mult |-> 1]
  /\ feed = "off"
  /\ polls = <<>>
  /\ looking = <<>>
  /\ adapter = FreshAdapter
  /\ observer = FreshObserver
  /\ bus = <<>>
  /\ lastKind = "none"

Quiet == bus = <<>>
-----------------------------------------------------------------------------
(* The game.                                                               *)

GameRuns ==
  /\ Quiet
  /\ \/ page.phase = "starting" /\ page' = [page EXCEPT !.phase = "running"]
     \/ page.phase = "running" /\ page.mult = 1 /\ page' = [page EXCEPT !.mult = 2]
     \/ page.phase = "running" /\ page' = [page EXCEPT !.phase = "crashed"]
     \/ /\ page.phase = "crashed" /\ page.round < MaxRound
        /\ page' = [round |-> page.round + 1, phase |-> "starting", mult |-> 1]
  /\ UNCHANGED <<feed, polls, looking, adapter, observer, bus, lastKind>>

(* What one look at the page may return: any text may be missing, and with *)
(* no phase selector matched the phase reads "idle".  A page without the   *)
(* game container is skipped by the poll.                                  *)
Readings ==
  [phase : {page.phase}, round : {None, page.round},
   mult : IF page.phase = "running" THEN {None, page.mult} ELSE {None},
   crash : IF page.phase = "crashed" THEN {None, page.mult} ELSE {None}]
  \cup {[phase |-> "idle", round |-> None, mult |-> None, crash |-> None]}
-----------------------------------------------------------------------------
(* The observer.  PublishAlways is a mutant: the observer without its      *)
(* early return on a crash it has already seen.                            *)

Publish(kind, r, m) ==
  /\ bus' = <<[kind |-> kind, round |-> r, mult |-> m]>>
  /\ lastKind' = kind

SeesStart(r) ==
  /\ observer' = [phase |-> "running", round |-> r, mult |-> 1]
  /\ Publish("RoundStarted", r, 1)

SeesTick(r, m) ==
  /\ IF /\ observer.phase = "running"
        /\ r = None \/ observer.round = None \/ r = observer.round
     THEN observer' = [observer EXCEPT !.mult = Orelse(m, @)]
     ELSE UNCHANGED observer
  /\ UNCHANGED <<bus, lastKind>>

PublishCrash(r, cp) ==
  LET point == Orelse(cp, Orelse(observer.mult, 1)) IN
  /\ observer' = [observer EXCEPT !.phase = "crashed", !.mult = point]
  /\ Publish("RoundCrashed", Orelse(r, observer.round), point)

PublishAlways(r, cp) == PublishCrash(r, cp)

SeesCrash(r, cp) ==
  IF observer.phase = "crashed"
  THEN UNCHANGED <<observer, bus, lastKind>>
  ELSE PublishCrash(r, cp)

(* emitGameEvent: without listeners the event is gone.                     *)
Listening == feed = "observing"
Unheard == ~Listening /\ UNCHANGED <<observer, bus, lastKind>>
-----------------------------------------------------------------------------
(* processStateChange, up to its first wait, by the branch it takes.  Its  *)
(* test on the phase is on the state at the call.                          *)

RoundBegins(s) ==
  /\ adapter.phase \in {"idle", "starting", "crashed"}
  /\ s.phase = "running" /\ s.round # None
  /\ adapter' = [phase |-> "running", round |-> s.round, mult |-> Orelse(s.mult, 1)]
  /\ Unheard \/ (Listening /\ SeesStart(s.round))
  /\ UNCHANGED looking

Ticks(s) ==
  /\ s.phase = "running"
  /\ adapter.phase = "running" \/ s.round = None
  /\ adapter' = [adapter EXCEPT !.phase = "running", !.mult = Orelse(s.mult, @)]
  /\ IF s.mult \notin {None, adapter.mult}
     THEN Unheard \/ (Listening /\ SeesTick(adapter.round, s.mult))
     ELSE UNCHANGED <<observer, bus, lastKind>>
  /\ UNCHANGED looking

CrashReported(r, cp, shown) ==
  /\ adapter' = [phase |-> "crashed", round |-> r, mult |-> shown]
  /\ Unheard \/ (Listening /\ SeesCrash(r, cp))

RoundEnds(s) ==
  /\ adapter.phase \in {"running", "starting"} /\ s.phase = "crashed"
  /\ \/ /\ s.crash # None
        /\ CrashReported(adapter.round, s.crash, s.crash)
        /\ UNCHANGED looking
     \/ /\ s.crash = None
        /\ Len(looking) + Len(polls') < MaxPending
        /\ looking' = Append(looking, [round |-> adapter.round, mult |-> adapter.mult])
        /\ UNCHANGED <<adapter, observer, bus, lastKind>>

PhaseMoves(s) ==
  /\ s.phase # "running"
  /\ ~(adapter.phase \in {"running", "starting"} /\ s.phase = "crashed")
  /\ adapter' = [adapter EXCEPT
       !.phase = s.phase,
       !.mult = IF adapter.phase = "crashed" /\ s.phase \in {"idle", "starting"}
                THEN None ELSE @]
  /\ UNCHANGED <<looking, observer, bus, lastKind>>

ProcessStateChange(s) == RoundBegins(s) \/ Ticks(s) \/ RoundEnds(s) \/ PhaseMoves(s)
-----------------------------------------------------------------------------
(* The ways into processStateChange, and the rest of the crash branch.     *)

PollReads ==
  /\ Quiet /\ feed # "off" /\ Len(polls) + Len(looking) < MaxPending
  /\ \E s \in Readings : polls' = Append(polls, s)
  /\ UNCHANGED <<page, feed, looking, adapter, observer, bus, lastKind>>

PollAnswers ==
  /\ Quiet /\ polls # <<>>
  /\ polls' = Tail(polls)
  /\ ProcessStateChange(Head(polls))
  /\ UNCHANGED <<page, feed>>

FrameArrives ==
  /\ Quiet /\ feed # "off"
  /\ UNCHANGED <<page, feed, polls>>
  /\ \E s \in Readings : ProcessStateChange(s)

(* extractExplicitCrashPoint answers: the copy is assigned over whatever   *)
(* the adapter has learnt since.  Or it throws, and the call ends there.   *)
PageLookedAt ==
  /\ Quiet /\ looking # <<>>
  /\ looking' = Tail(looking)
  /\ LET c == Head(looking) IN
       \/ \E shown \in IF page.phase = "crashed" THEN {None, page.mult} ELSE {None} :
            CrashReported(c.round, Orelse(shown, c.mult), c.mult)
       \/ UNCHANGED <<adapter, observer, bus, lastKind>>
  /\ UNCHANGED <<page, feed, polls>>
-----------------------------------------------------------------------------
(* The session supervisor's hold on the feed: the adapter polls while it   *)
(* waits for the game, the observer subscribes afterwards; stopping either *)
(* forgets both objects, and what the old adapter still does is not heard. *)

AdapterStarts ==
  /\ Quiet
  /\ feed' = "adapter" /\ adapter' = FreshAdapter /\ observer' = FreshObserver
  /\ polls' = <<>> /\ looking' = <<>> /\ lastKind' = "none"
  /\ UNCHANGED <<page, bus>>

ObserverStarts ==
  /\ Quiet /\ feed = "adapter" /\ feed' = "observing"
  /\ UNCHANGED <<page, polls, looking, adapter, observer, bus, lastKind>>

FeedStops ==
  /\ feed' = "off" /\ adapter' = FreshAdapter /\ observer' = FreshObserver
  /\ polls' = <<>> /\ looking' = <<>> /\ lastKind' = "none"
  /\ UNCHANGED <<page, bus>>

Dispatch == bus # <<>> /\ bus' = <<>>

FeedWorks == PollReads \/ PollAnswers \/ FrameArrives \/ PageLookedAt
-----------------------------------------------------------------------------
AdapterPhases == {"idle", "starting", "running", "crashed"}

FeedTypeOK ==
  /\ page \in [round : 1..MaxRound, phase : {"starting", "running", "crashed"}, mult : Multipliers]
  /\ feed \in {"off", "adapter", "observing"}
  /\ Len(polls) + Len(looking) <= MaxPending
  /\ adapter \in [phase : AdapterPhases, round : 0..MaxRound, mult : {None} \cup Multipliers]
  /\ observer \in [phase : {"idle", "running", "crashed"}, round : 0..MaxRound, mult : Multipliers]
  /\ \A i \in DOMAIN looking : looking[i] \in [round : 0..MaxRound, mult : {None} \cup Multipliers]
  /\ lastKind \in {"none", "RoundStarted", "RoundCrashed"}

(* However polls, frames and second looks at the page overlap, an observer *)
(* reports the end of a round once: between two RoundCrashed it publishes  *)
(* a RoundStarted.  (game/observer.ts handleRoundCrashed; the adapter      *)
(* itself reports one crash several times.)                                *)
CrashNeedsStart ==
  [][lastKind = "RoundCrashed" /\ bus = <<>> /\ bus' # <<>> => bus'[1].kind = "RoundStarted"]_feedVars
=============================================================================
