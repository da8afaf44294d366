------------------------------ MODULE Supervisor ------------------------------
(***************************************************************************)
(* The session supervisor (core/session-supervisor.ts): it launches the    *)
(* browser, restores the session, navigates to the game, and attaches an   *)
(* adapter and an observer to the page; start, stop, login, pause and      *)
(* resume may each overlap the awaits of another.  Every launch is one of  *)
(* a browser manager of its own, and nobody but the supervisor's field     *)
(* browserManager knows it: a manager that field forgets keeps its         *)
(* browser.                                                                *)
(*                                                                         *)
(* The phases that no code tells apart are one: "busy" is every phase of   *)
(* getting ready, "waiting" stands for auth-required, region-blocked and   *)
(* preflight-failed, "failed" for error and browser-failed, "stopped" for  *)
(* idle as well.  Two calls of the same command do not overlap here.       *)
(***************************************************************************)
EXTENDS Naturals

CONSTANTS Managers,    \* browser managers that can be there at a time: the bound
          NoManager    \* null

ASSUME SupAssumption == NoManager \notin Managers

VARIABLES phase,
          observing,   \* state.observing
          manager,     \* browserManager
          contexts,    \* managers whose browser runs (this.browser)
          tabs,        \* managers whose page is there (this.page)
          launched,    \* state.browserLaunched
          pair,        \* the current adapter and observer
          at,          \* the await each command is at, or "none"
          own,         \* the manager a command launches or closes
          sawRounds,   \* wasObserving of the login
          overlapped,  \* history: commands met since a stop last ran alone
          everMet      \* history: commands have met

supVars == <<phase, observing, manager, contexts, tabs, launched, pair, at, own, sawRounds,
             overlapped, everMet>>
browserVars == <<manager, contexts, tabs, launched>>
metVars == <<overlapped, everMet>>

Commands == {"start", "login", "stop", "resume"}
NoPair == [there |-> FALSE, subscribed |-> FALSE, listeners |-> 0]
FreshPair == [NoPair EXCEPT !.there = TRUE]

SupInit ==
  /\ phase = "stopped" /\ observing = FALSE /\ launched = FALSE
  /\ manager = NoManager /\ contexts = {} /\ tabs = {}
  /\ pair = NoPair /\ sawRounds = FALSE
  /\ at = [c \in Commands |-> "none"] /\ own = [c \in Commands |-> NoManager]
  /\ overlapped = FALSE /\ everMet = FALSE

UnderWay == \E c \in Commands : at[c] # "none"
Goto(c, stage) == at' = [at EXCEPT ![c] = stage]
Begin == overlapped' = (overlapped \/ UnderWay) /\ everMet' = (everMet \/ UnderWay)

(* getPage() and getContext() of a manager throw when there is none; of no *)
(* manager they are undefined.                                             *)
HasPage == manager \in tabs
LacksPage == manager # NoManager /\ manager \notin tabs
LacksContext == manager # NoManager /\ manager \notin contexts
-----------------------------------------------------------------------------
(* Steps that start and login share.  A command that throws ends: start    *)
(* reports it in the phase, login and resume leave it at the last one.     *)

EndsThrown(c, last) == phase' = (IF c = "start" THEN "failed" ELSE last) /\ Goto(c, "none")

ThrowsIn(c, last) ==
  /\ EndsThrown(c, last)
  /\ UNCHANGED <<observing, browserVars, pair, own, sawRounds, metVars>>

Throws(c) == ThrowsIn(c, phase)

(* launchBrowser: a new manager takes the place of the one there was.      *)
ProfileReady(c) ==
  /\ at[c] = "profile"
  /\ \E m \in Managers \ (contexts \cup {manager} \cup {own[d] : d \in Commands}) :
        manager' = m /\ own' = [own EXCEPT ![c] = m]
  /\ phase' = "busy" /\ Goto(c, "launch")
  /\ UNCHANGED <<observing, contexts, tabs, launched, pair, sawRounds, metVars>>

BrowserOpened(c) ==
  /\ at[c] = "launch"
  /\ contexts' = contexts \cup {own[c]} /\ tabs' = tabs \cup {own[c]} /\ Goto(c, "opened")
  /\ UNCHANGED <<phase, observing, manager, launched, pair, own, sawRounds, metVars>>

LaunchThrows(c) ==
  /\ EndsThrown(c, phase) /\ own' = [own EXCEPT ![c] = NoManager]
  /\ UNCHANGED <<observing, browserVars, pair, sawRounds, metVars>>

LaunchFails(c) == at[c] = "launch" /\ LaunchThrows(c)

(* launch() returns, if its page was not closed under it, and the session  *)
(* is looked for in whatever manager is the current one.                   *)
BrowserLaunched(c) ==
  /\ at[c] = "opened"
  /\ IF own[c] \in tabs
     THEN /\ launched' = TRUE /\ own' = [own EXCEPT ![c] = NoManager]
          /\ IF LacksContext THEN EndsThrown(c, "busy") ELSE phase' = "busy" /\ Goto(c, "restore")
          /\ UNCHANGED <<observing, manager, contexts, tabs, pair, sawRounds, metVars>>
     ELSE LaunchThrows(c)

(* navigateToGame up to the navigation.                                    *)
Navigate(c, next) ==
  IF HasPage
  THEN /\ phase' = "busy" /\ Goto(c, next)
       /\ UNCHANGED <<observing, browserVars, pair, own, sawRounds, metVars>>
  ELSE ThrowsIn(c, "busy")

(* initializeObservation up to the wait for the game: whatever was         *)
(* attached is dropped, a new adapter polls.  Without the page the         *)
(* navigation throws itself, or this does after "loading-game".            *)
Navigated(c) ==
  /\ at[c] = "navigate"
  /\ \/ /\ HasPage
        /\ pair' = FreshPair /\ phase' = "busy" /\ Goto(c, "attach")
        /\ UNCHANGED <<observing, browserVars, own, sawRounds, metVars>>
     \/ ~HasPage /\ (Throws(c) \/ ThrowsIn(c, "busy"))

(* The observer subscribes and its rounds are published; start and login   *)
(* then want a page for the health monitor.                                *)
Attached(c) ==
  /\ at[c] = "attach"
  /\ IF pair.there
     THEN /\ pair' = [pair EXCEPT !.subscribed = TRUE, !.listeners = @ + 1]
          /\ observing' = TRUE
          /\ IF LacksPage /\ c # "resume" THEN EndsThrown(c, phase)
             ELSE phase' = "observing" /\ Goto(c, "none")
          /\ UNCHANGED <<browserVars, own, sawRounds, metVars>>
     ELSE Throws(c)
-----------------------------------------------------------------------------
Start ==
  /\ at["start"] = "none" /\ phase = "stopped"
  /\ phase' = "busy" /\ Goto("start", "profile") /\ Begin
  /\ UNCHANGED <<observing, browserVars, pair, own, sawRounds>>

(* The session is restored and the page looked at: dry-run and an          *)
(* authenticated live mode go on to the game, live mode otherwise waits.   *)
StartRestored ==
  /\ at["start"] = "restore"
  /\ \/ LacksPage /\ Throws("start")
     \/ Navigate("start", "navigate")
     \/ /\ phase' = "waiting" /\ Goto("start", "none")
        /\ UNCHANGED <<observing, browserVars, pair, own, sawRounds, metVars>>

(* The login wants a page: a manager without one throws, no manager is a   *)
(* failed browser.                                                         *)
WantPage ==
  \/ HasPage /\ phase' = "busy" /\ Goto("login", "pipeline")
  \/ LacksPage /\ Goto("login", "none") /\ UNCHANGED phase
  \/ manager = NoManager /\ phase' = "failed" /\ Goto("login", "none")

WantBrowser ==
  IF manager = NoManager \/ ~launched THEN Goto("login", "profile") /\ UNCHANGED phase ELSE WantPage

Login ==
  /\ at["login"] = "none"
  /\ sawRounds' = observing /\ Begin
  /\ IF launched THEN WantBrowser ELSE Goto("login", "preflight") /\ UNCHANGED phase
  /\ UNCHANGED <<observing, browserVars, pair, own>>

PreflightEnds ==
  /\ at["login"] = "preflight"
  /\ WantBrowser \/ (Goto("login", "none") /\ phase' = "waiting")
  /\ UNCHANGED <<observing, browserVars, pair, own, sawRounds, metVars>>

LoginRestored ==
  /\ at["login"] = "restore" /\ WantPage
  /\ UNCHANGED <<observing, browserVars, pair, own, sawRounds, metVars>>

(* The login pipeline ends: the region is blocked, the login fails (in dry *)
(* run the phase stays what it is if rounds were observed when the login   *)
(* began), it throws as its page was closed, or it succeeds and the        *)
(* supervisor goes to the game; while it observes it only navigates.       *)
PipelineEnds ==
  /\ at["login"] = "pipeline"
  /\ \/ /\ Goto("login", "none") /\ phase' \in {"waiting"} \cup (IF sawRounds THEN {phase} ELSE {})
        /\ UNCHANGED <<observing, browserVars, pair, own, sawRounds, metVars>>
     \/ ~HasPage /\ Throws("login")
     \/ ~observing /\ Navigate("login", "navigate")
     \/ observing /\ Navigate("login", "navigateOnly")

(* The navigation of a page that was closed throws.                        *)
LoginNavigated ==
  /\ at["login"] = "navigateOnly"
  /\ phase' = "busy" \/ (~HasPage /\ UNCHANGED phase)
  /\ Goto("login", "none")
  /\ UNCHANGED <<observing, browserVars, pair, own, sawRounds, metVars>>
-----------------------------------------------------------------------------
(* stop() up to the closing of the page.  A manager that has neither page  *)
(* nor browser, as while it launches, is closed at once.                   *)
Stop ==
  /\ at["stop"] = "none"
  /\ phase' = "stopped" /\ observing' = FALSE /\ pair' = NoPair
  /\ IF manager \in contexts
     THEN /\ own' = [own EXCEPT !["stop"] = manager]
          /\ Goto("stop", IF HasPage THEN "closingPage" ELSE "closing") /\ Begin
          /\ UNCHANGED <<manager, launched>>
     ELSE /\ manager' = NoManager /\ launched' = FALSE
          /\ overlapped' = UnderWay /\ everMet' = (everMet \/ UnderWay)
          /\ UNCHANGED <<own, at>>
  /\ UNCHANGED <<contexts, tabs, sawRounds>>

PageClosed ==
  /\ at["stop"] = "closingPage"
  /\ tabs' = tabs \ {own["stop"]} /\ Goto("stop", "closing")
  /\ UNCHANGED <<phase, observing, manager, contexts, launched, pair, own, sawRounds, metVars>>

(* The browser is closed, and whatever manager is the current one          *)
(* forgotten.  History notes a stop that nothing else is under way with    *)
(* and that nothing has set the phase since.                               *)
StopEnds ==
  /\ at["stop"] = "closing"
  /\ contexts' = contexts \ {own["stop"]} /\ manager' = NoManager /\ launched' = FALSE
  /\ own' = [own EXCEPT !["stop"] = NoManager] /\ Goto("stop", "none")
  /\ overlapped' = (overlapped /\ ~(phase = "stopped" /\ \A c \in Commands : at'[c] = "none"))
  /\ UNCHANGED <<phase, observing, tabs, pair, sawRounds, everMet>>

Pause ==
  /\ phase' = "paused" /\ observing' = FALSE
  /\ pair' = [pair EXCEPT !.subscribed = FALSE, !.listeners = 0]
  /\ Begin
  /\ UNCHANGED <<browserVars, at, own, sawRounds>>

(* initializeObservation, from a pause.  ResumeAnytime is a mutant: the    *)
(* test on the phase is missing.                                           *)
ResumeAnytime ==
  /\ at["resume"] = "none"
  /\ IF HasPage
     THEN pair' = FreshPair /\ Goto("resume", "attach") /\ Begin
     ELSE UNCHANGED <<pair, at, metVars>>
  /\ UNCHANGED <<phase, observing, browserVars, own, sawRounds>>

Resume == phase = "paused" /\ ResumeAnytime

SupNext ==
  \/ Start \/ StartRestored \/ Login \/ PreflightEnds \/ LoginRestored \/ PipelineEnds
  \/ LoginNavigated \/ Stop \/ PageClosed \/ StopEnds \/ Pause \/ Resume
  \/ \E c \in {"start", "login"} :
       ProfileReady(c) \/ BrowserOpened(c) \/ LaunchFails(c) \/ BrowserLaunched(c) \/ Navigated(c)
  \/ \E c \in {"start", "login", "resume"} : Attached(c)

SupSpec == SupInit /\ [][SupNext]_supVars
-----------------------------------------------------------------------------
CommandPlaces == {"none", "preflight", "profile", "launch", "opened", "restore", "pipeline", "navigate",
           "navigateOnly", "attach", "closingPage", "closing"}

SupTypeOK ==
  /\ phase \in {"stopped", "busy", "observing", "paused", "waiting", "failed"}
  /\ observing \in BOOLEAN /\ launched \in BOOLEAN /\ sawRounds \in BOOLEAN
  /\ overlapped \in BOOLEAN /\ everMet \in BOOLEAN
  /\ manager \in Managers \cup {NoManager}
  /\ contexts \subseteq Managers /\ tabs \subseteq Managers
  /\ pair \in [there : BOOLEAN, subscribed : BOOLEAN, listeners : 0..3]
  /\ at \in [Commands -> CommandPlaces]
  /\ own \in [Commands -> Managers \cup {NoManager}]

(* What the supervisor reports is what there is.                           *)
(*   While commands do not overlap, and again once a stop has ended with   *)
(* nothing else under way, isObserving() means that the browser and its    *)
(* page are up and that an observer, subscribed to a polling adapter,      *)
(* publishes each round once (the live bridge places only while            *)
(* isObserving()).                                                         *)
(*   Whatever overlapped it, when a stop has the last word the supervisor  *)
(* holds no adapter, no observer and no manager, and does not observe.     *)
(*   It holds no manager; that is not to say that no browser runs.  A      *)
(* stop that meets a launch closes a manager that has nothing to close     *)
(* yet, or forgets the manager a later start has set up: the browser then  *)
(* runs on and nothing can close it.  But only so: as long as commands do  *)
(* not meet, every browser that runs is the current manager's.             *)
(* (start, stop, pause, resume, loginWithCredentials; launchBrowser)       *)
PhaseIsTruthful ==
  /\ ~overlapped /\ observing /\ phase = "observing" =>
       HasPage /\ launched /\ pair = [there |-> TRUE, subscribed |-> TRUE, listeners |-> 1]
  /\ phase = "stopped" /\ ~UnderWay => pair = NoPair /\ manager = NoManager /\ ~observing
  /\ ~everMet => contexts \subseteq {manager}
=============================================================================
