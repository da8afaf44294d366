---------------------------- MODULE OperatorControl ----------------------------
(***************************************************************************)
(* The operator's commands that change the system, over Telegram           *)
(* (telegram/commands/control.ts, config.ts, login.ts, router.ts,          *)
(* gateway.ts) as the composition root serves them (app/composition.ts):   *)
(* pause, resume, stop, the emergency stop, the mode and the               *)
(* configuration, both confirmed with a token, and the login conversation. *)
(*                                                                         *)
(* Any user in a private chat is an operator: no handler looks at isAdmin. *)
(* Commands overlap at their awaits.  A refused command, and one over the  *)
(* rate limit, changes nothing.                                            *)
(***************************************************************************)
EXTENDS Naturals, FiniteSets

CONSTANTS Operators,
          MaxTokens       \* bound: tokens issued by one process

ASSUME OperatorAssumption == MaxTokens \in Nat

VARIABLES sysMode,    \* config.system.mode
          sysHalted,  \* runtime.halted
          botUp,      \* the bot is running
          stopping,   \* "none", "pausing" (an emergency stop) or "stopping"
          liveToken,  \* pendingLiveConfirmations: token of each operator, or 0
          confTokens, \* pendingConfirmations
          lastToken,  \* tokens are 1..lastToken
          stale,      \* tokens whose time is up
          chat,       \* login conversation, of the one chat that has one: "none", "email", "password"
          issued,     \* history: whom each /mode token was issued to, or Nobody
          spent,      \* history: /mode tokens that have activated live mode
          revoked,    \* history: /mode tokens issued before an emergency stop
          unasked     \* history: a /mode confirmation went through without right

opVars == <<sysMode, sysHalted, botUp, stopping, liveToken, confTokens, lastToken, stale, chat,
            issued, spent, revoked, unasked>>
tokenVars == <<liveToken, confTokens, lastToken, stale, issued, spent, revoked, unasked>>

Nobody == "nobody"
SysModes == {"dry-run", "live"}      \* "dry-run" stands for every mode that is not live

Booted ==
  /\ sysMode' = "dry-run" /\ sysHalted' = FALSE /\ botUp' = TRUE /\ stopping' = "none"
  /\ liveToken' = [o \in Operators |-> 0] /\ confTokens' = {} /\ lastToken' = 0 /\ stale' = {}
  /\ chat' = "none"
  /\ issued' = [t \in 1..MaxTokens |-> Nobody] /\ spent' = {} /\ revoked' = {}
  /\ UNCHANGED unasked

OpInit ==
  /\ sysMode = "dry-run" /\ sysHalted = FALSE /\ botUp = TRUE /\ stopping = "none"
  /\ liveToken = [o \in Operators |-> 0] /\ confTokens = {} /\ lastToken = 0 /\ stale = {}
  /\ chat = "none"
  /\ issued = [t \in 1..MaxTokens |-> Nobody] /\ spent = {} /\ revoked = {} /\ unasked = FALSE
-----------------------------------------------------------------------------
(* pauseSystem, resumeSystem; stopSystem stops the bot at its end.         *)

OpPause ==
  /\ botUp /\ sysHalted' = TRUE
  /\ UNCHANGED <<sysMode, botUp, stopping, chat, tokenVars>>

OpResume ==
  /\ botUp /\ sysHalted' = FALSE
  /\ UNCHANGED <<sysMode, botUp, stopping, chat, tokenVars>>

OpStop ==
  /\ botUp /\ stopping = "none" /\ stopping' = "stopping" /\ sysHalted' = TRUE
  /\ UNCHANGED <<sysMode, botUp, chat, tokenVars>>

OpStopped ==
  /\ stopping = "stopping" /\ stopping' = "none" /\ botUp' = FALSE
  /\ UNCHANGED <<sysMode, sysHalted, chat, tokenVars>>

(* /emergencystop forgets the pending live confirmations, pauses, stops.   *)
(* KeepTokens is a mutant: the pending ones survive.                       *)
KeepTokens == UNCHANGED liveToken
ForgetTokens == liveToken' = [o \in Operators |-> 0]
DropConfirmations == ForgetTokens

EmergencyBegins ==
  /\ botUp /\ stopping = "none" /\ stopping' = "pausing" /\ sysHalted' = TRUE
  /\ DropConfirmations
  /\ revoked' = 1..lastToken
  /\ UNCHANGED <<sysMode, botUp, chat, confTokens, lastToken, stale, issued, spent, unasked>>

EmergencyStops ==
  /\ stopping = "pausing" /\ stopping' = "stopping" /\ sysHalted' = TRUE
  /\ UNCHANGED <<sysMode, botUp, chat, tokenVars>>

ProcessRestarts == ~botUp /\ Booted
-----------------------------------------------------------------------------
(* /mode: any other mode at once; live mode for a token, the last of the   *)
(* operator, within its time, once.                                        *)

ModeOther ==
  /\ botUp /\ sysMode' = "dry-run"
  /\ UNCHANGED <<sysHalted, botUp, stopping, chat, tokenVars>>

ModeLive(o) ==
  /\ botUp /\ lastToken < MaxTokens
  /\ lastToken' = lastToken + 1
  /\ liveToken' = [liveToken EXCEPT ![o] = lastToken']
  /\ issued' = [issued EXCEPT ![lastToken'] = o]
  /\ UNCHANGED <<sysMode, sysHalted, botUp, stopping, chat, confTokens, stale, spent, revoked,
                 unasked>>

ModeConfirm(o, t) ==
  /\ botUp /\ liveToken[o] # 0
  /\ IF liveToken[o] \in stale
     THEN /\ liveToken' = [liveToken EXCEPT ![o] = 0]
          /\ UNCHANGED <<sysMode, sysHalted, spent, unasked>>
     ELSE /\ t = liveToken[o]
          /\ liveToken' = [liveToken EXCEPT ![o] = 0]
          /\ sysMode' = "live" /\ sysHalted' = FALSE
          /\ spent' = spent \cup {t}
          /\ unasked' = (unasked \/ issued[t] # o \/ t \in spent \cup stale \cup revoked)
  /\ UNCHANGED <<botUp, stopping, chat, confTokens, lastToken, stale, issued, revoked>>

TokenExpires ==
  /\ \E t \in 1..lastToken \ stale : stale' = stale \cup {t}
  /\ UNCHANGED <<sysMode, sysHalted, botUp, stopping, chat, liveToken, confTokens, lastToken,
                 issued, spent, revoked, unasked>>
-----------------------------------------------------------------------------
(* /config set system.mode (other keys are data); /config confirm applies  *)
(* the change and then forgets the token.  An emergency stop leaves these  *)
(* tokens alone.                                                           *)

ConfigSet(o) ==
  /\ botUp /\ lastToken < MaxTokens
  /\ lastToken' = lastToken + 1
  /\ \E v \in SysModes :
       confTokens' = {c \in confTokens : c.token \notin stale}
                       \cup {[token |-> lastToken', op |-> o, value |-> v, applied |-> FALSE]}
  /\ UNCHANGED <<sysMode, sysHalted, botUp, stopping, chat, liveToken, stale, issued, spent,
                 revoked, unasked>>

ConfigConfirm(o) ==
  \E c \in confTokens :
    /\ botUp
    /\ \/ /\ c.token \in stale
          /\ confTokens' = confTokens \ {c} /\ UNCHANGED sysMode
       \/ /\ c.token \notin stale /\ c.op = o
          /\ sysMode' = c.value
          /\ confTokens' = (confTokens \ {c}) \cup {[c EXCEPT !.applied = TRUE]}
    /\ UNCHANGED <<sysHalted, botUp, stopping, chat, liveToken, lastToken, stale, issued, spent,
                   revoked, unasked>>

ConfigForget ==
  /\ \E c \in confTokens : c.applied /\ confTokens' = confTokens \ {c}
  /\ UNCHANGED <<sysMode, sysHalted, botUp, stopping, chat, liveToken, lastToken, stale, issued,
                 spent, revoked, unasked>>
-----------------------------------------------------------------------------
(* /login, /login_cancel, and the texts that are no commands.  There is no *)
(* time limit.                                                             *)

LoginCommand ==
  /\ botUp /\ chat' = "email"
  /\ UNCHANGED <<sysMode, sysHalted, botUp, stopping, tokenVars>>

LoginCancel ==
  /\ botUp /\ chat' = "none"
  /\ UNCHANGED <<sysMode, sysHalted, botUp, stopping, tokenVars>>

LoginText ==
  /\ botUp /\ chat # "none"
  /\ chat' = IF chat = "email" THEN "password" ELSE "none"
  /\ UNCHANGED <<sysMode, sysHalted, botUp, stopping, tokenVars>>

OpNext ==
  \/ OpPause \/ OpResume \/ OpStop \/ OpStopped \/ EmergencyBegins \/ EmergencyStops
  \/ ProcessRestarts \/ ModeOther \/ TokenExpires \/ ConfigForget
  \/ \E o \in Operators :
       \/ ModeLive(o) \/ ConfigSet(o) \/ ConfigConfirm(o)
       \/ \E t \in 1..lastToken : ModeConfirm(o, t)

(* The conversation of /login touches nothing the others do, but ends with *)
(* the process: it is explored on its own.                                 *)
ChatNext == LoginCommand \/ LoginCancel \/ LoginText \/ OpStop \/ OpStopped \/ ProcessRestarts

OpSpec == OpInit /\ [][OpNext]_opVars
-----------------------------------------------------------------------------
OpTypeOK ==
  /\ sysMode \in SysModes /\ sysHalted \in BOOLEAN /\ botUp \in BOOLEAN /\ unasked \in BOOLEAN
  /\ stopping \in {"none", "pausing", "stopping"} /\ lastToken \in 0..MaxTokens
  /\ liveToken \in [Operators -> 0..MaxTokens] /\ chat \in {"none", "email", "password"}
  /\ \A c \in confTokens : c.op \in Operators /\ c.token \in 1..lastToken
  /\ issued \in [1..MaxTokens -> Operators \cup {Nobody}]
  /\ stale \subseteq 1..lastToken /\ spent \subseteq 1..lastToken /\ revoked \subseteq 1..lastToken

(* Whatever overlaps, /mode confirm activates live mode only for the       *)
(* operator the token was issued to, within its time, once, and never with *)
(* a token from before an emergency stop.  (handleLiveConfirm,             *)
(* /emergencystop; a /config change of the mode is another way to live     *)
(* mode, which an emergency stop does not close)                           *)
LiveWasAskedFor == ~unasked
=============================================================================
