--------------------------------- MODULE Leases ---------------------------------
(***************************************************************************)
(* The two locks kept in Redis as a key with a lifetime: the lock of the   *)
(* active instance, kept alive by heartbeats (core/instance-lock.ts), and  *)
(* the mutex that may fall back to a lock in memory                        *)
(* (core/distributed-mutex.ts).  A command to Redis may fail before or     *)
(* after it was executed; a lease may run out at any time.                 *)
(***************************************************************************)
CONSTANTS LockClients,    \* processes, or callers of the mutex
          ProcessOf(_),   \* the process a client belongs to
          NoClient

ASSUME LeaseAssumption == NoClient \notin LockClients

VARIABLES lock,       \* which lock this is: "instance" or "mutex"
          fallback,   \* allowInMemoryFallback
          key,        \* whose token the key in Redis holds
          localLock,  \* per process, whose token its localLocks holds
          held,       \* what each client thinks it holds: "none", "redis", "local"
          refused,    \* heartbeats answered "not yours", not yet heard
          leaving,    \* releases executed or failed, not yet heard
          overdue     \* history: the lease ran out since it was last acquired

leaseVars == <<lock, fallback, key, localLock, held, refused, leaving, overdue>>

Processes == {ProcessOf(c) : c \in LockClients}

LeaseInit ==
  /\ lock \in {"instance", "mutex"} /\ fallback \in BOOLEAN
  /\ key = NoClient /\ localLock = [p \in Processes |-> NoClient]
  /\ held = [c \in LockClients |-> "none"]
  /\ refused = {} /\ leaving = {} /\ overdue = {}

Takes(c, medium) == held' = [held EXCEPT ![c] = medium] /\ overdue' = overdue \ {c}
GivesUp(c) == Takes(c, "none")

(* The scripts delete the key only if it holds the caller's token.         *)
(* DeleteAnyway is a mutant.                                               *)
DeleteAnyway(current, token) == NoClient
CompareAndDelete(current, token) == IF current = token THEN NoClient ELSE current
Deleted(current, token) == CompareAndDelete(current, token)
-----------------------------------------------------------------------------
(* SET NX PX.  The answer of an executed one may be lost.                  *)
Acquire(c) ==
  /\ held[c] = "none" /\ key = NoClient
  /\ key' = c
  /\ Takes(c, "redis") \/ UNCHANGED <<held, overdue>>
  /\ UNCHANGED <<lock, fallback, localLock, refused, leaving>>

(* tryAcquireLocal, after Redis failed.                                    *)
AcquireLocal(c) ==
  /\ lock = "mutex" /\ fallback /\ held[c] = "none"
  /\ localLock[ProcessOf(c)] = NoClient
  /\ localLock' = [localLock EXCEPT ![ProcessOf(c)] = c]
  /\ Takes(c, "local")
  /\ UNCHANGED <<lock, fallback, key, refused, leaving>>

(* refresh: its script finds the key gone, or another's; a failure changes *)
(* nothing.                                                                *)
Heartbeat(c) ==
  /\ lock = "instance" /\ held[c] = "redis" /\ c \notin refused
  /\ key # c /\ refused' = refused \cup {c}
  /\ UNCHANGED <<lock, fallback, key, localLock, held, leaving, overdue>>

HeartbeatAnswered(c) ==
  /\ c \in refused /\ refused' = refused \ {c}
  /\ GivesUp(c)
  /\ UNCHANGED <<lock, fallback, key, localLock, leaving>>

(* release: a handle of the mutex is given up with the call, isHeld() of   *)
(* the instance lock stays true until the answer.                          *)
ReleaseLock(c) ==
  /\ held[c] = "redis" /\ c \notin leaving
  /\ key' \in {Deleted(key, c), key}
  /\ IF lock = "mutex"
     THEN GivesUp(c) /\ UNCHANGED leaving
     ELSE leaving' = leaving \cup {c} /\ UNCHANGED <<held, overdue>>
  /\ UNCHANGED <<lock, fallback, localLock, refused>>

ReleaseAnswered(c) ==
  /\ c \in leaving /\ leaving' = leaving \ {c}
  /\ GivesUp(c)
  /\ UNCHANGED <<lock, fallback, key, localLock, refused>>

ReleaseLocal(c) ==
  /\ held[c] = "local"
  /\ localLock' = [localLock EXCEPT ![ProcessOf(c)] = Deleted(@, c)]
  /\ GivesUp(c)
  /\ UNCHANGED <<lock, fallback, key, refused, leaving>>

Expire ==
  /\ key # NoClient /\ key' = NoClient
  /\ overdue' = overdue \cup {c \in {key} : held[c] = "redis"}
  /\ UNCHANGED <<lock, fallback, localLock, held, refused, leaving>>

ExpireLocal ==
  \E p \in Processes :
    /\ localLock[p] # NoClient /\ localLock' = [localLock EXCEPT ![p] = NoClient]
    /\ overdue' = overdue \cup {localLock[p]}
    /\ UNCHANGED <<lock, fallback, key, held, refused, leaving>>

LeaseNext ==
  \/ Expire \/ ExpireLocal
  \/ \E c \in LockClients : \/ Acquire(c) \/ AcquireLocal(c) \/ Heartbeat(c) \/ HeartbeatAnswered(c)
                            \/ ReleaseLock(c) \/ ReleaseAnswered(c) \/ ReleaseLocal(c)

LeaseSpec == LeaseInit /\ [][LeaseNext]_leaseVars
-----------------------------------------------------------------------------
LeaseTypeOK ==
  /\ lock \in {"instance", "mutex"} /\ fallback \in BOOLEAN
  /\ key \in LockClients \cup {NoClient}
  /\ localLock \in [Processes -> LockClients \cup {NoClient}]
  /\ held \in [LockClients -> {"none", "redis", "local"}]
  /\ refused \subseteq LockClients /\ leaving \subseteq LockClients /\ overdue \subseteq LockClients

(* A lock is lost only to time: unless its lease has run out, or it is     *)
(* releasing it, whoever thinks that it holds the lock is the one the key  *)
(* names, so nobody else can take it; a late release or heartbeat of a     *)
(* former holder does no harm.  A client with the lock in memory excludes  *)
(* those of its own process that have it in memory, no others, and without *)
(* the fallback nobody has it there.  (tryAcquire, refresh, release)       *)
LeaseExclusive ==
  \A c \in LockClients \ (overdue \cup leaving) :
    /\ held[c] = "redis" => key = c
    /\ held[c] = "local" => localLock[ProcessOf(c)] = c /\ fallback
=============================================================================
