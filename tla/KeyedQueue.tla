----------------------------- MODULE KeyedQueue -----------------------------
(***************************************************************************)
(* The messages of a keyed queue (queues/keyed): push, the per-key lease,  *)
(* the outcomes and the expiry of store.py, with the handler loops of      *)
(* consumer.py and drainer.py.                                             *)
(*                                                                         *)
(* The state lives in Redis and every process reaches it one command, or   *)
(* one WATCH/MULTI/EXEC transaction, at a time: each of those is a step.   *)
(* The reads of a fence, which its WATCH covers, are one step.             *)
(* Every write to what a process WATCHes puts the process in `dirty`, and  *)
(* its EXEC goes through only while it is not in it.                       *)
(*                                                                         *)
(* Signals are hints, and any process may call lease_key() without one, so *)
(* an attempt to lease a key can begin at any time here.  The signals, the *)
(* sorted sets `delayed` and `all` and the pause are left out: no lease    *)
(* and no outcome reads them.                                              *)
(*                                                                         *)
(* Times are abstracted to whether they have passed.  A deadline that a    *)
(* process has read is compared with that process's own clock at once.     *)
(***************************************************************************)
EXTENDS Integers, FiniteSets

CONSTANTS
  Keys,         \* the ordering keys
  Messages,     \* the message ids
  Workers,      \* the processes that consume and drain
  Clients,      \* the processes that push and release holds
  Created,      \* the values created_ms can take
  MaxAttempts,  \* max_attempts; 0 is no limit
  Ageing,       \* is max_age_ms set?
  FirstOut,     \* may a push give an order lower than that of its key's head?
  MaxPushes,    \* bound: calls of push
  MaxReleases,  \* bound: calls of release_hold
  MaxRefusals,  \* bound: outcomes other than ack
  MaxCrashes,   \* bound: processes that die, and handlers that are cancelled
  MaxLapses,    \* bound: leases that lapse while their holder is alive
  MaxMsgLosses, \* bound: message hashes that Redis loses
  None          \* nothing

Actors == Workers \cup Clients

ASSUME KeyedAssumption ==
  /\ IsFiniteSet(Keys) /\ IsFiniteSet(Messages)
  /\ Workers \cap Clients = {}
  /\ None \notin Keys \cup Messages \cup Actors
  /\ Created \subseteq Nat
  /\ {Ageing, FirstOut} \subseteq BOOLEAN
  /\ {MaxAttempts, MaxPushes, MaxReleases, MaxRefusals,
      MaxCrashes, MaxLapses, MaxMsgLosses} \subseteq Nat

VARIABLES
  msg,       \* msg:<id>, the hash of each message
  ghost,     \* the ids whose hash has a state and nothing else
  zset,      \* key:<k>: the score of each id in it, 0 for the ids that are not
  keys,      \* the set keys
  held,      \* held: the message each parked key was parked at
  lock,      \* lock:<k>: the process whose token it holds
  proc,      \* each process: the next command it will send, and what it knows
  dirty,     \* the processes whose next EXEC will be refused
  hist,      \* which messages were created, acked, handed to on_dlq, lost, and
             \* taken out of their sorted set by a repair while they had a hash
  used       \* how much of each bound is used

dataVars == <<msg, ghost, zset, keys, held>>
vars == <<dataVars, lock, proc, dirty, hist, used>>

Outcomes == {"ack", "retry", "wait", "hold"}

Message ==
  [inc : Nat, key : Keys, created : Created, gen : Nat, attempts : Nat,
   state : {"pending", "leased", "waiting", "held"},
   due : BOOLEAN, wait : BOOLEAN, aged : BOOLEAN]

ASSUME NoneAssumption == None \notin Message

\* What a process keeps between two commands.
Idle == [pc |-> "idle", key |-> None, mid |-> None, snap |-> None,
         kind |-> "none", ignore |-> FALSE]

Bounds == [pushes : 0..MaxPushes, releases : 0..MaxReleases,
           refusals : 0..MaxRefusals, crashes : 0..MaxCrashes,
           lapses : 0..MaxLapses, msgs : 0..MaxMsgLosses]

Init ==
  /\ msg = [m \in Messages |-> None]
  /\ ghost = {}
  /\ zset = [k \in Keys |-> [m \in Messages |-> 0]]
  /\ keys = {}
  /\ held = [k \in Keys |-> None]
  /\ lock = [k \in Keys |-> None]
  /\ proc = [a \in Actors |-> Idle]
  /\ dirty = {}
  /\ hist = [made |-> 0, acked |-> {}, handed |-> {}, lost |-> {}, lostIds |-> {},
             raced |-> {}]
  /\ used = [pushes |-> 0, releases |-> 0, refusals |-> 0,
             crashes |-> 0, lapses |-> 0, msgs |-> 0]

-----------------------------------------------------------------------------
(* Processes and watches.                                                  *)

Members(k) == {m \in Messages : zset[k][m] # 0}

\* ZRANGE key:<k> 0 0.
HeadOf(k) == CHOOSE m \in Members(k) : \A x \in Members(k) : zset[k][m] <= zset[k][x]

At(a, pc) == proc[a].pc = pc

Become(a, p) == proc' = [proc EXCEPT ![a] = p]
Goto(a, pc) == Become(a, [proc[a] EXCEPT !.pc = pc])

Spend(bound) == used' = [used EXCEPT ![bound] = @ + 1]

\* The steps between a WATCH and its EXEC; a write to the hash of m, or to the
\* lock of k, breaks the watches on it.
Watching == {"handoffX", "execX", "execL", "handoffA", "execA"}
WatchersOf(m) == {a \in Actors : proc[a].pc \in Watching /\ proc[a].mid = m}
WatchersOn(k) == {a \in Actors : proc[a].pc \in Watching /\ proc[a].key = k}

\* The steps at which a process believes that it holds the lock of its key.
Locked == {"head", "read", "repair", "fenceX", "handoffX", "execX", "held", "fenceL", "execL",
           "handling", "fenceA", "handoffA", "execA", "dropL", "release"}

\* The holder of the lock of k is alive and still at work on k.
HolderAlive(k) ==
  lock[k] # None /\ proc[lock[k]].key = k /\ proc[lock[k]].pc \in Locked

-----------------------------------------------------------------------------
(* push and release_hold.                                                  *)

Fresh(k, c) == [inc |-> hist.made + 1, key |-> k, created |-> c, gen |-> 0, attempts |-> 0,
                state |-> "pending", due |-> FALSE, wait |-> FALSE, aged |-> FALSE]

\* Mutant of Scores: the clock alone, without the last score, so that a burst ties.
ClockScores(k) == {2}

\* The score of a push: by default later than every default score before it,
\* an even number here; a caller's own can come before those.  No two are equal.
Scores(k) ==
  LET early == {2 * i - 1 : i \in 1..(hist.made + 1)}
  IN {2 * (hist.made + 1)} \cup
       (IF FirstOut THEN {n \in early : \A m \in Messages : zset[k][m] # n} ELSE {})

Push(c, m, k) ==
  /\ At(c, "idle") /\ used.pushes < MaxPushes
  /\ msg[m] = None
  /\ \E t \in Created : msg' = [msg EXCEPT ![m] = Fresh(k, t)]
  /\ ghost' = ghost \ {m}
  /\ \E n \in Scores(k) : zset' = [zset EXCEPT ![k][m] = n]
  /\ keys' = keys \cup {k}
  /\ hist' = [hist EXCEPT !.made = @ + 1]
  /\ dirty' = dirty \cup WatchersOf(m)
  /\ Spend("pushes")
  /\ UNCHANGED <<held, lock, proc>>

ReleaseHold(c, k) ==
  /\ At(c, "idle") /\ held[k] # None /\ used.releases < MaxReleases
  /\ held' = [held EXCEPT ![k] = None]
  /\ Become(c, [Idle EXCEPT !.pc = "holdHead", !.key = k])
  /\ Spend("releases")
  /\ UNCHANGED <<msg, ghost, zset, keys, lock, dirty, hist>>

\* ZRANGE and EXISTS: is there a hash to write to?
ReleaseHoldHead(c) ==
  LET k == proc[c].key
      found == Members(k) # {} /\ (msg[HeadOf(k)] # None \/ HeadOf(k) \in ghost) IN
  /\ At(c, "holdHead")
  /\ \/ found /\ Become(c, [proc[c] EXCEPT !.pc = "holdWrite", !.mid = HeadOf(k)])
     \/ ~found /\ Become(c, Idle)
  /\ UNCHANGED <<dataVars, lock, dirty, hist, used>>

\* HSET state: creates the hash when it is gone by now.
ReleaseHoldWrite(c) ==
  LET m == proc[c].mid IN
  /\ At(c, "holdWrite")
  /\ IF msg[m] # None
       THEN msg' = [msg EXCEPT ![m].state = "pending"] /\ UNCHANGED ghost
       ELSE ghost' = ghost \cup {m} /\ UNCHANGED msg
  /\ dirty' = dirty \cup WatchersOf(m)
  /\ Become(c, Idle)
  /\ UNCHANGED <<zset, keys, held, lock, hist, used>>

-----------------------------------------------------------------------------
(* _lease_key_detailed and _lease_locked.                                  *)

\* A consumer with a signal, or a drain, which is blind to retry delays.  When
\* the key is busy there is nothing to do.
LeaseKey(w, k, ignore) ==
  /\ At(w, "idle") /\ lock[k] = None
  /\ lock' = [lock EXCEPT ![k] = w]
  /\ dirty' = dirty \cup WatchersOn(k)
  /\ Become(w, [Idle EXCEPT !.pc = "head", !.key = k, !.ignore = ignore])
  /\ UNCHANGED <<dataVars, hist, used>>

\* No lease after all: let go of the lock.
GiveUp(w) == Become(w, [proc[w] EXCEPT !.pc = "release", !.mid = None, !.snap = None])

HeadEmpty(w) ==
  /\ At(w, "head") /\ Members(proc[w].key) = {}
  /\ Goto(w, "dropL")
  /\ UNCHANGED <<dataVars, lock, dirty, hist, used>>

\* ZRANGE names the head; its hash is read in the next command.
HeadFound(w) ==
  LET k == proc[w].key IN
  /\ At(w, "head") /\ Members(k) # {}
  /\ Become(w, [proc[w] EXCEPT !.pc = "read", !.mid = HeadOf(k)])
  /\ UNCHANGED <<dataVars, lock, dirty, hist, used>>

\* HGETALL finds nothing: the member is taken for one whose hash is lost.
HeadDangling(w) ==
  /\ At(w, "read") /\ msg[proc[w].mid] = None /\ proc[w].mid \notin ghost
  /\ Goto(w, "repair")
  /\ UNCHANGED <<dataVars, lock, dirty, hist, used>>

\* A hash without a `key` field makes _to_message raise.
HeadUnreadable(w) ==
  /\ At(w, "read") /\ proc[w].mid \in ghost
  /\ GiveUp(w)
  /\ UNCHANGED <<dataVars, lock, dirty, hist, used>>

\* ZREM, without a WATCH: also when the id was pushed again by now.
Repair(w) ==
  LET k == proc[w].key
      m == proc[w].mid
      there == zset[k][m] # 0 /\ msg[m] # None IN
  /\ At(w, "repair")
  /\ zset' = [zset EXCEPT ![k][m] = 0]
  /\ hist' = IF there THEN [hist EXCEPT !.raced = @ \cup {msg[m].inc}] ELSE hist
  /\ Become(w, [proc[w] EXCEPT !.pc = "head", !.mid = None])
  /\ UNCHANGED <<msg, ghost, keys, held, lock, dirty, used>>

\* The head as it is now; expire_head has nothing to do unless it is too old.
Examine(w) ==
  LET m == proc[w].mid IN
  /\ At(w, "read") /\ msg[m] # None
  /\ Become(w, [proc[w] EXCEPT !.pc = IF msg[m].aged THEN "fenceX" ELSE "held", !.snap = msg[m]])
  /\ UNCHANGED <<dataVars, lock, dirty, hist, used>>

\* Mutant of OwnsLock: somebody holds the lock.
SomebodyOwnsLock(w) == lock[proc[w].key] # None

\* _verify_fence: the token, the generation and the identity of the message.
OwnsLock(w) == lock[proc[w].key] = w

SameGen(w) == msg[proc[w].mid] # None /\ msg[proc[w].mid].gen = proc[w].snap.gen
SameMessage(w) == SameGen(w) /\ msg[proc[w].mid].created = proc[w].snap.created

\* _release: the lock goes if it is still the process's own.
Unlock(w) ==
  LET k == proc[w].key IN
  /\ lock' = IF OwnsLock(w) THEN [lock EXCEPT ![k] = None] ELSE lock
  /\ dirty' = IF OwnsLock(w) THEN dirty \cup WatchersOn(k) ELSE dirty

\* WATCH, and the fence of the two steps that act on a snapshot of the head.
Fence(w) ==
  /\ \/ At(w, "fenceX") /\ Goto(w, "handoffX")
     \/ At(w, "fenceL") /\ Goto(w, "execL")
  /\ OwnsLock(w) /\ SameMessage(w)
  /\ UNCHANGED <<dataVars, lock, dirty, hist, used>>

FenceLost(w) ==
  /\ proc[w].pc \in {"fenceX", "fenceL"}
  /\ ~(OwnsLock(w) /\ SameMessage(w))
  /\ GiveUp(w)
  /\ UNCHANGED <<dataVars, lock, dirty, hist, used>>

\* The EXEC of either step is refused.
ExecLost(w) ==
  /\ proc[w].pc \in {"execX", "execL"} /\ w \in dirty
  /\ GiveUp(w)
  /\ dirty' = dirty \ {w}
  /\ UNCHANGED <<dataVars, lock, hist, used>>

\* _handoff_dlq: on_dlq is awaited between WATCH and EXEC.
Handoff(w) ==
  /\ \/ At(w, "handoffX") /\ Goto(w, "execX")
     \/ At(w, "handoffA") /\ Goto(w, "execA")
  /\ hist' = [hist EXCEPT !.handed = @ \cup {proc[w].snap.inc}]
  /\ UNCHANGED <<dataVars, lock, dirty, used>>

\* ZREM key:<k>, DEL msg:<id>.
Remove(k, m) ==
  /\ zset' = [zset EXCEPT ![k][m] = 0]
  /\ msg' = [msg EXCEPT ![m] = None]
  /\ ghost' = ghost \ {m}

\* Mutant of ExpireExec: the hold at the message that expires stays.
ExpireExecKeepingHold(w) ==
  /\ At(w, "execX") /\ w \notin dirty
  /\ Remove(proc[w].key, proc[w].mid)
  /\ dirty' = dirty \cup (WatchersOf(proc[w].mid) \ {w})
  /\ Become(w, [proc[w] EXCEPT !.pc = "head", !.mid = None, !.snap = None])
  /\ UNCHANGED <<keys, held, lock, hist, used>>

ExpireExec(w) ==
  LET k == proc[w].key
      m == proc[w].mid IN
  /\ At(w, "execX") /\ w \notin dirty
  /\ Remove(k, m)
  /\ held' = IF held[k] = m THEN [held EXCEPT ![k] = None] ELSE held
  /\ dirty' = dirty \cup (WatchersOf(m) \ {w})
  /\ Become(w, [proc[w] EXCEPT !.pc = "head", !.mid = None, !.snap = None])
  /\ UNCHANGED <<keys, lock, hist, used>>

\* The head of a parked key is not leased.
HeadHeld(w) ==
  /\ At(w, "held") /\ held[proc[w].key] # None
  /\ GiveUp(w)
  /\ UNCHANGED <<dataVars, lock, dirty, hist, used>>

\* Mutant of NotYet: a drain is blind to the deadline of a wait too.
NotYetUnlessDrained(m, ignore) == ~ignore /\ ((m.state = "waiting" /\ m.wait) \/ m.due)

\* Nor is one that waits or, except for a drain, is not due.
NotYet(m, ignore) == (m.state = "waiting" /\ m.wait) \/ (~ignore /\ m.due)

\* Mutant of HeadChecked: the hold is not looked up.
HeadCheckedHeldOrNot(w) ==
  /\ At(w, "held")
  /\ IF NotYet(proc[w].snap, proc[w].ignore) THEN GiveUp(w) ELSE Goto(w, "fenceL")
  /\ UNCHANGED <<dataVars, lock, dirty, hist, used>>

HeadChecked(w) ==
  /\ At(w, "held") /\ held[proc[w].key] = None
  /\ IF NotYet(proc[w].snap, proc[w].ignore) THEN GiveUp(w) ELSE Goto(w, "fenceL")
  /\ UNCHANGED <<dataVars, lock, dirty, hist, used>>

LeaseExec(w) ==
  LET m == proc[w].mid
      leased == [msg[m] EXCEPT !.gen = proc[w].snap.gen + 1, !.state = "leased",
                               !.due = FALSE, !.wait = FALSE] IN
  /\ At(w, "execL") /\ w \notin dirty
  /\ msg' = [msg EXCEPT ![m] = leased]
  /\ dirty' = dirty \cup (WatchersOf(m) \ {w})
  /\ Become(w, [proc[w] EXCEPT !.pc = "handling", !.snap = leased])
  /\ UNCHANGED <<ghost, zset, keys, held, lock, hist, used>>

-----------------------------------------------------------------------------
(* The handler and apply.                                                  *)

\* An exception or a timeout is a retry.
Handled(w, outcome) ==
  /\ At(w, "handling")
  /\ Become(w, [proc[w] EXCEPT !.pc = "fenceA", !.kind = outcome])
  /\ IF outcome = "ack" THEN UNCHANGED used
     ELSE used.refusals < MaxRefusals /\ Spend("refusals")
  /\ UNCHANGED <<dataVars, lock, dirty, hist>>

\* The consumer is stopped: the lock goes.  (A drain that is cancelled in apply
\* also lets go of it: a Crash, then LockExpires.)
HandlerCancelled(w) ==
  /\ At(w, "handling") /\ used.crashes < MaxCrashes
  /\ Unlock(w)
  /\ Become(w, Idle)
  /\ Spend("crashes")
  /\ UNCHANGED <<dataVars, hist>>

\* Mutant of Exhausted: the attempts before this one are compared.
ExhaustedLate(w) ==
  /\ proc[w].kind = "retry"
  /\ MaxAttempts > 0 /\ msg[proc[w].mid].attempts > MaxAttempts

\* One retry too many is a removal, after on_dlq.
Exhausted(w) ==
  /\ proc[w].kind = "retry"
  /\ MaxAttempts > 0 /\ msg[proc[w].mid].attempts + 1 > MaxAttempts

ApplyFence(w) ==
  /\ At(w, "fenceA") /\ OwnsLock(w) /\ SameGen(w)
  /\ IF Exhausted(w) THEN Become(w, [proc[w] EXCEPT !.pc = "handoffA", !.kind = "dead"])
     ELSE Goto(w, "execA")
  /\ UNCHANGED <<dataVars, lock, dirty, hist, used>>

\* LeaseLost: the outcome is dropped and so is the lease.
ApplyLost(w) ==
  /\ \/ At(w, "fenceA") /\ ~(OwnsLock(w) /\ SameGen(w))
     \/ At(w, "execA") /\ w \in dirty
  /\ Become(w, Idle)
  /\ dirty' = dirty \ {w}
  /\ UNCHANGED <<dataVars, lock, hist, used>>

Applied(w) ==
  /\ dirty' = dirty \cup (WatchersOf(proc[w].mid) \ {w})
  /\ Become(w, [proc[w] EXCEPT !.pc = "release", !.mid = None, !.snap = None])
  /\ UNCHANGED <<keys, lock, used>>

\* Mutant of ApplyRemoval: the removal is not a transaction.
ApplyRemovalUnfenced(w) ==
  /\ At(w, "execA") /\ proc[w].kind \in {"ack", "dead"}
  /\ Remove(proc[w].key, proc[w].mid)
  /\ hist' = IF proc[w].kind = "ack"
               THEN [hist EXCEPT !.acked = @ \cup {proc[w].snap.inc}] ELSE hist
  /\ Applied(w)
  /\ UNCHANGED held

ApplyRemoval(w) ==
  /\ At(w, "execA") /\ w \notin dirty
  /\ proc[w].kind \in {"ack", "dead"}
  /\ Remove(proc[w].key, proc[w].mid)
  /\ hist' = IF proc[w].kind = "ack"
               THEN [hist EXCEPT !.acked = @ \cup {proc[w].snap.inc}] ELSE hist
  /\ Applied(w)
  /\ UNCHANGED held

ApplyRetry(w) ==
  /\ At(w, "execA") /\ w \notin dirty /\ proc[w].kind = "retry"
  /\ msg' = [msg EXCEPT ![proc[w].mid].attempts = @ + 1, ![proc[w].mid].due = TRUE,
                        ![proc[w].mid].state = "pending"]
  /\ Applied(w)
  /\ UNCHANGED <<ghost, zset, held, hist>>

ApplyWait(w) ==
  /\ At(w, "execA") /\ w \notin dirty /\ proc[w].kind = "wait"
  /\ msg' = [msg EXCEPT ![proc[w].mid].state = "waiting", ![proc[w].mid].wait = TRUE]
  /\ Applied(w)
  /\ UNCHANGED <<ghost, zset, held, hist>>

ApplyHold(w) ==
  /\ At(w, "execA") /\ w \notin dirty /\ proc[w].kind = "hold"
  /\ msg' = [msg EXCEPT ![proc[w].mid].state = "held"]
  /\ held' = [held EXCEPT ![proc[w].key] = proc[w].mid]
  /\ Applied(w)
  /\ UNCHANGED <<ghost, zset, hist>>

\* A lease that was not granted, and a hold, end when the lock is released; the
\* other outcomes reconcile the key.
ReleaseLock(w) ==
  LET k == proc[w].key IN
  /\ At(w, "release")
  /\ Unlock(w)
  /\ Become(w, IF proc[w].kind \in {"none", "hold"} THEN Idle
               ELSE [Idle EXCEPT !.pc = "reconcile", !.key = k])
  /\ UNCHANGED <<dataVars, hist, used>>

\* recover() reconciles the keys that are not locked.
Recover(w, k) ==
  /\ At(w, "idle") /\ k \in keys /\ lock[k] = None
  /\ Become(w, [Idle EXCEPT !.pc = "reconcile", !.key = k])
  /\ UNCHANGED <<dataVars, lock, dirty, hist, used>>

\* _reconcile writes to the messages' state only when the key has none.
Reconcile(w) ==
  /\ At(w, "reconcile")
  /\ IF Members(proc[w].key) = {} THEN Goto(w, "dropR") ELSE Become(w, Idle)
  /\ UNCHANGED <<dataVars, lock, dirty, hist, used>>

\* Mutant of DropKey: the key is dropped without a second look at its members.
DropKeyUnwatched(w) ==
  /\ \/ At(w, "dropL") /\ Goto(w, "release")
     \/ At(w, "dropR") /\ Become(w, Idle)
  /\ keys' = keys \ {proc[w].key}
  /\ held' = [held EXCEPT ![proc[w].key] = None]
  /\ UNCHANGED <<msg, ghost, zset, lock, dirty, hist, used>>

\* _drop_key_if_empty, for the head of a lease and for _reconcile.
DropKey(w) ==
  LET k == proc[w].key IN
  /\ \/ At(w, "dropL") /\ Goto(w, "release")
     \/ At(w, "dropR") /\ Become(w, Idle)
  /\ IF Members(k) = {}
       THEN keys' = keys \ {k} /\ held' = [held EXCEPT ![k] = None]
       ELSE UNCHANGED <<keys, held>>
  /\ UNCHANGED <<msg, ghost, zset, lock, dirty, hist, used>>

-----------------------------------------------------------------------------
(* Time, and what goes wrong.                                              *)

\* The lock of a process that is gone, or has dropped its lease, runs out.
LockExpires(k) ==
  /\ lock[k] # None /\ ~HolderAlive(k)
  /\ lock' = [lock EXCEPT ![k] = None]
  /\ dirty' = dirty \cup WatchersOn(k)
  /\ UNCHANGED <<dataVars, proc, hist, used>>

\* A process that is alive is too slow, or cannot extend its lock.
LockLapses(k) ==
  /\ HolderAlive(k) /\ used.lapses < MaxLapses
  /\ lock' = [lock EXCEPT ![k] = None]
  /\ dirty' = dirty \cup WatchersOn(k)
  /\ Spend("lapses")
  /\ UNCHANGED <<dataVars, proc, hist>>

DuePasses(m) ==
  /\ msg[m] # None /\ msg[m].due
  /\ msg' = [msg EXCEPT ![m].due = FALSE]
  /\ UNCHANGED <<ghost, zset, keys, held, lock, proc, dirty, hist, used>>

WaitPasses(m) ==
  /\ msg[m] # None /\ msg[m].wait
  /\ msg' = [msg EXCEPT ![m].wait = FALSE]
  /\ UNCHANGED <<ghost, zset, keys, held, lock, proc, dirty, hist, used>>

AgePasses(m) ==
  /\ Ageing /\ msg[m] # None /\ ~msg[m].aged
  /\ msg' = [msg EXCEPT ![m].aged = TRUE]
  /\ UNCHANGED <<ghost, zset, keys, held, lock, proc, dirty, hist, used>>

\* A process dies; another takes its place.
Crash(a) ==
  /\ ~At(a, "idle") /\ used.crashes < MaxCrashes
  /\ Become(a, Idle)
  /\ Spend("crashes")
  /\ dirty' = dirty \ {a}
  /\ UNCHANGED <<dataVars, lock, hist>>

\* Redis loses the hash of a message.
LoseHash(m) ==
  /\ msg[m] # None /\ used.msgs < MaxMsgLosses
  /\ msg' = [msg EXCEPT ![m] = None]
  /\ hist' = [hist EXCEPT !.lost = @ \cup {msg[m].inc}, !.lostIds = @ \cup {m}]
  /\ dirty' = dirty \cup WatchersOf(m)
  /\ Spend("msgs")
  /\ UNCHANGED <<ghost, zset, keys, held, lock, proc>>

-----------------------------------------------------------------------------

Proceed(w) ==
  \/ HeadEmpty(w) \/ HeadFound(w) \/ HeadDangling(w) \/ Repair(w) \/ HeadUnreadable(w)
  \/ Examine(w) \/ Fence(w) \/ FenceLost(w) \/ ExecLost(w) \/ Handoff(w) \/ ExpireExec(w)
  \/ HeadHeld(w) \/ HeadChecked(w) \/ LeaseExec(w)
  \/ \E outcome \in Outcomes : Handled(w, outcome)
  \/ HandlerCancelled(w)
  \/ ApplyFence(w) \/ ApplyLost(w)
  \/ ApplyRemoval(w) \/ ApplyRetry(w) \/ ApplyWait(w) \/ ApplyHold(w)
  \/ ReleaseLock(w) \/ Reconcile(w) \/ DropKey(w)

Next ==
  \/ \E w \in Workers :
       \/ Proceed(w)
       \/ \E k \in Keys : Recover(w, k) \/ \E ignore \in BOOLEAN : LeaseKey(w, k, ignore)
  \/ \E c \in Clients :
       \/ ReleaseHoldHead(c) \/ ReleaseHoldWrite(c)
       \/ \E k \in Keys : ReleaseHold(c, k) \/ \E m \in Messages : Push(c, m, k)
  \/ \E a \in Actors : Crash(a)
  \/ \E k \in Keys : LockExpires(k) \/ LockLapses(k)
  \/ \E m \in Messages : DuePasses(m) \/ WaitPasses(m) \/ AgePasses(m) \/ LoseHash(m)

Spec == Init /\ [][Next]_vars

-----------------------------------------------------------------------------
(* Properties.                                                             *)

MostAttempts == IF MaxAttempts > 0 THEN MaxAttempts ELSE MaxRefusals

Process ==
  [pc : Locked \cup {"idle", "holdHead", "holdWrite", "reconcile", "dropR"},
   key : Keys \cup {None}, mid : Messages \cup {None}, snap : Message \cup {None},
   kind : Outcomes \cup {"none", "dead"}, ignore : BOOLEAN]

History ==
  [made : Nat, acked : SUBSET Nat, handed : SUBSET Nat, raced : SUBSET Nat,
   lost : SUBSET Nat, lostIds : SUBSET Messages]

Types ==
  /\ msg \in [Messages -> Message \cup {None}]
  /\ ghost \subseteq Messages
  /\ zset \in [Keys -> [Messages -> Nat]]
  /\ keys \subseteq Keys
  /\ held \in [Keys -> Messages \cup {None}]
  /\ lock \in [Keys -> Workers \cup {None}]
  /\ proc \in [Actors -> Process]
  /\ dirty \subseteq Actors
  /\ hist \in History
  /\ used \in Bounds

\* Every variable has its type, and a message is never tried more than
\* max_attempts times.
TypeOK ==
  /\ Types
  /\ \A m \in Messages : msg[m] # None => msg[m].attempts <= MostAttempts

\* The i-th message that was pushed has its hash, and is in its key's sorted set.
Queued(i) == \E m \in Messages : msg[m] # None /\ msg[m].inc = i /\ zset[msg[m].key][m] # 0

\* A message that push() created is in its key's sorted set, hash and all, until
\* the outcome of a lease on that very message acked it, it was handed to
\* on_dlq, or Redis lost it: no process with a stale view of an earlier message
\* of the same id ever removes it.  The one exception is the repair of a member
\* without a hash, which is not watched (store.py:654-661): it may take the id of
\* a message pushed meanwhile out of the sorted set, but only in a process whose
\* lock lapsed, or after Redis has lost a hash.
Conserved ==
  /\ \A i \in 1..hist.made :
       \/ i \in hist.acked \cup hist.handed \cup hist.lost \cup hist.raced
       \/ Queued(i)
  /\ hist.raced # {} => used.lapses > 0 \/ hist.lost # {}

\* A process whose EXEC would go through holds the lock of its key, and the
\* message is the one it examined or leased, in the same generation.
CommitsAreFenced ==
  \A w \in Workers :
    proc[w].pc \in {"handoffX", "execX", "execL", "handoffA", "execA"} /\ w \notin dirty =>
      /\ lock[proc[w].key] = w
      /\ msg[proc[w].mid] # None
      /\ msg[proc[w].mid].inc = proc[w].snap.inc
      /\ msg[proc[w].mid].gen = proc[w].snap.gen

\* recover() can see every key that has a message: a push that races with the
\* removal of the empty key never leaves the key out of `keys`.
KeyIndexed == \A k \in Keys : Members(k) # {} => k \in keys

\* A message that a repair took out of its sorted set although it has a hash.
Raced(m) == msg[m] # None /\ msg[m].inc \in hist.raced

\* A key is only ever parked at a message that it still has, or that a repair
\* took from it.
HoldHasMessage ==
  \A k \in Keys : held[k] # None =>
    zset[k][held[k]] # 0 \/ (Raced(held[k]) /\ msg[held[k]].key = k)

\* The step in which w is granted a lease.
Grants(w) == At(w, "execL") /\ proc'[w].pc = "handling"

\* No message of a parked key is leased, though the hold is looked up well
\* before the lease is written.
HeldNotLeased ==
  [][\A w \in Workers : Grants(w) => held[proc[w].key] = None]_vars

\* No lease is granted before the deadline of the message's last outcome: of a
\* wait for anyone, of a retry for anyone but a drain.
DeadlineHonoured ==
  [][\A w \in Workers :
       Grants(w) => /\ ~msg[proc[w].mid].wait
                    /\ msg[proc[w].mid].due => proc[w].ignore]_vars

\* With default orders the message that is leased is the oldest of its key, but
\* for those a repair took out of the sorted set.  Only an id whose hash Redis
\* lost, and which was pushed again, may be leased before its turn: the process
\* that looked for the first one finds the second.
LeasesTheOldest ==
  [][\A w \in Workers :
       Grants(w) /\ proc[w].mid \notin hist.lostIds => \A m \in Messages :
         msg[m] # None /\ msg[m].key = proc[w].key /\ ~Raced(m)
           => msg[proc[w].mid].inc <= msg[m].inc]_vars

\* After an ack the hash of the message is gone.
AckedHashIsGone == ghost = {}

\* A message that has a hash can be leased: its id is in its key's sorted set.
HashIsQueued == \A m \in Messages : msg[m] # None => zset[msg[m].key][m] # 0
=============================================================================
