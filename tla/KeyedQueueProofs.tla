-------------------------- MODULE KeyedQueueProofs --------------------------
(***************************************************************************)
(* Proofs about KeyedQueue, for any number of keys, messages, workers and  *)
(* clients, any bounds and any max_attempts.                               *)
(*                                                                         *)
(* Inv holds whatever goes wrong: processes die, leases lapse while their  *)
(* holder goes on, and Redis loses hashes.  It is inductive: every action  *)
(* is shown to preserve it by one of the lemmas on the form of a step      *)
(* (ProcStep, LockStep, WriteStep, IndexStep, OutsideWrite).               *)
(*                                                                         *)
(* Intact is inductive relative to Inv while Redis loses no hash.  With a  *)
(* loss it does not hold: an id that is pushed again in the same           *)
(* millisecond has the generation and the created_ms that the fence of a   *)
(* process with the old message compares.                                  *)
(*                                                                         *)
(* Lapsed is inductive relative to both: only a process that lost its lock *)
(* to the clock can take a message with a hash for a dangling member.      *)
(*                                                                         *)
(* Ordered is inductive relative to both, with default orders: scores are  *)
(* those of the pushes, and the head that the holder of a lock looked at   *)
(* stays the oldest of its key.                                            *)
(***************************************************************************)
EXTENDS KeyedQueue, WellFoundedInduction, TLAPS

-----------------------------------------------------------------------------
(* What holds whatever goes wrong.                                         *)

\* The steps at which a process has a key, and those at which it has examined
\* or leased a message.
Keyed == Locked \cup {"holdHead", "holdWrite", "reconcile", "dropR"}
Snapped == {"fenceX", "handoffX", "execX", "held", "fenceL", "execL",
            "handling", "fenceA", "handoffA", "execA"}

\* The steps after the look at the hold.
Unparked == {"fenceL", "execL", "handling", "fenceA", "handoffA", "execA"}

\* What a process needs for its next command is there.
ShapeOf(a, p) ==
  /\ p.pc \in Keyed => p.key \in Keys
  /\ p.pc \in Snapped => p.mid \in Messages /\ p.snap \in Message
  /\ p.pc \in {"read", "repair", "holdWrite"} => p.mid \in Messages
  /\ p.pc \in Locked \cup {"reconcile", "dropR"} => a \in Workers

\* An EXEC that would go through is one of the holder of the lock, on the
\* generation that it examined.
FenceOf(a, p) ==
  p.pc \in Watching /\ a \notin dirty =>
    lock[p.key] = a /\ msg[p.mid] # None /\ msg[p.mid].gen = p.snap.gen

\* A holder that found its key not parked can rely on that while it holds it.
HoldOf(a, p) ==
  p.pc \in Unparked /\ lock[p.key] = a => held[p.key] = None

Shape == \A a \in Actors : ShapeOf(a, proc[a])
WatchFence == \A a \in Actors : FenceOf(a, proc[a])
HoldFence == \A a \in Actors : HoldOf(a, proc[a])

Inv == Types /\ Shape /\ WatchFence /\ HoldFence /\ KeyIndexed

\* What Become() does to the processes.
LEMMA Becomes ==
  ASSUME Types, NEW a \in Actors, NEW p \in Process, Become(a, p)
  PROVE  /\ proc' \in [Actors -> Process]
         /\ proc'[a] = p
         /\ \A b \in Actors : b # a => proc'[b] = proc[b]
BY DEF Types, Become

\* A step that changes nothing in Redis.
LEMMA ProcStep ==
  ASSUME Inv, NEW a \in Actors, NEW p \in Process, Become(a, p),
         UNCHANGED <<dataVars, lock>>, dirty' \in {dirty, dirty \ {a}},
         hist' \in History,
         used' \in Bounds,
         ShapeOf(a, p), HoldOf(a, p),
         p.pc \in Watching => dirty' = dirty /\ FenceOf(a, p)
  PROVE  Inv'
<1>1. /\ proc' \in [Actors -> Process]
      /\ proc'[a] = p
      /\ \A b \in Actors : b # a => proc'[b] = proc[b]
  BY Becomes DEF Inv
<1>2. Types'
  BY <1>1 DEF Inv, Types, dataVars
<1>3. Shape'
  BY <1>1 DEF Inv, Shape, ShapeOf
<1>4. WatchFence'
  BY <1>1 DEF Inv, WatchFence, FenceOf, dataVars
<1>5. HoldFence'
  BY <1>1 DEF Inv, HoldFence, HoldOf, dataVars
<1>6. KeyIndexed'
  BY DEF Inv, KeyIndexed, Members, dataVars
<1> QED BY <1>2, <1>3, <1>4, <1>5, <1>6 DEF Inv

\* A step that gives the lock of a key to a process that begins to lease it, or
\* takes it away.
LEMMA LockStep ==
  ASSUME Inv, NEW a \in Actors, NEW p \in Process, Become(a, p),
         NEW k \in Keys, NEW v \in Workers \cup {None},
         lock' = [lock EXCEPT ![k] = v], dirty' = dirty \cup WatchersOn(k),
         UNCHANGED <<dataVars, hist>>, used' \in Bounds,
         ShapeOf(a, p), p.pc \notin Watching, p.pc \notin Unparked,
         v \in {a, None}
  PROVE  Inv'
<1>1. /\ proc' \in [Actors -> Process]
      /\ proc'[a] = p
      /\ \A b \in Actors : b # a => proc'[b] = proc[b]
  BY Becomes DEF Inv
<1>2. Types'
  BY <1>1 DEF Inv, Types, dataVars, WatchersOn
<1>3. Shape'
  BY <1>1 DEF Inv, Shape, ShapeOf
<1>0. None \notin Actors
  BY KeyedAssumption
<1>4. WatchFence'
  BY <1>1 DEF Inv, WatchFence, FenceOf, dataVars, WatchersOn, Types
<1>5. HoldFence'
  BY <1>1, <1>0 DEF Inv, HoldFence, HoldOf, dataVars, Types
<1>6. KeyIndexed'
  BY DEF Inv, KeyIndexed, Members, dataVars
<1> QED BY <1>2, <1>3, <1>4, <1>5, <1>6 DEF Inv

\* A commit of a to the hash of m, after which a watches nothing.
LEMMA WriteStep ==
  ASSUME Inv, NEW a \in Actors, NEW p \in Process, Become(a, p),
         NEW m \in Messages, NEW r \in Message \cup {None}, msg' = [msg EXCEPT ![m] = r],
         dirty' = dirty \cup (WatchersOf(m) \ {a}), UNCHANGED <<keys, lock>>,
         ghost' \subseteq Messages, held' \in [Keys -> Messages \cup {None}],
         zset' \in [Keys -> [Messages -> Nat]],
         hist' \in History,
         used' \in Bounds,
         ShapeOf(a, p), p.pc \notin Watching, p.pc \in Unparked => held'[p.key] = None,
         \A k \in Keys : held'[k] \in {held[k], None} \/ lock[k] = a,
         \A k \in Keys, x \in Messages : zset'[k][x] # 0 => zset[k][x] # 0
  PROVE  Inv'
<1>1. /\ proc' \in [Actors -> Process]
      /\ proc'[a] = p
      /\ \A b \in Actors : b # a => proc'[b] = proc[b]
  BY Becomes DEF Inv
<1>2. Types'
  BY <1>1 DEF Inv, Types, WatchersOf
<1>3. Shape'
  BY <1>1 DEF Inv, Shape, ShapeOf
<1>4. WatchFence'
  BY <1>1 DEF Inv, WatchFence, FenceOf, WatchersOf, Types
<1>5. HoldFence'
  <2> SUFFICES ASSUME NEW b \in Actors, proc'[b].pc \in Unparked,
                      lock'[proc'[b].key] = b
               PROVE  held'[proc'[b].key] = None
    BY DEF HoldFence, HoldOf
  <2>1. CASE b = a
    BY <1>1, <2>1
  <2>2. CASE b # a
    <3>1. proc[b].key \in Keys
      BY <1>1, <2>2 DEF Inv, Shape, ShapeOf, Keyed, Locked, Unparked
    <3> QED BY <1>1, <2>2, <3>1 DEF Inv, HoldFence, HoldOf
  <2> QED BY <2>1, <2>2
<1>6. KeyIndexed'
  BY DEF Inv, KeyIndexed, Members
<1> QED BY <1>2, <1>3, <1>4, <1>5, <1>6 DEF Inv

\* What Inv says of one process.
LEMMA Ready ==
  ASSUME Inv, NEW a \in Actors
  PROVE  /\ proc[a] \in Process /\ ShapeOf(a, proc[a])
         /\ hist \in History
         /\ used \in Bounds
BY DEF Inv, Types, Shape

\* A lease that is given up.
LEMMA GiveUpStep ==
  ASSUME Inv, NEW w \in Workers, proc[w].pc \in Locked, GiveUp(w),
         UNCHANGED <<dataVars, lock, hist, used>>, dirty' \in {dirty, dirty \ {w}}
  PROVE  Inv'
<1> DEFINE p == [proc[w] EXCEPT !.pc = "release", !.mid = None, !.snap = None]
<1>1. w \in Actors
  BY DEF Actors
<1>2. p \in Process /\ p.pc = "release" /\ p.key = proc[w].key
  BY <1>1, Ready DEF Process, Locked
<1>3. ShapeOf(w, p)
  BY <1>1, <1>2, Ready DEF ShapeOf, Keyed, Snapped, Locked
<1>4. Become(w, p)
  BY DEF GiveUp
<1>5. HoldOf(w, p) /\ p.pc \notin Watching
  BY <1>2 DEF Unparked, HoldOf, Watching
<1> HIDE DEF p
<1> QED BY <1>1, <1>2, <1>3, <1>4, <1>5, Ready, ProcStep

\* A worker that goes on to its next command, where it has what that command needs.
LEMMA GotoStep ==
  ASSUME Inv, NEW w \in Workers, NEW c \in Locked \cup {"dropR"}, Goto(w, c),
         UNCHANGED <<dataVars, lock, dirty, used>>,
         hist' \in History,
         proc[w].pc \in Locked \cup {"reconcile"},
         c \in Snapped => proc[w].pc \in Snapped, c # "read",
         c = "repair" => proc[w].pc = "read",
         c \in Unparked =>
           \/ HoldOf(w, proc[w]) /\ proc[w].pc \in Unparked
           \/ held[proc[w].key] = None,
         c \in Watching => (OwnsLock(w) /\ SameGen(w)) \/ proc[w].pc \in Watching
  PROVE  Inv'
<1> DEFINE p == [proc[w] EXCEPT !.pc = c]
<1>1. w \in Actors
  BY DEF Actors
<1>2. p \in Process /\ p.pc = c /\ p.key = proc[w].key /\ p.mid = proc[w].mid
        /\ p.snap = proc[w].snap
  BY <1>1, Ready DEF Process, Locked
<1>3. ShapeOf(w, p)
  BY <1>1, <1>2, Ready DEF ShapeOf, Keyed, Snapped, Locked
<1>4. Become(w, p)
  BY DEF Goto
<1>5. HoldOf(w, p)
  BY <1>2 DEF HoldOf
<1>6. p.pc \in Watching => FenceOf(w, p)
  BY <1>1, <1>2 DEF FenceOf, OwnsLock, SameGen, Inv, WatchFence
<1> HIDE DEF p
<1> QED BY <1>1, <1>2, <1>3, <1>4, <1>5, <1>6, Ready, ProcStep

\* A set of numbers that is not empty has a smallest one.
LEMMA SmallestNumber ==
  ASSUME NEW T, T \subseteq Nat, T # {}
  PROVE  \E x \in T : \A y \in T : x <= y
<1>1. PICK x \in T : \A y \in T : ~ (<<y, x>> \in OpToRel(<, Nat))
  BY NatLessThanWellFounded, WFMin
<1>2. \A y \in T : ~ (y < x)
  BY <1>1 DEF OpToRel
<1> QED BY <1>2

\* ZRANGE 0 0 of a sorted set that is not empty gives a member of the lowest score.
LEMMA HeadIsMember ==
  ASSUME Types, NEW k \in Keys, Members(k) # {}
  PROVE  /\ HeadOf(k) \in Members(k) /\ HeadOf(k) \in Messages
         /\ \A x \in Members(k) : zset[k][HeadOf(k)] <= zset[k][x]
<1> DEFINE T == {zset[k][m] : m \in Members(k)}
<1>0. \A m \in Members(k) : m \in Messages /\ zset[k][m] \in Nat
  BY DEF Types, Members
<1>1. T \subseteq Nat /\ T # {}
  BY <1>0
<1>2. PICK x \in T : \A y \in T : x <= y
  BY <1>1, SmallestNumber
<1>3. PICK m \in Members(k) : x = zset[k][m]
  OBVIOUS
<1>4. \A y \in Members(k) : zset[k][m] <= zset[k][y]
  BY <1>2, <1>3
<1>5. HeadOf(k) \in Members(k) /\ \A y \in Members(k) : zset[k][HeadOf(k)] <= zset[k][y]
  BY <1>4 DEF HeadOf
<1> QED BY <1>5 DEF Members

\* A process that has nothing to do is a process.
LEMMA IdleIsIdle == Idle \in Process /\ Idle.pc = "idle"
BY DEF Idle, Process, Locked

\* A process that stops what it was doing, and writes nothing.
LEMMA IdleStep ==
  ASSUME Inv, NEW a \in Actors, Become(a, Idle), UNCHANGED <<dataVars, lock, hist>>,
         dirty' \in {dirty, dirty \ {a}}, used' \in Bounds
  PROVE  Inv'
<1>1. ShapeOf(a, Idle) /\ HoldOf(a, Idle) /\ Idle.pc \notin Watching
  BY IdleIsIdle DEF Unparked, ShapeOf, HoldOf, Keyed, Snapped, Locked, Watching
<1> QED BY <1>1, IdleIsIdle, Ready, ProcStep

\* The counters of the bounds stay in their ranges.
LEMMA BoundsSpent ==
  ASSUME Inv, NEW b \in {"pushes", "releases", "refusals", "crashes", "lapses", "msgs"},
         b = "pushes" => used.pushes < MaxPushes,
         b = "releases" => used.releases < MaxReleases,
         b = "refusals" => used.refusals < MaxRefusals,
         b = "crashes" => used.crashes < MaxCrashes,
         b = "lapses" => used.lapses < MaxLapses,
         b = "msgs" => used.msgs < MaxMsgLosses,
         Spend(b)
  PROVE  used' \in Bounds
<1>1. MaxPushes \in Nat /\ MaxReleases \in Nat /\ MaxRefusals \in Nat
        /\ MaxCrashes \in Nat /\ MaxLapses \in Nat /\ MaxMsgLosses \in Nat
  BY KeyedAssumption
<1> QED BY <1>1 DEF Inv, Types, Bounds, Spend

\* _lease_locked looks for the head, and reads it.
LEMMA HeadSteps ==
  ASSUME Inv, NEW w \in Workers,
         \/ HeadEmpty(w) \/ HeadFound(w)
         \/ HeadDangling(w) \/ HeadUnreadable(w) \/ Examine(w)
  PROVE  Inv'
<1> DEFINE k == proc[w].key
           m == proc[w].mid
<1>0. w \in Actors /\ proc[w].pc \in {"head", "read"} /\ {"head", "read"} \subseteq Locked
  BY DEF HeadEmpty, HeadFound, HeadDangling, HeadUnreadable, Examine, At, Actors, Locked
<1>1. k \in Keys /\ proc[w] \in Process
  BY <1>0, Ready DEF ShapeOf, Keyed
<1>2. CASE HeadEmpty(w)
  BY <1>0, <1>2, GotoStep DEF Unparked, HeadEmpty, Locked, Snapped, Watching, Inv, Types
<1>3. CASE HeadFound(w)
  <2> DEFINE p == [proc[w] EXCEPT !.pc = "read", !.mid = HeadOf(k)]
  <2>1. HeadOf(k) \in Messages
    BY <1>1, <1>3, HeadIsMember DEF HeadFound, Inv
  <2>2. p \in Process /\ p.pc = "read" /\ p.key = k /\ p.mid = HeadOf(k)
    BY <1>1, <2>1 DEF Process, Locked
  <2>3. ShapeOf(w, p) /\ HoldOf(w, p) /\ p.pc \notin Watching
    BY <2>1, <2>2, <1>1 DEF Unparked, ShapeOf, HoldOf, Keyed, Snapped, Locked, Watching
  <2>4. Become(w, p) /\ UNCHANGED <<dataVars, lock, dirty, hist, used>>
    BY <1>3 DEF HeadFound
  <2> HIDE DEF p
  <2> QED BY <1>0, <2>2, <2>3, <2>4, Ready, ProcStep
<1>4. CASE HeadDangling(w)
  BY <1>0, <1>4, Ready, GotoStep
  DEF HeadDangling, At, Unparked, Locked, Snapped, Watching, Inv, Types
<1>5. CASE HeadUnreadable(w)
  BY <1>0, <1>5, GiveUpStep DEF HeadUnreadable
<1>6. CASE Examine(w)
  <2> DEFINE c == IF msg[m].aged THEN "fenceX" ELSE "held"
             p == [proc[w] EXCEPT !.pc = c, !.snap = msg[m]]
  <2>1. m \in Messages /\ msg[m] \in Message
    BY <1>0, <1>6, Ready DEF Examine, At, ShapeOf, Inv, Types
  <2>2. p \in Process /\ p.pc \in {"fenceX", "held"} /\ p.key = k /\ p.mid = m
          /\ p.snap = msg[m]
    BY <1>1, <2>1 DEF Process, Locked
  <2>3. ShapeOf(w, p) /\ HoldOf(w, p) /\ p.pc \notin Watching
    BY <2>1, <2>2, <1>1 DEF Unparked, ShapeOf, HoldOf, Keyed, Snapped, Locked, Watching
  <2>4. Become(w, p) /\ UNCHANGED <<dataVars, lock, dirty, hist, used>>
    BY <1>6 DEF Examine
  <2> HIDE DEF p
  <2> QED BY <1>0, <2>2, <2>3, <2>4, Ready, ProcStep
<1> QED BY <1>2, <1>3, <1>4, <1>5, <1>6

\* The fence of a lease and of an expiry, its failure, and on_dlq.
LEMMA FenceSteps ==
  ASSUME Inv, NEW w \in Workers, Fence(w) \/ FenceLost(w) \/ ExecLost(w) \/ Handoff(w)
  PROVE  Inv'
<1>0. w \in Actors
  BY DEF Actors
<1>1. CASE FenceLost(w) \/ ExecLost(w)
  BY <1>1, GiveUpStep DEF FenceLost, ExecLost, Locked
<1>2. CASE Fence(w)
  <2>1. CASE At(w, "fenceX")
    BY <1>2, <2>1, GotoStep DEF Unparked, Fence, At, Locked, Snapped, Watching, SameMessage, Inv, Types
  <2>2. CASE At(w, "fenceL")
    <3>1. HoldOf(w, proc[w])
      BY <1>0 DEF Inv, HoldFence
    <3> QED
      BY <1>2, <2>2, <3>1, GotoStep
      DEF Unparked, Fence, At, Locked, Snapped, Watching, SameMessage, Inv, Types
  <2> QED BY <1>2, <2>1, <2>2 DEF Fence
<1>3. CASE Handoff(w)
  <2>1. proc[w].pc \in {"handoffX", "handoffA"}
    BY <1>3 DEF Handoff, At
  <2>2. proc[w].snap.inc \in Nat
    BY <1>0, <2>1, Ready DEF ShapeOf, Snapped, Message
  <2>3. hist' \in History
    BY <1>3, <2>2 DEF Handoff, Inv, Types, History
  <2>4. UNCHANGED <<dataVars, lock, dirty, used>>
    BY <1>3 DEF Handoff
  <2>5. CASE proc[w].pc = "handoffX" /\ Goto(w, "execX")
    BY <2>3, <2>4, <2>5, GotoStep DEF Locked, Snapped, Watching, Unparked
  <2>6. CASE proc[w].pc = "handoffA" /\ Goto(w, "execA")
    <3>1. HoldOf(w, proc[w])
      BY <1>0 DEF Inv, HoldFence
    <3> QED BY <2>3, <2>4, <2>6, <3>1, GotoStep DEF Locked, Snapped, Watching, Unparked
  <2> QED BY <1>3, <2>5, <2>6 DEF Handoff, At
<1> QED BY <1>1, <1>2, <1>3

\* _lease_locked looks up the hold.
LEMMA HeldSteps ==
  ASSUME Inv, NEW w \in Workers, HeadHeld(w) \/ HeadChecked(w)
  PROVE  Inv'
<1>1. proc[w].pc = "held" /\ UNCHANGED <<dataVars, lock, dirty, hist, used>>
  BY DEF HeadHeld, HeadChecked, At
<1>2. CASE GiveUp(w)
  BY <1>1, <1>2, GiveUpStep DEF Locked
<1>3. CASE Goto(w, "fenceL") /\ held[proc[w].key] = None
  BY <1>1, <1>3, GotoStep DEF Locked, Snapped, Watching, Inv, Types
<1> QED BY <1>2, <1>3 DEF HeadHeld, HeadChecked

\* The facts about a process whose EXEC goes through.
LEMMA Committing ==
  ASSUME Inv, NEW w \in Workers, proc[w].pc \in {"execX", "execL", "execA"}, w \notin dirty
  PROVE  /\ w \in Actors
         /\ proc[w] \in Process
         /\ proc[w].key \in Keys
         /\ proc[w].mid \in Messages
         /\ proc[w].snap \in Message
         /\ lock[proc[w].key] = w
         /\ msg[proc[w].mid] \in Message
<1>1. w \in Actors
  BY DEF Actors
<1>2. proc[w].pc \in Watching /\ proc[w].pc \in Snapped /\ proc[w].pc \in Keyed
  BY DEF Watching, Snapped, Keyed, Locked
<1> QED BY <1>1, <1>2, Ready DEF ShapeOf, Inv, WatchFence, FenceOf, Types

\* Where a process is after its EXEC.
LEMMA AfterExec ==
  ASSUME Inv, NEW w \in Workers, proc[w].key \in Keys,
         NEW c \in {"head", "release"}, NEW p,
         p = [proc[w] EXCEPT !.pc = c, !.mid = None, !.snap = None]
  PROVE  /\ p \in Process
         /\ ShapeOf(w, p)
         /\ p.pc \notin Watching
         /\ p.pc \notin Unparked
<1>1. w \in Actors
  BY DEF Actors
<1>2. p \in Process /\ p.pc = c /\ p.key = proc[w].key
  BY <1>1, Ready DEF Process, Locked
<1> QED BY <1>2 DEF ShapeOf, Keyed, Snapped, Locked, Watching, Unparked

\* A removal keeps the types, and adds no member.
LEMMA RemovalTypes ==
  ASSUME Types, NEW k \in Keys, NEW m \in Messages, Remove(k, m)
  PROVE  /\ msg' = [msg EXCEPT ![m] = None]
         /\ ghost' \subseteq Messages
         /\ zset' \in [Keys -> [Messages -> Nat]]
         /\ \A j \in Keys, x \in Messages : zset'[j][x] # 0 => zset[j][x] # 0
BY DEF Types, Remove

\* The EXEC of expire_head.
LEMMA ExpireSteps ==
  ASSUME Inv, NEW w \in Workers, ExpireExec(w)
  PROVE  Inv'
<1> DEFINE k == proc[w].key
           m == proc[w].mid
           p == [proc[w] EXCEPT !.pc = "head", !.mid = None, !.snap = None]
<1>1. /\ w \in Actors /\ k \in Keys /\ m \in Messages /\ lock[k] = w
      /\ Types
  BY Committing DEF ExpireExec, At, Inv
<1>2. p \in Process /\ ShapeOf(w, p) /\ p.pc \notin Watching /\ p.pc \notin Unparked
  BY <1>1, AfterExec
<1>3. Become(w, p) /\ Remove(k, m) /\ dirty' = dirty \cup (WatchersOf(m) \ {w})
        /\ UNCHANGED <<keys, lock, hist, used>>
  BY DEF ExpireExec
<1>4. held' \in [Keys -> Messages \cup {None}]
        /\ \A j \in Keys : held'[j] \in {held[j], None} \/ lock[j] = w
  BY <1>1 DEF ExpireExec, Types
<1>5. hist' \in History
        /\ used' \in Bounds
  BY <1>1, <1>3 DEF Types
<1> HIDE DEF p
<1>6. /\ msg' = [msg EXCEPT ![m] = None]
      /\ ghost' \subseteq Messages
      /\ zset' \in [Keys -> [Messages -> Nat]]
      /\ \A j \in Keys, x \in Messages : zset'[j][x] # 0 => zset[j][x] # 0
  BY <1>1, <1>3, RemovalTypes
<1> QED BY <1>1, <1>2, <1>3, <1>4, <1>5, <1>6, WriteStep

\* Setting fields of the hash of a message, as the outcomes and a lease do.
LEMMA Fields ==
  ASSUME NEW r \in Message
  PROVE  /\ \A n \in Nat : [r EXCEPT !.gen = n, !.state = "leased",
                                     !.due = FALSE, !.wait = FALSE] \in Message
         /\ [r EXCEPT !.attempts = @ + 1, !.due = TRUE, !.state = "pending"] \in Message
         /\ [r EXCEPT !.state = "waiting", !.wait = TRUE] \in Message
         /\ [r EXCEPT !.state = "held"] \in Message
         /\ [r EXCEPT !.state = "pending"] \in Message
<1>1. \A n \in Nat : [r EXCEPT !.gen = n, !.state = "leased",
                              !.due = FALSE, !.wait = FALSE] \in Message
  BY DEF Message
<1>2. [r EXCEPT !.attempts = @ + 1, !.due = TRUE, !.state = "pending"] \in Message
  <2>1. r.attempts + 1 \in Nat
    BY DEF Message
  <2>2. \A n \in Nat : [r EXCEPT !.attempts = n, !.due = TRUE, !.state = "pending"] \in Message
    BY DEF Message
  <2> QED BY <2>1, <2>2
<1>3. [r EXCEPT !.state = "waiting", !.wait = TRUE] \in Message
  BY DEF Message
<1>4. [r EXCEPT !.state = "held"] \in Message /\ [r EXCEPT !.state = "pending"] \in Message
  BY DEF Message
<1> QED BY <1>1, <1>2, <1>3, <1>4

\* The EXEC of a lease.
LEMMA LeaseSteps ==
  ASSUME Inv, NEW w \in Workers, LeaseExec(w)
  PROVE  Inv'
<1> DEFINE m == proc[w].mid
           leased == [msg[m] EXCEPT !.gen = proc[w].snap.gen + 1, !.state = "leased",
                                    !.due = FALSE, !.wait = FALSE]
           p == [proc[w] EXCEPT !.pc = "handling", !.snap = leased]
<1>1. /\ w \in Actors /\ proc[w] \in Process /\ proc[w].key \in Keys /\ m \in Messages
      /\ proc[w].snap \in Message /\ msg[m] \in Message /\ Types
  BY Committing DEF LeaseExec, At, Inv
<1>0. proc[w].snap.gen + 1 \in Nat
  BY <1>1 DEF Message
<1>2. leased \in Message
  BY <1>0, <1>1, Fields
<1>3. Become(w, p) /\ msg' = [msg EXCEPT ![m] = leased]
        /\ dirty' = dirty \cup (WatchersOf(m) \ {w})
        /\ UNCHANGED <<ghost, zset, keys, held, lock, hist, used>>
  BY DEF LeaseExec
<1> HIDE DEF leased
<1>4. p \in Process /\ p.pc = "handling" /\ p.key = proc[w].key /\ p.mid = m /\ p.snap = leased
  BY <1>1, <1>2 DEF Process, Locked
<1>5. ShapeOf(w, p) /\ p.pc \notin Watching
  BY <1>1, <1>2, <1>4 DEF ShapeOf, Keyed, Snapped, Locked, Watching
<1>7. held'[p.key] = None
  <2>1. lock[proc[w].key] = w /\ proc[w].pc = "execL"
    BY Committing DEF LeaseExec, At
  <2> QED BY <1>1, <1>3, <1>4, <2>1 DEF Inv, HoldFence, HoldOf, Unparked
<1> HIDE DEF p
<1>6. /\ ghost' \subseteq Messages
      /\ held' \in [Keys -> Messages \cup {None}]
      /\ zset' \in [Keys -> [Messages -> Nat]]
      /\ hist' \in History
      /\ used' \in Bounds
  BY <1>1, <1>3 DEF Types
<1> QED BY <1>1, <1>2, <1>3, <1>4, <1>5, <1>6, <1>7, WriteStep

\* The EXEC of an outcome.
LEMMA ApplySteps ==
  ASSUME Inv, NEW w \in Workers,
         ApplyRemoval(w) \/ ApplyRetry(w) \/ ApplyWait(w) \/ ApplyHold(w)
  PROVE  Inv'
<1> DEFINE k == proc[w].key
           m == proc[w].mid
           p == [proc[w] EXCEPT !.pc = "release", !.mid = None, !.snap = None]
           r == msg'[m]
<1>1. /\ w \in Actors /\ k \in Keys /\ m \in Messages /\ lock[k] = w
      /\ proc[w].snap \in Message /\ msg[m] \in Message /\ Types
  BY Committing DEF ApplyRemoval, ApplyRetry, ApplyWait, ApplyHold, At, Inv
<1>2. p \in Process /\ ShapeOf(w, p) /\ p.pc \notin Watching /\ p.pc \notin Unparked
  BY <1>1, AfterExec
<1>3. Become(w, p) /\ dirty' = dirty \cup (WatchersOf(m) \ {w})
        /\ UNCHANGED <<keys, lock, used>>
  BY DEF ApplyRemoval, ApplyRetry, ApplyWait, ApplyHold, Applied
<1> HIDE DEF p
<1>4. used' \in Bounds
  BY <1>1, <1>3 DEF Types
<1>5. CASE ApplyRemoval(w)
  <2>1. Remove(k, m) /\ UNCHANGED held
    BY <1>5 DEF ApplyRemoval
  <2>2. /\ msg' = [msg EXCEPT ![m] = None]
        /\ ghost' \subseteq Messages
        /\ zset' \in [Keys -> [Messages -> Nat]]
        /\ \A j \in Keys, x \in Messages : zset'[j][x] # 0 => zset[j][x] # 0
    BY <1>1, <2>1, RemovalTypes
  <2>3. proc[w].snap.inc \in Nat
    BY <1>1 DEF Message
  <2>4. hist' \in History
    BY <1>1, <1>5, <2>3 DEF ApplyRemoval, Types, History
  <2>5. held' \in [Keys -> Messages \cup {None}]
    BY <1>1, <2>1 DEF Types
  <2> QED BY <1>1, <1>2, <1>3, <1>4, <2>1, <2>2, <2>4, <2>5, WriteStep
<1>6. CASE ApplyRetry(w) \/ ApplyWait(w) \/ ApplyHold(w)
  <2>0. \/ msg' = [msg EXCEPT ![m] = [msg[m] EXCEPT !.attempts = @ + 1, !.due = TRUE,
                                                     !.state = "pending"]]
        \/ msg' = [msg EXCEPT ![m] = [msg[m] EXCEPT !.state = "waiting", !.wait = TRUE]]
        \/ msg' = [msg EXCEPT ![m] = [msg[m] EXCEPT !.state = "held"]]
    BY <1>1, <1>6 DEF ApplyRetry, ApplyWait, ApplyHold, Types, Message
  <2>1. r \in Message /\ msg' = [msg EXCEPT ![m] = r]
    BY <1>1, <2>0, Fields DEF Types
  <2>2. UNCHANGED <<ghost, zset, hist>>
    BY <1>6 DEF ApplyRetry, ApplyWait, ApplyHold
  <2>3. held' \in [Keys -> Messages \cup {None}]
          /\ \A j \in Keys : held'[j] \in {held[j], None} \/ lock[j] = w
    BY <1>1, <1>6 DEF ApplyRetry, ApplyWait, ApplyHold, Types
  <2>4. /\ ghost' \subseteq Messages
        /\ zset' \in [Keys -> [Messages -> Nat]]
        /\ hist' \in History
    BY <1>1, <2>2 DEF Types
  <2> HIDE DEF r
  <2> QED BY <1>1, <1>2, <1>3, <1>4, <2>1, <2>2, <2>3, <2>4, WriteStep
<1> QED BY <1>5, <1>6

\* The handler returns an outcome.
LEMMA HandledSteps ==
  ASSUME Inv, NEW w \in Workers, NEW outcome \in Outcomes, Handled(w, outcome)
  PROVE  Inv'
<1> DEFINE p == [proc[w] EXCEPT !.pc = "fenceA", !.kind = outcome]
<1>1. w \in Actors /\ proc[w].pc = "handling"
  BY DEF Actors, Handled, At
<1>2. proc[w] \in Process /\ proc[w].key \in Keys /\ proc[w].mid \in Messages
        /\ proc[w].snap \in Message
  BY <1>1, Ready DEF ShapeOf, Keyed, Snapped, Locked
<1>3. p \in Process /\ p.pc = "fenceA" /\ p.key = proc[w].key /\ p.mid = proc[w].mid
        /\ p.snap = proc[w].snap
  BY <1>2 DEF Process, Locked
<1>4. ShapeOf(w, p) /\ HoldOf(w, p) /\ p.pc \notin Watching
  <2>1. HoldOf(w, proc[w])
    BY <1>1 DEF Inv, HoldFence
  <2> QED BY <1>1, <1>2, <1>3, <2>1
          DEF Unparked, ShapeOf, HoldOf, Keyed, Snapped, Locked, Watching
<1>5. Become(w, p) /\ UNCHANGED <<dataVars, lock, dirty, hist>>
  BY DEF Handled
<1>6. used' \in Bounds
  BY BoundsSpent, Ready, <1>1 DEF Handled
<1> HIDE DEF p
<1> QED BY <1>1, <1>3, <1>4, <1>5, <1>6, Ready, ProcStep

\* A process that goes on with nothing but, perhaps, its key.
LEMMA UnlockStep ==
  ASSUME Inv, NEW w \in Workers, proc[w].key \in Keys, Unlock(w), NEW p \in Process,
         Become(w, p), ShapeOf(w, p), p.pc \in {"idle", "reconcile"},
         UNCHANGED <<dataVars, hist>>, used' \in Bounds
  PROVE  Inv'
<1>1. w \in Actors
  BY DEF Actors
<1>2. p.pc \notin Watching /\ p.pc \notin Unparked /\ HoldOf(w, p)
  BY DEF Unparked, Watching, HoldOf
<1>3. CASE OwnsLock(w)
  BY <1>1, <1>2, <1>3, LockStep DEF Unlock
<1>4. CASE ~OwnsLock(w)
  <2>1. UNCHANGED <<lock, dirty>>
    BY <1>4 DEF Unlock
  <2> QED BY <1>1, <1>2, <2>1, Ready, ProcStep
<1> QED BY <1>3, <1>4

\* The handler is cancelled.
LEMMA CancelledSteps ==
  ASSUME Inv, NEW w \in Workers, HandlerCancelled(w)
  PROVE  Inv'
<1>1. w \in Actors /\ proc[w].pc \in Keyed
  BY DEF Actors, HandlerCancelled, At, Keyed, Locked
<1>2. used' \in Bounds
  BY BoundsSpent DEF HandlerCancelled
<1>3. ShapeOf(w, Idle)
  BY IdleIsIdle DEF ShapeOf, Keyed, Snapped, Locked
<1> QED BY <1>1, <1>2, <1>3, IdleIsIdle, Ready, UnlockStep DEF HandlerCancelled, ShapeOf

\* _release, after a lease or an outcome.
LEMMA ReleaseSteps ==
  ASSUME Inv, NEW w \in Workers, ReleaseLock(w)
  PROVE  Inv'
<1> DEFINE q == [Idle EXCEPT !.pc = "reconcile", !.key = proc[w].key]
<1>1. w \in Actors /\ proc[w].pc \in Keyed
  BY DEF Actors, ReleaseLock, At, Keyed, Locked
<1>2. proc[w].key \in Keys
  BY <1>1, Ready DEF ShapeOf
<1>3. q \in Process /\ q.pc = "reconcile" /\ q.key = proc[w].key
  BY <1>2 DEF Process, Idle, Locked
<1>4. ShapeOf(w, Idle) /\ ShapeOf(w, q)
  BY <1>2, <1>3, IdleIsIdle DEF ShapeOf, Keyed, Snapped, Locked
<1>5. /\ Become(w, Idle) \/ Become(w, q)
      /\ Unlock(w) /\ UNCHANGED <<dataVars, hist, used>>
  BY DEF ReleaseLock
<1>6. used' \in Bounds
  BY <1>1, <1>5, Ready
<1> HIDE DEF q
<1> QED BY <1>2, <1>3, <1>4, <1>5, <1>6, IdleIsIdle, UnlockStep

\* The fence of apply(), and LeaseLost.
LEMMA ApplyFenceSteps ==
  ASSUME Inv, NEW w \in Workers, ApplyFence(w) \/ ApplyLost(w)
  PROVE  Inv'
<1> DEFINE p == [proc[w] EXCEPT !.pc = "handoffA", !.kind = "dead"]
<1>1. w \in Actors
  BY DEF Actors
<1>2. CASE ApplyLost(w)
  BY <1>1, <1>2, Ready, IdleStep DEF ApplyLost
<1>3. CASE ApplyFence(w)
  <2>1. proc[w].pc = "fenceA" /\ OwnsLock(w) /\ SameGen(w)
          /\ UNCHANGED <<dataVars, lock, dirty, hist, used>>
    BY <1>3 DEF ApplyFence, At
  <2>0. HoldOf(w, proc[w])
    BY <1>1 DEF Inv, HoldFence
  <2>2. CASE Goto(w, "execA")
    BY <2>0, <2>1, <2>2, GotoStep DEF Unparked, Locked, Snapped, Watching, Inv, Types
  <2>3. CASE Become(w, p)
    <3>1. proc[w] \in Process /\ proc[w].key \in Keys /\ proc[w].mid \in Messages
            /\ proc[w].snap \in Message
      BY <1>1, <2>1, Ready DEF ShapeOf, Keyed, Snapped, Locked
    <3>2. p \in Process /\ p.pc = "handoffA" /\ p.key = proc[w].key /\ p.mid = proc[w].mid
            /\ p.snap = proc[w].snap
      BY <3>1 DEF Process, Locked
    <3>3. ShapeOf(w, p) /\ HoldOf(w, p)
      BY <2>0, <2>1, <3>1, <3>2 DEF Unparked, ShapeOf, HoldOf, Keyed, Snapped, Locked
    <3>4. FenceOf(w, p)
      BY <2>1, <3>2 DEF FenceOf, OwnsLock, SameGen
    <3> HIDE DEF p
    <3> QED BY <1>1, <2>1, <2>3, <3>2, <3>3, <3>4, Ready, ProcStep
  <2> QED BY <1>3, <2>2, <2>3 DEF ApplyFence
<1> QED BY <1>2, <1>3

\* recover() and _reconcile look at a key.
LEMMA RecoverSteps ==
  ASSUME Inv, NEW w \in Workers, (\E k \in Keys : Recover(w, k)) \/ Reconcile(w)
  PROVE  Inv'
<1>1. w \in Actors
  BY DEF Actors
<1>2. ASSUME NEW k \in Keys, Recover(w, k)
      PROVE  Inv'
  <2> DEFINE q == [Idle EXCEPT !.pc = "reconcile", !.key = k]
  <2>1. q \in Process /\ q.pc = "reconcile" /\ q.key = k
    BY DEF Process, Idle, Locked
  <2>2. ShapeOf(w, q) /\ HoldOf(w, q) /\ q.pc \notin Watching
    BY <2>1 DEF Unparked, ShapeOf, HoldOf, Keyed, Snapped, Locked, Watching
  <2>3. Become(w, q) /\ UNCHANGED <<dataVars, lock, dirty, hist, used>>
    BY <1>2 DEF Recover
  <2> HIDE DEF q
  <2> QED BY <1>1, <2>1, <2>2, <2>3, Ready, ProcStep
<1>3. CASE Reconcile(w)
  <2>1. proc[w].pc = "reconcile" /\ UNCHANGED <<dataVars, lock, dirty, hist, used>>
          /\ (Goto(w, "dropR") \/ Become(w, Idle))
    BY <1>3 DEF Reconcile, At
  <2>2. CASE Goto(w, "dropR")
    BY <2>1, <2>2, GotoStep DEF Unparked, Snapped, Watching, Inv, Types
  <2>3. CASE Become(w, Idle)
    BY <1>1, <2>1, <2>3, Ready, IdleStep
  <2> QED BY <2>1, <2>2, <2>3
<1> QED BY <1>2, <1>3

\* A step of a to the index, the sorted sets and the holds, not to a hash.
LEMMA IndexStep ==
  ASSUME Inv, NEW a \in Actors, NEW p \in Process, Become(a, p), ShapeOf(a, p),
         p.pc \notin Watching, p.pc \notin Unparked,
         UNCHANGED <<msg, ghost, lock, dirty>>, hist' \in History, used' \in Bounds,
         zset' \in [Keys -> [Messages -> Nat]], keys' \subseteq Keys,
         held' \in [Keys -> Messages \cup {None}],
         \A k \in Keys : held'[k] \in {held[k], None},
         KeyIndexed'
  PROVE  Inv'
<1>1. /\ proc' \in [Actors -> Process]
      /\ proc'[a] = p
      /\ \A b \in Actors : b # a => proc'[b] = proc[b]
  BY Becomes DEF Inv
<1>2. Types'
  BY <1>1 DEF Inv, Types
<1>3. Shape'
  BY <1>1 DEF Inv, Shape, ShapeOf
<1>4. WatchFence'
  BY <1>1 DEF Inv, WatchFence, FenceOf
<1>5. HoldFence'
  <2> SUFFICES ASSUME NEW b \in Actors, proc'[b].pc \in Unparked,
                      lock'[proc'[b].key] = b
               PROVE  held'[proc'[b].key] = None
    BY DEF HoldFence, HoldOf
  <2>1. b # a /\ proc'[b] = proc[b]
    BY <1>1
  <2>2. proc[b].key \in Keys
    BY <2>1 DEF Unparked, Inv, Shape, ShapeOf, Keyed, Locked
  <2> QED BY <2>1, <2>2 DEF Inv, HoldFence, HoldOf
<1> QED BY <1>2, <1>3, <1>4, <1>5 DEF Inv

\* _drop_key_if_empty.
LEMMA DropSteps ==
  ASSUME Inv, NEW w \in Workers, DropKey(w)
  PROVE  Inv'
<1> DEFINE k == proc[w].key
           q == [proc[w] EXCEPT !.pc = "release"]
<1>1. w \in Actors /\ k \in Keys /\ proc[w] \in Process
  <2>1. w \in Actors /\ proc[w].pc \in {"dropL", "dropR"}
    BY DEF Actors, DropKey, At
  <2> QED BY <2>1, Ready DEF ShapeOf, Keyed, Locked
<1>2. q \in Process /\ q.pc = "release" /\ q.key = k
  BY <1>1 DEF Process, Locked
<1>3. ShapeOf(w, q) /\ q.pc \notin Watching /\ q.pc \notin Unparked
  BY <1>1, <1>2 DEF Unparked, ShapeOf, Keyed, Snapped, Locked, Watching
<1>4. ShapeOf(w, Idle) /\ Idle.pc \notin Watching /\ Idle.pc \notin Unparked
  BY IdleIsIdle DEF Unparked, ShapeOf, Keyed, Snapped, Locked, Watching
<1>5. Become(w, q) \/ Become(w, Idle)
  BY DEF DropKey, Goto
<1> HIDE DEF q
<1>6. /\ UNCHANGED <<msg, ghost, zset, lock, dirty, hist, used>>
      /\ \/ Members(k) = {} /\ keys' = keys \ {k} /\ held' = [held EXCEPT ![k] = None]
         \/ UNCHANGED <<keys, held>>
  BY DEF DropKey
<1>7. /\ keys' \subseteq Keys /\ used' \in Bounds
      /\ zset' \in [Keys -> [Messages -> Nat]]
      /\ held' \in [Keys -> Messages \cup {None}]
      /\ \A j \in Keys : held'[j] \in {held[j], None}
  BY <1>1, <1>6 DEF Inv, Types
<1>8. KeyIndexed'
  BY <1>1, <1>6 DEF Inv, KeyIndexed, Members
<1> QED BY <1>1, <1>2, <1>3, <1>4, <1>5, <1>6, <1>7, <1>8, Ready, IdleIsIdle, IndexStep

\* The ZREM of a member whose hash is lost.
LEMMA RepairSteps ==
  ASSUME Inv, NEW w \in Workers, Repair(w)
  PROVE  Inv'
<1> DEFINE k == proc[w].key
           m == proc[w].mid
           q == [proc[w] EXCEPT !.pc = "head", !.mid = None]
<1>1. w \in Actors /\ k \in Keys /\ m \in Messages /\ proc[w] \in Process
  <2>1. w \in Actors /\ proc[w].pc = "repair"
    BY DEF Actors, Repair, At
  <2> QED BY <2>1, Ready DEF ShapeOf, Keyed, Locked
<1>2. q \in Process /\ q.pc = "head" /\ q.key = k
  BY <1>1 DEF Process, Locked
<1>3. ShapeOf(w, q) /\ q.pc \notin Watching /\ q.pc \notin Unparked
  BY <1>1, <1>2 DEF Unparked, ShapeOf, Keyed, Snapped, Locked, Watching
<1>4. Become(w, q) /\ zset' = [zset EXCEPT ![k][m] = 0]
        /\ UNCHANGED <<msg, ghost, keys, held, lock, dirty, used>>
  BY DEF Repair
<1> HIDE DEF q
<1>7. hist' \in History
  <2>1. hist \in History /\ (msg[m] # None => msg[m].inc \in Nat)
    BY <1>1 DEF Inv, Types, Message
  <2>2. CASE zset[k][m] # 0 /\ msg[m] # None
    BY <2>1, <2>2 DEF Repair, History
  <2>3. CASE ~(zset[k][m] # 0 /\ msg[m] # None)
    BY <2>1, <2>3 DEF Repair
  <2> QED BY <2>2, <2>3
<1>5. /\ keys' \subseteq Keys /\ used' \in Bounds
      /\ zset' \in [Keys -> [Messages -> Nat]]
      /\ held' \in [Keys -> Messages \cup {None}]
      /\ \A j \in Keys : held'[j] \in {held[j], None}
  BY <1>1, <1>4 DEF Inv, Types
<1>6. KeyIndexed'
  BY <1>1, <1>4 DEF Inv, KeyIndexed, Members, Types
<1> QED BY <1>1, <1>2, <1>3, <1>4, <1>5, <1>6, <1>7, IndexStep

\* SET NX of the lock of a key.
LEMMA LeaseKeySteps ==
  ASSUME Inv, NEW w \in Workers, NEW k \in Keys, NEW ignore \in BOOLEAN,
         LeaseKey(w, k, ignore)
  PROVE  Inv'
<1> DEFINE q == [Idle EXCEPT !.pc = "head", !.key = k, !.ignore = ignore]
<1>1. w \in Actors
  BY DEF Actors
<1>2. q \in Process /\ q.pc = "head" /\ q.key = k
  BY DEF Process, Idle, Locked
<1>3. ShapeOf(w, q) /\ q.pc \notin Watching /\ q.pc \notin Unparked
  BY <1>2 DEF Unparked, ShapeOf, Keyed, Snapped, Locked, Watching
<1>4. Become(w, q) /\ lock' = [lock EXCEPT ![k] = w] /\ dirty' = dirty \cup WatchersOn(k)
        /\ UNCHANGED <<dataVars, hist, used>>
  BY DEF LeaseKey
<1> HIDE DEF q
<1> QED BY <1>1, <1>2, <1>3, <1>4, Ready, LockStep

\* release_hold: HDEL, ZRANGE and EXISTS.
LEMMA ReleaseHoldSteps ==
  ASSUME Inv, NEW c \in Clients,
         (\E k \in Keys : ReleaseHold(c, k)) \/ ReleaseHoldHead(c)
  PROVE  Inv'
<1>1. c \in Actors
  BY DEF Actors
<1>2. ASSUME NEW k \in Keys, ReleaseHold(c, k)
      PROVE  Inv'
  <2> DEFINE q == [Idle EXCEPT !.pc = "holdHead", !.key = k]
  <2>1. q \in Process /\ q.pc = "holdHead" /\ q.key = k
    BY DEF Process, Idle, Locked
  <2>2. ShapeOf(c, q) /\ q.pc \notin Watching /\ q.pc \notin Unparked
    BY <2>1 DEF Unparked, ShapeOf, Keyed, Snapped, Locked, Watching
  <2>3. Become(c, q) /\ held' = [held EXCEPT ![k] = None]
          /\ UNCHANGED <<msg, ghost, zset, keys, lock, dirty, hist>>
    BY <1>2 DEF ReleaseHold
  <2> HIDE DEF q
  <2>4. used' \in Bounds
    BY <1>2, BoundsSpent DEF ReleaseHold
  <2>5. /\ keys' \subseteq Keys
        /\ zset' \in [Keys -> [Messages -> Nat]]
        /\ held' \in [Keys -> Messages \cup {None}]
        /\ \A j \in Keys : held'[j] \in {held[j], None}
    BY <2>3 DEF Inv, Types
  <2>6. KeyIndexed'
    BY <2>3 DEF Inv, KeyIndexed, Members
  <2> QED BY <1>1, <2>1, <2>2, <2>3, <2>4, <2>5, <2>6, Ready, IndexStep
<1>3. CASE ReleaseHoldHead(c)
  <2> DEFINE k == proc[c].key
             q == [proc[c] EXCEPT !.pc = "holdWrite", !.mid = HeadOf(k)]
  <2>1. UNCHANGED <<dataVars, lock, dirty, hist, used>>
    BY <1>3 DEF ReleaseHoldHead
  <2>5. Become(c, Idle) \/ (Members(k) # {} /\ Become(c, q))
    BY <1>3 DEF ReleaseHoldHead, Become
  <2>0. proc[c].pc = "holdHead"
    BY <1>3 DEF ReleaseHoldHead, At
  <2>2. k \in Keys /\ proc[c] \in Process
    BY <1>1, <2>0, Ready DEF ShapeOf, Keyed
  <2>3. CASE Become(c, Idle)
    BY <1>1, <2>1, <2>3, Ready, IdleStep
  <2>4. CASE Members(k) # {} /\ Become(c, q)
    <3>1. HeadOf(k) \in Messages
      BY <2>2, <2>4, HeadIsMember DEF Inv
    <3>2. q \in Process /\ q.pc = "holdWrite" /\ q.key = k /\ q.mid = HeadOf(k)
      BY <2>2, <3>1 DEF Process, Locked
    <3>3. ShapeOf(c, q) /\ HoldOf(c, q) /\ q.pc \notin Watching
      BY <2>2, <3>1, <3>2 DEF Unparked, ShapeOf, HoldOf, Keyed, Snapped, Locked, Watching
    <3> HIDE DEF q
    <3> QED BY <1>1, <2>1, <2>4, <3>2, <3>3, Ready, ProcStep
  <2> QED BY <2>3, <2>4, <2>5
<1> QED BY <1>2, <1>3

\* release_hold: HSET.
LEMMA ReleaseHoldWriteSteps ==
  ASSUME Inv, NEW c \in Clients, ReleaseHoldWrite(c)
  PROVE  Inv'
<1> DEFINE m == proc[c].mid
           r == msg'[m]
<1>1. c \in Actors /\ proc[c].pc = "holdWrite"
  BY DEF Actors, ReleaseHoldWrite, At
<1>2. m \in Messages /\ Types
  BY <1>1, Ready DEF ShapeOf, Inv
<1>3. dirty' = dirty \cup WatchersOf(m) /\ Become(c, Idle)
        /\ UNCHANGED <<zset, keys, held, lock, hist, used>>
  BY DEF ReleaseHoldWrite
<1>4. dirty' = dirty \cup (WatchersOf(m) \ {c})
  BY <1>1, <1>3 DEF WatchersOf, Watching
<1>5. \/ msg[m] # None /\ msg' = [msg EXCEPT ![m] = [msg[m] EXCEPT !.state = "pending"]]
           /\ UNCHANGED ghost
      \/ UNCHANGED msg /\ ghost' = ghost \cup {m}
  BY <1>2 DEF ReleaseHoldWrite
<1>6. r \in Message \cup {None} /\ msg' = [msg EXCEPT ![m] = r] /\ ghost' \subseteq Messages
  <2>1. CASE UNCHANGED msg /\ ghost' = ghost \cup {m}
    BY <1>2, <2>1 DEF Types
  <2>2. CASE msg[m] # None /\ msg' = [msg EXCEPT ![m] = [msg[m] EXCEPT !.state = "pending"]]
               /\ UNCHANGED ghost
    <3> DEFINE s == [msg[m] EXCEPT !.state = "pending"]
    <3>1. s \in Message
      BY <1>2, <2>2, Fields DEF Types
    <3>2. msg' = [msg EXCEPT ![m] = s] /\ UNCHANGED ghost
      BY <2>2
    <3> HIDE DEF s
    <3> QED BY <1>2, <3>1, <3>2 DEF Types
  <2> QED BY <1>5, <2>1, <2>2
<1>7. ShapeOf(c, Idle) /\ Idle.pc \notin Watching /\ Idle.pc \notin Unparked
  BY IdleIsIdle DEF Unparked, ShapeOf, Keyed, Snapped, Locked, Watching
<1>8. /\ held' \in [Keys -> Messages \cup {None}]
      /\ zset' \in [Keys -> [Messages -> Nat]]
      /\ hist' \in History
      /\ used' \in Bounds
  BY <1>2, <1>3 DEF Types
<1> HIDE DEF r
<1> QED BY <1>1, <1>2, <1>3, <1>4, <1>6, <1>7, <1>8, IdleIsIdle, WriteStep

\* A step of the environment that rewrites the hash of m and refuses every
\* EXEC that watches it.
LEMMA OutsideWrite ==
  ASSUME Inv, NEW m \in Messages, NEW r \in Message \cup {None},
         msg' = [msg EXCEPT ![m] = r],
         dirty' = dirty \cup WatchersOf(m), UNCHANGED <<held, lock, proc>>,
         ghost' \subseteq Messages, zset' \in [Keys -> [Messages -> Nat]], keys' \subseteq Keys,
         hist' \in History,
         used' \in Bounds, KeyIndexed'
  PROVE  Inv'
<1>1. Types'
  BY DEF Inv, Types, WatchersOf
<1>2. Shape'
  BY DEF Inv, Shape, ShapeOf
<1>3. WatchFence'
  BY DEF Inv, WatchFence, FenceOf, WatchersOf, Types
<1>4. HoldFence'
  BY DEF Inv, HoldFence, HoldOf
<1> QED BY <1>1, <1>2, <1>3, <1>4 DEF Inv

\* push().
LEMMA PushSteps ==
  ASSUME Inv, NEW c \in Clients, NEW m \in Messages, NEW k \in Keys, Push(c, m, k)
  PROVE  Inv'
<1>1. PICK t \in Created : msg' = [msg EXCEPT ![m] = Fresh(k, t)]
  BY DEF Push
<1>2. PICK n \in Scores(k) : zset' = [zset EXCEPT ![k][m] = n]
  BY DEF Push
<1>3. hist.made \in Nat /\ Types
  BY DEF Inv, Types, History
<1>4. Fresh(k, t) \in Message
  <2>1. hist.made + 1 \in Nat
    BY <1>3
  <2> QED BY <2>1 DEF Fresh, Message
<1>5. Scores(k) \subseteq Nat
  <2>1. 2 * (hist.made + 1) \in Nat
    BY <1>3
  <2>2. \A i \in 1..(hist.made + 1) : 2 * i - 1 \in Nat
    BY <1>3
  <2> QED BY <2>1, <2>2 DEF Scores
<1>6. /\ ghost' = ghost \ {m} /\ keys' = keys \cup {k} /\ hist' = [hist EXCEPT !.made = @ + 1]
      /\ dirty' = dirty \cup WatchersOf(m) /\ UNCHANGED <<held, lock, proc>>
  BY DEF Push
<1>7. used' \in Bounds
  BY BoundsSpent DEF Push
<1>8. /\ ghost' \subseteq Messages /\ keys' \subseteq Keys
      /\ hist' \in History
      /\ zset' \in [Keys -> [Messages -> Nat]]
  <2>1. ghost' \subseteq Messages /\ keys' \subseteq Keys
    BY <1>3, <1>6 DEF Types
  <2>2. hist' \in History
    <3>1. hist.made + 1 \in Nat
      BY <1>3
    <3>2. \A i \in Nat : [hist EXCEPT !.made = i] \in History
      BY <1>3 DEF Types, History
    <3> QED BY <1>6, <3>1, <3>2
  <2>3. zset' \in [Keys -> [Messages -> Nat]]
    BY <1>2, <1>3, <1>5 DEF Types
  <2> QED BY <2>1, <2>2, <2>3
<1>9. KeyIndexed'
  BY <1>2, <1>3, <1>6 DEF Inv, KeyIndexed, Members, Types
<1> QED BY <1>1, <1>4, <1>6, <1>7, <1>8, <1>9, OutsideWrite

\* Redis loses the hash of a message.
LEMMA LossSteps ==
  ASSUME Inv, NEW m \in Messages, LoseHash(m)
  PROVE  Inv'
<1>1. /\ msg' = [msg EXCEPT ![m] = None] /\ dirty' = dirty \cup WatchersOf(m)
      /\ hist' = [hist EXCEPT !.lost = @ \cup {msg[m].inc}, !.lostIds = @ \cup {m}]
      /\ msg[m] # None
      /\ UNCHANGED <<ghost, zset, keys, held, lock, proc>>
  BY DEF LoseHash
<1>2. used' \in Bounds
  BY BoundsSpent DEF LoseHash
<1>3. msg[m].inc \in Nat
  BY <1>1 DEF Inv, Types, Message
<1>4. hist' \in History
  BY <1>1, <1>3 DEF Inv, Types, History
<1>5. ghost' \subseteq Messages /\ keys' \subseteq Keys /\ zset' \in [Keys -> [Messages -> Nat]]
  BY <1>1 DEF Inv, Types
<1>6. KeyIndexed'
  BY <1>1 DEF Inv, KeyIndexed, Members
<1> QED BY <1>1, <1>2, <1>4, <1>5, <1>6, OutsideWrite

\* A deadline of a message passes.
LEMMA TimeSteps ==
  ASSUME Inv, NEW m \in Messages, DuePasses(m) \/ WaitPasses(m) \/ AgePasses(m)
  PROVE  Inv'
<1>1. msg[m] \in Message /\ UNCHANGED <<ghost, zset, keys, held, lock, proc, dirty, hist, used>>
  BY DEF DuePasses, WaitPasses, AgePasses, Inv, Types
<1>2. \/ msg' = [msg EXCEPT ![m] = [msg[m] EXCEPT !.due = FALSE]]
      \/ msg' = [msg EXCEPT ![m] = [msg[m] EXCEPT !.wait = FALSE]]
      \/ msg' = [msg EXCEPT ![m] = [msg[m] EXCEPT !.aged = TRUE]]
  BY DEF DuePasses, WaitPasses, AgePasses, Inv, Types
<1>3. \A x \in Message : /\ [x EXCEPT !.due = FALSE] \in Message
                         /\ [x EXCEPT !.due = FALSE].gen = x.gen
                         /\ [x EXCEPT !.wait = FALSE] \in Message
                         /\ [x EXCEPT !.wait = FALSE].gen = x.gen
                         /\ [x EXCEPT !.aged = TRUE] \in Message
                         /\ [x EXCEPT !.aged = TRUE].gen = x.gen
  BY DEF Message
<1>4. PICK x \in Message : msg' = [msg EXCEPT ![m] = x] /\ x.gen = msg[m].gen
  BY <1>1, <1>2, <1>3
<1>9. x # None
  BY NoneAssumption
<1>5. Types'
  BY <1>1, <1>4 DEF Inv, Types
<1>6. Shape' /\ HoldFence'
  BY <1>1 DEF Inv, Shape, ShapeOf, HoldFence, HoldOf
<1>7. WatchFence'
  BY <1>1, <1>4, <1>9 DEF Inv, WatchFence, FenceOf, Types
<1>8. KeyIndexed'
  BY <1>1 DEF Inv, KeyIndexed, Members
<1> QED BY <1>5, <1>6, <1>7, <1>8 DEF Inv

\* The lock of a key runs out.
LEMMA LockGoneSteps ==
  ASSUME Inv, NEW k \in Keys, LockExpires(k) \/ LockLapses(k)
  PROVE  Inv'
<1>1. lock' = [lock EXCEPT ![k] = None] /\ dirty' = dirty \cup WatchersOn(k)
        /\ UNCHANGED <<dataVars, proc, hist>>
  BY DEF LockExpires, LockLapses
<1>2. used' \in Bounds
  <2>1. CASE LockExpires(k)
    BY <2>1 DEF LockExpires, Inv, Types
  <2>2. CASE LockLapses(k)
    BY <2>2, BoundsSpent DEF LockLapses
  <2> QED BY <2>1, <2>2
<1>3. Types'
  BY <1>1, <1>2 DEF Inv, Types, dataVars, WatchersOn
<1>4. Shape'
  BY <1>1 DEF Inv, Shape, ShapeOf
<1>5. WatchFence'
  BY <1>1 DEF Inv, WatchFence, FenceOf, dataVars, WatchersOn, Types
<1>6. HoldFence'
  <2>1. None \notin Actors
    BY KeyedAssumption
  <2> QED BY <1>1, <2>1 DEF Inv, HoldFence, HoldOf, dataVars, Types
<1>7. KeyIndexed'
  BY <1>1 DEF Inv, KeyIndexed, Members, dataVars
<1> QED BY <1>3, <1>4, <1>5, <1>6, <1>7 DEF Inv

\* A process dies.
LEMMA CrashSteps ==
  ASSUME Inv, NEW a \in Actors, Crash(a)
  PROVE  Inv'
<1>1. used' \in Bounds
  BY BoundsSpent DEF Crash
<1> QED BY <1>1, Ready, IdleStep DEF Crash

\* Inv holds at first.
LEMMA Initially == Init => Inv
<1> SUFFICES ASSUME Init PROVE Inv
  OBVIOUS
<1>1. \A a \in Actors : proc[a] = Idle
  BY DEF Init
<1>2. Types
  BY IdleIsIdle, KeyedAssumption DEF Init, Types, Bounds, History
<1>3. Shape /\ WatchFence /\ HoldFence
  BY <1>1, IdleIsIdle
  DEF Unparked, Shape, ShapeOf, WatchFence, FenceOf, HoldFence, HoldOf, Keyed, Snapped, Locked, Watching
<1>4. KeyIndexed
  BY DEF Init, KeyIndexed, Members
<1> QED BY <1>2, <1>3, <1>4 DEF Inv

\* Every step preserves Inv.
LEMMA Inductive == Inv /\ [Next]_vars => Inv'
<1> SUFFICES ASSUME Inv, [Next]_vars PROVE Inv'
  OBVIOUS
<1>1. ASSUME NEW w \in Workers, Proceed(w) PROVE Inv'
  BY <1>1, HeadSteps, RepairSteps, FenceSteps, ExpireSteps, HeldSteps, LeaseSteps,
     HandledSteps, CancelledSteps, ApplyFenceSteps, ApplySteps, ReleaseSteps,
     RecoverSteps, DropSteps DEF Proceed
<1>2. ASSUME NEW w \in Workers, NEW k \in Keys,
             Recover(w, k) \/ \E ignore \in BOOLEAN : LeaseKey(w, k, ignore)
      PROVE  Inv'
  BY <1>2, RecoverSteps, LeaseKeySteps
<1>3. ASSUME NEW c \in Clients,
             \/ ReleaseHoldHead(c) \/ ReleaseHoldWrite(c)
             \/ \E k \in Keys : ReleaseHold(c, k) \/ \E m \in Messages : Push(c, m, k)
      PROVE  Inv'
  BY <1>3, ReleaseHoldSteps, ReleaseHoldWriteSteps, PushSteps
<1>4. ASSUME NEW a \in Actors, Crash(a) PROVE Inv'
  BY <1>4, CrashSteps
<1>5. ASSUME NEW k \in Keys, LockExpires(k) \/ LockLapses(k) PROVE Inv'
  BY <1>5, LockGoneSteps
<1>6. ASSUME NEW m \in Messages,
             DuePasses(m) \/ WaitPasses(m) \/ AgePasses(m) \/ LoseHash(m)
      PROVE  Inv'
  BY <1>6, TimeSteps, LossSteps
<1>7. CASE UNCHANGED vars
  <2>1. Types'
    BY <1>7 DEF Inv, Types, vars, dataVars
  <2>2. Shape' /\ WatchFence' /\ HoldFence' /\ KeyIndexed'
    BY <1>7 DEF Inv, Shape, ShapeOf, WatchFence, FenceOf, HoldFence, HoldOf, KeyIndexed,
                Members, vars, dataVars
  <2> QED BY <2>1, <2>2 DEF Inv
<1> QED BY <1>1, <1>2, <1>3, <1>4, <1>5, <1>6, <1>7 DEF Next

\* In every state a process has what its next command needs, an EXEC that would go
\* through is one of the holder of the lock on the generation that it examined, a
\* holder that found its key not parked can rely on that, and `keys` has every
\* key with a message.
THEOREM Invariance == Spec => []Inv
<1> QED BY Initially, Inductive, PTL DEF Spec

\* recover() can see every key that has a message, however push() and
\* _drop_key_if_empty interleave.
THEOREM KeysAreIndexed == Spec => []KeyIndexed
<1>1. Inv => KeyIndexed
  BY DEF Inv
<1> QED BY <1>1, Invariance, PTL

\* Only the EXEC of a lease grants one.
LEMMA GrantsAreLeases ==
  ASSUME Types, Next, NEW w \in Workers, Grants(w)
  PROVE  LeaseExec(w)
<1>1. w \in Actors /\ proc[w].pc = "execL" /\ proc'[w].pc = "handling"
  BY DEF Grants, At, Actors
<1>2. ~UNCHANGED proc /\ \A a, p : a # w => ~Become(a, p)
  BY <1>1 DEF Become, Types
<1>3. ASSUME NEW b \in Workers, Proceed(b) PROVE LeaseExec(w)
  <2>1. b = w
    <3>1. \E p : Become(b, p)
      BY <1>3, Zenon
      DEF Proceed, HeadEmpty, HeadFound, HeadDangling, Repair, HeadUnreadable, Examine, Fence, FenceLost,
          ExecLost, Handoff, ExpireExec, HeadHeld, HeadChecked, LeaseExec, Handled,
          HandlerCancelled, ApplyFence, ApplyLost, ApplyRemoval, ApplyRetry, ApplyWait,
          ApplyHold, ReleaseLock, Reconcile, DropKey, Goto, GiveUp, Applied
    <3> QED BY <1>2, <3>1
  <2>2. ~ExecLost(w)
    <3> DEFINE p == [proc[w] EXCEPT !.pc = "release", !.mid = None, !.snap = None]
    <3>1. proc[w] \in Process
      BY <1>1 DEF Types
    <3>2. p.pc = "release"
      BY <3>1 DEF Process
    <3>3. ExecLost(w) => proc' = [proc EXCEPT ![w] = p]
      BY DEF ExecLost, GiveUp, Become
    <3> HIDE DEF p
    <3> QED BY <1>1, <3>2, <3>3 DEF Types
  <2> QED
    BY <1>1, <1>3, <2>1, <2>2
    DEF Proceed, At, HeadEmpty, HeadFound, HeadDangling, Repair, HeadUnreadable, Examine, Fence, FenceLost,
        Handoff, ExpireExec, HeadHeld, HeadChecked, Handled, HandlerCancelled, ApplyFence,
        ApplyLost, ApplyRemoval, ApplyRetry, ApplyWait, ApplyHold, ReleaseLock, Reconcile, DropKey
<1>4. ASSUME NEW b \in Workers, NEW k \in Keys,
             Recover(b, k) \/ \E ignore \in BOOLEAN : LeaseKey(b, k, ignore)
      PROVE  FALSE
  BY <1>1, <1>2, <1>4 DEF Recover, LeaseKey, At
<1>5. ASSUME NEW c \in Clients,
             \/ ReleaseHoldHead(c) \/ ReleaseHoldWrite(c)
             \/ \E k \in Keys : ReleaseHold(c, k) \/ \E m \in Messages : Push(c, m, k)
      PROVE  FALSE
  <2>1. c # w
    BY KeyedAssumption
  <2>2. UNCHANGED proc \/ \E p : Become(c, p)
    BY <1>5, Zenon DEF ReleaseHoldHead, ReleaseHoldWrite, ReleaseHold, Push
  <2> QED BY <1>2, <2>1, <2>2
<1>6. ASSUME NEW a \in Actors, Crash(a) PROVE FALSE
  BY <1>1, <1>2, <1>6, IdleIsIdle DEF Crash, Become, Types
<1>7. ASSUME NEW k \in Keys, LockExpires(k) \/ LockLapses(k) PROVE FALSE
  BY <1>2, <1>7 DEF LockExpires, LockLapses
<1>8. ASSUME NEW m \in Messages,
             DuePasses(m) \/ WaitPasses(m) \/ AgePasses(m) \/ LoseHash(m)
      PROVE  FALSE
  BY <1>2, <1>8 DEF DuePasses, WaitPasses, AgePasses, LoseHash
<1> QED BY <1>3, <1>4, <1>5, <1>6, <1>7, <1>8 DEF Next

\* No message of a parked key is leased: of the look at the hold and the EXEC of
\* the lease, which are separate commands, nobody else can park the key between.
THEOREM ParkedKeysAreNotLeased == Spec => HeldNotLeased
<1>1. Inv /\ [Next]_vars =>
        [\A w \in Workers : Grants(w) => held[proc[w].key] = None]_vars
  <2> SUFFICES ASSUME Inv, [Next]_vars, NEW w \in Workers, Grants(w), vars' # vars
               PROVE  held[proc[w].key] = None
    OBVIOUS
  <2>1. LeaseExec(w)
    BY GrantsAreLeases DEF Inv
  <2>2. w \in Actors /\ proc[w].pc = "execL" /\ lock[proc[w].key] = w
    BY <2>1, Committing DEF LeaseExec, At
  <2> QED BY <2>2 DEF Inv, HoldFence, HoldOf, Unparked
<1> QED BY <1>1, Invariance, PTL DEF Spec, HeldNotLeased

-----------------------------------------------------------------------------
(* While Redis loses nothing.                                              *)

\* What the holder of a lock has examined is the message that is there.
KeptBy(a, p) ==
  p.pc \in Snapped /\ lock[p.key] = a =>
    /\ msg[p.mid] # None
    /\ msg[p.mid].inc = p.snap.inc
    /\ msg[p.mid].gen = p.snap.gen
    /\ msg[p.mid].key = p.key

\* The holder of a lock that has asked for the head finds its hash; only a process
\* without the lock is about to repair.
FoundBy(a, p) ==
  /\ p.pc = "read" /\ lock[p.key] = a => msg[p.mid] # None /\ msg[p.mid].key = p.key
  /\ p.pc = "repair" => lock[p.key] # a

\* A removal that is not an ack comes after on_dlq.
HandedBy(p, handed) ==
  /\ p.pc = "execX" \/ (p.pc = "execA" /\ p.kind = "dead") => p.snap.inc \in handed
  /\ p.pc = "fenceA" => p.kind # "dead"

\* The sorted sets and the hashes agree, but for what a repair took out.
Homes ==
  \A k \in Keys, m \in Messages :
    /\ zset[k][m] # 0 => msg[m] # None /\ msg[m].key = k
    /\ msg[m] # None /\ msg[m].key = k => zset[k][m] # 0 \/ Raced(m)

\* Each message is where Conserved says.
Stays ==
  \A i \in 1..hist.made :
    i \in hist.acked \cup hist.handed \cup hist.lost \cup hist.raced \/ Queued(i)

Kept == \A a \in Actors : KeptBy(a, proc[a])
Found == \A a \in Actors : FoundBy(a, proc[a])
HandedFirst == \A a \in Actors : HandedBy(proc[a], hist.handed)

Intact == Kept /\ Found /\ HandedFirst /\ Homes /\ Stays /\ HoldHasMessage

\* A step of a that changes no hash and no sorted set.
LEMMA QuietStep ==
  ASSUME Inv, Inv', Intact, UNCHANGED <<msg, zset>>,
         hist'.made = hist.made, hist.acked \subseteq hist'.acked,
         hist.handed \subseteq hist'.handed, hist.lost \subseteq hist'.lost,
         hist.raced \subseteq hist'.raced,
         \A k \in Keys : held'[k] \in {held[k], None},
         NEW a \in Actors, \A b \in Actors \ {a} : proc'[b] = proc[b],
         \A k \in Keys : \/ lock'[k] \in {lock[k], None}
                         \/ lock'[k] = a /\ proc'[a].pc \notin Snapped \cup {"read", "repair"},
         \/ proc'[a].pc \notin Snapped \cup {"read", "repair"}
         \/ proc'[a] = proc[a]
         \/ KeptBy(a, proc'[a]) /\ FoundBy(a, proc'[a]) /\ HandedBy(proc'[a], hist'.handed)
  PROVE  Intact'
<1>0. None \notin Actors
  BY KeyedAssumption
<1>1. Kept'
  <2> SUFFICES ASSUME NEW b \in Actors, proc'[b].pc \in Snapped, lock'[proc'[b].key] = b
               PROVE  KeptBy(b, proc'[b]) /\ lock[proc'[b].key] = b
    BY DEF Kept, KeptBy
  <2>1. proc'[b].key \in Keys
    BY DEF Inv, Shape, ShapeOf, Keyed, Snapped, Locked
  <2>2. lock[proc'[b].key] = b
    BY <1>0, <2>1
  <2> QED BY <2>2 DEF Intact, Kept
<1>2. Found'
  <2> SUFFICES ASSUME NEW b \in Actors, proc'[b].pc \in {"read", "repair"}, lock'[proc'[b].key] = b
               PROVE  FoundBy(b, proc'[b]) /\ lock[proc'[b].key] = b
    BY DEF Found, FoundBy
  <2>1. proc'[b].key \in Keys
    BY DEF Inv, Shape, ShapeOf, Keyed, Locked
  <2>2. lock[proc'[b].key] = b
    BY <1>0, <2>1
  <2> QED BY <2>2 DEF Intact, Found
<1>3. HandedFirst'
  BY DEF Intact, HandedFirst, HandedBy, Snapped
<1>4. Homes'
  BY DEF Intact, Homes, Raced
<1>5. Stays'
  BY DEF Intact, Stays, Queued
<1>6. HoldHasMessage'
  BY DEF Intact, HoldHasMessage, Raced
<1> QED BY <1>1, <1>2, <1>3, <1>4, <1>5, <1>6 DEF Intact

\* The step of the process of a, and of nobody else.
LEMMA Lands ==
  ASSUME Inv, NEW a \in Actors, NEW p, Become(a, p)
  PROVE  proc'[a] = p /\ \A b \in Actors \ {a} : proc'[b] = proc[b]
BY DEF Become, Inv, Types

\* Where GiveUp, Become(Idle) and Goto take the process of a.
LEMMA LandsOutside ==
  ASSUME Inv, NEW a \in Actors
  PROVE  /\ GiveUp(a) => proc'[a].pc = "release" /\ \A b \in Actors \ {a} : proc'[b] = proc[b]
         /\ Become(a, Idle) => proc'[a].pc = "idle" /\ \A b \in Actors \ {a} : proc'[b] = proc[b]
         /\ \A c : Goto(a, c) => proc'[a].pc = c /\ \A b \in Actors \ {a} : proc'[b] = proc[b]
<1> DEFINE p == [proc[a] EXCEPT !.pc = "release", !.mid = None, !.snap = None]
           q(c) == [proc[a] EXCEPT !.pc = c]
<1>1. proc[a] \in Process
  BY DEF Inv, Types
<1>2. p.pc = "release" /\ \A c : q(c).pc = c
  BY <1>1 DEF Process
<1>3. GiveUp(a) => Become(a, p)
  BY DEF GiveUp
<1>4. \A c : Goto(a, c) => Become(a, q(c))
  BY DEF Goto
<1> HIDE DEF p, q
<1> QED BY <1>2, <1>3, <1>4, Lands, IdleIsIdle

\* Where a new piece of work takes the process of a.
LEMMA LandsFresh ==
  ASSUME Inv, NEW a \in Actors, NEW k
  PROVE  \A c \in {"holdHead", "reconcile"} :
           Become(a, [Idle EXCEPT !.pc = c, !.key = k])
             => proc'[a].pc = c /\ \A b \in Actors \ {a} : proc'[b] = proc[b]
<1> TAKE c \in {"holdHead", "reconcile"}
<1> DEFINE p == [Idle EXCEPT !.pc = c, !.key = k]
<1>1. p.pc = c
  BY DEF Idle
<1> HIDE DEF p
<1> QED BY <1>1, Lands DEF p

\* _release gives a lock to nobody.
LEMMA QuietUnlock ==
  ASSUME Inv, NEW w \in Workers, Unlock(w)
  PROVE  \A k \in Keys : lock'[k] \in {lock[k], None}
BY DEF Unlock, Inv, Types

\* Steps after which the process has no snapshot.
LEMMA QuietWorkers ==
  ASSUME Inv, Inv', Intact, NEW w \in Workers,
         \/ HeadEmpty(w) \/ HeadUnreadable(w) \/ FenceLost(w) \/ ExecLost(w) \/ HeadHeld(w)
         \/ HandlerCancelled(w) \/ ApplyLost(w) \/ ReleaseLock(w) \/ Reconcile(w) \/ DropKey(w)
         \/ \E k \in Keys : Recover(w, k) \/ \E ignore \in BOOLEAN : LeaseKey(w, k, ignore)
  PROVE  Intact'
<1>0. w \in Actors /\ proc[w] \in Process
  BY DEF Actors, Inv, Types
<1>1. /\ \A b \in Actors \ {w} : proc'[b] = proc[b]
      /\ proc'[w].pc \in {"idle", "release", "reconcile", "dropL", "dropR", "head"}
  <2>1. CASE HeadEmpty(w) \/ Reconcile(w) \/ DropKey(w)
    BY <1>0, <2>1, LandsOutside DEF HeadEmpty, Reconcile, DropKey
  <2>2. CASE HeadUnreadable(w) \/ FenceLost(w) \/ ExecLost(w) \/ HeadHeld(w)
    BY <1>0, <2>2, LandsOutside DEF HeadUnreadable, FenceLost, ExecLost, HeadHeld
  <2>3. CASE HandlerCancelled(w) \/ ApplyLost(w)
    BY <1>0, <2>3, LandsOutside DEF HandlerCancelled, ApplyLost
  <2>4. CASE ReleaseLock(w)
    BY <1>0, <2>4, LandsOutside, LandsFresh DEF ReleaseLock
  <2>5. ASSUME NEW k \in Keys, Recover(w, k)
        PROVE  /\ \A b \in Actors \ {w} : proc'[b] = proc[b]
               /\ proc'[w].pc = "reconcile"
    BY <1>0, <2>5, LandsFresh DEF Recover
  <2>6. ASSUME NEW k \in Keys, NEW ignore \in BOOLEAN, LeaseKey(w, k, ignore)
        PROVE  /\ \A b \in Actors \ {w} : proc'[b] = proc[b]
               /\ proc'[w].pc = "head"
    <3> DEFINE p == [Idle EXCEPT !.pc = "head", !.key = k, !.ignore = ignore]
    <3>1. p.pc = "head"
      BY DEF Idle
    <3>2. Become(w, p)
      BY <2>6 DEF LeaseKey
    <3> HIDE DEF p
    <3> QED BY <1>0, <3>1, <3>2, Lands
  <2> QED BY <2>1, <2>2, <2>3, <2>4, <2>5, <2>6
<1>2. \A b \in Actors \ {w} : proc'[b] = proc[b]
  BY <1>1
<1>3. proc'[w].pc \notin Snapped \cup {"read", "repair"}
  BY <1>1 DEF Snapped
<1>4. UNCHANGED <<msg, zset, hist>>
  BY DEF HeadEmpty, HeadUnreadable, FenceLost, ExecLost, HeadHeld, HandlerCancelled, ApplyLost,
         ReleaseLock, Reconcile, DropKey, Recover, LeaseKey, dataVars
<1>5. \A k \in Keys : held'[k] \in {held[k], None}
  BY DEF HeadEmpty, HeadUnreadable, FenceLost, ExecLost, HeadHeld, HandlerCancelled, ApplyLost,
         ReleaseLock, Reconcile, DropKey, Recover, LeaseKey, dataVars, Inv, Types
<1>6. \A k \in Keys : lock'[k] \in {lock[k], None} \/ lock'[k] = w
  BY QuietUnlock
  DEF HeadEmpty, HeadUnreadable, FenceLost, ExecLost, HeadHeld, HandlerCancelled, ApplyLost,
      ReleaseLock, Reconcile, DropKey, Recover, LeaseKey, Inv, Types
<1> QED BY <1>0, <1>2, <1>3, <1>4, <1>5, <1>6, QuietStep

\* Steps of the clients and the environment.
LEMMA QuietOthers ==
  ASSUME Inv, Inv', Intact,
         \/ \E c \in Clients : ReleaseHoldHead(c) \/ \E k \in Keys : ReleaseHold(c, k)
         \/ \E a \in Actors : Crash(a)
         \/ \E k \in Keys : LockExpires(k) \/ LockLapses(k)
  PROVE  Intact'
<1>1. ASSUME NEW c \in Clients, ReleaseHoldHead(c) \/ \E k \in Keys : ReleaseHold(c, k)
      PROVE  Intact'
  <2>1. c \in Actors /\ proc[c] \in Process
    BY DEF Actors, Inv, Types
  <2>2. /\ \A b \in Actors \ {c} : proc'[b] = proc[b]
        /\ proc'[c].pc \in {"idle", "holdHead", "holdWrite"}
    <3>1. CASE ReleaseHoldHead(c)
      <4> DEFINE p == [proc[c] EXCEPT !.pc = "holdWrite", !.mid = HeadOf(proc[c].key)]
      <4>1. p.pc = "holdWrite"
        BY <2>1 DEF Process
      <4>2. Become(c, p) \/ Become(c, Idle)
        BY <3>1 DEF ReleaseHoldHead
      <4> HIDE DEF p
      <4> QED BY <2>1, <4>1, <4>2, Lands, IdleIsIdle
    <3>2. ASSUME NEW k \in Keys, ReleaseHold(c, k)
          PROVE  /\ \A b \in Actors \ {c} : proc'[b] = proc[b]
                 /\ proc'[c].pc = "holdHead"
      BY <2>1, <3>2, LandsFresh DEF ReleaseHold
    <3> QED BY <1>1, <3>1, <3>2
  <2>3. \A b \in Actors \ {c} : proc'[b] = proc[b]
    BY <2>2
  <2>4. proc'[c].pc \notin Snapped \cup {"read", "repair"}
    BY <2>2 DEF Snapped
  <2>5. UNCHANGED <<msg, zset, hist, lock>> /\ \A k \in Keys : held'[k] \in {held[k], None}
    BY <1>1 DEF ReleaseHoldHead, ReleaseHold, dataVars, Inv, Types
  <2> QED BY <2>1, <2>3, <2>4, <2>5, QuietStep
<1>2. ASSUME NEW a \in Actors, Crash(a)
      PROVE  Intact'
  <2>1. proc'[a] = Idle /\ \A b \in Actors \ {a} : proc'[b] = proc[b]
    BY <1>2, Lands DEF Crash
  <2>2. proc'[a].pc \notin Snapped \cup {"read", "repair"}
    BY <2>1, IdleIsIdle DEF Snapped
  <2>3. UNCHANGED <<msg, zset, hist, lock, held>>
    BY <1>2 DEF Crash, dataVars
  <2> QED BY <2>1, <2>2, <2>3, QuietStep
<1>3. ASSUME NEW k \in Keys, LockExpires(k) \/ LockLapses(k)
      PROVE  Intact'
  <2>1. UNCHANGED <<msg, zset, hist, held, proc>> /\ lock' = [lock EXCEPT ![k] = None]
          /\ lock[k] # None
    BY <1>3 DEF LockExpires, LockLapses, HolderAlive, dataVars
  <2>2. lock[k] \in Actors /\ \A j \in Keys : lock'[j] \in {lock[j], None}
    BY <2>1 DEF Inv, Types, Actors
  <2> QED BY <2>1, <2>2, QuietStep
<1> QED BY <1>1, <1>2, <1>3

\* A process that goes on with the snapshot it has.
LEMMA SnapshotStays ==
  ASSUME Inv, Inv', Intact, NEW w \in Workers, NEW p, Become(w, p),
         UNCHANGED <<msg, zset, held, lock>>,
         hist'.made = hist.made, hist.acked \subseteq hist'.acked,
         hist.handed \subseteq hist'.handed, hist.lost \subseteq hist'.lost,
         hist.raced \subseteq hist'.raced, p.pc \in Snapped,
         proc[w].pc \in Snapped, p.key = proc[w].key, p.mid = proc[w].mid,
         p.snap = proc[w].snap, HandedBy(p, hist'.handed)
  PROVE  Intact'
<1>1. w \in Actors
  BY DEF Actors
<1>2. proc'[w] = p /\ \A b \in Actors \ {w} : proc'[b] = proc[b]
  BY <1>1, Lands
<1>3. KeptBy(w, p) /\ FoundBy(w, p)
  BY <1>1 DEF Intact, Kept, KeptBy, FoundBy, Snapped
<1> QED BY <1>1, <1>2, <1>3, QuietStep

\* The fences, on_dlq, the hold and the handler: the snapshot stays what it was.
LEMMA SnapshotSteps ==
  ASSUME Inv, Inv', Intact, NEW w \in Workers,
         \/ Fence(w) \/ Handoff(w) \/ HeadChecked(w) \/ ApplyFence(w)
         \/ \E outcome \in Outcomes : Handled(w, outcome)
  PROVE  Intact'
<1>0. w \in Actors /\ proc[w] \in Process /\ HandedBy(proc[w], hist.handed)
  BY DEF Actors, Inv, Types, Intact, HandedFirst
<1> DEFINE go(c) == [proc[w] EXCEPT !.pc = c]
<1>1. \A c : /\ go(c).pc = c /\ go(c).key = proc[w].key /\ go(c).mid = proc[w].mid
             /\ go(c).snap = proc[w].snap /\ go(c).kind = proc[w].kind
  BY <1>0 DEF Process
<1>2. \A c : Goto(w, c) => Become(w, go(c))
  BY DEF Goto
<1> HIDE DEF go
<1>3. CASE Fence(w)
  <2>1. proc[w].pc \in Snapped /\ UNCHANGED <<msg, zset, held, lock, hist>>
    BY <1>3 DEF Fence, At, Snapped, dataVars
  <2>2. PICK c \in {"handoffX", "execL"} : Goto(w, c)
    BY <1>3 DEF Fence
  <2>3. go(c).pc \in Snapped /\ HandedBy(go(c), hist'.handed)
    BY <1>1 DEF HandedBy, Snapped
  <2> QED BY <1>1, <1>2, <2>1, <2>2, <2>3, SnapshotStays
<1>4. CASE Handoff(w)
  <2>1. proc[w].pc \in Snapped /\ UNCHANGED <<msg, zset, held, lock>>
          /\ hist' = [hist EXCEPT !.handed = @ \cup {proc[w].snap.inc}]
    BY <1>4 DEF Handoff, At, Snapped, dataVars
  <2>2. /\ hist'.made = hist.made /\ hist'.acked = hist.acked /\ hist'.lost = hist.lost
        /\ hist'.handed = hist.handed \cup {proc[w].snap.inc} /\ hist'.raced = hist.raced
    BY <2>1 DEF Inv, Types, History
  <2>3. PICK c \in {"execX", "execA"} : Goto(w, c)
    BY <1>4 DEF Handoff
  <2>4. go(c).pc \in Snapped /\ HandedBy(go(c), hist'.handed)
    BY <1>1, <2>2 DEF HandedBy, Snapped
  <2> QED BY <1>1, <1>2, <2>1, <2>2, <2>3, <2>4, SnapshotStays
<1>5. CASE HeadChecked(w)
  <2>1. proc[w].pc \in Snapped /\ UNCHANGED <<msg, zset, held, lock, hist>>
    BY <1>5 DEF HeadChecked, At, Snapped, dataVars
  <2>2. CASE Goto(w, "fenceL")
    <3>1. go("fenceL").pc \in Snapped /\ HandedBy(go("fenceL"), hist'.handed)
      BY <1>1 DEF HandedBy, Snapped
    <3> QED BY <1>1, <1>2, <2>1, <2>2, <3>1, SnapshotStays
  <2>3. CASE GiveUp(w)
    <3>1. proc'[w].pc = "release" /\ \A b \in Actors \ {w} : proc'[b] = proc[b]
      BY <1>0, <2>3, LandsOutside
    <3>2. proc'[w].pc \notin Snapped \cup {"read", "repair"}
      BY <3>1 DEF Snapped
    <3> QED BY <1>0, <2>1, <3>1, <3>2, QuietStep
  <2> QED BY <1>5, <2>2, <2>3 DEF HeadChecked
<1>6. CASE ApplyFence(w)
  <2> DEFINE p == [proc[w] EXCEPT !.pc = "handoffA", !.kind = "dead"]
  <2>1. proc[w].pc = "fenceA" /\ UNCHANGED <<msg, zset, held, lock, hist>>
    BY <1>6 DEF ApplyFence, At, dataVars
  <2>2. proc[w].pc \in Snapped
    BY <2>1 DEF Snapped
  <2>3. p.pc = "handoffA" /\ p.key = proc[w].key /\ p.mid = proc[w].mid /\ p.snap = proc[w].snap
    BY <1>0 DEF Process
  <2>4. Become(w, p) \/ Goto(w, "execA")
    BY <1>6 DEF ApplyFence
  <2> HIDE DEF p
  <2>5. p.pc \in Snapped /\ HandedBy(p, hist'.handed)
    BY <2>3 DEF HandedBy, Snapped
  <2>6. go("execA").pc \in Snapped /\ HandedBy(go("execA"), hist'.handed)
    BY <1>0, <1>1, <2>1 DEF HandedBy, Snapped
  <2> QED BY <1>1, <1>2, <2>1, <2>2, <2>3, <2>4, <2>5, <2>6, SnapshotStays
<1>7. ASSUME NEW outcome \in Outcomes, Handled(w, outcome)
      PROVE  Intact'
  <2> DEFINE p == [proc[w] EXCEPT !.pc = "fenceA", !.kind = outcome]
  <2>1. proc[w].pc \in Snapped /\ UNCHANGED <<msg, zset, held, lock, hist>>
    BY <1>7 DEF Handled, At, Snapped, dataVars
  <2>2. p.pc = "fenceA" /\ p.key = proc[w].key /\ p.mid = proc[w].mid /\ p.snap = proc[w].snap
          /\ p.kind = outcome
    BY <1>0 DEF Process
  <2>3. Become(w, p)
    BY <1>7 DEF Handled
  <2> HIDE DEF p
  <2>4. p.pc \in Snapped /\ HandedBy(p, hist'.handed)
    BY <2>2 DEF HandedBy, Outcomes, Snapped
  <2> QED BY <2>1, <2>2, <2>3, <2>4, SnapshotStays
<1> QED BY <1>3, <1>4, <1>5, <1>6, <1>7

\* The holder of the lock finds the message at the head; without the lock anything
\* may be found.
LEMMA ReadingSteps ==
  ASSUME Inv, Inv', Intact, NEW w \in Workers, HeadFound(w) \/ HeadDangling(w) \/ Examine(w)
  PROVE  Intact'
<1> DEFINE k == proc[w].key
           m == proc[w].mid
<1>0. w \in Actors /\ proc[w] \in Process /\ proc[w].pc \in {"head", "read"}
  BY DEF Actors, Inv, Types, HeadFound, HeadDangling, Examine, At
<1>1. k \in Keys
  BY <1>0, Ready DEF ShapeOf, Keyed, Locked
<1>2. UNCHANGED <<msg, zset, held, lock, hist>>
  BY DEF HeadFound, HeadDangling, Examine, dataVars
<1>3. ASSUME NEW p, Become(w, p), KeptBy(w, p), FoundBy(w, p), HandedBy(p, hist.handed)
      PROVE  Intact'
  <2>1. proc'[w] = p /\ \A b \in Actors \ {w} : proc'[b] = proc[b]
    BY <1>0, <1>3, Lands
  <2> QED BY <1>0, <1>2, <1>3, <2>1, QuietStep
<1>4. CASE HeadFound(w)
  <2> DEFINE p == [proc[w] EXCEPT !.pc = "read", !.mid = HeadOf(k)]
  <2>1. HeadOf(k) \in Messages /\ zset[k][HeadOf(k)] # 0
    BY <1>1, <1>4, HeadIsMember DEF HeadFound, Inv, Members
  <2>2. msg[HeadOf(k)] # None /\ msg[HeadOf(k)].key = k
    BY <1>1, <2>1 DEF Intact, Homes
  <2>3. p.pc = "read" /\ p.key = k /\ p.mid = HeadOf(k)
    BY <1>0 DEF Process
  <2>4. Become(w, p)
    BY <1>4 DEF HeadFound
  <2> HIDE DEF p
  <2>5. KeptBy(w, p) /\ FoundBy(w, p) /\ HandedBy(p, hist.handed)
    BY <2>2, <2>3 DEF KeptBy, FoundBy, HandedBy, Snapped
  <2> QED BY <1>3, <2>4, <2>5
<1>5. ASSUME proc[w].pc = "read", lock[k] = w
      PROVE  msg[m] # None /\ msg[m].key = k
  BY <1>0, <1>5 DEF Intact, Found, FoundBy
<1>6. CASE HeadDangling(w)
  <2> DEFINE p == [proc[w] EXCEPT !.pc = "repair"]
  <2>1. p.pc = "repair" /\ p.key = k
    BY <1>0 DEF Process
  <2>2. Become(w, p) /\ proc[w].pc = "read" /\ msg[m] = None
    BY <1>6 DEF HeadDangling, Goto, At
  <2> HIDE DEF p
  <2>3. KeptBy(w, p) /\ FoundBy(w, p) /\ HandedBy(p, hist.handed)
    BY <1>5, <2>1, <2>2 DEF KeptBy, FoundBy, HandedBy, Snapped
  <2> QED BY <1>3, <2>2, <2>3
<1>7. CASE Examine(w)
  <2> DEFINE c == IF msg[m].aged THEN "fenceX" ELSE "held"
             p == [proc[w] EXCEPT !.pc = c, !.snap = msg[m]]
  <2>1. p.pc \in {"fenceX", "held"} /\ p.key = k /\ p.mid = m /\ p.snap = msg[m]
    BY <1>0 DEF Process
  <2>2. Become(w, p) /\ proc[w].pc = "read" /\ msg[m] # None
    BY <1>7 DEF Examine, At
  <2> HIDE DEF p
  <2>3. KeptBy(w, p) /\ FoundBy(w, p) /\ HandedBy(p, hist.handed)
    BY <1>5, <2>1, <2>2 DEF KeptBy, FoundBy, HandedBy, Snapped
  <2> QED BY <1>3, <2>2, <2>3
<1> QED BY <1>4, <1>6, <1>7

\* What a repair takes out of a sorted set has a hash, and is recorded.
LEMMA RepairIntact ==
  ASSUME Inv, Inv', Intact, NEW w \in Workers, Repair(w)
  PROVE  Intact'
<1> DEFINE k == proc[w].key
           m == proc[w].mid
           q == [proc[w] EXCEPT !.pc = "head", !.mid = None]
<1>0. w \in Actors /\ proc[w] \in Process /\ proc[w].pc = "repair"
  BY DEF Actors, Inv, Types, Repair, At
<1>1. k \in Keys /\ m \in Messages
  BY <1>0, Ready DEF ShapeOf, Keyed, Locked
<1>2. q.pc = "head" /\ Become(w, q) /\ UNCHANGED <<msg, held, lock>>
  BY <1>0 DEF Process, Repair
<1> HIDE DEF q
<1>3. proc'[w].pc = "head" /\ \A b \in Actors \ {w} : proc'[b] = proc[b]
  BY <1>0, <1>2, Lands
<1>4. \A j \in Keys, y \in Messages : zset'[j][y] = IF j = k /\ y = m THEN 0 ELSE zset[j][y]
  BY <1>1 DEF Repair, Inv, Types
<1>5. /\ hist'.made = hist.made /\ hist'.acked = hist.acked
      /\ hist'.handed = hist.handed /\ hist'.lost = hist.lost
      /\ hist.raced \subseteq hist'.raced
      /\ zset[k][m] # 0 /\ msg[m] # None => msg[m].inc \in hist'.raced
  BY DEF Repair, Inv, Types, History
<1>6. Kept' /\ Found' /\ HandedFirst'
  BY <1>2, <1>3, <1>5
  DEF Intact, Kept, KeptBy, Found, FoundBy, HandedFirst, HandedBy, Snapped
<1>7. Homes'
  BY <1>1, <1>2, <1>4, <1>5 DEF Intact, Homes, Raced
<1>8. Stays'
  <2> SUFFICES ASSUME NEW i \in 1..hist.made,
                      i \notin hist'.acked \cup hist'.handed \cup hist'.lost \cup hist'.raced
               PROVE  \E y \in Messages : /\ msg[y] # None /\ msg[y].inc = i
                                          /\ zset'[msg[y].key][y] # 0
    BY <1>2, <1>5 DEF Stays, Queued
  <2>1. PICK y \in Messages : msg[y] # None /\ msg[y].inc = i /\ zset[msg[y].key][y] # 0
    BY <1>5 DEF Intact, Stays, Queued
  <2>2. msg[y].key \in Keys
    BY <2>1 DEF Inv, Types, Message
  <2>3. ~(msg[y].key = k /\ y = m)
    BY <1>5, <2>1
  <2> QED BY <1>4, <2>1, <2>2, <2>3
<1>9. HoldHasMessage'
  <2> SUFFICES ASSUME NEW j \in Keys, held[j] # None
               PROVE  \/ zset'[j][held[j]] # 0
                      \/ Raced(held[j])' /\ msg'[held[j]].key = j
    BY <1>2 DEF HoldHasMessage
  <2>1. /\ held[j] \in Messages
        /\ zset[j][held[j]] # 0 \/ (Raced(held[j]) /\ msg[held[j]].key = j)
    BY DEF Intact, HoldHasMessage, Inv, Types
  <2>2. CASE Raced(held[j]) /\ msg[held[j]].key = j
    BY <1>2, <1>5, <2>2 DEF Raced
  <2>3. CASE zset[j][held[j]] # 0 /\ j = k /\ held[j] = m
    BY <1>1, <1>2, <1>5, <2>3 DEF Raced, Intact, Homes
  <2> QED BY <1>4, <2>1, <2>2, <2>3
<1> QED BY <1>6, <1>7, <1>8, <1>9 DEF Intact

\* Fields other than the identity of a message change.
LEMMA TouchStep ==
  ASSUME Inv, Inv', Intact, NEW m \in Messages, NEW x \in Message, msg[m] \in Message,
         msg' = [msg EXCEPT ![m] = x],
         x.inc = msg[m].inc, x.gen = msg[m].gen, x.key = msg[m].key,
         UNCHANGED <<zset, held, lock, hist>>,
         \A b \in Actors : proc'[b] = proc[b] \/ proc'[b].pc = "idle"
  PROVE  Intact'
<1>0. x # None /\ msg[m] # None /\ msg'[m] = x /\ \A y \in Messages \ {m} : msg'[y] = msg[y]
  BY NoneAssumption DEF Inv, Types
<1>1. Kept'
  <2> SUFFICES ASSUME NEW b \in Actors, proc'[b].pc \in Snapped, lock'[proc'[b].key] = b
               PROVE  /\ msg'[proc'[b].mid] # None
                      /\ msg'[proc'[b].mid].inc = proc'[b].snap.inc
                      /\ msg'[proc'[b].mid].gen = proc'[b].snap.gen
                      /\ msg'[proc'[b].mid].key = proc'[b].key
    BY DEF Kept, KeptBy
  <2>1. proc'[b] = proc[b]
    BY DEF Snapped
  <2>2. proc[b].mid \in Messages
    BY <2>1 DEF Inv, Shape, ShapeOf
  <2> QED BY <1>0, <2>1, <2>2 DEF Intact, Kept, KeptBy
<1>2. Found'
  <2> SUFFICES ASSUME NEW b \in Actors, proc'[b].pc \in {"read", "repair"}, lock'[proc'[b].key] = b
               PROVE  /\ msg'[proc'[b].mid] # None /\ msg'[proc'[b].mid].key = proc'[b].key
                      /\ proc'[b].pc # "repair"
    BY DEF Found, FoundBy
  <2>1. proc'[b] = proc[b]
    OBVIOUS
  <2>2. proc[b].mid \in Messages
    BY <2>1 DEF Inv, Shape, ShapeOf
  <2> QED BY <1>0, <2>1, <2>2 DEF Intact, Found, FoundBy
<1>3. HandedFirst'
  BY DEF Intact, HandedFirst, HandedBy
<1>4. Homes'
  BY <1>0 DEF Intact, Homes, Raced
<1>5. Stays'
  BY <1>0 DEF Intact, Stays, Queued
<1>6. HoldHasMessage'
  BY <1>0 DEF Intact, HoldHasMessage, Raced, Inv, Types
<1> QED BY <1>1, <1>2, <1>3, <1>4, <1>5, <1>6 DEF Intact

\* f is x, but for fields that do not tell which message it is.
SameIdentity(x, f) ==
  f \in Message /\ f.inc = x.inc /\ f.gen = x.gen /\ f.key = x.key

\* The writes of time and of release_hold tell no two messages apart.
LEMMA TimelessIdentity ==
  \A x \in Message : /\ SameIdentity(x, [x EXCEPT !.due = FALSE])
                     /\ SameIdentity(x, [x EXCEPT !.wait = FALSE])
                     /\ SameIdentity(x, [x EXCEPT !.aged = TRUE])
                     /\ SameIdentity(x, [x EXCEPT !.state = "pending"])
<1> TAKE x \in Message
<1>1. SameIdentity(x, [x EXCEPT !.due = FALSE])
  BY DEF Message, SameIdentity
<1>2. SameIdentity(x, [x EXCEPT !.wait = FALSE])
  BY DEF Message, SameIdentity
<1>3. SameIdentity(x, [x EXCEPT !.aged = TRUE])
  BY DEF Message, SameIdentity
<1>4. SameIdentity(x, [x EXCEPT !.state = "pending"])
  BY DEF Message, SameIdentity
<1> QED BY <1>1, <1>2, <1>3, <1>4

\* Time passes, and release_hold writes a state: no message changes its identity.
LEMMA TouchSteps ==
  ASSUME Inv, Inv', Intact,
         \/ \E m \in Messages : DuePasses(m) \/ WaitPasses(m) \/ AgePasses(m)
         \/ \E c \in Clients : ReleaseHoldWrite(c)
  PROVE  Intact'
<1>0. \A x \in Message : /\ SameIdentity(x, [x EXCEPT !.due = FALSE])
                         /\ SameIdentity(x, [x EXCEPT !.wait = FALSE])
                         /\ SameIdentity(x, [x EXCEPT !.aged = TRUE])
                         /\ SameIdentity(x, [x EXCEPT !.state = "pending"])
  BY TimelessIdentity
<1>1. ASSUME NEW m \in Messages, DuePasses(m) \/ WaitPasses(m) \/ AgePasses(m)
      PROVE  Intact'
  <2>1. msg[m] \in Message /\ UNCHANGED <<zset, held, lock, hist, proc>>
    BY <1>1 DEF DuePasses, WaitPasses, AgePasses, Inv, Types
  <2> DEFINE d == [msg[m] EXCEPT !.due = FALSE]
             t == [msg[m] EXCEPT !.wait = FALSE]
             o == [msg[m] EXCEPT !.aged = TRUE]
  <2>2. SameIdentity(msg[m], d) /\ SameIdentity(msg[m], t) /\ SameIdentity(msg[m], o)
    BY <1>0, <2>1
  <2>3. \/ msg' = [msg EXCEPT ![m] = d]
        \/ msg' = [msg EXCEPT ![m] = t]
        \/ msg' = [msg EXCEPT ![m] = o]
    BY <1>1 DEF DuePasses, WaitPasses, AgePasses
  <2> HIDE DEF d, t, o
  <2> QED BY <2>1, <2>2, <2>3, TouchStep DEF SameIdentity
<1>2. ASSUME NEW c \in Clients, ReleaseHoldWrite(c)
      PROVE  Intact'
  <2> DEFINE m == proc[c].mid
             f == [msg[m] EXCEPT !.state = "pending"]
  <2>1. c \in Actors /\ proc[c].pc = "holdWrite"
    BY <1>2 DEF Actors, ReleaseHoldWrite, At
  <2>2. m \in Messages
    BY <2>1, Ready DEF ShapeOf
  <2>3. UNCHANGED <<zset, held, lock, hist>> /\ Become(c, Idle)
    BY <1>2 DEF ReleaseHoldWrite
  <2>4. proc'[c].pc = "idle" /\ \A b \in Actors \ {c} : proc'[b] = proc[b]
    BY <2>1, <2>3, Lands, IdleIsIdle
  <2>5. CASE UNCHANGED msg
    <3>1. proc'[c].pc \notin Snapped \cup {"read", "repair"}
      BY <2>4 DEF Snapped
    <3> QED BY <2>1, <2>3, <2>4, <2>5, <3>1, QuietStep
  <2>6. CASE msg[m] # None /\ msg' = [msg EXCEPT ![m] = f]
    <3>1. msg[m] \in Message
      BY <2>2, <2>6 DEF Inv, Types
    <3>2. f \in Message /\ f.inc = msg[m].inc /\ f.gen = msg[m].gen /\ f.key = msg[m].key
      BY <1>0, <3>1 DEF SameIdentity
    <3> HIDE DEF f
    <3> QED BY <2>2, <2>3, <2>4, <2>6, <3>1, <3>2, TouchStep
  <2> QED BY <1>2, <2>5, <2>6 DEF ReleaseHoldWrite
<1> QED BY <1>1, <1>2

\* Nobody else holds the lock of a key and has examined the message that w
\* commits a change of.
LEMMA Alone ==
  ASSUME Inv, Intact, NEW w \in Workers, proc[w].pc \in {"execX", "execL", "execA"},
         w \notin dirty
  PROVE  /\ msg[proc[w].mid].key = proc[w].key
         /\ msg[proc[w].mid].inc = proc[w].snap.inc
         /\ \A b \in Actors \ {w} :
              proc[b].pc \in Snapped \cup {"read"} /\ lock[proc[b].key] = b => proc[b].mid # proc[w].mid
<1>1. w \in Actors /\ lock[proc[w].key] = w /\ proc[w].pc \in Snapped
  BY Committing DEF Snapped
<1>2. KeptBy(w, proc[w]) /\ \A b \in Actors : KeptBy(b, proc[b]) /\ FoundBy(b, proc[b])
  BY <1>1 DEF Intact, Kept, Found
<1> QED BY <1>1, <1>2 DEF KeptBy, FoundBy

\* The commit of an outcome that keeps the message, or of a lease.
LEMMA KeepStep ==
  ASSUME Inv, Inv', Intact, NEW w \in Workers, proc[w].pc \in {"execL", "execA"},
         w \notin dirty, NEW r \in Message, msg' = [msg EXCEPT ![proc[w].mid] = r],
         r.inc = msg[proc[w].mid].inc, r.key = msg[proc[w].mid].key,
         UNCHANGED <<zset, lock, hist>>,
         \A b \in Actors \ {w} : proc'[b] = proc[b],
         \/ proc'[w].pc = "release"
         \/ /\ proc'[w].pc = "handling" /\ proc'[w].key = proc[w].key
            /\ proc'[w].mid = proc[w].mid /\ proc'[w].snap = r,
         \A j \in Keys : \/ held'[j] = held[j]
                         \/ j = proc[w].key /\ held'[j] = proc[w].mid
  PROVE  Intact'
<1> DEFINE m == proc[w].mid
<1>0. w \in Actors /\ m \in Messages /\ proc[w].key \in Keys /\ msg[m] \in Message
  BY Committing
<1>1. r # None /\ msg[m] # None /\ msg'[m] = r /\ \A y \in Messages \ {m} : msg'[y] = msg[y]
  BY <1>0, NoneAssumption DEF Inv, Types
<1>2. msg[m].key = proc[w].key /\ (zset[proc[w].key][m] # 0 \/ Raced(m))
  BY <1>0, <1>1, Alone DEF Intact, Homes
<1>3. Kept'
  <2> SUFFICES ASSUME NEW b \in Actors, proc'[b].pc \in Snapped, lock'[proc'[b].key] = b
               PROVE  /\ msg'[proc'[b].mid] # None
                      /\ msg'[proc'[b].mid].inc = proc'[b].snap.inc
                      /\ msg'[proc'[b].mid].gen = proc'[b].snap.gen
                      /\ msg'[proc'[b].mid].key = proc'[b].key
    BY DEF Kept, KeptBy
  <2>1. CASE b = w
    BY <1>1, <1>2, <2>1 DEF Snapped
  <2>2. CASE b # w
    <3>1. proc'[b] = proc[b] /\ proc[b].mid # m
      BY <2>2, Alone
    <3>2. proc[b].mid \in Messages
      BY <3>1 DEF Inv, Shape, ShapeOf
    <3> QED BY <1>1, <3>1, <3>2 DEF Intact, Kept, KeptBy
  <2> QED BY <2>1, <2>2
<1>4. Found'
  <2> SUFFICES ASSUME NEW b \in Actors, proc'[b].pc \in {"read", "repair"}, lock'[proc'[b].key] = b
               PROVE  /\ msg'[proc'[b].mid] # None /\ msg'[proc'[b].mid].key = proc'[b].key
                      /\ proc'[b].pc # "repair"
    BY DEF Found, FoundBy
  <2>1. b # w
    OBVIOUS
  <2>2. proc'[b] = proc[b] /\ proc[b].pc = "read" /\ proc[b].mid # m
    BY <2>1, Alone DEF Intact, Found, FoundBy
  <2>3. proc[b].mid \in Messages
    BY <2>2 DEF Inv, Shape, ShapeOf
  <2> QED BY <1>1, <2>2, <2>3 DEF Intact, Found, FoundBy
<1>5. HandedFirst'
  BY DEF Intact, HandedFirst, HandedBy
<1>6. Homes'
  BY <1>1 DEF Intact, Homes, Raced
<1>7. Stays'
  BY <1>1 DEF Intact, Stays, Queued
<1>8. HoldHasMessage'
  <2> SUFFICES ASSUME NEW j \in Keys, held'[j] # None
               PROVE  \/ zset[j][held'[j]] # 0
                      \/ /\ msg'[held'[j]] # None /\ msg'[held'[j]].inc \in hist.raced
                         /\ msg'[held'[j]].key = j
    BY DEF HoldHasMessage, Raced
  <2>1. /\ held'[j] \in Messages
        /\ zset[j][held'[j]] # 0 \/ (Raced(held'[j]) /\ msg[held'[j]].key = j)
    BY <1>0, <1>2 DEF Intact, HoldHasMessage, Inv, Types
  <2> QED BY <1>1, <2>1 DEF Raced
<1> QED BY <1>3, <1>4, <1>5, <1>6, <1>7, <1>8 DEF Intact

\* The commit of a removal.
LEMMA RemoveStep ==
  ASSUME Inv, Inv', Intact, NEW w \in Workers, proc[w].pc \in {"execX", "execA"},
         w \notin dirty, Remove(proc[w].key, proc[w].mid), UNCHANGED lock,
         hist'.made = hist.made, hist.acked \subseteq hist'.acked,
         hist'.handed = hist.handed, hist'.lost = hist.lost, hist'.raced = hist.raced,
         proc[w].snap.inc \in hist'.acked \cup hist'.handed,
         \A b \in Actors \ {w} : proc'[b] = proc[b],
         proc'[w].pc \in {"head", "release"},
         \A j \in Keys : held'[j] \in {held[j], None},
         held'[proc[w].key] # proc[w].mid
  PROVE  Intact'
<1> DEFINE k == proc[w].key
           m == proc[w].mid
<1>0. w \in Actors /\ m \in Messages /\ k \in Keys
  BY Committing
<1>1. /\ msg'[m] = None /\ \A y \in Messages \ {m} : msg'[y] = msg[y]
      /\ \A j \in Keys, y \in Messages : zset'[j][y] = IF j = k /\ y = m THEN 0 ELSE zset[j][y]
  BY <1>0 DEF Remove, Inv, Types
<1>2. msg[m].key = k /\ msg[m].inc = proc[w].snap.inc
  BY Alone
<1>3. Kept'
  <2> SUFFICES ASSUME NEW b \in Actors, proc'[b].pc \in Snapped, lock'[proc'[b].key] = b
               PROVE  /\ msg'[proc'[b].mid] # None
                      /\ msg'[proc'[b].mid].inc = proc'[b].snap.inc
                      /\ msg'[proc'[b].mid].gen = proc'[b].snap.gen
                      /\ msg'[proc'[b].mid].key = proc'[b].key
    BY DEF Kept, KeptBy
  <2>1. b # w
    BY DEF Snapped
  <2>2. proc'[b] = proc[b] /\ proc[b].mid # m
    BY <2>1, Alone
  <2>3. proc[b].mid \in Messages
    BY <2>2 DEF Inv, Shape, ShapeOf
  <2> QED BY <1>1, <2>2, <2>3 DEF Intact, Kept, KeptBy
<1>4. Found'
  <2> SUFFICES ASSUME NEW b \in Actors, proc'[b].pc \in {"read", "repair"}, lock'[proc'[b].key] = b
               PROVE  /\ msg'[proc'[b].mid] # None /\ msg'[proc'[b].mid].key = proc'[b].key
                      /\ proc'[b].pc # "repair"
    BY DEF Found, FoundBy
  <2>1. b # w
    OBVIOUS
  <2>2. proc'[b] = proc[b] /\ proc[b].pc = "read" /\ proc[b].mid # m
    BY <2>1, Alone DEF Intact, Found, FoundBy
  <2>3. proc[b].mid \in Messages
    BY <2>2 DEF Inv, Shape, ShapeOf
  <2> QED BY <1>1, <2>2, <2>3 DEF Intact, Found, FoundBy
<1>5. HandedFirst'
  BY DEF Intact, HandedFirst, HandedBy
<1>6. Homes'
  BY <1>0, <1>1, <1>2 DEF Intact, Homes, Raced
<1>7. Stays'
  <2> SUFFICES ASSUME NEW i \in 1..hist.made,
                      i \notin hist'.acked \cup hist'.handed \cup hist'.lost \cup hist'.raced
               PROVE  \E y \in Messages : /\ msg'[y] # None /\ msg'[y].inc = i
                                          /\ zset'[msg'[y].key][y] # 0
    BY DEF Stays, Queued
  <2>1. PICK y \in Messages : msg[y] # None /\ msg[y].inc = i /\ zset[msg[y].key][y] # 0
    BY DEF Intact, Stays, Queued
  <2>2. y # m
    BY <1>2, <2>1
  <2>3. msg[y].key \in Keys
    BY <2>1 DEF Inv, Types, Message
  <2> QED BY <1>1, <2>1, <2>2, <2>3
<1>8. HoldHasMessage'
  <2> SUFFICES ASSUME NEW j \in Keys, held'[j] # None
               PROVE  \/ zset'[j][held'[j]] # 0
                      \/ /\ msg'[held'[j]] # None /\ msg'[held'[j]].inc \in hist'.raced
                         /\ msg'[held'[j]].key = j
    BY DEF HoldHasMessage, Raced
  <2>1. /\ held'[j] = held[j] /\ held[j] \in Messages
        /\ zset[j][held[j]] # 0 \/ (Raced(held[j]) /\ msg[held[j]].key = j)
    BY DEF Intact, HoldHasMessage, Inv, Types
  <2>2. held[j] # m
    BY <1>2, <2>1 DEF Raced, Intact, Homes
  <2> QED BY <1>1, <2>1, <2>2 DEF Raced
<1> QED BY <1>3, <1>4, <1>5, <1>6, <1>7, <1>8 DEF Intact

\* Whether the message is removed or kept, a commit leaves the rest intact.
LEMMA CommitSteps ==
  ASSUME Inv, Inv', Intact, NEW w \in Workers,
         \/ ExpireExec(w) \/ LeaseExec(w)
         \/ ApplyRemoval(w) \/ ApplyRetry(w) \/ ApplyWait(w) \/ ApplyHold(w)
  PROVE  Intact'
<1> DEFINE k == proc[w].key
           m == proc[w].mid
           gone(c) == [proc[w] EXCEPT !.pc = c, !.mid = None, !.snap = None]
<1>0. proc[w].pc \in {"execX", "execL", "execA"} /\ w \notin dirty
  BY DEF ExpireExec, LeaseExec, ApplyRemoval, ApplyRetry, ApplyWait, ApplyHold, At
<1>1. /\ w \in Actors /\ m \in Messages /\ k \in Keys /\ msg[m] \in Message
      /\ lock[k] = w /\ proc[w] \in Process /\ proc[w].snap \in Message
  BY <1>0, Committing, Ready DEF ShapeOf, Snapped
<1>2. gone("head").pc = "head" /\ gone("release").pc = "release"
  BY <1>1 DEF Process
<1>3. HandedBy(proc[w], hist.handed)
  BY <1>1 DEF Intact, HandedFirst
<1>4. CASE ExpireExec(w)
  <2>1. proc[w].pc = "execX" /\ Remove(k, m) /\ UNCHANGED <<lock, hist>> /\ Become(w, gone("head"))
    BY <1>4 DEF ExpireExec, At
  <2> HIDE DEF gone
  <2>2. proc'[w].pc = "head" /\ \A b \in Actors \ {w} : proc'[b] = proc[b]
    BY <1>1, <1>2, <2>1, Lands
  <2>3. proc[w].snap.inc \in hist'.handed
    BY <1>3, <2>1 DEF HandedBy
  <2>4. (\A j \in Keys : held'[j] \in {held[j], None}) /\ held'[k] # m
    BY <1>1, <1>4, KeyedAssumption DEF ExpireExec, Inv, Types
  <2> QED BY <1>0, <2>1, <2>2, <2>3, <2>4, RemoveStep
<1>5. ASSUME proc[w].pc = "execA", Applied(w)
      PROVE  UNCHANGED lock /\ proc'[w].pc = "release" /\ \A b \in Actors \ {w} : proc'[b] = proc[b]
  <2>1. Become(w, gone("release")) /\ UNCHANGED lock
    BY <1>5 DEF Applied
  <2> HIDE DEF gone
  <2> QED BY <1>1, <1>2, <2>1, Lands
<1>6. CASE ApplyRemoval(w)
  <2>1. proc[w].pc = "execA" /\ Remove(k, m) /\ UNCHANGED held /\ Applied(w)
    BY <1>6 DEF ApplyRemoval, At
  <2>2. held[k] = None /\ None # m
    BY <1>1, <2>1, KeyedAssumption DEF Inv, HoldFence, HoldOf, Unparked
  <2>3. /\ hist'.made = hist.made /\ hist.acked \subseteq hist'.acked
        /\ hist'.handed = hist.handed /\ hist'.lost = hist.lost /\ hist'.raced = hist.raced
        /\ proc[w].snap.inc \in hist'.acked \cup hist'.handed
    <3>1. hist \in History
      BY DEF Inv, Types
    <3>2. CASE proc[w].kind = "ack"
      BY <1>6, <3>1, <3>2 DEF ApplyRemoval, History
    <3>3. CASE proc[w].kind = "dead"
      BY <1>3, <1>6, <2>1, <3>3 DEF ApplyRemoval, HandedBy
    <3> QED BY <1>6, <3>2, <3>3 DEF ApplyRemoval
  <2>4. \A j \in Keys : held'[j] \in {held[j], None}
    BY <2>1
  <2>5. held'[k] # m
    BY <2>1, <2>2
  <2> QED BY <1>0, <1>5, <2>1, <2>3, <2>4, <2>5, RemoveStep
<1>7. CASE LeaseExec(w)
  <2> DEFINE r == [msg[m] EXCEPT !.gen = proc[w].snap.gen + 1, !.state = "leased",
                                 !.due = FALSE, !.wait = FALSE]
             p == [proc[w] EXCEPT !.pc = "handling", !.snap = r]
  <2>1. proc[w].snap.gen + 1 \in Nat
    BY <1>1 DEF Message
  <2>2. r \in Message /\ r.inc = msg[m].inc /\ r.key = msg[m].key
    <3> DEFINE n == proc[w].snap.gen + 1
    <3> HIDE DEF n
    <3>1. n \in Nat
      BY <2>1 DEF n
    <3>2. LET f == [msg[m] EXCEPT !.gen = n, !.state = "leased", !.due = FALSE, !.wait = FALSE]
          IN f \in Message /\ f.inc = msg[m].inc /\ f.key = msg[m].key
      BY <1>1, <3>1 DEF Message
    <3> QED BY <3>2 DEF n
  <2>3. msg' = [msg EXCEPT ![m] = r] /\ UNCHANGED <<zset, lock, hist, held>> /\ Become(w, p)
          /\ proc[w].pc = "execL"
    BY <1>7 DEF LeaseExec, At
  <2> HIDE DEF r
  <2>4. p.pc = "handling" /\ p.key = k /\ p.mid = m /\ p.snap = r
    BY <1>1 DEF Process
  <2> HIDE DEF p
  <2>5. proc'[w] = p /\ \A b \in Actors \ {w} : proc'[b] = proc[b]
    BY <1>1, <2>3, Lands
  <2> QED BY <1>0, <2>2, <2>3, <2>4, <2>5, KeepStep
<1>8. ASSUME NEW r \in Message, r.inc = msg[m].inc, r.key = msg[m].key,
             msg' = [msg EXCEPT ![m] = r], UNCHANGED <<zset, hist>>,
             proc[w].pc = "execA", Applied(w),
             \A j \in Keys : held'[j] = held[j] \/ (j = k /\ held'[j] = m)
      PROVE  Intact'
  <2>1. UNCHANGED lock /\ proc'[w].pc = "release" /\ \A b \in Actors \ {w} : proc'[b] = proc[b]
    BY <1>5, <1>8
  <2> QED BY <1>0, <1>8, <2>1, KeepStep
<1>9. CASE ApplyRetry(w)
  <2> DEFINE n == msg[m].attempts + 1
             r == [msg[m] EXCEPT !.attempts = n, !.due = TRUE, !.state = "pending"]
  <2>1. n \in Nat
    BY <1>1 DEF Message
  <2>2. msg' = [msg EXCEPT ![m] = r]
    BY <1>1, <1>9 DEF ApplyRetry, Inv, Types, Message
  <2>3. UNCHANGED <<zset, hist, held>> /\ proc[w].pc = "execA" /\ Applied(w)
    BY <1>9 DEF ApplyRetry, At
  <2> HIDE DEF n
  <2>4. r \in Message /\ r.inc = msg[m].inc /\ r.key = msg[m].key
    BY <1>1, <2>1 DEF Message
  <2> HIDE DEF r
  <2> QED BY <1>8, <2>2, <2>3, <2>4
<1>10. CASE ApplyWait(w)
  <2> DEFINE r == [msg[m] EXCEPT !.state = "waiting", !.wait = TRUE]
  <2>2. msg' = [msg EXCEPT ![m] = r]
    BY <1>1, <1>10 DEF ApplyWait, Inv, Types, Message
  <2>3. UNCHANGED <<zset, hist, held>> /\ proc[w].pc = "execA" /\ Applied(w)
    BY <1>10 DEF ApplyWait, At
  <2>4. r \in Message /\ r.inc = msg[m].inc /\ r.key = msg[m].key
    BY <1>1 DEF Message
  <2> HIDE DEF r
  <2> QED BY <1>8, <2>2, <2>3, <2>4
<1>11. CASE ApplyHold(w)
  <2> DEFINE r == [msg[m] EXCEPT !.state = "held"]
  <2>2. msg' = [msg EXCEPT ![m] = r]
    BY <1>11 DEF ApplyHold
  <2>3. UNCHANGED <<zset, hist>> /\ proc[w].pc = "execA" /\ Applied(w)
    BY <1>11 DEF ApplyHold, At
  <2>4. r \in Message /\ r.inc = msg[m].inc /\ r.key = msg[m].key
    BY <1>1 DEF Message
  <2>5. \A j \in Keys : held'[j] = held[j] \/ (j = k /\ held'[j] = m)
    BY <1>1, <1>11 DEF ApplyHold, Inv, Types
  <2> HIDE DEF r
  <2> QED BY <1>8, <2>2, <2>3, <2>4, <2>5
<1> QED BY <1>4, <1>6, <1>7, <1>9, <1>10, <1>11

\* A push makes a message that is in its sorted set, and disturbs no other.
LEMMA PushIntact ==
  ASSUME Inv, Inv', Intact, NEW c \in Clients, NEW m \in Messages, NEW k \in Keys, Push(c, m, k)
  PROVE  Intact'
<1>1. PICK t \in Created : msg' = [msg EXCEPT ![m] = Fresh(k, t)]
  BY DEF Push
<1>2. PICK n \in Scores(k) : zset' = [zset EXCEPT ![k][m] = n]
  BY DEF Push
<1> DEFINE x == Fresh(k, t)
<1>3. msg[m] = None /\ UNCHANGED <<held, lock, proc>>
  BY DEF Push
<1>4. hist \in History
  BY DEF Inv, Types
<1>5. /\ hist'.made = hist.made + 1 /\ hist'.acked = hist.acked
      /\ hist'.handed = hist.handed /\ hist'.lost = hist.lost /\ hist'.raced = hist.raced
  BY <1>4 DEF Push, History
<1>6. x \in Message /\ x.inc = hist.made + 1 /\ x.key = k
  <2>1. hist.made + 1 \in Nat
    BY <1>4 DEF History
  <2> QED BY <2>1 DEF Fresh, Message
<1>7. n # 0
  BY <1>4 DEF Scores, History
<1> HIDE DEF x
<1>8. x # None /\ msg'[m] = x /\ \A y \in Messages \ {m} : msg'[y] = msg[y]
  BY <1>1, <1>6, NoneAssumption DEF Inv, Types, x
<1>9. \A j \in Keys, y \in Messages :
        zset'[j][y] = IF j = k /\ y = m THEN n ELSE zset[j][y]
  BY <1>2 DEF Inv, Types
<1>10. Kept'
  <2> SUFFICES ASSUME NEW b \in Actors, proc[b].pc \in Snapped, lock[proc[b].key] = b
               PROVE  /\ msg'[proc[b].mid] # None
                      /\ msg'[proc[b].mid].inc = proc[b].snap.inc
                      /\ msg'[proc[b].mid].gen = proc[b].snap.gen
                      /\ msg'[proc[b].mid].key = proc[b].key
    BY <1>3 DEF Kept, KeptBy
  <2>1. KeptBy(b, proc[b]) /\ proc[b].mid \in Messages
    BY DEF Intact, Kept, Inv, Shape, ShapeOf
  <2> QED BY <1>3, <1>8, <2>1 DEF KeptBy
<1>11. Found' /\ HandedFirst'
  <2>1. \A b \in Actors : proc[b].pc = "read" => proc[b].mid \in Messages
    BY DEF Inv, Shape, ShapeOf
  <2> QED BY <1>3, <1>5, <1>8, <2>1 DEF Intact, Found, FoundBy, HandedFirst, HandedBy
<1>12. Homes'
  BY <1>3, <1>5, <1>6, <1>7, <1>8, <1>9 DEF Intact, Homes, Raced
<1>13. Stays'
  <2> SUFFICES ASSUME NEW i \in 1..(hist.made + 1),
                      i \notin hist.acked \cup hist.handed \cup hist.lost \cup hist.raced
               PROVE  \E y \in Messages : /\ msg'[y] # None /\ msg'[y].inc = i
                                          /\ zset'[msg'[y].key][y] # 0
    BY <1>5 DEF Stays, Queued
  <2>1. CASE i = hist.made + 1
    BY <1>6, <1>7, <1>8, <1>9, <2>1
  <2>2. CASE i \in 1..hist.made
    <3>1. PICK y \in Messages : msg[y] # None /\ msg[y].inc = i /\ zset[msg[y].key][y] # 0
      BY <2>2 DEF Intact, Stays, Queued
    <3>2. y # m /\ msg[y].key \in Keys
      BY <1>3, <3>1 DEF Inv, Types, Message
    <3> QED BY <1>8, <1>9, <3>1, <3>2
  <2> QED BY <1>4, <2>1, <2>2 DEF History
<1>14. HoldHasMessage'
  <2> SUFFICES ASSUME NEW j \in Keys, held[j] # None
               PROVE  \/ zset'[j][held[j]] # 0
                      \/ Raced(held[j])' /\ msg'[held[j]].key = j
    BY <1>3 DEF HoldHasMessage
  <2>1. /\ held[j] \in Messages
        /\ zset[j][held[j]] # 0 \/ (Raced(held[j]) /\ msg[held[j]].key = j)
    BY DEF Intact, HoldHasMessage, Inv, Types
  <2>2. CASE Raced(held[j]) /\ msg[held[j]].key = j
    BY <1>3, <1>5, <1>8, <2>1, <2>2 DEF Raced
  <2>3. CASE zset[j][held[j]] # 0
    BY <1>7, <1>9, <2>1, <2>3
  <2> QED BY <2>1, <2>2, <2>3
<1> QED BY <1>10, <1>11, <1>12, <1>13, <1>14 DEF Intact

\* Nothing is there at first.
LEMMA InitiallyIntact == Init => Intact
<1> SUFFICES ASSUME Init PROVE Intact
  OBVIOUS
<1>1. \A a \in Actors : proc[a] = Idle
  BY DEF Init
<1>2. Kept /\ Found /\ HandedFirst
  BY <1>1, IdleIsIdle DEF Kept, KeptBy, Found, FoundBy, HandedFirst, HandedBy, Snapped
<1>3. Homes
  BY DEF Init, Homes
<1>4. Stays
  BY DEF Init, Stays
<1>5. HoldHasMessage
  BY DEF Init, HoldHasMessage
<1> QED BY <1>2, <1>3, <1>4, <1>5 DEF Intact

\* Every step but the loss of a hash keeps what Intact says.
LEMMA IntactInductive ==
  ASSUME MaxMsgLosses = 0, Inv, Inv', Intact, [Next]_vars
  PROVE  Intact'
<1>1. CASE UNCHANGED vars
  <2>1. UNCHANGED <<msg, zset, held, lock, proc, hist>>
    BY <1>1 DEF vars, dataVars
  <2> QED BY <2>1
       DEF Intact, Kept, KeptBy, Found, FoundBy, HandedFirst, HandedBy, Homes, Raced, Stays, Queued,
           HoldHasMessage
<1>2. ASSUME NEW w \in Workers, Proceed(w) PROVE Intact'
  BY <1>2, QuietWorkers, ReadingSteps, RepairIntact, SnapshotSteps, CommitSteps DEF Proceed
<1>3. ASSUME NEW w \in Workers, NEW k \in Keys,
             Recover(w, k) \/ \E ignore \in BOOLEAN : LeaseKey(w, k, ignore)
      PROVE  Intact'
  BY <1>3, QuietWorkers
<1>4. ASSUME NEW c \in Clients, ReleaseHoldHead(c) \/ ReleaseHoldWrite(c) PROVE Intact'
  BY <1>4, QuietOthers, TouchSteps
<1>5. ASSUME NEW c \in Clients, NEW k \in Keys,
             ReleaseHold(c, k) \/ \E m \in Messages : Push(c, m, k)
      PROVE  Intact'
  BY <1>5, QuietOthers, PushIntact
<1>6. CASE \/ \E a \in Actors : Crash(a)
           \/ \E k \in Keys : LockExpires(k) \/ LockLapses(k)
  BY <1>6, QuietOthers
<1>7. ASSUME NEW m \in Messages, DuePasses(m) \/ WaitPasses(m) \/ AgePasses(m) PROVE Intact'
  BY <1>7, TouchSteps
<1>8. \A m \in Messages : ~LoseHash(m)
  BY DEF LoseHash, Inv, Types, Bounds
<1> QED BY <1>1, <1>2, <1>3, <1>4, <1>5, <1>6, <1>7, <1>8 DEF Next

\* While Redis loses no hash, the holder of a lock acts on the message that is
\* there, and the sorted sets, the hashes and the holds agree.
THEOREM IntactAlways ==
  ASSUME MaxMsgLosses = 0
  PROVE  Spec => []Intact
<1>1. Init => Intact
  BY InitiallyIntact
<1>2. Inv /\ Inv' /\ Intact /\ [Next]_vars => Intact'
  BY IntactInductive
<1> QED BY <1>1, <1>2, Invariance, PTL DEF Spec

\* What a step does to one process and to the locks: nothing to either; a lock
\* runs out; a process goes on with its key, or with none; it lets go of its lock;
\* it takes a lock.
LockGone(k) ==
  /\ UNCHANGED proc /\ lock' = [lock EXCEPT ![k] = None]
  /\ HolderAlive(k) => used'.lapses > 0
Onward(a) ==
  /\ UNCHANGED lock
  /\ \E p : Become(a, p) /\ (p.pc \in Locked => proc[a].pc \in Locked /\ p.key = proc[a].key)
LetsGo(w) == Unlock(w) /\ \E p : Become(w, p) /\ p.pc \notin Locked
Takes(w, k) ==
  /\ lock[k] = None /\ lock' = [lock EXCEPT ![k] = w]
  /\ \E p : Become(w, p) /\ p.pc = "head" /\ p.key = k

Turn ==
  \/ UNCHANGED <<proc, lock>>
  \/ \E k \in Keys : LockGone(k)
  \/ \E a \in Actors : Onward(a)
  \/ \E w \in Workers : LetsGo(w) \/ \E k \in Keys : Takes(w, k)

\* The forms in which a process goes on.
LEMMA GoesOn ==
  ASSUME Inv, NEW a \in Actors, UNCHANGED lock
  PROVE  /\ Become(a, Idle) => Onward(a)
         /\ GiveUp(a) /\ proc[a].pc \in Locked => Onward(a)
         /\ \A c : Goto(a, c) /\ (c \in Locked => proc[a].pc \in Locked) => Onward(a)
<1> DEFINE p == [proc[a] EXCEPT !.pc = "release", !.mid = None, !.snap = None]
           q(c) == [proc[a] EXCEPT !.pc = c]
<1>1. proc[a] \in Process
  BY DEF Inv, Types
<1>2. p.key = proc[a].key /\ \A c : q(c).pc = c /\ q(c).key = proc[a].key
  BY <1>1 DEF Process
<1>3. GiveUp(a) => Become(a, p)
  BY DEF GiveUp
<1>4. \A c : Goto(a, c) => Become(a, q(c))
  BY DEF Goto
<1>5. Idle.pc \notin Locked
  BY IdleIsIdle DEF Locked
<1> HIDE DEF p, q
<1> QED BY <1>2, <1>3, <1>4, <1>5 DEF Onward

\* The commands of a worker.
LEMMA WorkerTurns ==
  ASSUME Inv, NEW w \in Workers, Proceed(w)
  PROVE  Onward(w) \/ LetsGo(w)
<1>0. w \in Actors /\ proc[w] \in Process
  BY DEF Actors, Inv, Types
<1>1. CASE HeadEmpty(w) \/ HeadDangling(w) \/ Fence(w) \/ Handoff(w)
  BY <1>0, <1>1, GoesOn DEF HeadEmpty, HeadDangling, Fence, Handoff, At, Locked
<1>2. CASE HeadUnreadable(w) \/ FenceLost(w) \/ ExecLost(w) \/ HeadHeld(w)
  BY <1>0, <1>2, GoesOn DEF HeadUnreadable, FenceLost, ExecLost, HeadHeld, At, Locked
<1>3. CASE ApplyLost(w) \/ Reconcile(w) \/ DropKey(w) \/ HeadChecked(w)
  BY <1>0, <1>3, GoesOn DEF ApplyLost, Reconcile, DropKey, HeadChecked, At, Locked
<1>4. ASSUME NEW p, Become(w, p), UNCHANGED lock, p.key = proc[w].key, proc[w].pc \in Locked
      PROVE  Onward(w)
  BY <1>4 DEF Onward
<1>5. CASE HeadFound(w)
  <2> DEFINE p == [proc[w] EXCEPT !.pc = "read", !.mid = HeadOf(proc[w].key)]
  <2>1. p.key = proc[w].key /\ Become(w, p) /\ UNCHANGED lock /\ proc[w].pc \in Locked
    BY <1>0, <1>5 DEF Process, HeadFound, At, Locked
  <2> HIDE DEF p
  <2> QED BY <1>4, <2>1
<1>6. CASE Repair(w)
  <2> DEFINE p == [proc[w] EXCEPT !.pc = "head", !.mid = None]
  <2>1. p.key = proc[w].key /\ Become(w, p) /\ UNCHANGED lock /\ proc[w].pc \in Locked
    BY <1>0, <1>6 DEF Process, Repair, At, Locked
  <2> HIDE DEF p
  <2> QED BY <1>4, <2>1
<1>7. CASE Examine(w)
  <2> DEFINE c == IF msg[proc[w].mid].aged THEN "fenceX" ELSE "held"
             p == [proc[w] EXCEPT !.pc = c, !.snap = msg[proc[w].mid]]
  <2>1. p.key = proc[w].key /\ Become(w, p) /\ UNCHANGED lock /\ proc[w].pc \in Locked
    BY <1>0, <1>7 DEF Process, Examine, At, Locked
  <2> HIDE DEF p
  <2> QED BY <1>4, <2>1
<1>8. CASE ExpireExec(w)
  <2> DEFINE p == [proc[w] EXCEPT !.pc = "head", !.mid = None, !.snap = None]
  <2>1. p.key = proc[w].key /\ Become(w, p) /\ UNCHANGED lock /\ proc[w].pc \in Locked
    BY <1>0, <1>8 DEF Process, ExpireExec, At, Locked
  <2> HIDE DEF p
  <2> QED BY <1>4, <2>1
<1>9. CASE LeaseExec(w)
  <2>1. PICK x : Become(w, [proc[w] EXCEPT !.pc = "handling", !.snap = x])
    BY <1>9 DEF LeaseExec
  <2> DEFINE p == [proc[w] EXCEPT !.pc = "handling", !.snap = x]
  <2>2. p.key = proc[w].key /\ UNCHANGED lock /\ proc[w].pc \in Locked
    BY <1>0, <1>9 DEF Process, LeaseExec, At, Locked
  <2> HIDE DEF p
  <2> QED BY <1>4, <2>1, <2>2 DEF p
<1>10. ASSUME NEW outcome \in Outcomes, Handled(w, outcome) PROVE Onward(w)
  <2> DEFINE p == [proc[w] EXCEPT !.pc = "fenceA", !.kind = outcome]
  <2>1. p.key = proc[w].key /\ Become(w, p) /\ UNCHANGED lock /\ proc[w].pc \in Locked
    BY <1>0, <1>10 DEF Process, Handled, At, Locked
  <2> HIDE DEF p
  <2> QED BY <1>4, <2>1
<1>11. CASE ApplyFence(w)
  <2> DEFINE p == [proc[w] EXCEPT !.pc = "handoffA", !.kind = "dead"]
  <2>1. p.key = proc[w].key /\ UNCHANGED lock /\ proc[w].pc \in Locked
    BY <1>0, <1>11 DEF Process, ApplyFence, At, Locked
  <2>2. Become(w, p) \/ Goto(w, "execA")
    BY <1>11 DEF ApplyFence
  <2> HIDE DEF p
  <2> QED BY <1>0, <1>4, <2>1, <2>2, GoesOn
<1>12. CASE ApplyRemoval(w) \/ ApplyRetry(w) \/ ApplyWait(w) \/ ApplyHold(w)
  <2> DEFINE p == [proc[w] EXCEPT !.pc = "release", !.mid = None, !.snap = None]
  <2>1. proc[w].pc \in Locked /\ Applied(w)
    BY <1>12 DEF ApplyRemoval, ApplyRetry, ApplyWait, ApplyHold, At, Locked
  <2>2. p.key = proc[w].key /\ Become(w, p) /\ UNCHANGED lock
    BY <1>0, <2>1 DEF Process, Applied
  <2> HIDE DEF p
  <2> QED BY <1>4, <2>1, <2>2
<1>13. CASE HandlerCancelled(w)
  BY <1>13, IdleIsIdle DEF HandlerCancelled, LetsGo, Locked
<1>14. CASE ReleaseLock(w)
  <2> DEFINE p == [Idle EXCEPT !.pc = "reconcile", !.key = proc[w].key]
  <2>1. p.pc = "reconcile"
    BY DEF Idle
  <2>2. Unlock(w) /\ (Become(w, Idle) \/ Become(w, p))
    BY <1>14 DEF ReleaseLock
  <2> HIDE DEF p
  <2> QED BY <2>1, <2>2, IdleIsIdle DEF LetsGo, Locked
<1> QED
  BY <1>1, <1>2, <1>3, <1>5, <1>6, <1>7, <1>8, <1>9, <1>10, <1>11, <1>12, <1>13, <1>14, Zenon
  DEF Proceed

\* Every step is a turn of one process, or of none.
LEMMA Turns ==
  ASSUME Inv, [Next]_vars
  PROVE  Turn
<1>1. CASE UNCHANGED vars
  BY <1>1 DEF vars, Turn
<1>2. ASSUME NEW w \in Workers, Proceed(w) PROVE Turn
  BY <1>2, WorkerTurns DEF Turn, Actors
<1>3. ASSUME NEW w \in Workers, NEW k \in Keys, Recover(w, k) PROVE Turn
  <2> DEFINE p == [Idle EXCEPT !.pc = "reconcile", !.key = k]
  <2>1. p.pc = "reconcile" /\ p.pc \notin Locked /\ Become(w, p) /\ UNCHANGED lock
    BY <1>3 DEF Recover, Idle, Locked
  <2> HIDE DEF p
  <2> QED BY <2>1 DEF Turn, Onward, Actors
<1>4. ASSUME NEW w \in Workers, NEW k \in Keys, NEW ignore \in BOOLEAN, LeaseKey(w, k, ignore)
      PROVE  Turn
  <2> DEFINE p == [Idle EXCEPT !.pc = "head", !.key = k, !.ignore = ignore]
  <2>1. p.pc = "head" /\ p.key = k /\ Become(w, p)
    BY <1>4 DEF LeaseKey, Idle
  <2>2. lock[k] = None /\ lock' = [lock EXCEPT ![k] = w]
    BY <1>4 DEF LeaseKey
  <2> HIDE DEF p
  <2> QED BY <2>1, <2>2 DEF Turn, Takes
<1>5. ASSUME NEW c \in Clients,
             \/ ReleaseHoldHead(c) \/ ReleaseHoldWrite(c)
             \/ \E k \in Keys : ReleaseHold(c, k) \/ \E m \in Messages : Push(c, m, k)
      PROVE  Turn
  <2>0. c \in Actors /\ proc[c] \in Process
    BY DEF Actors, Inv, Types
  <2>1. CASE ReleaseHoldWrite(c)
    BY <2>0, <2>1, GoesOn DEF ReleaseHoldWrite, Turn
  <2>2. CASE ReleaseHoldHead(c)
    <3> DEFINE p == [proc[c] EXCEPT !.pc = "holdWrite", !.mid = HeadOf(proc[c].key)]
    <3>1. p.pc = "holdWrite" /\ p.pc \notin Locked
      BY <2>0 DEF Process, Locked
    <3>2. UNCHANGED lock /\ (Become(c, p) \/ Become(c, Idle))
      BY <2>2 DEF ReleaseHoldHead
    <3> HIDE DEF p
    <3> QED BY <2>0, <3>1, <3>2, GoesOn DEF Turn, Onward
  <2>3. ASSUME NEW k \in Keys, ReleaseHold(c, k) PROVE Turn
    <3> DEFINE p == [Idle EXCEPT !.pc = "holdHead", !.key = k]
    <3>1. p.pc = "holdHead" /\ p.pc \notin Locked /\ Become(c, p) /\ UNCHANGED lock
      BY <2>3 DEF ReleaseHold, Idle, Locked
    <3> HIDE DEF p
    <3> QED BY <2>0, <3>1 DEF Turn, Onward
  <2>4. ASSUME NEW k \in Keys, NEW m \in Messages, Push(c, m, k) PROVE Turn
    BY <2>4 DEF Push, Turn
  <2> QED BY <1>5, <2>1, <2>2, <2>3, <2>4
<1>6. ASSUME NEW a \in Actors, Crash(a) PROVE Turn
  BY <1>6, GoesOn DEF Crash, Turn
<1>7. ASSUME NEW k \in Keys, LockExpires(k) PROVE Turn
  BY <1>7 DEF LockExpires, Turn, LockGone, dataVars
<1>8. ASSUME NEW k \in Keys, LockLapses(k) PROVE Turn
  <2>1. used'.lapses > 0
    BY <1>8 DEF LockLapses, Spend, Inv, Types, Bounds
  <2> QED BY <1>8, <2>1 DEF LockLapses, Turn, LockGone
<1>9. ASSUME NEW m \in Messages,
             DuePasses(m) \/ WaitPasses(m) \/ AgePasses(m) \/ LoseHash(m)
      PROVE  Turn
  BY <1>9 DEF DuePasses, WaitPasses, AgePasses, LoseHash, Turn
<1> QED BY <1>1, <1>2, <1>3, <1>4, <1>5, <1>6, <1>7, <1>8, <1>9 DEF Next

\* A process that holds the lock of the key it works on held it before, unless it
\* has just taken it.
LEMMA HeldBefore ==
  ASSUME Inv, Turn, NEW w \in Workers, proc'[w].pc \in Locked, proc'[w].pc # "head",
         lock'[proc'[w].key] = w
  PROVE  proc[w].pc \in Locked /\ proc'[w].key = proc[w].key /\ lock[proc[w].key] = w
<1>0. w \in Actors /\ None \notin Actors
  BY KeyedAssumption DEF Actors
<1>1. CASE UNCHANGED <<proc, lock>>
  BY <1>1
<1>2. ASSUME NEW k \in Keys, LockGone(k)
      PROVE  proc[w].pc \in Locked /\ proc'[w].key = proc[w].key /\ lock[proc[w].key] = w
  <2>1. proc[w].key \in Keys
    BY <1>0, <1>2, Ready DEF ShapeOf, Keyed, LockGone
  <2> QED BY <1>0, <1>2, <2>1 DEF LockGone, Inv, Types
<1>3. ASSUME NEW a \in Actors, Onward(a)
      PROVE  proc[w].pc \in Locked /\ proc'[w].key = proc[w].key /\ lock[proc[w].key] = w
  <2>1. PICK p : Become(a, p) /\ (p.pc \in Locked => proc[a].pc \in Locked /\ p.key = proc[a].key)
    BY <1>3 DEF Onward
  <2> QED BY <1>0, <1>3, <2>1, Lands DEF Onward
<1>4. ASSUME NEW b \in Workers, LetsGo(b)
      PROVE  proc[w].pc \in Locked /\ proc'[w].key = proc[w].key /\ lock[proc[w].key] = w
  <2>1. PICK p : Become(b, p) /\ p.pc \notin Locked
    BY <1>4 DEF LetsGo
  <2>2. b \in Actors /\ proc'[b] = p /\ \A x \in Actors \ {b} : proc'[x] = proc[x]
    BY <2>1, Lands DEF Actors
  <2>3. proc'[w] = proc[w]
    BY <1>0, <2>1, <2>2
  <2>4. proc[w].key \in Keys
    BY <1>0, <2>3, Ready DEF ShapeOf, Keyed
  <2>5. lock'[proc[w].key] \in {lock[proc[w].key], None}
    BY <1>4, <2>4, QuietUnlock DEF LetsGo
  <2> QED BY <1>0, <2>3, <2>5
<1>5. ASSUME NEW b \in Workers, NEW k \in Keys, Takes(b, k)
      PROVE  proc[w].pc \in Locked /\ proc'[w].key = proc[w].key /\ lock[proc[w].key] = w
  <2>1. PICK p : Become(b, p) /\ p.pc = "head" /\ p.key = k
    BY <1>5 DEF Takes
  <2>2. b \in Actors /\ proc'[b] = p /\ \A x \in Actors \ {b} : proc'[x] = proc[x]
    BY <2>1, Lands DEF Actors
  <2>3. b # w /\ proc'[w] = proc[w]
    BY <1>0, <2>1, <2>2
  <2>4. proc[w].key \in Keys
    BY <1>0, <2>3, Ready DEF ShapeOf, Keyed
  <2> QED BY <1>5, <2>3, <2>4 DEF Takes, Inv, Types
<1> QED BY <1>1, <1>2, <1>3, <1>4, <1>5 DEF Turn

\* A process that works on a key without its lock has lost it to the clock, and so
\* has one that took a message with a hash for a dangling member.
LateBy(a, p) == p.pc \in Locked /\ lock[p.key] # a => used.lapses > 0
Lapsed ==
  /\ \A a \in Actors : LateBy(a, proc[a])
  /\ hist.raced # {} => used.lapses > 0

\* Lapses are only ever added, and only a repair adds to hist.raced.
LEMMA Counts ==
  ASSUME Inv, Inv', [Next]_vars
  PROVE  /\ used.lapses > 0 => used'.lapses > 0
         /\ hist'.raced = hist.raced \/ \E w \in Workers : Repair(w)
<1>0. used.lapses \in Nat /\ used \in Bounds /\ hist \in History
  BY DEF Inv, Types, Bounds
<1>1. ASSUME NEW b, Spend(b) PROVE used.lapses > 0 => used'.lapses > 0
  BY <1>0, <1>1 DEF Spend, Bounds
<1>2. UNCHANGED used \/ \E b : Spend(b)
  <2>1. CASE UNCHANGED vars
    BY <2>1 DEF vars
  <2>2. ASSUME NEW w \in Workers, Proceed(w) PROVE UNCHANGED used \/ \E b : Spend(b)
    BY <2>2, Zenon
    DEF Proceed, HeadEmpty, HeadFound, HeadDangling, Repair, HeadUnreadable, Examine, Fence,
        FenceLost, ExecLost, Handoff, ExpireExec, HeadHeld, HeadChecked, LeaseExec, Handled,
        HandlerCancelled, ApplyFence, ApplyLost, ApplyRemoval, ApplyRetry, ApplyWait,
        ApplyHold, ReleaseLock, Reconcile, DropKey, Applied
  <2>3. ASSUME NEW w \in Workers, NEW k \in Keys,
               Recover(w, k) \/ \E ignore \in BOOLEAN : LeaseKey(w, k, ignore)
        PROVE  UNCHANGED used
    BY <2>3 DEF Recover, LeaseKey
  <2>4. ASSUME NEW c \in Clients,
               \/ ReleaseHoldHead(c) \/ ReleaseHoldWrite(c)
               \/ \E k \in Keys : ReleaseHold(c, k) \/ \E m \in Messages : Push(c, m, k)
        PROVE  UNCHANGED used \/ \E b : Spend(b)
    BY <2>4, Zenon DEF ReleaseHoldHead, ReleaseHoldWrite, ReleaseHold, Push
  <2>5. ASSUME NEW a \in Actors, Crash(a) PROVE \E b : Spend(b)
    BY <2>5, Zenon DEF Crash
  <2>6. ASSUME NEW k \in Keys, LockExpires(k) \/ LockLapses(k)
        PROVE  UNCHANGED used \/ \E b : Spend(b)
    BY <2>6, Zenon DEF LockExpires, LockLapses
  <2>7. ASSUME NEW m \in Messages,
               DuePasses(m) \/ WaitPasses(m) \/ AgePasses(m) \/ LoseHash(m)
        PROVE  UNCHANGED used \/ \E b : Spend(b)
    BY <2>7, Zenon DEF DuePasses, WaitPasses, AgePasses, LoseHash
  <2> QED BY <2>1, <2>2, <2>3, <2>4, <2>5, <2>6, <2>7, Zenon DEF Next
<1>3. hist'.raced = hist.raced \/ \E w \in Workers : Repair(w)
  <2>1. CASE UNCHANGED vars
    BY <2>1 DEF vars
  <2>2. ASSUME NEW w \in Workers, Proceed(w), ~Repair(w) PROVE hist'.raced = hist.raced
    <3>1. CASE Handoff(w)
      BY <1>0, <3>1 DEF Handoff, History
    <3>2. CASE ApplyRemoval(w)
      BY <1>0, <3>2 DEF ApplyRemoval, History
    <3>3. CASE ~Handoff(w) /\ ~ApplyRemoval(w)
      <4>1. UNCHANGED hist
        BY <2>2, <3>3, Zenon
        DEF Proceed, HeadEmpty, HeadFound, HeadDangling, HeadUnreadable, Examine, Fence,
            FenceLost, ExecLost, ExpireExec, HeadHeld, HeadChecked, LeaseExec, Handled,
            HandlerCancelled, ApplyFence, ApplyLost, ApplyRetry, ApplyWait,
            ApplyHold, ReleaseLock, Reconcile, DropKey
      <4> QED BY <4>1
    <3> QED BY <3>1, <3>2, <3>3
  <2>3. ASSUME NEW w \in Workers, NEW k \in Keys,
               Recover(w, k) \/ \E ignore \in BOOLEAN : LeaseKey(w, k, ignore)
        PROVE  hist'.raced = hist.raced
    BY <2>3 DEF Recover, LeaseKey
  <2>4. ASSUME NEW c \in Clients,
               \/ ReleaseHoldHead(c) \/ ReleaseHoldWrite(c)
               \/ \E k \in Keys : ReleaseHold(c, k) \/ \E m \in Messages : Push(c, m, k)
        PROVE  hist'.raced = hist.raced
    BY <1>0, <2>4 DEF ReleaseHoldHead, ReleaseHoldWrite, ReleaseHold, Push, History
  <2>5. ASSUME NEW a \in Actors, Crash(a) PROVE hist'.raced = hist.raced
    BY <2>5 DEF Crash
  <2>6. ASSUME NEW k \in Keys, LockExpires(k) \/ LockLapses(k) PROVE hist'.raced = hist.raced
    BY <2>6 DEF LockExpires, LockLapses
  <2>7. ASSUME NEW m \in Messages,
               DuePasses(m) \/ WaitPasses(m) \/ AgePasses(m) \/ LoseHash(m)
        PROVE  hist'.raced = hist.raced
    BY <1>0, <2>7 DEF DuePasses, WaitPasses, AgePasses, LoseHash, History
  <2> QED BY <2>1, <2>2, <2>3, <2>4, <2>5, <2>6, <2>7 DEF Next
<1> QED BY <1>1, <1>2, <1>3

\* Every step keeps what Lapsed says.
LEMMA LapsedInductive ==
  ASSUME Inv, Inv', Intact, Lapsed, [Next]_vars
  PROVE  Lapsed'
<1>0. None \notin Actors /\ Turn
  BY Turns, KeyedAssumption
<1>1. ASSUME NEW a \in Actors, proc'[a].pc \in Locked, lock'[proc'[a].key] # a
      PROVE  used'.lapses > 0
  <2>1. ASSUME proc[a].pc \in Locked, lock[proc[a].key] # a PROVE used'.lapses > 0
    BY <2>1, Counts DEF Lapsed, LateBy
  <2>2. CASE UNCHANGED <<proc, lock>>
    BY <1>1, <2>1, <2>2
  <2>3. ASSUME NEW k \in Keys, LockGone(k) PROVE used'.lapses > 0
    <3>1. UNCHANGED proc /\ proc[a].key \in Keys /\ proc[a].pc \in Locked
      BY <1>1, <2>3, Ready DEF ShapeOf, Keyed, LockGone
    <3>2. CASE proc[a].key = k /\ lock[k] = a
      BY <1>0, <2>3, <3>1, <3>2 DEF LockGone, HolderAlive
    <3>3. CASE proc[a].key # k
      BY <1>1, <2>1, <2>3, <3>1, <3>3 DEF LockGone, Inv, Types
    <3> QED BY <2>1, <3>1, <3>2, <3>3
  <2>4. ASSUME NEW b \in Actors, Onward(b) PROVE used'.lapses > 0
    <3>1. PICK p : Become(b, p) /\ (p.pc \in Locked => proc[b].pc \in Locked /\ p.key = proc[b].key)
      BY <2>4 DEF Onward
    <3> QED BY <1>1, <2>1, <2>4, <3>1, Lands DEF Onward
  <2>5. ASSUME NEW b \in Workers, LetsGo(b) PROVE used'.lapses > 0
    <3>1. PICK p : Become(b, p) /\ p.pc \notin Locked
      BY <2>5 DEF LetsGo
    <3>2. b \in Actors /\ proc'[b] = p /\ \A x \in Actors \ {b} : proc'[x] = proc[x]
      BY <3>1, Lands DEF Actors
    <3>3. a # b /\ proc'[a] = proc[a]
      BY <1>1, <3>1, <3>2
    <3>4. proc[a].key \in Keys
      BY <1>1, <3>3, Ready DEF ShapeOf, Keyed
    <3>5. lock[proc[a].key] # a
      BY <1>1, <2>5, <3>3, <3>4 DEF LetsGo, Unlock, OwnsLock, Inv, Types
    <3> QED BY <1>1, <2>1, <3>3, <3>5
  <2>6. ASSUME NEW b \in Workers, NEW k \in Keys, Takes(b, k) PROVE used'.lapses > 0
    <3>1. PICK p : Become(b, p) /\ p.pc = "head" /\ p.key = k
      BY <2>6 DEF Takes
    <3>2. b \in Actors /\ proc'[b] = p /\ \A x \in Actors \ {b} : proc'[x] = proc[x]
      BY <3>1, Lands DEF Actors
    <3>3. lock' = [lock EXCEPT ![k] = b] /\ lock[k] = None
      BY <2>6 DEF Takes
    <3>4. a # b /\ proc'[a] = proc[a]
      BY <1>1, <3>1, <3>2, <3>3 DEF Inv, Types
    <3>5. proc[a].key \in Keys
      BY <1>1, <3>4, Ready DEF ShapeOf, Keyed
    <3>6. lock[proc[a].key] # a
      BY <1>0, <1>1, <3>3, <3>4, <3>5 DEF Inv, Types
    <3> QED BY <1>1, <2>1, <3>4, <3>6
  <2> QED BY <1>0, <2>2, <2>3, <2>4, <2>5, <2>6 DEF Turn
<1>2. hist'.raced # {} => used'.lapses > 0
  <2>1. CASE hist'.raced = hist.raced
    BY <2>1, Counts DEF Lapsed
  <2>2. ASSUME NEW w \in Workers, Repair(w) PROVE used'.lapses > 0
    <3>1. w \in Actors /\ proc[w].pc = "repair"
      BY <2>2 DEF Repair, At, Actors
    <3>2. lock[proc[w].key] # w
      BY <3>1 DEF Intact, Found, FoundBy
    <3> QED BY <3>1, <3>2, Counts DEF Lapsed, LateBy, Locked
  <2> QED BY <2>1, <2>2, Counts
<1> QED BY <1>1, <1>2 DEF Lapsed, LateBy

\* A message that push() created stays in its sorted set until it is acked or handed
\* to on_dlq: no process with a stale view removes it, provided Redis itself loses
\* nothing.  The unwatched repair can, but only in a process whose lock has lapsed.
THEOREM MessagesAreConserved ==
  ASSUME MaxMsgLosses = 0
  PROVE  Spec => []Conserved
<1>1. Init => Lapsed
  <2> SUFFICES ASSUME Init PROVE Lapsed
    OBVIOUS
  <2>1. \A a \in Actors : proc[a].pc = "idle"
    BY IdleIsIdle DEF Init
  <2> QED BY <2>1 DEF Init, Lapsed, LateBy, Locked
<1>2. Inv /\ Inv' /\ Intact /\ Lapsed /\ [Next]_vars => Lapsed'
  BY LapsedInductive
<1>3. Intact /\ Lapsed => Conserved
  BY DEF Intact, Stays, Lapsed, Conserved
<1> QED BY <1>1, <1>2, <1>3, Invariance, IntactAlways, PTL DEF Spec

\* A key is only ever parked at a message that it still has, or that the repair took
\* from it.
THEOREM ParkedKeysHaveTheirMessage ==
  ASSUME MaxMsgLosses = 0
  PROVE  Spec => []HoldHasMessage
<1>1. Intact => HoldHasMessage
  BY DEF Intact
<1> QED BY <1>1, IntactAlways, PTL

\* What a process commits is about the very message, in the very generation, that
\* it examined or leased, and it still holds the lock of the key.
THEOREM OnlyTheHolderCommits ==
  ASSUME MaxMsgLosses = 0
  PROVE  Spec => []CommitsAreFenced
<1>1. Inv /\ Intact => CommitsAreFenced
  <2> SUFFICES ASSUME Inv, Intact, NEW w \in Workers,
                      proc[w].pc \in {"handoffX", "execX", "execL", "handoffA", "execA"},
                      w \notin dirty
               PROVE  /\ lock[proc[w].key] = w
                      /\ msg[proc[w].mid] # None
                      /\ msg[proc[w].mid].inc = proc[w].snap.inc
                      /\ msg[proc[w].mid].gen = proc[w].snap.gen
    BY DEF CommitsAreFenced
  <2>1. w \in Actors
    BY DEF Actors
  <2>2. lock[proc[w].key] = w
    BY <2>1 DEF Inv, WatchFence, FenceOf, Watching
  <2> QED BY <2>1, <2>2 DEF Intact, Kept, KeptBy, Snapped
<1> QED BY <1>1, Invariance, IntactAlways, PTL

-----------------------------------------------------------------------------
(* With default orders.                                                    *)

\* The steps between the look at the head and the grant of its lease.
Looking == {"held", "fenceL", "execL"}

\* Every message of k, but for those a repair took out, is the i-th or later.
Oldest(i, k) ==
  /\ i <= hist.made
  /\ \A m \in Messages : msg[m] # None /\ msg[m].key = k /\ ~Raced(m) => i <= msg[m].inc

\* The head that the holder of a lock has seen stays the oldest of its key: what
\* comes later is younger.
OldestOf(w) ==
  lock[proc[w].key] = w =>
    /\ proc[w].pc \in Looking => Oldest(proc[w].snap.inc, proc[w].key)
    /\ proc[w].pc = "read" => Oldest(msg[proc[w].mid].inc, proc[w].key)

\* The score of a message is the one of its push, unless a repair took it out.
Scored ==
  \A m \in Messages :
    msg[m] # None => /\ msg[m].inc <= hist.made
                     /\ zset[msg[m].key][m] \in {0, 2 * msg[m].inc}

Ordered == Scored /\ \A w \in Workers : OldestOf(w)

\* m is the message it was, at the score it had or at none; or it has just been
\* pushed.
SameScore(m) ==
  /\ msg[m] # None /\ msg'[m].inc = msg[m].inc /\ msg'[m].key = msg[m].key
  /\ zset'[msg[m].key][m] \in {0, zset[msg[m].key][m]}
Youngest(m) ==
  /\ msg[m] = None
  /\ hist'.made = hist.made + 1 /\ msg'[m].inc = hist'.made
  /\ zset'[msg'[m].key][m] = 2 * msg'[m].inc

\* What a step can do to the order of the messages: remove some, or add the youngest.
OrderKept ==
  /\ hist'.made \in {hist.made, hist.made + 1} /\ hist.raced \subseteq hist'.raced
  /\ \A m \in Messages : msg'[m] # None => SameScore(m) \/ Youngest(m)

\* No hash and no sorted set changes.
LEMMA StillOrder ==
  ASSUME UNCHANGED <<msg, zset>>, hist'.made = hist.made, hist'.raced = hist.raced
  PROVE  OrderKept
BY DEF OrderKept, SameScore

\* Fields other than the identity of a message change.
LEMMA RenewedOrder ==
  ASSUME Inv, NEW m \in Messages, NEW x \in Message, msg[m] \in Message,
         msg' = [msg EXCEPT ![m] = x], x.inc = msg[m].inc, x.key = msg[m].key,
         UNCHANGED <<zset, hist>>
  PROVE  OrderKept
<1>1. msg'[m] = x /\ (\A y \in Messages \ {m} : msg'[y] = msg[y]) /\ msg[m] # None
  BY NoneAssumption DEF Inv, Types
<1> QED BY <1>1 DEF OrderKept, SameScore

\* A message is removed from its sorted set, hash and all.
LEMMA RemovedOrder ==
  ASSUME Inv, NEW k \in Keys, NEW m \in Messages, Remove(k, m), hist'.made = hist.made,
         hist'.raced = hist.raced
  PROVE  OrderKept
<1>1. msg'[m] = None /\ \A y \in Messages \ {m} : msg'[y] = msg[y]
  BY DEF Remove, Inv, Types
<1>2. \A j \in Keys, y \in Messages \ {m} : zset'[j][y] = zset[j][y]
  BY DEF Remove, Inv, Types
<1>3. \A y \in Messages : msg[y] # None => msg[y].key \in Keys
  BY DEF Inv, Types, Message
<1> QED BY <1>1, <1>2, <1>3 DEF OrderKept, SameScore

\* A push with a default order.
LEMMA PushedOrder ==
  ASSUME FirstOut = FALSE, Inv, NEW c \in Clients, NEW m \in Messages, NEW k \in Keys,
         Push(c, m, k)
  PROVE  OrderKept
<1>1. PICK t \in Created : msg' = [msg EXCEPT ![m] = Fresh(k, t)]
  BY DEF Push
<1>2. PICK n \in Scores(k) : zset' = [zset EXCEPT ![k][m] = n]
  BY DEF Push
<1>3. /\ hist.made \in Nat /\ hist'.made = hist.made + 1 /\ hist'.raced = hist.raced
      /\ msg[m] = None
  BY DEF Push, Inv, Types, History
<1>4. n = 2 * (hist.made + 1)
  BY <1>2 DEF Scores
<1> DEFINE x == Fresh(k, t)
<1>5. x.inc = hist.made + 1 /\ x.key = k
  BY DEF Fresh
<1> HIDE DEF x
<1>6. msg'[m] = x /\ \A y \in Messages \ {m} : msg'[y] = msg[y]
  BY <1>1 DEF Inv, Types, x
<1>7. zset'[k][m] = n /\ \A j \in Keys, y \in Messages \ {m} : zset'[j][y] = zset[j][y]
  BY <1>2 DEF Inv, Types
<1>8. \A y \in Messages : msg[y] # None => msg[y].key \in Keys
  BY DEF Inv, Types, Message
<1> QED BY <1>3, <1>4, <1>5, <1>6, <1>7, <1>8 DEF OrderKept, SameScore, Youngest

\* The commits of a worker.
LEMMA CommittedOrder ==
  ASSUME Inv, NEW w \in Workers,
         \/ ExpireExec(w) \/ LeaseExec(w)
         \/ ApplyRemoval(w) \/ ApplyRetry(w) \/ ApplyWait(w) \/ ApplyHold(w)
  PROVE  OrderKept
<1> DEFINE k == proc[w].key
           m == proc[w].mid
<1>0. proc[w].pc \in {"execX", "execL", "execA"} /\ w \notin dirty
  BY DEF ExpireExec, LeaseExec, ApplyRemoval, ApplyRetry, ApplyWait, ApplyHold, At
<1>1. m \in Messages /\ k \in Keys /\ msg[m] \in Message
  BY <1>0, Committing
<1>2. CASE ExpireExec(w) \/ ApplyRemoval(w)
  <2>1. Remove(k, m) /\ hist'.made = hist.made /\ hist'.raced = hist.raced
    BY <1>2 DEF ExpireExec, ApplyRemoval, Inv, Types, History
  <2> QED BY <1>1, <2>1, RemovedOrder
<1>3. CASE LeaseExec(w)
  <2> DEFINE n == proc[w].snap.gen + 1
             x == [msg[m] EXCEPT !.gen = n, !.state = "leased", !.due = FALSE, !.wait = FALSE]
  <2>1. msg' = [msg EXCEPT ![m] = x] /\ UNCHANGED <<zset, hist>>
    BY <1>3 DEF LeaseExec
  <2>2. proc[w].snap \in Message
    BY <1>0, Committing
  <2>3. n \in Nat
    BY <2>2 DEF Message
  <2> HIDE DEF n
  <2>4. x \in Message /\ x.inc = msg[m].inc /\ x.key = msg[m].key
    BY <1>1, <2>3 DEF Message
  <2> HIDE DEF x
  <2> QED BY <1>1, <2>1, <2>4, RenewedOrder
<1>4. CASE ApplyRetry(w)
  <2> DEFINE n == msg[m].attempts + 1
             x == [msg[m] EXCEPT !.attempts = n, !.due = TRUE, !.state = "pending"]
  <2>1. n \in Nat
    BY <1>1 DEF Message
  <2>2. msg' = [msg EXCEPT ![m] = x] /\ UNCHANGED <<zset, hist>>
    BY <1>1, <1>4 DEF ApplyRetry, Inv, Types, Message
  <2> HIDE DEF n
  <2>3. x \in Message /\ x.inc = msg[m].inc /\ x.key = msg[m].key
    BY <1>1, <2>1 DEF Message
  <2> HIDE DEF x
  <2> QED BY <1>1, <2>2, <2>3, RenewedOrder
<1>5. CASE ApplyWait(w)
  <2> DEFINE x == [msg[m] EXCEPT !.state = "waiting", !.wait = TRUE]
  <2>1. msg' = [msg EXCEPT ![m] = x] /\ UNCHANGED <<zset, hist>>
    BY <1>1, <1>5 DEF ApplyWait, Inv, Types, Message
  <2>2. x \in Message /\ x.inc = msg[m].inc /\ x.key = msg[m].key
    BY <1>1 DEF Message
  <2> HIDE DEF x
  <2> QED BY <1>1, <2>1, <2>2, RenewedOrder
<1>6. CASE ApplyHold(w)
  <2> DEFINE x == [msg[m] EXCEPT !.state = "held"]
  <2>1. msg' = [msg EXCEPT ![m] = x] /\ UNCHANGED <<zset, hist>>
    BY <1>6 DEF ApplyHold
  <2>2. x \in Message /\ x.inc = msg[m].inc /\ x.key = msg[m].key
    BY <1>1 DEF Message
  <2> HIDE DEF x
  <2> QED BY <1>1, <2>1, <2>2, RenewedOrder
<1> QED BY <1>2, <1>3, <1>4, <1>5, <1>6

\* What is not a push and not a commit of a worker.
LEMMA OutsideOrder ==
  ASSUME Inv,
         \/ \E m \in Messages : DuePasses(m) \/ WaitPasses(m) \/ AgePasses(m)
         \/ \E c \in Clients : ReleaseHoldWrite(c)
  PROVE  OrderKept
<1>0. \A x \in Message : /\ SameIdentity(x, [x EXCEPT !.due = FALSE])
                         /\ SameIdentity(x, [x EXCEPT !.wait = FALSE])
                         /\ SameIdentity(x, [x EXCEPT !.aged = TRUE])
                         /\ SameIdentity(x, [x EXCEPT !.state = "pending"])
  BY TimelessIdentity
<1>1. ASSUME NEW m \in Messages, DuePasses(m) \/ WaitPasses(m) \/ AgePasses(m)
      PROVE  OrderKept
  <2>1. msg[m] \in Message /\ UNCHANGED <<zset, hist>>
    BY <1>1 DEF DuePasses, WaitPasses, AgePasses, Inv, Types
  <2> DEFINE d == [msg[m] EXCEPT !.due = FALSE]
             t == [msg[m] EXCEPT !.wait = FALSE]
             o == [msg[m] EXCEPT !.aged = TRUE]
  <2>2. SameIdentity(msg[m], d) /\ SameIdentity(msg[m], t) /\ SameIdentity(msg[m], o)
    BY <1>0, <2>1
  <2>3. \/ msg' = [msg EXCEPT ![m] = d]
        \/ msg' = [msg EXCEPT ![m] = t]
        \/ msg' = [msg EXCEPT ![m] = o]
    BY <1>1 DEF DuePasses, WaitPasses, AgePasses
  <2> HIDE DEF d, t, o
  <2> QED BY <2>1, <2>2, <2>3, RenewedOrder DEF SameIdentity
<1>2. ASSUME NEW c \in Clients, ReleaseHoldWrite(c)
      PROVE  OrderKept
  <2> DEFINE m == proc[c].mid
             f == [msg[m] EXCEPT !.state = "pending"]
  <2>1. c \in Actors /\ proc[c].pc = "holdWrite" /\ UNCHANGED <<zset, hist>>
    BY <1>2 DEF Actors, ReleaseHoldWrite, At
  <2>2. m \in Messages
    BY <2>1, Ready DEF ShapeOf
  <2>3. CASE UNCHANGED msg
    BY <2>1, <2>3, StillOrder
  <2>4. CASE msg[m] # None /\ msg' = [msg EXCEPT ![m] = f]
    <3>1. msg[m] \in Message
      BY <2>2, <2>4 DEF Inv, Types
    <3>2. f \in Message /\ f.inc = msg[m].inc /\ f.key = msg[m].key
      BY <1>0, <3>1 DEF SameIdentity
    <3> HIDE DEF f
    <3> QED BY <2>1, <2>2, <2>4, <3>1, <3>2, RenewedOrder
  <2> QED BY <1>2, <2>3, <2>4 DEF ReleaseHoldWrite
<1> QED BY <1>1, <1>2

\* No step but a push adds to the order, and what a push adds comes last.
LEMMA OrderSteps ==
  ASSUME MaxMsgLosses = 0, FirstOut = FALSE, Inv, Intact, [Next]_vars
  PROVE  OrderKept
<1>1. CASE UNCHANGED vars
  BY <1>1, StillOrder DEF vars, dataVars
<1>2. ASSUME NEW w \in Workers, Proceed(w) PROVE OrderKept
  <2>1. CASE Repair(w)
    <3> DEFINE k == proc[w].key
               m == proc[w].mid
    <3>1. w \in Actors /\ proc[w].pc = "repair"
      BY <2>1 DEF Repair, At, Actors
    <3>2. k \in Keys /\ m \in Messages
      BY <3>1, Ready DEF ShapeOf, Keyed, Locked
    <3>3. UNCHANGED msg /\ zset' = [zset EXCEPT ![k][m] = 0]
      BY <2>1 DEF Repair
    <3>4. hist'.made = hist.made /\ hist.raced \subseteq hist'.raced
      BY <2>1 DEF Repair, Inv, Types, History
    <3>5. \A j \in Keys, y \in Messages : zset'[j][y] \in {0, zset[j][y]}
      BY <3>2, <3>3 DEF Inv, Types
    <3>6. \A y \in Messages : msg[y] # None => msg[y].key \in Keys
      BY DEF Inv, Types, Message
    <3> QED BY <3>3, <3>4, <3>5, <3>6 DEF OrderKept, SameScore
  <2>2. CASE \/ ExpireExec(w) \/ LeaseExec(w)
             \/ ApplyRemoval(w) \/ ApplyRetry(w) \/ ApplyWait(w) \/ ApplyHold(w)
    BY <2>2, CommittedOrder
  <2>3. CASE Handoff(w)
    BY <2>3, StillOrder DEF Handoff, dataVars, Inv, Types, History
  <2>4. CASE \/ HeadEmpty(w) \/ HeadFound(w) \/ HeadDangling(w) \/ HeadUnreadable(w)
             \/ Examine(w) \/ Fence(w) \/ FenceLost(w)
             \/ ExecLost(w) \/ HeadHeld(w) \/ HeadChecked(w)
             \/ \E outcome \in Outcomes : Handled(w, outcome)
             \/ HandlerCancelled(w) \/ ApplyFence(w) \/ ApplyLost(w)
             \/ ReleaseLock(w) \/ Reconcile(w) \/ DropKey(w)
    <3>1. UNCHANGED <<msg, zset, hist>>
      BY <2>4
      DEF HeadEmpty, HeadFound, HeadDangling, HeadUnreadable, Examine, Fence, FenceLost,
          ExecLost, HeadHeld, HeadChecked, Handled, HandlerCancelled, ApplyFence, ApplyLost, ReleaseLock, Reconcile, DropKey,
          dataVars
    <3> QED BY <3>1, StillOrder
  <2> QED BY <1>2, <2>1, <2>2, <2>3, <2>4, Zenon DEF Proceed
<1>3. ASSUME NEW w \in Workers, NEW k \in Keys,
             Recover(w, k) \/ \E ignore \in BOOLEAN : LeaseKey(w, k, ignore)
      PROVE  OrderKept
  BY <1>3, StillOrder DEF Recover, LeaseKey, dataVars
<1>4. ASSUME NEW c \in Clients, ReleaseHoldHead(c) \/ ReleaseHoldWrite(c) PROVE OrderKept
  BY <1>4, StillOrder, OutsideOrder DEF ReleaseHoldHead, dataVars
<1>5. ASSUME NEW c \in Clients, NEW k \in Keys,
             ReleaseHold(c, k) \/ \E m \in Messages : Push(c, m, k)
      PROVE  OrderKept
  BY <1>5, StillOrder, PushedOrder DEF ReleaseHold, dataVars
<1>6. CASE \/ \E a \in Actors : Crash(a)
           \/ \E k \in Keys : LockExpires(k) \/ LockLapses(k)
  BY <1>6, StillOrder DEF Crash, LockExpires, LockLapses, dataVars
<1>7. ASSUME NEW m \in Messages, DuePasses(m) \/ WaitPasses(m) \/ AgePasses(m) PROVE OrderKept
  BY <1>7, OutsideOrder
<1>8. \A m \in Messages : ~LoseHash(m)
  BY DEF LoseHash, Inv, Types, Bounds
<1> QED BY <1>1, <1>2, <1>3, <1>4, <1>5, <1>6, <1>7, <1>8 DEF Next

\* Who looks at a head has just found or examined it, or was looking at it already.
LEMMA Lookers ==
  ASSUME Inv, [Next]_vars, NEW w \in Workers, proc'[w].pc \in Looking \cup {"read"}
  PROVE  \/ proc'[w] = proc[w]
         \/ /\ proc[w].pc \in Looking /\ proc'[w].pc \in Looking
            /\ proc'[w].key = proc[w].key /\ proc'[w].snap = proc[w].snap
         \/ Examine(w) \/ HeadFound(w)
<1>0. w \in Actors /\ proc[w] \in Process
  BY DEF Actors, Inv, Types
<1> DEFINE Stayed == /\ proc[w].pc \in Looking /\ proc'[w].pc \in Looking
                     /\ proc'[w].key = proc[w].key /\ proc'[w].snap = proc[w].snap
<1> SUFFICES ASSUME proc'[w] # proc[w]
             PROVE  Stayed \/ Examine(w) \/ HeadFound(w)
  OBVIOUS
<1>1. \A p : Become(w, p) => p.pc \in Looking \cup {"read"}
  BY <1>0, Lands
<1>2. \A a, p : a # w => ~Become(a, p)
  BY <1>0 DEF Become, Inv, Types
<1>3. ~GiveUp(w) /\ ~Become(w, Idle) /\ \A c : Goto(w, c) => c \in Looking \cup {"read"}
  BY <1>0, LandsOutside DEF Looking
<1>4. \A k : ~Become(w, [Idle EXCEPT !.pc = "reconcile", !.key = k])
  <2> TAKE k
  <2>1. [Idle EXCEPT !.pc = "reconcile", !.key = k].pc = "reconcile"
    BY DEF Idle
  <2> QED BY <1>1, <2>1 DEF Looking
<1>5. ASSUME NEW b \in Workers, Proceed(b)
      PROVE  Stayed \/ Examine(w) \/ HeadFound(w)
  <2>1. b = w
    <3>1. \E p : Become(b, p)
      BY <1>5, Zenon
      DEF Proceed, HeadEmpty, HeadFound, HeadDangling, Repair, HeadUnreadable, Examine, Fence, FenceLost,
          ExecLost, Handoff, ExpireExec, HeadHeld, HeadChecked, LeaseExec, Handled,
          HandlerCancelled, ApplyFence, ApplyLost, ApplyRemoval, ApplyRetry, ApplyWait,
          ApplyHold, ReleaseLock, Reconcile, DropKey, Goto, GiveUp, Applied
    <3> QED BY <1>2, <3>1
  <2>2. ~HeadDangling(w) /\ ~Repair(w)
    <3>1. [proc[w] EXCEPT !.pc = "head", !.mid = None].pc = "head"
      BY <1>0 DEF Process
    <3>2. ~Repair(w)
      BY <1>1, <3>1 DEF Repair, Looking
    <3>3. ~Goto(w, "repair")
      BY <1>3 DEF Looking
    <3> QED BY <3>2, <3>3 DEF HeadDangling
  <2>3. /\ ~HeadEmpty(w) /\ ~HeadUnreadable(w) /\ ~FenceLost(w) /\ ~ExecLost(w)
        /\ ~Handoff(w) /\ ~HeadHeld(w) /\ ~HandlerCancelled(w) /\ ~ApplyLost(w)
        /\ ~Reconcile(w) /\ ~DropKey(w)
    BY <1>3
    DEF HeadEmpty, HeadUnreadable, FenceLost, ExecLost, Handoff, HeadHeld, HandlerCancelled,
        ApplyLost, Reconcile, DropKey, Looking
  <2>4. ~ReleaseLock(w)
    BY <1>3, <1>4 DEF ReleaseLock
  <2>5. ~ExpireExec(w)
    <3>1. [proc[w] EXCEPT !.pc = "head", !.mid = None, !.snap = None].pc = "head"
      BY <1>0 DEF Process
    <3> QED BY <1>1, <3>1 DEF ExpireExec, Looking
  <2>6. ~LeaseExec(w)
    <3>1. \A s : [proc[w] EXCEPT !.pc = "handling", !.snap = s].pc = "handling"
      BY <1>0 DEF Process
    <3> QED BY <1>1, <3>1, Zenon DEF LeaseExec, Looking
  <2>7. \A outcome \in Outcomes : ~Handled(w, outcome)
    <3>1. \A o : [proc[w] EXCEPT !.pc = "fenceA", !.kind = o].pc = "fenceA"
      BY <1>0 DEF Process
    <3> QED BY <1>1, <3>1, Zenon DEF Handled, Looking
  <2>8. ~ApplyFence(w)
    <3>1. [proc[w] EXCEPT !.pc = "handoffA", !.kind = "dead"].pc = "handoffA"
      BY <1>0 DEF Process
    <3>2. ~Become(w, [proc[w] EXCEPT !.pc = "handoffA", !.kind = "dead"])
      BY <1>1, <3>1 DEF Looking
    <3>3. ~Goto(w, "execA")
      BY <1>3 DEF Looking
    <3> QED BY <3>2, <3>3, Zenon DEF ApplyFence
  <2>9. ~ApplyRemoval(w) /\ ~ApplyRetry(w) /\ ~ApplyWait(w) /\ ~ApplyHold(w)
    <3>1. [proc[w] EXCEPT !.pc = "release", !.mid = None, !.snap = None].pc = "release"
      BY <1>0 DEF Process
    <3>2. ~Applied(w)
      BY <1>1, <3>1 DEF Applied, Looking
    <3> QED BY <3>2 DEF ApplyRemoval, ApplyRetry, ApplyWait, ApplyHold
  <2>10. ASSUME Fence(w) \/ HeadChecked(w)
         PROVE  Stayed
    <3>1. PICK c \in Looking : proc[w].pc \in Looking /\ Goto(w, c)
      BY <1>3, <2>10 DEF Fence, HeadChecked, At, Looking
    <3>5. proc'[w].pc = c
      BY <1>0, <3>1, LandsOutside
    <3> DEFINE p == [proc[w] EXCEPT !.pc = c]
    <3>2. p.key = proc[w].key /\ p.snap = proc[w].snap /\ Become(w, p)
      BY <1>0, <3>1 DEF Process, Goto
    <3> HIDE DEF p
    <3>3. proc'[w] = p
      BY <1>0, <3>2, Lands
    <3> QED BY <3>1, <3>2, <3>3, <3>5
  <2> QED
    BY <1>5, <2>1, <2>2, <2>3, <2>4, <2>5, <2>6, <2>7, <2>8, <2>9, <2>10, Zenon DEF Proceed
<1>6. ASSUME NEW b \in Workers, NEW k \in Keys,
             Recover(b, k) \/ \E ignore \in BOOLEAN : LeaseKey(b, k, ignore)
      PROVE  FALSE
  <2>1. b = w
    BY <1>2, <1>6 DEF Recover, LeaseKey
  <2>2. \A i : [Idle EXCEPT !.pc = "head", !.key = k, !.ignore = i].pc = "head"
    BY DEF Idle
  <2> QED BY <1>1, <1>4, <1>6, <2>1, <2>2, Zenon DEF Recover, LeaseKey, Looking
<1>7. ASSUME NEW c \in Clients,
             \/ ReleaseHoldHead(c) \/ ReleaseHoldWrite(c)
             \/ \E k \in Keys : ReleaseHold(c, k) \/ \E m \in Messages : Push(c, m, k)
      PROVE  FALSE
  <2>1. c # w
    BY KeyedAssumption
  <2>2. UNCHANGED proc \/ \E p : Become(c, p)
    BY <1>7, Zenon DEF ReleaseHoldHead, ReleaseHoldWrite, ReleaseHold, Push
  <2> QED BY <1>2, <2>1, <2>2
<1>8. ASSUME NEW a \in Actors, Crash(a) PROVE FALSE
  BY <1>2, <1>3, <1>8 DEF Crash
<1>9. ASSUME NEW k \in Keys, LockExpires(k) \/ LockLapses(k) PROVE FALSE
  BY <1>9 DEF LockExpires, LockLapses
<1>10. ASSUME NEW m \in Messages,
              DuePasses(m) \/ WaitPasses(m) \/ AgePasses(m) \/ LoseHash(m)
       PROVE  FALSE
  BY <1>10 DEF DuePasses, WaitPasses, AgePasses, LoseHash
<1>11. ~UNCHANGED vars
  BY DEF vars
<1> QED BY <1>5, <1>6, <1>7, <1>8, <1>9, <1>10, <1>11 DEF Next

\* ZRANGE 0 0 gives the oldest message of the key.
LEMMA FindsTheOldest ==
  ASSUME Inv, Intact, Scored, NEW w \in Workers, HeadFound(w)
  PROVE  /\ proc'[w].key = proc[w].key /\ proc'[w].pc = "read" /\ UNCHANGED msg
         /\ Oldest(msg[proc'[w].mid].inc, proc'[w].key)
<1> DEFINE k == proc[w].key
           h == HeadOf(k)
           p == [proc[w] EXCEPT !.pc = "read", !.mid = h]
<1>0. w \in Actors /\ proc[w] \in Process /\ proc[w].pc = "head" /\ UNCHANGED msg
  BY DEF Actors, Inv, Types, HeadFound, At, dataVars
<1>1. k \in Keys
  BY <1>0, Ready DEF ShapeOf, Keyed, Locked
<1>2. /\ h \in Messages /\ h \in Members(k)
      /\ \A x \in Members(k) : zset[k][h] <= zset[k][x]
  BY <1>1, HeadIsMember DEF HeadFound, Inv
<1>3. zset[k][h] # 0 /\ msg[h] # None /\ msg[h].key = k
  BY <1>1, <1>2 DEF Intact, Homes, Members
<1>4. p.key = k /\ p.mid = h /\ p.pc = "read" /\ Become(w, p)
  BY <1>0 DEF Process, HeadFound
<1> HIDE DEF p
<1>5. proc'[w] = p
  BY <1>0, <1>4, Lands
<1>6. ASSUME NEW m \in Messages, msg[m] # None, msg[m].key = k, ~Raced(m)
      PROVE  msg[h].inc <= msg[m].inc
  <2>1. m \in Members(k) /\ zset[k][m] # 0
    BY <1>1, <1>6 DEF Intact, Homes, Members
  <2>2. 2 * msg[h].inc <= 2 * msg[m].inc
    BY <1>2, <1>3, <1>6, <2>1 DEF Scored
  <2>3. msg[h].inc \in Nat /\ msg[m].inc \in Nat
    BY <1>2, <1>3, <1>6 DEF Inv, Types, Message
  <2> QED BY <2>2, <2>3
<1>7. msg[h].inc <= hist.made
  BY <1>2, <1>3 DEF Scored
<1> QED BY <1>0, <1>4, <1>5, <1>6, <1>7 DEF Oldest

\* Oldest(i, k), in the next state.
OldestThen(i, k) ==
  /\ i <= hist'.made
  /\ \A m \in Messages : msg'[m] # None /\ msg'[m].key = k /\ ~Raced(m)' => i <= msg'[m].inc

\* What is the oldest stays the oldest.
LEMMA OldestStays ==
  ASSUME Inv, OrderKept, NEW i \in Nat, NEW k, Oldest(i, k)
  PROVE  OldestThen(i, k)
<1>1. hist.made \in Nat
  BY DEF Inv, Types, History
<1>2. ASSUME NEW m \in Messages, msg'[m] # None, msg'[m].key = k, ~Raced(m)'
      PROVE  i <= msg'[m].inc
  <2>1. CASE SameScore(m)
    BY <1>2, <2>1 DEF SameScore, OrderKept, Oldest, Raced
  <2>2. CASE Youngest(m)
    BY <1>1, <2>2 DEF Youngest, Oldest
  <2> QED BY <1>2, <2>1, <2>2 DEF OrderKept
<1> QED BY <1>1, <1>2 DEF OrderKept, Oldest, OldestThen

\* Every step keeps the order.
LEMMA OrderedInductive ==
  ASSUME MaxMsgLosses = 0, FirstOut = FALSE, Inv, Inv', Intact, Intact', Ordered, [Next]_vars
  PROVE  Ordered'
<1>1. OrderKept /\ hist.made \in Nat
  BY OrderSteps DEF Inv, Types, History
<1>2. Scored'
  <2> SUFFICES ASSUME NEW m \in Messages, msg'[m] # None
               PROVE  /\ msg'[m].inc <= hist'.made
                      /\ zset'[msg'[m].key][m] \in {0, 2 * msg'[m].inc}
    BY DEF Scored
  <2>1. msg'[m].inc \in Nat
    BY DEF Inv, Types, Message
  <2>2. CASE SameScore(m)
    BY <1>1, <2>1, <2>2 DEF OrderKept, SameScore, Ordered, Scored
  <2>3. CASE Youngest(m)
    BY <1>1, <2>3 DEF Youngest
  <2> QED BY <1>1, <2>2, <2>3 DEF OrderKept
<1>3. ASSUME NEW w \in Workers, proc'[w].pc \in Looking \cup {"read"}, lock'[proc'[w].key] = w
      PROVE  /\ proc'[w].pc \in Looking => OldestThen(proc'[w].snap.inc, proc'[w].key)
             /\ proc'[w].pc = "read" => OldestThen(msg'[proc'[w].mid].inc, proc'[w].key)
  <2>0. w \in Actors /\ proc'[w].pc \in Locked /\ proc'[w].pc # "head"
    BY <1>3 DEF Actors, Looking, Locked
  <2>1. proc[w].pc \in Locked /\ proc'[w].key = proc[w].key /\ lock[proc[w].key] = w
    BY <1>3, <2>0, Turns, HeldBefore
  <2>2. proc'[w].pc \in Looking => proc'[w].snap.inc \in Nat
    BY <2>0 DEF Looking, Snapped, Inv, Shape, ShapeOf, Message
  <2>3. ASSUME proc'[w].pc = "read", proc[w].pc = "read" => proc'[w] = proc[w]
        PROVE  proc'[w].mid \in Messages /\ msg'[proc'[w].mid] # None /\ msg'[proc'[w].mid].inc \in Nat
    <3>1. proc'[w].mid \in Messages
      BY <2>0, <2>3 DEF Inv, Shape, ShapeOf
    <3>2. msg'[proc'[w].mid] # None
      BY <1>3, <2>0, <2>3 DEF Intact, Found, FoundBy
    <3> QED BY <3>1, <3>2 DEF Inv, Types, Message
  <2>4. CASE proc'[w] = proc[w]
    <3>1. CASE proc'[w].pc \in Looking
      <4>1. Oldest(proc'[w].snap.inc, proc'[w].key)
        BY <2>1, <2>4, <3>1 DEF Ordered, OldestOf
      <4> QED BY <1>1, <2>2, <3>1, <4>1, OldestStays DEF Looking
    <3>2. CASE proc'[w].pc = "read"
      <4> DEFINE m == proc[w].mid
      <4>1. m \in Messages /\ msg'[m] # None /\ msg'[m].inc \in Nat /\ msg[m] # None
        BY <2>0, <2>1, <2>3, <2>4, <3>2 DEF Intact, Found, FoundBy
      <4>2. msg'[m].inc = msg[m].inc
        BY <1>1, <4>1 DEF OrderKept, SameScore, Youngest
      <4>3. Oldest(msg'[m].inc, proc'[w].key)
        BY <2>1, <2>4, <3>2, <4>2 DEF Ordered, OldestOf
      <4> QED BY <1>1, <2>4, <3>2, <4>1, <4>3, OldestStays DEF Looking
    <3> QED BY <1>3, <3>1, <3>2
  <2>5. CASE /\ proc[w].pc \in Looking /\ proc'[w].pc \in Looking
             /\ proc'[w].key = proc[w].key /\ proc'[w].snap = proc[w].snap
    <3>1. Oldest(proc'[w].snap.inc, proc'[w].key)
      BY <2>1, <2>5 DEF Ordered, OldestOf
    <3> QED BY <1>1, <2>2, <2>5, <3>1, OldestStays DEF Looking
  <2>6. CASE Examine(w)
    <3> DEFINE m == proc[w].mid
               c == IF msg[m].aged THEN "fenceX" ELSE "held"
               p == [proc[w] EXCEPT !.pc = c, !.snap = msg[m]]
    <3>1. proc[w].pc = "read" /\ Become(w, p) /\ proc[w] \in Process
      BY <2>0, <2>6 DEF Examine, At, Inv, Types
    <3>2. p.snap = msg[m] /\ p.pc \in {"fenceX", "held"}
      BY <3>1 DEF Process
    <3> HIDE DEF p
    <3>3. proc'[w] = p
      BY <2>0, <3>1, Lands
    <3>4. Oldest(proc'[w].snap.inc, proc'[w].key)
      BY <2>1, <3>1, <3>2, <3>3 DEF Ordered, OldestOf
    <3>5. proc'[w].pc \in Looking
      BY <1>3, <3>2, <3>3
    <3> QED BY <1>1, <2>2, <3>4, <3>5, OldestStays DEF Looking
  <2>7. CASE HeadFound(w)
    <3>1. /\ proc'[w].pc = "read" /\ UNCHANGED msg
          /\ Oldest(msg[proc'[w].mid].inc, proc'[w].key)
      BY <2>7, FindsTheOldest DEF Ordered
    <3>2. proc[w].pc = "head"
      BY <2>7 DEF HeadFound, At
    <3>3. msg'[proc'[w].mid].inc \in Nat /\ Oldest(msg'[proc'[w].mid].inc, proc'[w].key)
      BY <2>3, <3>1, <3>2
    <3> QED BY <1>1, <3>1, <3>3, OldestStays DEF Looking
  <2> QED BY <1>3, <2>4, <2>5, <2>6, <2>7, Lookers
<1>4. ASSUME NEW w \in Workers PROVE OldestOf(w)'
  BY <1>3 DEF OldestOf, Oldest, OldestThen
<1> QED BY <1>2, <1>4 DEF Ordered

\* With default orders, and while Redis loses no hash, a lease is granted on the
\* oldest message of its key that no repair took out of the sorted set: neither a
\* lock that lapses between the look at the head and the EXEC nor a push in between
\* lets a younger one overtake.
THEOREM TheOldestIsLeased ==
  ASSUME MaxMsgLosses = 0, FirstOut = FALSE
  PROVE  Spec => LeasesTheOldest
<1>1. Init => Ordered
  <2> SUFFICES ASSUME Init PROVE Ordered
    OBVIOUS
  <2>1. (\A m \in Messages : msg[m] = None) /\ \A w \in Workers : proc[w] = Idle
    BY DEF Init, Actors
  <2> QED BY <2>1, IdleIsIdle DEF Ordered, Scored, OldestOf, Looking
<1>2. Inv /\ Inv' /\ Intact /\ Intact' /\ Ordered /\ [Next]_vars => Ordered'
  BY OrderedInductive
<1>3. Inv /\ Intact /\ Ordered /\ [Next]_vars =>
        [\A w \in Workers :
           Grants(w) /\ proc[w].mid \notin hist.lostIds => \A m \in Messages :
             msg[m] # None /\ msg[m].key = proc[w].key /\ ~Raced(m)
               => msg[proc[w].mid].inc <= msg[m].inc]_vars
  <2> SUFFICES ASSUME Inv, Intact, Ordered, [Next]_vars, vars' # vars,
                      NEW w \in Workers, Grants(w),
                      NEW m \in Messages, msg[m] # None, msg[m].key = proc[w].key, ~Raced(m)
               PROVE  msg[proc[w].mid].inc <= msg[m].inc
    OBVIOUS
  <2>1. LeaseExec(w)
    BY GrantsAreLeases DEF Inv
  <2>2. proc[w].pc = "execL" /\ w \notin dirty
    BY <2>1 DEF LeaseExec, At
  <2>3. msg[proc[w].mid].inc = proc[w].snap.inc /\ lock[proc[w].key] = w
    BY <2>2, Alone, Committing
  <2>4. proc[w].snap.inc <= msg[m].inc
    BY <2>2, <2>3 DEF Ordered, OldestOf, Oldest, Looking
  <2> QED BY <2>3, <2>4
<1> QED BY <1>1, <1>2, <1>3, Invariance, IntactAlways, PTL DEF Spec, LeasesTheOldest
=============================================================================
