--------------------------- MODULE BusCoreProofs ---------------------------
(***************************************************************************)
(* Machine-checked proofs about BusCore, for every pool size, queue size,  *)
(* set of envelopes, priority and policy.                                  *)
(*                                                                         *)
(* The operators on the record bus are treated first, one lemma each: what *)
(* an operator does to the line of putters, and that it keeps Sound.  The  *)
(* theorems then need only the change each action makes to worker and pub. *)
(* Places and the refinement of BusService follow, each in a part of its   *)
(* own.                                                                    *)
(***************************************************************************)
EXTENDS BusCore, FiniteSetTheorems, SequenceTheorems, TLAPS

------------------------------------------------------------------------------
(* Updates of single fields of bus.                                        *)

\* Writing one queue of the bus record changes that queue and keeps the type.
LEMMA QueueUpdate ==
  ASSUME NEW b \in BusType, NEW p \in Priorities, NEW x \in Seq(Envelopes)
  PROVE  LET c == [b EXCEPT !.queue[p] = x] IN
         /\ c \in BusType
         /\ c.queue = [b.queue EXCEPT ![p] = x]
         /\ c.permits = b.permits /\ c.putters = b.putters /\ c.woken = b.woken
<1> DEFINE q == [b.queue EXCEPT ![p] = x]
<1>1. q \in [Priorities -> Seq(Envelopes)]  BY DEF BusType
<1>2. [b EXCEPT !.queue[p] = x] = [b EXCEPT !.queue = q]  BY DEF BusType
<1> HIDE DEF q
<1>3. [b EXCEPT !.queue = q] \in BusType  BY <1>1 DEF BusType
<1> QED  BY <1>2, <1>3 DEF BusType, q

\* Writing the semaphore of the bus record changes only the semaphore.
LEMMA PermitsUpdate ==
  ASSUME NEW b \in BusType, NEW n \in Nat
  PROVE  LET c == [b EXCEPT !.permits = n] IN
         /\ c \in BusType
         /\ c.permits = n
         /\ c.queue = b.queue /\ c.putters = b.putters /\ c.woken = b.woken
BY DEF BusType

\* Writing one line of putters changes that line and keeps the type.
LEMMA PuttersUpdate ==
  ASSUME NEW b \in BusType, NEW p \in Priorities, NEW x \in Seq(Tasks)
  PROVE  LET c == [b EXCEPT !.putters[p] = x] IN
         /\ c \in BusType
         /\ c.putters = [b.putters EXCEPT ![p] = x]
         /\ c.queue = b.queue /\ c.permits = b.permits /\ c.woken = b.woken
<1> DEFINE q == [b.putters EXCEPT ![p] = x]
<1>1. q \in [Priorities -> Seq(Tasks)]  BY DEF BusType
<1>2. [b EXCEPT !.putters[p] = x] = [b EXCEPT !.putters = q]  BY DEF BusType
<1> HIDE DEF q
<1>3. [b EXCEPT !.putters = q] \in BusType  BY <1>1 DEF BusType
<1> QED  BY <1>2, <1>3 DEF BusType, q

\* Writing one set of resumed putters changes that set and keeps the type.
LEMMA WokenUpdate ==
  ASSUME NEW b \in BusType, NEW p \in Priorities, NEW x \in SUBSET Tasks
  PROVE  LET c == [b EXCEPT !.woken[p] = x] IN
         /\ c \in BusType
         /\ c.woken = [b.woken EXCEPT ![p] = x]
         /\ c.queue = b.queue /\ c.permits = b.permits /\ c.putters = b.putters
<1> DEFINE q == [b.woken EXCEPT ![p] = x]
<1>1. q \in [Priorities -> SUBSET Tasks]  BY DEF BusType
<1>2. [b EXCEPT !.woken[p] = x] = [b EXCEPT !.woken = q]  BY DEF BusType
<1> HIDE DEF q
<1>3. [b EXCEPT !.woken = q] \in BusType  BY <1>1 DEF BusType
<1> QED  BY <1>2, <1>3 DEF BusType, q

\* put_nowait and release: one element more in one queue, one permit more.
LEMMA PutUpdate ==
  ASSUME NEW b \in BusType, NEW p \in Priorities, NEW e \in Envelopes
  PROVE  LET c == Put(b, p, e) IN
         /\ c \in BusType
         /\ c.queue = [b.queue EXCEPT ![p] = Append(b.queue[p], e)]
         /\ c.permits = b.permits + 1
         /\ c.putters = b.putters /\ c.woken = b.woken
<1> DEFINE q == [b.queue EXCEPT ![p] = Append(b.queue[p], e)]
           n == b.permits + 1
<1>1. q \in [Priorities -> Seq(Envelopes)] /\ n \in Nat  BY DEF BusType
<1>2. Put(b, p, e) = [b EXCEPT !.queue = q, !.permits = n]  BY DEF BusType, Put
<1> HIDE DEF q, n
<1>3. [b EXCEPT !.queue = q, !.permits = n] \in BusType  BY <1>1 DEF BusType
<1> QED  BY <1>2, <1>3 DEF BusType, q, n

\* Resolving a putter's future moves it from the line to the resumed ones.
LEMMA WakeUpdate ==
  ASSUME NEW b \in BusType, NEW p \in Priorities, b.putters[p] # << >>
  PROVE  LET c == WakeNext(b, p) IN
         /\ c \in BusType
         /\ c.putters = [b.putters EXCEPT ![p] = Tail(b.putters[p])]
         /\ c.woken = [b.woken EXCEPT ![p] = b.woken[p] \cup {Head(b.putters[p])}]
         /\ c.queue = b.queue /\ c.permits = b.permits
<1> DEFINE q == [b.putters EXCEPT ![p] = Tail(b.putters[p])]
           k == [b.woken EXCEPT ![p] = b.woken[p] \cup {Head(b.putters[p])}]
<1>1. q \in [Priorities -> Seq(Tasks)] /\ k \in [Priorities -> SUBSET Tasks]
  BY DEF BusType
<1>2. WakeNext(b, p) = [b EXCEPT !.putters = q, !.woken = k]
  BY DEF BusType, WakeNext
<1> HIDE DEF q, k
<1>3. [b EXCEPT !.putters = q, !.woken = k] \in BusType  BY <1>1 DEF BusType
<1> QED  BY <1>2, <1>3 DEF BusType, q, k

------------------------------------------------------------------------------
(* What every operator on bus preserves.                                   *)

Covered(b) == b.permits >= TotalQueued(b)

Bounded(b) == QueueSize > 0 => \A p \in Priorities : Len(b.queue[p]) <= QueueSize

Claimed(b, p) ==
  /\ IsFiniteSet(b.woken[p])
  /\ b.putters[p] # << >> => QueueSize - Len(b.queue[p]) <= Cardinality(b.woken[p])

Sound(b) ==
  /\ b \in BusType
  /\ Covered(b)
  /\ Bounded(b)
  /\ \A p \in Priorities : LineIsSimple(b, p) /\ Claimed(b, p)

\* Sound, but for one wakeup at queue p that has been taken back.
Nearly(b, p) ==
  /\ b \in BusType
  /\ Covered(b)
  /\ Bounded(b)
  /\ \A q \in Priorities : /\ LineIsSimple(b, q)
                           /\ q # p => Claimed(b, q)
  /\ IsFiniteSet(b.woken[p])
  /\ b.putters[p] # << >> =>
       QueueSize - Len(b.queue[p]) <= Cardinality(b.woken[p]) + 1

SameLines(b, c) == \A p \in Priorities : InLine(c, p) = InLine(b, p)

\* A sound bus is in particular nearly sound at every priority.
LEMMA SoundIsNearly ==
  ASSUME NEW b, Sound(b), NEW p \in Priorities
  PROVE  Nearly(b, p)
<1>1. /\ IsFiniteSet(b.woken[p]) /\ Cardinality(b.woken[p]) \in Nat
      /\ Len(b.queue[p]) \in Nat
  BY FS_CardinalityType DEF Sound, Claimed, BusType
<1> QED  BY <1>1, SizesAssumption DEF Sound, Claimed, Nearly

\* Nothing is free in a full queue, so no wakeup is missed there.
LEMMA FullIsSound ==
  ASSUME NEW b, NEW p \in Priorities, Nearly(b, p), Full(b, p)
  PROVE  Sound(b)
<1>1. /\ Cardinality(b.woken[p]) \in Nat
      /\ Len(b.queue[p]) \in Nat /\ Len(b.queue[p]) >= QueueSize
  BY FS_CardinalityType DEF Nearly, BusType, Full
<1>2. QueueSize - Len(b.queue[p]) <= Cardinality(b.woken[p])
  BY <1>1, SizesAssumption
<1> QED  BY <1>2 DEF Nearly, Sound, Claimed

\* A change of one queue's length changes the total by as much.
LEMMA TotalChange ==
  ASSUME NEW b \in BusType, NEW c \in BusType, NEW p \in Priorities,
         \A q \in Priorities : q # p => c.queue[q] = b.queue[q]
  PROVE  /\ TotalQueued(b) \in Nat
         /\ TotalQueued(c) = TotalQueued(b) + (Len(c.queue[p]) - Len(b.queue[p]))
<1>1. \A q \in Priorities : Len(b.queue[q]) \in Nat /\ Len(c.queue[q]) \in Nat
  BY DEF BusType
<1>2. /\ "LOW" \in Priorities /\ "NORMAL" \in Priorities
      /\ "HIGH" \in Priorities /\ "CRITICAL" \in Priorities
  BY DEF Priorities
<1> DEFINE bl == Len(b.queue["LOW"])       cl == Len(c.queue["LOW"])
           bn == Len(b.queue["NORMAL"])    cn == Len(c.queue["NORMAL"])
           bh == Len(b.queue["HIGH"])      ch == Len(c.queue["HIGH"])
           bc == Len(b.queue["CRITICAL"])  cc == Len(c.queue["CRITICAL"])
           d == Len(c.queue[p]) - Len(b.queue[p])
<1>3. /\ bl \in Nat /\ bn \in Nat /\ bh \in Nat /\ bc \in Nat
      /\ cl \in Nat /\ cn \in Nat /\ ch \in Nat /\ cc \in Nat
      /\ d \in Int
  BY <1>1, <1>2
<1>4. TotalQueued(b) = bl + bn + bh + bc /\ TotalQueued(c) = cl + cn + ch + cc
  BY DEF TotalQueued
<1>5. \/ d = cl - bl /\ cn = bn /\ ch = bh /\ cc = bc
      \/ d = cn - bn /\ cl = bl /\ ch = bh /\ cc = bc
      \/ d = ch - bh /\ cl = bl /\ cn = bn /\ cc = bc
      \/ d = cc - bc /\ cl = bl /\ cn = bn /\ ch = bh
  BY <1>2 DEF Priorities
<1>6. d = Len(c.queue[p]) - Len(b.queue[p])  OBVIOUS
<1> HIDE DEF bl, bn, bh, bc, cl, cn, ch, cc, d
<1>7. TotalQueued(b) \in Nat /\ TotalQueued(c) = TotalQueued(b) + d
  BY <1>3, <1>4, <1>5
<1> QED  BY <1>6, <1>7

\* put_nowait and release on a queue with room: no line moves.
LEMMA PutSound ==
  ASSUME NEW b, NEW p \in Priorities, Nearly(b, p), NEW e \in Envelopes, ~Full(b, p)
  PROVE  Sound(Put(b, p, e)) /\ SameLines(b, Put(b, p, e))
<1> DEFINE c == Put(b, p, e)
<1>0. b \in BusType  BY DEF Nearly
<1>1. /\ c \in BusType
      /\ c.queue = [b.queue EXCEPT ![p] = Append(b.queue[p], e)]
      /\ c.permits = b.permits + 1
      /\ c.putters = b.putters /\ c.woken = b.woken
  BY <1>0, PutUpdate
<1> HIDE DEF c
<1>2. /\ Len(c.queue[p]) = Len(b.queue[p]) + 1
      /\ \A q \in Priorities : q # p => c.queue[q] = b.queue[q]
      /\ \A q \in Priorities : Len(b.queue[q]) \in Nat
  BY <1>0, <1>1 DEF BusType
<1>3. Covered(c)
  <2>1. TotalQueued(b) \in Nat /\ TotalQueued(c) = TotalQueued(b) + 1
    <3>1. /\ TotalQueued(b) \in Nat
          /\ TotalQueued(c) = TotalQueued(b) + (Len(c.queue[p]) - Len(b.queue[p]))
      BY <1>0, <1>1, <1>2, TotalChange
    <3>2. Len(c.queue[p]) - Len(b.queue[p]) = 1  BY <1>2
    <3> QED  BY <3>1, <3>2
  <2>2. b.permits >= TotalQueued(b) /\ b.permits \in Nat
    BY <1>0 DEF Nearly, Covered, BusType
  <2> QED  BY <1>1, <2>1, <2>2 DEF Covered
<1>4. Bounded(c)
  BY <1>2, SizesAssumption DEF Nearly, Bounded, Full
<1>5. \A q \in Priorities : LineIsSimple(c, q) /\ InLine(c, q) = InLine(b, q)
  BY <1>1 DEF Nearly, LineIsSimple, InLine
<1>6. \A q \in Priorities : q # p => Claimed(c, q)
  BY <1>1, <1>2 DEF Nearly, Claimed
<1>7. Claimed(c, p)
  <2>1. /\ IsFiniteSet(b.woken[p]) /\ Cardinality(b.woken[p]) \in Nat
        /\ b.putters[p] # << >> =>
             QueueSize - Len(b.queue[p]) <= Cardinality(b.woken[p]) + 1
    BY FS_CardinalityType DEF Nearly
  <2>2. b.putters[p] # << >> =>
          QueueSize - (Len(b.queue[p]) + 1) <= Cardinality(b.woken[p])
    BY <1>2, <2>1, SizesAssumption
  <2> QED  BY <1>1, <1>2, <2>1, <2>2 DEF Claimed
<1> QED
  BY <1>1, <1>3, <1>4, <1>5, <1>6, <1>7 DEF c, Sound, SameLines

\* Waking the oldest putter moves it from the line to the woken tasks.
LEMMA WakeSound ==
  ASSUME NEW b \in BusType, NEW p \in Priorities,
         \A q \in Priorities : LineIsSimple(b, q),
         IsFiniteSet(b.woken[p])
  PROVE  LET c == WakeNext(b, p) IN
         /\ c \in BusType
         /\ c.queue = b.queue /\ c.permits = b.permits
         /\ \A q \in Priorities : LineIsSimple(c, q)
         /\ SameLines(b, c)
         /\ \A q \in Priorities : q # p => /\ c.putters[q] = b.putters[q]
                                           /\ c.woken[q] = b.woken[q]
         /\ IsFiniteSet(c.woken[p])
         /\ c.putters[p] # << >> =>
              /\ b.putters[p] # << >>
              /\ Cardinality(c.woken[p]) = Cardinality(b.woken[p]) + 1
<1> DEFINE c == WakeNext(b, p)
<1>1. CASE b.putters[p] = << >>
  <2>1. c = b  BY <1>1 DEF WakeNext
  <2> QED  BY <1>1, <2>1 DEF SameLines
<1>2. CASE b.putters[p] # << >>
  <2> DEFINE s == b.putters[p]
             h == Head(s)
  <2>1. /\ c \in BusType
        /\ c.putters = [b.putters EXCEPT ![p] = Tail(s)]
        /\ c.woken = [b.woken EXCEPT ![p] = b.woken[p] \cup {h}]
        /\ c.queue = b.queue /\ c.permits = b.permits
    BY <1>2, WakeUpdate
  <2>2. /\ s \in Seq(Tasks) /\ s # << >> /\ Len(s) \in Nat /\ Len(s) > 0
        /\ h = s[1]
        /\ Len(Tail(s)) = Len(s) - 1
        /\ \A i \in 1..(Len(s) - 1) : Tail(s)[i] = s[i + 1]
    BY <1>2 DEF BusType
  <2>3. /\ \A i, j \in 1..Len(s) : s[i] = s[j] => i = j
        /\ \A i \in 1..Len(s) : s[i] \notin b.woken[p]
    BY DEF LineIsSimple
  <2>4. /\ c.putters[p] = Tail(s) /\ c.woken[p] = b.woken[p] \cup {h}
        /\ \A q \in Priorities : q # p => /\ c.putters[q] = b.putters[q]
                                          /\ c.woken[q] = b.woken[q]
    BY <2>1 DEF BusType
  <2> DEFINE t == Tail(s)
  <2>9. t = Tail(s)  OBVIOUS
  <2> HIDE DEF c, s, h, t
  <2>5. LineIsSimple(c, p)
    <3>1. \A i \in 1..Len(t) : i + 1 \in 1..Len(s) /\ t[i] = s[i + 1]  BY <2>2, <2>9
    <3>2. \A i, j \in 1..Len(t) : t[i] = t[j] => i = j  BY <2>3, <3>1, <2>2, <2>9
    <3>3. \A i \in 1..Len(t) : t[i] \notin b.woken[p] \cup {h}
      BY <2>2, <2>3, <3>1, <2>9
    <3> QED  BY <2>4, <3>2, <3>3, <2>9 DEF LineIsSimple
  <2>6. InLine(c, p) = InLine(b, p)
    <3>1. \A i \in 1..Len(t) : i + 1 \in 1..Len(s) /\ t[i] = s[i + 1]  BY <2>2, <2>9
    <3>2. \A i \in 1..Len(s) : i = 1 \/ (i - 1 \in 1..Len(t) /\ t[i - 1] = s[i])
      BY <2>2, <2>9
    <3>3. 1 \in 1..Len(s)  BY <2>2
    <3>4. {h} \cup {t[i] : i \in 1..Len(t)} = {s[i] : i \in 1..Len(s)}
      BY <2>2, <3>1, <3>2, <3>3
    <3>5. InLine(c, p) = (b.woken[p] \cup {h}) \cup {t[i] : i \in 1..Len(t)}
      BY <2>4, <2>9 DEF InLine
    <3>6. InLine(b, p) = b.woken[p] \cup {s[i] : i \in 1..Len(s)}
      BY DEF InLine, s
    <3> QED  BY <3>4, <3>5, <3>6
  <2>7. IsFiniteSet(c.woken[p]) /\ Cardinality(c.woken[p]) = Cardinality(b.woken[p]) + 1
    <3>1. h \notin b.woken[p]  BY <2>2, <2>3
    <3> QED  BY <3>1, <2>4, FS_AddElement
  <2>8. \A q \in Priorities : q # p => LineIsSimple(c, q) /\ InLine(c, q) = InLine(b, q)
    BY <2>4 DEF LineIsSimple, InLine
  <2> QED  BY <1>2, <2>1, <2>4, <2>5, <2>6, <2>7, <2>8 DEF c, SameLines
<1> QED  BY <1>1, <1>2

\* get_nowait: one envelope fewer, the same permits, the same lines.
LEMMA GetSound ==
  ASSUME NEW b, Sound(b), NEW p \in Priorities, b.queue[p] # << >>
  PROVE  LET c == Get(b, p) IN
         /\ Sound(c)
         /\ SameLines(b, c)
         /\ c.permits = b.permits
         /\ TotalQueued(b) \in Nat
         /\ TotalQueued(c) = TotalQueued(b) - 1
         /\ Len(c.queue[p]) = Len(b.queue[p]) - 1
         /\ \A q \in Priorities : q # p => c.queue[q] = b.queue[q]
<1> DEFINE a == [b EXCEPT !.queue[p] = Tail(b.queue[p])]
           c == Get(b, p)
<1>0. b \in BusType  BY DEF Sound
<1>1. /\ Tail(b.queue[p]) \in Seq(Envelopes)
      /\ Len(Tail(b.queue[p])) = Len(b.queue[p]) - 1
      /\ \A q \in Priorities : Len(b.queue[q]) \in Nat
  BY <1>0 DEF BusType
<1>2. /\ a \in BusType
      /\ a.queue = [b.queue EXCEPT ![p] = Tail(b.queue[p])]
      /\ a.permits = b.permits /\ a.putters = b.putters /\ a.woken = b.woken
  BY <1>0, <1>1, QueueUpdate
<1>3. c = WakeNext(a, p)  BY DEF Get
<1> HIDE DEF a, c
<1>4. /\ \A q \in Priorities : LineIsSimple(a, q)
      /\ \A q \in Priorities : InLine(a, q) = InLine(b, q)
      /\ \A q \in Priorities : IsFiniteSet(a.woken[q])
  BY <1>2 DEF Sound, LineIsSimple, InLine, Claimed
<1>5. /\ c \in BusType
      /\ c.queue = a.queue /\ c.permits = a.permits
      /\ \A q \in Priorities : LineIsSimple(c, q)
      /\ SameLines(a, c)
      /\ \A q \in Priorities : q # p => /\ c.putters[q] = a.putters[q]
                                        /\ c.woken[q] = a.woken[q]
      /\ IsFiniteSet(c.woken[p])
      /\ c.putters[p] # << >> =>
           /\ a.putters[p] # << >>
           /\ Cardinality(c.woken[p]) = Cardinality(a.woken[p]) + 1
  BY <1>2, <1>3, <1>4, WakeSound
<1>6. /\ Len(c.queue[p]) = Len(b.queue[p]) - 1
      /\ \A q \in Priorities : q # p => c.queue[q] = b.queue[q]
  BY <1>0, <1>1, <1>2, <1>5 DEF BusType
<1>7. TotalQueued(b) \in Nat /\ TotalQueued(c) = TotalQueued(b) - 1
  <2>1. /\ TotalQueued(b) \in Nat
        /\ TotalQueued(c) = TotalQueued(b) + (Len(c.queue[p]) - Len(b.queue[p]))
    BY <1>0, <1>5, <1>6, TotalChange
  <2>2. Len(c.queue[p]) - Len(b.queue[p]) = -1  BY <1>1, <1>6
  <2> QED  BY <2>1, <2>2
<1>8. Covered(c)
  <2>1. b.permits >= TotalQueued(b) /\ b.permits \in Nat
    BY <1>0 DEF Sound, Covered, BusType
  <2> QED  BY <2>1, <1>2, <1>5, <1>7 DEF Covered
<1>9. Bounded(c)
  <2> SUFFICES ASSUME QueueSize > 0, NEW q \in Priorities
               PROVE  Len(c.queue[q]) <= QueueSize
    BY DEF Bounded
  <2>1. Len(b.queue[q]) <= QueueSize /\ Len(b.queue[q]) \in Nat
    BY <1>1 DEF Sound, Bounded
  <2>2. CASE q = p  BY <2>1, <2>2, <1>6, SizesAssumption
  <2>3. CASE q # p  BY <2>1, <2>3, <1>6
  <2> QED  BY <2>2, <2>3
<1>10. ASSUME NEW q \in Priorities PROVE Claimed(c, q)
  <2>1. Claimed(b, q)  BY DEF Sound
  <2>2. CASE q # p
    BY <2>1, <2>2, <1>2, <1>5, <1>6 DEF Claimed
  <2>3. CASE q = p
    <3>1. ASSUME c.putters[p] # << >>
          PROVE  QueueSize - Len(c.queue[p]) <= Cardinality(c.woken[p])
      <4>1. /\ QueueSize - Len(b.queue[p]) <= Cardinality(b.woken[p])
            /\ Cardinality(c.woken[p]) = Cardinality(b.woken[p]) + 1
            /\ Cardinality(b.woken[p]) \in Nat
        BY <2>1, <2>3, <3>1, <1>2, <1>5, FS_CardinalityType DEF Claimed
      <4> DEFINE x == Len(b.queue[p])  y == Len(c.queue[p])
                 m == Cardinality(b.woken[p])  n == Cardinality(c.woken[p])
      <4>2. QueueSize - x <= m /\ n = m + 1 /\ m \in Nat /\ x \in Nat /\ y = x - 1
        BY <1>1, <1>6, <4>1
      <4> HIDE DEF x, y, m, n
      <4>3. QueueSize - y <= n  BY <4>2, SizesAssumption
      <4> QED  BY <4>3 DEF y, n
    <3> QED  BY <2>3, <3>1, <1>5 DEF Claimed
  <2> QED  BY <2>2, <2>3
<1> QED
  BY <1>2, <1>4, <1>5, <1>6, <1>7, <1>8, <1>9, <1>10 DEF Sound, SameLines, c

\* _publish_meta never waits and never overfills the HIGH queue.
LEMMA MetaSound ==
  ASSUME NEW b, Sound(b)
  PROVE  Sound(PublishMeta(b)) /\ SameLines(b, PublishMeta(b))
<1>1. "HIGH" \in Priorities /\ Meta \in Envelopes  BY DEF Priorities, Envelopes
<1>2. CASE Full(b, "HIGH")  BY <1>2 DEF PublishMeta, SameLines
<1>3. CASE ~Full(b, "HIGH")  BY <1>1, <1>3, SoundIsNearly, PutSound DEF PublishMeta
<1> QED  BY <1>2, <1>3

Join(b, p, t) == [b EXCEPT !.putters[p] = Append(b.putters[p], t)]

\* A task that is not in line joins it at the end of a full queue.
LEMMA JoinSound ==
  ASSUME NEW b, Sound(b), NEW p \in Priorities, NEW t \in Tasks,
         Full(b, p), t \notin InLine(b, p)
  PROVE  LET c == Join(b, p, t) IN
         /\ Sound(c)
         /\ InLine(c, p) = InLine(b, p) \cup {t}
         /\ \A q \in Priorities : q # p => InLine(c, q) = InLine(b, q)
<1> DEFINE s == b.putters[p]
           u == Append(s, t)
           c == [b EXCEPT !.putters[p] = u]
<1>0. b \in BusType  BY DEF Sound
<1>1. /\ s \in Seq(Tasks) /\ Len(s) \in Nat /\ u \in Seq(Tasks)
      /\ Len(u) = Len(s) + 1 /\ u[Len(s) + 1] = t
      /\ \A i \in 1..Len(s) : u[i] = s[i]
  BY <1>0 DEF BusType
<1>2. /\ c \in BusType
      /\ c.putters = [b.putters EXCEPT ![p] = u]
      /\ c.queue = b.queue /\ c.permits = b.permits /\ c.woken = b.woken
  BY <1>0, <1>1, PuttersUpdate
<1>3. /\ c.putters[p] = u
      /\ \A q \in Priorities : q # p => c.putters[q] = b.putters[q]
  BY <1>0, <1>2 DEF BusType
<1>4. /\ \A i, j \in 1..Len(s) : s[i] = s[j] => i = j
      /\ \A i \in 1..Len(s) : s[i] \notin b.woken[p]
  BY DEF Sound, LineIsSimple
<1>5. InLine(b, p) = b.woken[p] \cup {s[i] : i \in 1..Len(s)}  BY DEF InLine
<1>6. Len(b.queue[p]) >= QueueSize /\ Len(b.queue[p]) \in Nat
  BY <1>0 DEF Full, BusType
<1> HIDE DEF s, u, c
<1>7. \A i \in 1..Len(u) : i \in 1..Len(s) \/ i = Len(s) + 1  BY <1>1
<1>8. InLine(c, p) = InLine(b, p) \cup {t}
  <2>1. {u[i] : i \in 1..Len(u)} = {s[i] : i \in 1..Len(s)} \cup {t}
    BY <1>1, <1>7
  <2>2. InLine(c, p) = b.woken[p] \cup {u[i] : i \in 1..Len(u)}
    BY <1>2, <1>3 DEF InLine
  <2> QED  BY <1>5, <2>1, <2>2
<1>9. LineIsSimple(c, p)
  <2>1. \A i \in 1..Len(s) : s[i] # t  BY <1>5
  <2>2. t \notin b.woken[p]  BY <1>5
  <2>3. \A i, j \in 1..Len(u) : u[i] = u[j] => i = j
    BY <1>1, <1>4, <1>7, <2>1
  <2>4. \A i \in 1..Len(u) : u[i] \notin b.woken[p]
    BY <1>1, <1>4, <1>7, <2>2
  <2> QED  BY <1>2, <1>3, <2>3, <2>4 DEF LineIsSimple
<1>10. \A q \in Priorities : q # p => LineIsSimple(c, q) /\ InLine(c, q) = InLine(b, q)
  BY <1>2, <1>3 DEF Sound, LineIsSimple, InLine
<1>11. Covered(c) /\ Bounded(c)
  BY <1>2 DEF Sound, Covered, Bounded, TotalQueued
<1>12. \A q \in Priorities : q # p => Claimed(c, q)
  BY <1>2, <1>3 DEF Sound, Claimed
<1>13. Claimed(c, p)
  <2>1. IsFiniteSet(b.woken[p]) /\ Cardinality(b.woken[p]) \in Nat
    BY FS_CardinalityType DEF Sound, Claimed
  <2>2. QueueSize - Len(b.queue[p]) <= 0  BY <1>6, SizesAssumption
  <2>3. QueueSize - Len(b.queue[p]) <= Cardinality(b.woken[p])
    BY <1>6, <2>1, <2>2, SizesAssumption
  <2> QED  BY <1>2, <2>1, <2>3 DEF Claimed
<1> QED
  BY <1>2, <1>8, <1>9, <1>10, <1>11, <1>12, <1>13 DEF Sound, c, u, s, Join

\* Handing the missing wakeup to the next putter restores Sound.
LEMMA WakeRestores ==
  ASSUME NEW b, NEW p \in Priorities, Nearly(b, p)
  PROVE  Sound(WakeNext(b, p)) /\ SameLines(b, WakeNext(b, p))
<1> DEFINE c == WakeNext(b, p)
<1>1. /\ b \in BusType /\ IsFiniteSet(b.woken[p])
      /\ \A q \in Priorities : LineIsSimple(b, q)
  BY DEF Nearly
<1>2. /\ c \in BusType
      /\ c.queue = b.queue /\ c.permits = b.permits
      /\ \A q \in Priorities : LineIsSimple(c, q)
      /\ SameLines(b, c)
      /\ \A q \in Priorities : q # p => /\ c.putters[q] = b.putters[q]
                                        /\ c.woken[q] = b.woken[q]
      /\ IsFiniteSet(c.woken[p])
      /\ c.putters[p] # << >> =>
           /\ b.putters[p] # << >>
           /\ Cardinality(c.woken[p]) = Cardinality(b.woken[p]) + 1
  BY <1>1, WakeSound
<1> HIDE DEF c
<1>3. Covered(c) /\ Bounded(c)
  BY <1>2 DEF Nearly, Covered, Bounded, TotalQueued
<1>4. Claimed(c, p)
  BY <1>2 DEF Nearly, Claimed
<1>5. \A q \in Priorities : q # p => Claimed(c, q)
  BY <1>2 DEF Nearly, Claimed
<1> QED  BY <1>2, <1>3, <1>4, <1>5 DEF Sound, c

\* A woken task takes its wakeup and leaves the line.
LEMMA UnwakeNearly ==
  ASSUME NEW b, Sound(b), NEW p \in Priorities, NEW t \in b.woken[p]
  PROVE  LET r == [b EXCEPT !.woken[p] = b.woken[p] \ {t}] IN
         /\ Nearly(r, p)
         /\ InLine(r, p) = InLine(b, p) \ {t}
         /\ \A q \in Priorities : q # p => InLine(r, q) = InLine(b, q)
         /\ r.queue = b.queue
<1> DEFINE k == b.woken[p] \ {t}
           r == [b EXCEPT !.woken[p] = k]
<1>0. b \in BusType  BY DEF Sound
<1>1. k \in SUBSET Tasks  BY <1>0 DEF BusType
<1>2. /\ r \in BusType
      /\ r.woken = [b.woken EXCEPT ![p] = k]
      /\ r.queue = b.queue /\ r.permits = b.permits /\ r.putters = b.putters
  BY <1>0, <1>1, WokenUpdate
<1>3. /\ r.woken[p] = k
      /\ \A q \in Priorities : q # p => r.woken[q] = b.woken[q]
  BY <1>0, <1>2 DEF BusType
<1>4. IsFiniteSet(k) /\ Cardinality(b.woken[p]) = Cardinality(k) + 1
  <2>1. IsFiniteSet(b.woken[p])  BY DEF Sound, Claimed
  <2>2. /\ IsFiniteSet(k) /\ Cardinality(k) = Cardinality(b.woken[p]) - 1
        /\ Cardinality(b.woken[p]) \in Nat
    BY <2>1, FS_RemoveElement, FS_CardinalityType
  <2> QED  BY <2>2
<1> HIDE DEF r
<1>5. \A q \in Priorities : LineIsSimple(r, q)
  <2>1. LineIsSimple(r, p)  BY <1>2, <1>3 DEF Sound, LineIsSimple
  <2>2. \A q \in Priorities : q # p => LineIsSimple(r, q)
    BY <1>2, <1>3 DEF Sound, LineIsSimple
  <2> QED  BY <2>1, <2>2
<1>6. InLine(r, p) = InLine(b, p) \ {t}
  <2>1. \A i \in 1..Len(b.putters[p]) : b.putters[p][i] # t
    BY DEF Sound, LineIsSimple
  <2> QED  BY <1>2, <1>3, <2>1 DEF InLine
<1>7. \A q \in Priorities : q # p => InLine(r, q) = InLine(b, q)
  BY <1>2, <1>3 DEF InLine
<1>8. Covered(r) /\ Bounded(r)
  BY <1>2 DEF Sound, Covered, Bounded, TotalQueued
<1>9. \A q \in Priorities : q # p => Claimed(r, q)
  BY <1>2, <1>3 DEF Sound, Claimed
<1>10. r.putters[p] # << >> =>
         QueueSize - Len(r.queue[p]) <= Cardinality(r.woken[p]) + 1
  BY <1>2, <1>3, <1>4 DEF Sound, Claimed
<1> QED
  BY <1>2, <1>3, <1>4, <1>5, <1>6, <1>7, <1>8, <1>9, <1>10 DEF Nearly, r

\* The envelope of a task is an envelope, and its priority one of the four.
LEMMA TaskFacts ==
  ASSUME NEW t \in Tasks
  PROVE  /\ EnvelopeOf(t) \in Events \cup {Dlq}
         /\ EnvelopeOf(t) \in Envelopes
         /\ PrioOf(EnvelopeOf(t)) \in Priorities
BY TopicsAssumption, EnvelopesAssumption
   DEF Tasks, EnvelopeOf, Envelopes, PrioOf, Priorities

\* A full queue holds something, and stays full when a meta-event is published.
LEMMA FullFacts ==
  ASSUME NEW b, Sound(b), NEW p \in Priorities, Full(b, p)
  PROVE  /\ b.queue[p] # << >>
         /\ Len(b.queue[p]) = QueueSize /\ QueueSize > 0
         /\ PublishMeta(b).queue[p] = b.queue[p]
<1>1. /\ b \in BusType /\ Len(b.queue[p]) \in Nat /\ b.queue[p] \in Seq(Envelopes)
      /\ Len(b.queue[p]) = QueueSize /\ QueueSize > 0
  BY SizesAssumption DEF Sound, Bounded, Full, BusType
<1>2. b.queue[p] # << >>  BY <1>1
<1>3. PublishMeta(b).queue[p] = b.queue[p]
  <2>1. CASE Full(b, "HIGH")  BY <2>1 DEF PublishMeta
  <2>2. CASE ~Full(b, "HIGH")
    <3>1. p # "HIGH"  BY <2>2
    <3>2. "HIGH" \in Priorities /\ Meta \in Envelopes  BY DEF Priorities, Envelopes
    <3>3. Put(b, "HIGH", Meta).queue
            = [b.queue EXCEPT !["HIGH"] = Append(b.queue["HIGH"], Meta)]
      BY <1>1, <3>2, PutUpdate
    <3> QED  BY <1>1, <2>2, <3>1, <3>3 DEF PublishMeta, BusType
  <2> QED  BY <2>1, <2>2
<1> QED  BY <1>1, <1>2, <1>3

\* _enqueue_local: only the verdict "block" puts the caller in line.
LEMMA EnqueueSound ==
  ASSUME NEW b, Sound(b), NEW t \in Tasks,
         t \notin InLine(b, PrioOf(EnvelopeOf(t)))
  PROVE  LET c == EnqueueLocal(b, t)
             p == PrioOf(EnvelopeOf(t))
         IN /\ Sound(c)
            /\ \A q \in Priorities : q # p => InLine(c, q) = InLine(b, q)
            /\ InLine(c, p) = IF Verdict(b, EnvelopeOf(t)) = "block"
                              THEN InLine(b, p) \cup {t} ELSE InLine(b, p)
<1> DEFINE e == EnvelopeOf(t)
           p == PrioOf(e)
           m == PublishMeta(b)
           c == EnqueueLocal(b, t)
           v == Verdict(b, e)
<1>1. e \in Events \cup {Dlq} /\ e \in Envelopes /\ p \in Priorities  BY TaskFacts
<1>2. Sound(m) /\ SameLines(b, m)  BY MetaSound
<1>3. \/ v = "put" /\ ~Full(b, p)
      \/ v \in Policies /\ Full(b, p)
  BY <1>1, TopicsAssumption DEF Verdict
<1>4. CASE v = "put"
  <2>1. ~Full(b, p)  BY <1>3, <1>4 DEF Policies
  <2>2. c = Put(b, p, e)  BY <1>4 DEF EnqueueLocal
  <2>3. Sound(c) /\ SameLines(b, c)  BY <1>1, <2>1, <2>2, SoundIsNearly, PutSound
  <2> QED  BY <1>1, <1>4, <2>3 DEF SameLines
<1>5. CASE v = "reject"
  <2>1. c = m  BY <1>5 DEF EnqueueLocal
  <2> QED  BY <1>1, <1>2, <1>5, <2>1 DEF SameLines
<1>6. CASE v = "drop_oldest"
  <2> DEFINE g == Get(m, p)
  <2>1. c = Put(g, p, e)  BY <1>6 DEF EnqueueLocal
  <2>2. Full(b, p)  BY <1>3, <1>6 DEF Policies
  <2>3. /\ m.queue[p] # << >> /\ Len(m.queue[p]) = QueueSize /\ QueueSize > 0
    BY <1>1, <2>2, FullFacts
  <2>4. /\ Sound(g) /\ SameLines(m, g) /\ Len(g.queue[p]) = QueueSize - 1
    BY <1>1, <1>2, <2>3, GetSound
  <2>5. ~Full(g, p)  BY <2>4, SizesAssumption DEF Full
  <2> HIDE DEF g
  <2>6. Sound(c) /\ SameLines(g, c)
    BY <1>1, <2>1, <2>4, <2>5, SoundIsNearly, PutSound
  <2>7. \A q \in Priorities : InLine(c, q) = InLine(b, q)
    BY <1>2, <2>4, <2>6 DEF SameLines
  <2> QED  BY <1>1, <1>6, <2>6, <2>7
<1>7. CASE v = "block"
  <2>1. Full(b, p)  BY <1>3, <1>7 DEF Policies
  <2>2. Full(m, p)  BY <1>1, <2>1, FullFacts DEF Full
  <2>3. c = Join(m, p, t)
    BY <1>7 DEF EnqueueLocal, Join
  <2>4. t \notin InLine(m, p)  BY <1>1, <1>2 DEF SameLines
  <2>5. /\ Sound(c)
        /\ InLine(c, p) = InLine(m, p) \cup {t}
        /\ \A q \in Priorities : q # p => InLine(c, q) = InLine(m, q)
    BY <1>1, <1>2, <2>2, <2>3, <2>4, JoinSound
  <2> QED  BY <1>1, <1>2, <1>7, <2>5 DEF SameLines
<1> QED  BY <1>3, <1>4, <1>5, <1>6, <1>7 DEF Policies

\* A resumed put leaves the line unless the slot was taken in the meantime.
LEMMA ResumedSound ==
  ASSUME NEW b, Sound(b), NEW t \in Tasks,
         t \in b.woken[PrioOf(EnvelopeOf(t))]
  PROVE  LET c == ResumedPut(b, t)
             p == PrioOf(EnvelopeOf(t))
         IN /\ Sound(c)
            /\ \A q \in Priorities : q # p => InLine(c, q) = InLine(b, q)
            /\ InLine(c, p) = IF Full(b, p) THEN InLine(b, p) ELSE InLine(b, p) \ {t}
<1> DEFINE e == EnvelopeOf(t)
           p == PrioOf(e)
           r == [b EXCEPT !.woken[p] = b.woken[p] \ {t}]
           c == ResumedPut(b, t)
<1>1. e \in Envelopes /\ p \in Priorities  BY TaskFacts
<1>2. /\ Nearly(r, p)
      /\ InLine(r, p) = InLine(b, p) \ {t}
      /\ \A q \in Priorities : q # p => InLine(r, q) = InLine(b, q)
      /\ r.queue = b.queue
  BY <1>1, UnwakeNearly
<1>3. t \in InLine(b, p)  BY DEF InLine
<1>4. Full(r, p) <=> Full(b, p)  BY <1>2 DEF Full
<1>5. CASE Full(b, p)
  <2>1. c = Join(r, p, t)
    BY <1>5 DEF ResumedPut, Join
  <2> HIDE DEF r
  <2>2. Sound(r)  BY <1>1, <1>2, <1>4, <1>5, FullIsSound
  <2>3. t \notin InLine(r, p)  BY <1>2
  <2>4. /\ Sound(c)
        /\ InLine(c, p) = InLine(r, p) \cup {t}
        /\ \A q \in Priorities : q # p => InLine(c, q) = InLine(r, q)
    <3>1. Full(r, p)  BY <1>4, <1>5
    <3> HIDE DEF c, p
    <3> QED  BY <1>1, <2>1, <2>2, <2>3, <3>1, JoinSound
  <2> QED  BY <1>1, <1>2, <1>3, <1>5, <2>4
<1>6. CASE ~Full(b, p)
  <2>1. c = Put(r, p, e)  BY <1>6 DEF ResumedPut
  <2> HIDE DEF r
  <2>2. Sound(c) /\ SameLines(r, c)  BY <1>1, <1>2, <1>4, <1>6, <2>1, PutSound
  <2> QED  BY <1>1, <1>2, <1>6, <2>2 DEF SameLines
<1> QED  BY <1>5, <1>6

\* Taking the i-th task out of a line in which each stands once.
LEMMA WithoutFacts ==
  ASSUME NEW S, NEW s \in Seq(S), NEW i \in 1..Len(s),
         \A j, k \in 1..Len(s) : s[j] = s[k] => j = k
  PROVE  LET u == Without(s, i) IN
         /\ u \in Seq(S)
         /\ \A j, k \in 1..Len(u) : u[j] = u[k] => j = k
         /\ {u[j] : j \in 1..Len(u)} = {s[j] : j \in 1..Len(s)} \ {s[i]}
         /\ u # << >> => s # << >>
<1> DEFINE u == Without(s, i)
           n == Len(s)
<1>1. n \in Nat /\ i \in Int /\ n - 1 \in Nat /\ i >= 1 /\ i <= n  OBVIOUS
<1>2. u \in Seq(S) /\ Len(u) = n - 1
  <2>1. \A j \in 1..(n - 1) : j \in 1..n /\ j + 1 \in 1..n  BY <1>1
  <2>2. u \in [1..(n - 1) -> S]  BY <2>1 DEF Without
  <2> QED  BY <1>1, <2>2
<1>3. \A j \in 1..(n - 1) : u[j] = IF j < i THEN s[j] ELSE s[j + 1]
  BY DEF Without
<1> HIDE DEF u, n
<1>4. \A j, k \in 1..n : s[j] = s[k] => j = k  BY DEF n
<1>5. \A j \in 1..(n - 1) : /\ j < i => u[j] = s[j] /\ j \in 1..n
                            /\ ~(j < i) => u[j] = s[j + 1] /\ j + 1 \in 1..n
  BY <1>1, <1>3
<1>6. \A j, k \in 1..(n - 1) : u[j] = u[k] => j = k
  <2> SUFFICES ASSUME NEW j \in 1..(n - 1), NEW k \in 1..(n - 1), u[j] = u[k]
               PROVE  j = k
    OBVIOUS
  <2>1. CASE j < i /\ k < i  BY <2>1, <1>4, <1>5
  <2>2. CASE j < i /\ ~(k < i)  BY <2>2, <1>1, <1>4, <1>5
  <2>3. CASE ~(j < i) /\ k < i  BY <2>3, <1>1, <1>4, <1>5
  <2>4. CASE ~(j < i) /\ ~(k < i)
    <3>1. j + 1 = k + 1  BY <2>4, <1>4, <1>5
    <3> QED  BY <3>1, <1>1
  <2> QED  BY <2>1, <2>2, <2>3, <2>4
<1>7. {u[j] : j \in 1..(n - 1)} = {s[j] : j \in 1..n} \ {s[i]}
  <2>1. \A j \in 1..(n - 1) : u[j] \in {s[k] : k \in 1..n} /\ u[j] # s[i]
    <3> SUFFICES ASSUME NEW j \in 1..(n - 1)
                 PROVE  u[j] \in {s[k] : k \in 1..n} /\ u[j] # s[i]
      OBVIOUS
    <3>0. i \in 1..n  BY <1>1
    <3>1. CASE j < i  BY <3>0, <3>1, <1>1, <1>4, <1>5
    <3>2. CASE ~(j < i)  BY <3>0, <3>2, <1>1, <1>4, <1>5
    <3> QED  BY <3>1, <3>2
  <2>2. \A k \in 1..n : s[k] # s[i] => s[k] \in {u[j] : j \in 1..(n - 1)}
    <3> SUFFICES ASSUME NEW k \in 1..n, s[k] # s[i]
                 PROVE  s[k] \in {u[j] : j \in 1..(n - 1)}
      OBVIOUS
    <3>1. CASE k < i
      <4>1. k \in 1..(n - 1) /\ u[k] = s[k]  BY <3>1, <1>1, <1>3
      <4> QED  BY <4>1
    <3>2. CASE k > i
      <4>1. /\ k - 1 \in 1..(n - 1) /\ ~(k - 1 < i) /\ (k - 1) + 1 = k
        BY <3>2, <1>1
      <4>2. u[k - 1] = s[k]  BY <4>1, <1>3
      <4> QED  BY <4>1, <4>2
    <3>3. k # i  OBVIOUS
    <3> QED  BY <3>1, <3>2, <3>3, <1>1
  <2> QED  BY <2>1, <2>2
<1>8. u # << >> => s # << >>  BY <1>1 DEF n
<1>9. 1..Len(u) = 1..(n - 1)  BY <1>2
<1> QED  BY <1>2, <1>6, <1>7, <1>8, <1>9 DEF u, n

\* A cancelled put leaves the line, and no free slot loses its claimant.
LEMMA CancelledSound ==
  ASSUME NEW b, Sound(b), NEW t \in Tasks,
         t \in InLine(b, PrioOf(EnvelopeOf(t)))
  PROVE  LET c == CancelledPut(b, t)
             p == PrioOf(EnvelopeOf(t))
         IN /\ Sound(c)
            /\ \A q \in Priorities : q # p => InLine(c, q) = InLine(b, q)
            /\ InLine(c, p) = InLine(b, p) \ {t}
<1> DEFINE p == PrioOf(EnvelopeOf(t))
           r == [b EXCEPT !.woken[p] = b.woken[p] \ {t}]
           c == CancelledPut(b, t)
<1>0. b \in BusType  BY DEF Sound
<1>1. p \in Priorities  BY TaskFacts
<1>2. CASE t \in b.woken[p]
  <2>1. /\ Nearly(r, p)
        /\ InLine(r, p) = InLine(b, p) \ {t}
        /\ \A q \in Priorities : q # p => InLine(r, q) = InLine(b, q)
        /\ r.queue = b.queue
    BY <1>1, <1>2, UnwakeNearly
  <2>2. CASE Full(b, p)
    <3>1. c = r  BY <1>2, <2>2 DEF CancelledPut
    <3>2. Full(r, p)  BY <2>1, <2>2 DEF Full
    <3> HIDE DEF r
    <3>3. Sound(r)  BY <1>1, <2>1, <3>2, FullIsSound
    <3> QED  BY <2>1, <3>1, <3>3
  <2>3. CASE ~Full(b, p)
    <3>1. c = WakeNext(r, p)  BY <1>2, <2>3 DEF CancelledPut
    <3> HIDE DEF r
    <3>2. Sound(c) /\ SameLines(r, c)  BY <1>1, <2>1, <3>1, WakeRestores
    <3> QED  BY <1>1, <2>1, <3>2 DEF SameLines
  <2> QED  BY <2>2, <2>3
<1>3. CASE t \notin b.woken[p]
  <2> DEFINE s == b.putters[p]
             i == CHOOSE k \in 1..Len(s) : s[k] = t
             u == Without(s, i)
  <2>1. s \in Seq(Tasks)  BY <1>0, <1>1 DEF BusType
  <2>2. \E k \in 1..Len(s) : s[k] = t  BY <1>3 DEF InLine
  <2>3. i \in 1..Len(s) /\ s[i] = t  BY <2>2
  <2>4. c = [b EXCEPT !.putters[p] = u]  BY <1>3 DEF CancelledPut
  <2>5. /\ \A j, k \in 1..Len(s) : s[j] = s[k] => j = k
        /\ \A j \in 1..Len(s) : s[j] \notin b.woken[p]
    BY <1>1 DEF Sound, LineIsSimple
  <2> HIDE DEF i
  <2>6. /\ u \in Seq(Tasks)
        /\ \A j, k \in 1..Len(u) : u[j] = u[k] => j = k
        /\ {u[j] : j \in 1..Len(u)} = {s[j] : j \in 1..Len(s)} \ {s[i]}
        /\ u # << >> => s # << >>
    <3> HIDE DEF s
    <3> QED  BY <2>1, <2>3, <2>5, WithoutFacts DEF u
  <2> HIDE DEF u
  <2>7. /\ c \in BusType
        /\ c.putters = [b.putters EXCEPT ![p] = u]
        /\ c.queue = b.queue /\ c.permits = b.permits /\ c.woken = b.woken
    BY <1>0, <1>1, <2>4, <2>6, PuttersUpdate
  <2>8. /\ c.putters[p] = u
        /\ \A q \in Priorities : q # p => c.putters[q] = b.putters[q]
    BY <1>0, <1>1, <2>7 DEF BusType
  <2> HIDE DEF c
  <2>9. \A q \in Priorities : q # p => /\ LineIsSimple(c, q) /\ Claimed(c, q)
                                       /\ InLine(c, q) = InLine(b, q)
    BY <2>7, <2>8 DEF Sound, LineIsSimple, Claimed, InLine
  <2>10. InLine(c, p) = InLine(b, p) \ {t}
    <3>1. InLine(c, p) = b.woken[p] \cup {u[j] : j \in 1..Len(u)}
      BY <2>7, <2>8 DEF InLine
    <3>2. InLine(b, p) = b.woken[p] \cup {s[j] : j \in 1..Len(s)}  BY DEF InLine
    <3> QED  BY <1>3, <2>3, <2>6, <3>1, <3>2
  <2>11. LineIsSimple(c, p)
    <3>1. \A j \in 1..Len(u) : u[j] \notin b.woken[p]
      <4>1. \A j \in 1..Len(u) : u[j] \in {s[k] : k \in 1..Len(s)}  BY <2>6
      <4> QED  BY <2>5, <4>1
    <3> QED  BY <2>6, <2>7, <2>8, <3>1 DEF LineIsSimple
  <2>12. Claimed(c, p)
    BY <1>1, <2>6, <2>7, <2>8 DEF Sound, Claimed
  <2>13. Covered(c) /\ Bounded(c)
    BY <2>7 DEF Sound, Covered, Bounded, TotalQueued
  <2> QED  BY <1>1, <2>7, <2>9, <2>10, <2>11, <2>12, <2>13 DEF Sound, c
<1> QED  BY <1>2, <1>3

------------------------------------------------------------------------------
(* The inductive invariant.                                                *)

\* There are workers only between start() and the end of close().
WorkersAndLife ==
  /\ ~life.started => \A w \in Workers : worker[w].pc = "none"
  /\ life.closer \in {"joining", "cancelling"} => life.started

Inv ==
  /\ TypeOK
  /\ Sound(bus)
  /\ PuttersExact
  /\ InFlightExact
  /\ WorkersAndLife

\* A step that moves no line and suspends or resumes nobody.
LEMMA LinesKept ==
  ASSUME PuttersExact, Sound(bus'),
         \A q \in Priorities : InLine(bus', q) = InLine(bus, q),
         \A t \in Tasks : Suspended(t)' <=> Suspended(t)
  PROVE  PuttersExact'
<1>1. \A q \in Priorities : LineIsSimple(bus', q)  BY DEF Sound
<1>2. ASSUME NEW q \in Priorities
      PROVE  InLine(bus', q)
               = {t \in Tasks : Suspended(t)' /\ PrioOf(EnvelopeOf(t)) = q}
  BY <1>2 DEF PuttersExact
<1> QED  BY <1>1, <1>2 DEF PuttersExact, LineIsSimple, InLine

\* A step in which task u alone joins or leaves its line.
LEMMA LineChanged ==
  ASSUME PuttersExact, Sound(bus'), NEW u \in Tasks,
         \A q \in Priorities : q # PrioOf(EnvelopeOf(u)) => InLine(bus', q) = InLine(bus, q),
         \/ /\ InLine(bus', PrioOf(EnvelopeOf(u)))
                 = InLine(bus, PrioOf(EnvelopeOf(u))) \cup {u}
            /\ Suspended(u)'
         \/ /\ InLine(bus', PrioOf(EnvelopeOf(u)))
                 = InLine(bus, PrioOf(EnvelopeOf(u))) \ {u}
            /\ ~Suspended(u)',
         \A t \in Tasks : t # u => (Suspended(t)' <=> Suspended(t))
  PROVE  PuttersExact'
<1>1. \A q \in Priorities : LineIsSimple(bus', q)  BY DEF Sound
<1>2. ASSUME NEW q \in Priorities
      PROVE  InLine(bus', q)
               = {t \in Tasks : Suspended(t)' /\ PrioOf(EnvelopeOf(t)) = q}
  <2>1. InLine(bus, q) = {t \in Tasks : Suspended(t) /\ PrioOf(EnvelopeOf(t)) = q}
    BY DEF PuttersExact
  <2>2. CASE q # PrioOf(EnvelopeOf(u))  BY <2>1, <2>2
  <2>3. CASE q = PrioOf(EnvelopeOf(u))  BY <2>1, <2>3
  <2> QED  BY <2>2, <2>3
<1> QED  BY <1>1, <1>2 DEF PuttersExact, LineIsSimple, InLine

\* The number of dispatches in progress after one worker changed state.
LEMMA RunningStep ==
  ASSUME TypeOK, InFlightExact, NEW w \in Workers, NEW r,
         worker' = [worker EXCEPT ![w] = r],
         \/ IsBusy(worker[w]) /\ IsBusy(r) /\ inFlight' = inFlight
         \/ ~IsBusy(worker[w]) /\ ~IsBusy(r) /\ inFlight' = inFlight
         \/ ~IsBusy(worker[w]) /\ IsBusy(r) /\ inFlight' = inFlight + 1
         \/ IsBusy(worker[w]) /\ ~IsBusy(r) /\ inFlight' = inFlight - 1
  PROVE  InFlightExact'
<1>1. IsFiniteSet(Running)
  BY FS_Subset, WorkersAssumption DEF Running
<1>2. /\ worker'[w] = r
      /\ \A v \in Workers : v # w => worker'[v] = worker[v]
  BY DEF TypeOK
<1>3. Running' = {v \in Workers : IsBusy(worker'[v])}  BY DEF Running, IsBusy
<1>4. w \in Running <=> IsBusy(worker[w])  BY DEF Running
<1>5. CASE IsBusy(worker[w]) <=> IsBusy(r)
  <2>1. Running' = Running  BY <1>2, <1>3, <1>5 DEF Running
  <2> QED  BY <1>5, <2>1 DEF InFlightExact
<1>6. CASE ~IsBusy(worker[w]) /\ IsBusy(r)
  <2>1. Running' = Running \cup {w}  BY <1>2, <1>3, <1>6 DEF Running
  <2> QED  BY <1>1, <1>4, <1>6, <2>1, FS_AddElement DEF InFlightExact
<1>7. CASE IsBusy(worker[w]) /\ ~IsBusy(r)
  <2>1. Running' = Running \ {w}  BY <1>2, <1>3, <1>7 DEF Running
  <2> QED  BY <1>1, <1>4, <1>7, <2>1, FS_RemoveElement DEF InFlightExact
<1> QED  BY <1>5, <1>6, <1>7

\* A worker that is not dispatching has the type of a worker and is not busy.
LEMMA AtFacts ==
  ASSUME NEW pc \in {"none", "idle", "exited"}
  PROVE  At(pc) \in WorkerStates /\ At(pc).pc = pc /\ ~IsBusy(At(pc))
BY DEF At, WorkerStates, IsBusy

\* A busy worker holds an envelope, a subscription and an attempt.
LEMMA BusyFacts ==
  ASSUME NEW r \in WorkerStates, IsBusy(r)
  PROVE  /\ r \in [pc : {"handler", "dlq"},
                   at : [env : Envelopes, sub : Nat, attempt : 1..RetryAttempts]]
         /\ r.at.env \in Envelopes /\ r.at.sub \in Nat
         /\ r.at.attempt \in 1..RetryAttempts
BY DEF WorkerStates, IsBusy, At

\* After a subscription the worker is in the next invocation or idle.
LEMMA AfterSubFacts ==
  ASSUME NEW e \in Envelopes, NEW s \in Nat
  PROVE  /\ AfterSub(e, s) \in WorkerStates
         /\ AfterSub(e, s).pc \in {"handler", "idle"}
         /\ IsBusy(AfterSub(e, s)) <=> s < SubCount[e]
<1>1. SubCount[e] \in Nat /\ 1 \in 1..RetryAttempts
  BY TopicsAssumption, SizesAssumption
<1>2. CASE s < SubCount[e]
  BY <1>1, <1>2 DEF AfterSub, Invoking, WorkerStates, IsBusy
<1>3. CASE ~(s < SubCount[e])
  BY <1>3, AtFacts DEF AfterSub
<1> QED  BY <1>2, <1>3

\* Init establishes the invariant.
LEMMA InitInv == Init => Inv
<1> SUFFICES ASSUME Init PROVE Inv
  OBVIOUS
<1> DEFINE none == [p \in Priorities |-> << >>]
           nobody == [p \in Priorities |-> {}]
<1>1. bus = [queue |-> none, permits |-> 0, putters |-> none, woken |-> nobody]
  BY DEF Init
<1>2. bus \in BusType
  BY <1>1 DEF BusType
<1>3. \A p \in Priorities : bus.queue[p] = << >> /\ bus.putters[p] = << >>
                            /\ bus.woken[p] = {}
  BY <1>1
<1>4. TypeOK
  BY <1>2, AtFacts DEF Init, TypeOK
<1>5. Sound(bus)
  <2>1. TotalQueued(bus) = 0 /\ bus.permits = 0
    BY <1>1, <1>3 DEF TotalQueued, Priorities
  <2>2. Covered(bus)  BY <2>1 DEF Covered
  <2>3. Bounded(bus)  BY <1>3, SizesAssumption DEF Bounded
  <2>4. \A p \in Priorities : LineIsSimple(bus, p)  BY <1>3 DEF LineIsSimple
  <2>5. \A p \in Priorities : Claimed(bus, p)  BY <1>3, FS_EmptySet DEF Claimed
  <2> QED  BY <1>2, <2>2, <2>3, <2>4, <2>5 DEF Sound
<1>6. \A w \in Workers : worker[w].pc = "none" /\ ~IsBusy(worker[w])
  BY AtFacts DEF Init
<1>7. PuttersExact
  <2>1. \A t \in Tasks : ~Suspended(t)
    BY <1>6 DEF Init, Suspended, Tasks
  <2>2. \A p \in Priorities : InLine(bus, p) = {}  BY <1>3 DEF InLine
  <2> QED  BY <1>5, <2>1, <2>2 DEF PuttersExact, Sound
<1>8. InFlightExact
  <2>1. Running = {}  BY <1>6 DEF Running
  <2> QED  BY <2>1, FS_EmptySet DEF InFlightExact, Init
<1>9. WorkersAndLife  BY <1>6 DEF WorkersAndLife, Init
<1> QED  BY <1>4, <1>5, <1>7, <1>8, <1>9 DEF Inv

------------------------------------------------------------------------------
(* One lemma per action.                                                   *)

\* start() preserves the invariant.
LEMMA StartInv ==
  ASSUME Inv, Start PROVE Inv'
<1>1. TypeOK'
  BY AtFacts DEF Inv, TypeOK, Start
<1>2. \A w \in Workers : worker[w].pc = "none" /\ worker'[w].pc = "idle"
  BY AtFacts DEF Inv, WorkersAndLife, Start
<1>3. Sound(bus')  BY DEF Inv, Start
<1>4. PuttersExact'
  <2>1. \A t \in Tasks : Suspended(t)' <=> Suspended(t)
    BY <1>2 DEF Suspended, Start
  <2>2. bus' = bus  BY DEF Start
  <2> QED  BY <1>3, <2>1, <2>2, LinesKept DEF Inv
<1>5. InFlightExact'
  <2>1. Running' = Running  BY <1>2 DEF Running, IsBusy
  <2> QED  BY <2>1 DEF Inv, InFlightExact, Start
<1>6. WorkersAndLife'  BY DEF WorkersAndLife, Start
<1> QED  BY <1>1, <1>3, <1>4, <1>5, <1>6 DEF Inv

\* A publish() refused by a closing bus preserves the invariant.
LEMMA PublishClosedInv ==
  ASSUME Inv, NEW e \in Events, PublishClosed(e) PROVE Inv'
<1>1. TypeOK'  BY DEF Inv, TypeOK, PublishClosed
<1>2. bus' = bus /\ worker' = worker /\ inFlight' = inFlight /\ life' = life
  BY DEF PublishClosed
<1>3. Sound(bus')  BY <1>2 DEF Inv
<1>4. PuttersExact'
  <2>1. \A t \in Tasks : Suspended(t)' <=> Suspended(t)
    BY <1>2 DEF Inv, TypeOK, Suspended, PublishClosed, Tasks
  <2> QED  BY <1>2, <1>3, <2>1, LinesKept DEF Inv
<1>5. InFlightExact' /\ WorkersAndLife'
  BY <1>2 DEF Inv, InFlightExact, Running, IsBusy, WorkersAndLife
<1> QED  BY <1>1, <1>3, <1>4, <1>5 DEF Inv

\* publish(), under each of its backpressure verdicts, preserves the invariant.
LEMMA PublishInv ==
  ASSUME Inv, NEW e \in Events, Publish(e) PROVE Inv'
<1> DEFINE p == PrioOf(e)
           v == Verdict(bus, e)
<1>1. /\ e \in Tasks /\ e \notin Workers /\ EnvelopeOf(e) = e /\ p \in Priorities
      /\ e # Meta /\ e # Dlq
  BY TaskFacts, EnvelopesAssumption DEF Tasks, EnvelopeOf
<1>2. /\ bus' = EnqueueLocal(bus, e) /\ worker' = worker
      /\ inFlight' = inFlight /\ life' = life /\ dropped' = dropped
      /\ pub[e] = "new"
  BY DEF Publish
<1>3. ~Suspended(e) /\ e \notin InLine(bus, p)
  BY <1>1, <1>2 DEF Inv, PuttersExact, Suspended
<1>4. /\ Sound(bus')
      /\ \A q \in Priorities : q # p => InLine(bus', q) = InLine(bus, q)
      /\ InLine(bus', p) = IF v = "block" THEN InLine(bus, p) \cup {e}
                                          ELSE InLine(bus, p)
  BY <1>1, <1>2, <1>3, EnqueueSound DEF Inv
<1>5. TypeOK'
  <2>1. pub' \in [Events -> {"new", "blocked", "accepted", "rejected", "closed", "cancelled"}]
    BY DEF Publish, Inv, TypeOK
  <2>2. fate' \in [Events -> {"none", "running", "done", "dropped", "cut"}]
    BY DEF Publish, Inv, TypeOK, FateAfterEnqueue
  <2>3. bus' \in BusType  BY <1>4 DEF Sound
  <2> QED  BY <1>2, <2>1, <2>2, <2>3 DEF Inv, TypeOK
<1>6. /\ pub'[e] = "blocked" <=> v = "block"
      /\ \A f \in Events : f # e => pub'[f] = pub[f]
  BY DEF Publish, Inv, TypeOK
<1>7. \A t \in Tasks : t # e => (Suspended(t)' <=> Suspended(t))
  BY <1>1, <1>2, <1>6 DEF Suspended, Tasks
<1>8. PuttersExact'
  <2>1. CASE v = "block"
    <3>1. Suspended(e)'  BY <1>1, <1>6, <2>1 DEF Suspended
    <3> HIDE DEF p
    <3>2. p = PrioOf(EnvelopeOf(e))  BY <1>1 DEF p
    <3> QED  BY <1>1, <1>4, <1>7, <2>1, <3>1, <3>2, LineChanged DEF Inv
  <2>2. CASE v # "block"
    <3>1. ~Suspended(e)'  BY <1>1, <1>6, <2>2 DEF Suspended
    <3>2. \A t \in Tasks : Suspended(t)' <=> Suspended(t)  BY <1>3, <1>7, <3>1
    <3>3. \A q \in Priorities : InLine(bus', q) = InLine(bus, q)  BY <1>4, <2>2
    <3> QED  BY <1>4, <3>2, <3>3, LinesKept DEF Inv
  <2> QED  BY <2>1, <2>2
<1>9. InFlightExact' /\ WorkersAndLife'
  BY <1>2 DEF Inv, InFlightExact, Running, IsBusy, WorkersAndLife
<1> QED  BY <1>4, <1>5, <1>8, <1>9 DEF Inv

\* A publisher that runs again in queue.put() preserves the invariant.
LEMMA PublishResumesInv ==
  ASSUME Inv, NEW e \in Events, PublishResumes(e) PROVE Inv'
<1> DEFINE p == PrioOf(e)
<1>1. e \in Tasks /\ e \notin Workers /\ EnvelopeOf(e) = e /\ p \in Priorities
  BY TaskFacts, EnvelopesAssumption DEF Tasks, EnvelopeOf
<1>2. /\ bus' = ResumedPut(bus, e) /\ worker' = worker /\ fate' = fate
      /\ inFlight' = inFlight /\ life' = life /\ dropped' = dropped
      /\ e \in bus.woken[p]
      /\ pub' = IF Full(bus, p) THEN pub ELSE [pub EXCEPT ![e] = "accepted"]
  BY DEF PublishResumes
<1>3. /\ Sound(bus')
      /\ \A q \in Priorities : q # p => InLine(bus', q) = InLine(bus, q)
      /\ InLine(bus', p) = IF Full(bus, p) THEN InLine(bus, p) ELSE InLine(bus, p) \ {e}
  BY <1>1, <1>2, ResumedSound DEF Inv
<1>4. TypeOK'
  BY <1>2, <1>3 DEF Inv, TypeOK, Sound
<1>5. PuttersExact'
  <2>1. CASE Full(bus, p)
    <3>1. \A t \in Tasks : Suspended(t)' <=> Suspended(t)
      BY <1>2, <2>1 DEF Suspended
    <3> QED  BY <1>3, <2>1, <3>1, LinesKept DEF Inv
  <2>2. CASE ~Full(bus, p)
    <3>1. pub'[e] = "accepted" /\ \A f \in Events : f # e => pub'[f] = pub[f]
      BY <1>2, <2>2 DEF Inv, TypeOK
    <3>2. ~Suspended(e)'  BY <1>1, <3>1 DEF Suspended
    <3>3. \A t \in Tasks : t # e => (Suspended(t)' <=> Suspended(t))
      BY <1>1, <1>2, <3>1 DEF Suspended, Tasks
    <3>4. p = PrioOf(EnvelopeOf(e))  BY <1>1
    <3> HIDE DEF p
    <3> QED  BY <1>1, <1>3, <2>2, <3>2, <3>3, <3>4, LineChanged DEF Inv
  <2> QED  BY <2>1, <2>2
<1>6. InFlightExact' /\ WorkersAndLife'
  BY <1>2 DEF Inv, InFlightExact, Running, IsBusy, WorkersAndLife
<1> QED  BY <1>3, <1>4, <1>5, <1>6 DEF Inv

\* A publisher cancelled in queue.put() preserves the invariant.
LEMMA PublishCancelledInv ==
  ASSUME Inv, NEW e \in Events, PublishCancelled(e) PROVE Inv'
<1> DEFINE p == PrioOf(e)
<1>1. e \in Tasks /\ e \notin Workers /\ EnvelopeOf(e) = e /\ p \in Priorities
  BY TaskFacts, EnvelopesAssumption DEF Tasks, EnvelopeOf
<1>2. /\ bus' = CancelledPut(bus, e) /\ worker' = worker /\ fate' = fate
      /\ inFlight' = inFlight /\ life' = life /\ dropped' = dropped
      /\ pub[e] = "blocked" /\ pub' = [pub EXCEPT ![e] = "cancelled"]
  BY DEF PublishCancelled
<1>3. e \in InLine(bus, p)
  BY <1>1, <1>2 DEF Inv, PuttersExact, Suspended
<1>4. /\ Sound(bus')
      /\ \A q \in Priorities : q # p => InLine(bus', q) = InLine(bus, q)
      /\ InLine(bus', p) = InLine(bus, p) \ {e}
  BY <1>1, <1>2, <1>3, CancelledSound DEF Inv
<1>5. TypeOK'
  BY <1>2, <1>4 DEF Inv, TypeOK, Sound
<1>6. PuttersExact'
  <2>1. pub'[e] = "cancelled" /\ \A f \in Events : f # e => pub'[f] = pub[f]
    BY <1>2 DEF Inv, TypeOK
  <2>2. ~Suspended(e)'  BY <1>1, <2>1 DEF Suspended
  <2>3. \A t \in Tasks : t # e => (Suspended(t)' <=> Suspended(t))
    BY <1>1, <1>2, <2>1 DEF Suspended, Tasks
  <2>4. p = PrioOf(EnvelopeOf(e))  BY <1>1
  <2> HIDE DEF p
  <2> QED  BY <1>1, <1>4, <2>2, <2>3, <2>4, LineChanged DEF Inv
<1>7. InFlightExact' /\ WorkersAndLife'
  BY <1>2 DEF Inv, InFlightExact, Running, IsBusy, WorkersAndLife
<1> QED  BY <1>4, <1>5, <1>6, <1>7 DEF Inv

\* What a step of worker w alone does to Suspended and WorkersAndLife.
LEMMA WorkerStep ==
  ASSUME Inv, NEW w \in Workers, NEW r \in WorkerStates,
         worker' = [worker EXCEPT ![w] = r], pub' = pub, life' = life,
         worker[w].pc # "none" \/ life.started
  PROVE  /\ worker'[w] = r
         /\ worker' \in [Workers -> WorkerStates]
         /\ WorkersAndLife'
         /\ w \in Tasks /\ EnvelopeOf(w) = Dlq /\ PrioOf(Dlq) = "HIGH"
         /\ Suspended(w) <=> worker[w].pc = "dlq"
         /\ Suspended(w)' <=> r.pc = "dlq"
         /\ \A t \in Tasks : t # w => (Suspended(t)' <=> Suspended(t))
<1>1. /\ worker'[w] = r /\ worker' \in [Workers -> WorkerStates]
      /\ \A v \in Workers : v # w => worker'[v] = worker[v]
  BY DEF Inv, TypeOK
<1>2. WorkersAndLife'  BY DEF Inv, WorkersAndLife
<1>3. w \in Tasks /\ EnvelopeOf(w) = Dlq /\ PrioOf(Dlq) = "HIGH"
  BY DEF Tasks, EnvelopeOf, PrioOf
<1>4. /\ Suspended(w) <=> worker[w].pc = "dlq"
      /\ Suspended(w)' <=> r.pc = "dlq"
      /\ \A t \in Tasks : t # w => (Suspended(t)' <=> Suspended(t))
  BY <1>1 DEF Suspended, Tasks
<1> QED  BY <1>1, <1>2, <1>3, <1>4

\* A change of the permits that still covers the queues.
LEMMA PermitsSound ==
  ASSUME NEW b, Sound(b), NEW n \in Nat, n >= TotalQueued(b)
  PROVE  LET c == [b EXCEPT !.permits = n] IN
         Sound(c) /\ SameLines(b, c)
<1> DEFINE c == [b EXCEPT !.permits = n]
<1>1. /\ c \in BusType /\ c.permits = n
      /\ c.queue = b.queue /\ c.putters = b.putters /\ c.woken = b.woken
  BY PermitsUpdate DEF Sound
<1> HIDE DEF c
<1>2. Covered(c) /\ Bounded(c)
  BY <1>1 DEF Sound, Covered, Bounded, TotalQueued
<1>3. \A q \in Priorities : LineIsSimple(c, q) /\ Claimed(c, q) /\ InLine(c, q) = InLine(b, q)
  BY <1>1 DEF Sound, LineIsSimple, Claimed, InLine
<1> QED  BY <1>1, <1>2, <1>3 DEF Sound, SameLines, c

\* In a sound bus the permits cover the total of the queue lengths.
LEMMA TotalFacts ==
  ASSUME NEW b, Sound(b)
  PROVE  TotalQueued(b) \in Nat /\ b.permits \in Nat /\ b.permits >= TotalQueued(b)
<1>1. b \in BusType /\ b.permits >= TotalQueued(b)  BY DEF Sound, Covered
<1>2. "LOW" \in Priorities  BY DEF Priorities
<1>3. TotalQueued(b) \in Nat  BY <1>1, <1>2, TotalChange
<1> QED  BY <1>1, <1>3 DEF BusType

\* Without queued envelopes there is nothing to cover.
LEMMA EmptyTotal ==
  ASSUME NEW b, Empty(b) PROVE TotalQueued(b) = 0
<1>1. /\ b.queue["LOW"] = << >> /\ b.queue["NORMAL"] = << >>
      /\ b.queue["HIGH"] = << >> /\ b.queue["CRITICAL"] = << >>
  BY DEF Empty, Priorities
<1>2. Len(<< >>) = 0  OBVIOUS
<1> QED  BY <1>1, <1>2 DEF TotalQueued

\* A spurious wakeup of a worker preserves the invariant.
LEMMA AcquireNothingInv ==
  ASSUME Inv, NEW w \in Workers, AcquireNothing(w) PROVE Inv'
<1> DEFINE pc == IF life.stopping THEN "exited" ELSE "idle"
<1>1. /\ worker' = [worker EXCEPT ![w] = At(pc)] /\ worker[w].pc = "idle"
      /\ pub' = pub /\ life' = life /\ fate' = fate
      /\ inFlight' = inFlight /\ dropped' = dropped
  BY DEF AcquireNothing, CanRun
<1>2. At(pc) \in WorkerStates /\ At(pc).pc = pc /\ ~IsBusy(At(pc)) /\ pc # "dlq"
  BY AtFacts
<1>3. Sound(bus') /\ SameLines(bus, bus')
  <2>1. TotalQueued(bus) = 0  BY EmptyTotal DEF AcquireNothing
  <2>2. bus.permits \in Nat /\ bus.permits > 0  BY TotalFacts DEF Inv, AcquireNothing
  <2>3. bus.permits - 1 \in Nat /\ bus.permits - 1 >= 0  BY <2>2
  <2>4. bus' = [bus EXCEPT !.permits = bus.permits - 1]  BY DEF AcquireNothing
  <2> QED  BY <2>1, <2>3, <2>4, PermitsSound DEF Inv
<1>4. /\ WorkersAndLife'
      /\ worker' \in [Workers -> WorkerStates]
      /\ \A t \in Tasks : Suspended(t)' <=> Suspended(t)
  <2> HIDE DEF pc
  <2> QED  BY <1>1, <1>2, WorkerStep
<1>5. TypeOK'  BY <1>1, <1>3, <1>4 DEF Inv, TypeOK, Sound
<1>6. PuttersExact'  BY <1>3, <1>4, LinesKept DEF Inv, SameLines
<1>7. InFlightExact'
  BY <1>1, <1>2, RunningStep DEF Inv, IsBusy
<1> QED  BY <1>3, <1>4, <1>5, <1>6, <1>7 DEF Inv

\* The scan finds a non-empty queue.
LEMMA NextPriorityFacts ==
  ASSUME NEW b \in BusType, ~Empty(b), NEW n, n = NextPriority(b)
  PROVE  /\ n \in Priorities /\ b.queue[n] # << >>
         /\ \A h \in Priorities : PriorityValue[h] > PriorityValue[n] => b.queue[h] = << >>
<1>1. \E p \in Priorities :
        /\ b.queue[p] # << >>
        /\ \A h \in Priorities : PriorityValue[h] > PriorityValue[p] => b.queue[h] = << >>
  <2>1. CASE b.queue["CRITICAL"] # << >>
    BY <2>1 DEF Priorities, PriorityValue
  <2>2. CASE b.queue["CRITICAL"] = << >> /\ b.queue["HIGH"] # << >>
    BY <2>2 DEF Priorities, PriorityValue
  <2>3. CASE b.queue["CRITICAL"] = << >> /\ b.queue["HIGH"] = << >>
             /\ b.queue["NORMAL"] # << >>
    BY <2>3 DEF Priorities, PriorityValue
  <2>4. CASE b.queue["CRITICAL"] = << >> /\ b.queue["HIGH"] = << >>
             /\ b.queue["NORMAL"] = << >> /\ b.queue["LOW"] # << >>
    BY <2>4 DEF Priorities, PriorityValue
  <2> QED  BY <2>1, <2>2, <2>3, <2>4 DEF Empty, Priorities
<1> QED  BY <1>1 DEF NextPriority

\* A worker that pops the next envelope preserves the invariant.
LEMMA AcquireEnvelopeInv ==
  ASSUME Inv, NEW w \in Workers, AcquireEnvelope(w) PROVE Inv'
<1> DEFINE p == NextPriority(bus)
           e == Head(bus.queue[p])
           g == Get(bus, p)
           r == AfterSub(e, 0)
<1>1. /\ worker' = [worker EXCEPT ![w] = r] /\ worker[w].pc = "idle"
      /\ pub' = pub /\ life' = life /\ dropped' = dropped
      /\ bus' = [g EXCEPT !.permits = g.permits - 1]
      /\ inFlight' = IF SubCount[e] = 0 THEN inFlight ELSE inFlight + 1
      /\ ~Empty(bus)
  BY DEF AcquireEnvelope, CanRun
<1>2. bus \in BusType /\ p \in Priorities /\ bus.queue[p] # << >>
  BY <1>1, NextPriorityFacts DEF Inv, Sound
<1>3. e \in Envelopes /\ SubCount[e] \in Nat
  BY <1>2, TopicsAssumption DEF BusType
<1>4. /\ r \in WorkerStates /\ r.pc \in {"handler", "idle"}
      /\ IsBusy(r) <=> 0 < SubCount[e]
  BY <1>3, AfterSubFacts
<1>5. Sound(bus') /\ SameLines(bus, bus')
  <2>1. /\ Sound(g) /\ SameLines(bus, g) /\ g.permits = bus.permits
        /\ TotalQueued(bus) \in Nat /\ TotalQueued(g) = TotalQueued(bus) - 1
    BY <1>2, GetSound DEF Inv
  <2>2. bus.permits \in Nat /\ bus.permits >= TotalQueued(bus) /\ bus.permits > 0
    BY TotalFacts DEF Inv, AcquireEnvelope
  <2>3. g.permits - 1 \in Nat /\ g.permits - 1 >= TotalQueued(g)
    BY <2>1, <2>2
  <2> HIDE DEF g
  <2>4. Sound(bus') /\ SameLines(g, bus')  BY <1>1, <2>1, <2>3, PermitsSound
  <2> QED  BY <2>1, <2>4 DEF SameLines
<1> HIDE DEF e, r
<1>6. /\ WorkersAndLife'
      /\ worker' \in [Workers -> WorkerStates]
      /\ \A t \in Tasks : Suspended(t)' <=> Suspended(t)
  BY <1>1, <1>4, WorkerStep
<1>7. inFlight' \in Int /\ fate' \in [Events -> {"none", "running", "done", "dropped", "cut"}]
  BY <1>1 DEF Inv, TypeOK, AcquireEnvelope
<1>8. TypeOK'  BY <1>1, <1>5, <1>6, <1>7 DEF Inv, TypeOK, Sound
<1>9. PuttersExact'  BY <1>5, <1>6, LinesKept DEF Inv, SameLines
<1>10. InFlightExact'
  <2>1. ~IsBusy(worker[w])  BY <1>1 DEF IsBusy
  <2>2. CASE SubCount[e] = 0
    <3>1. ~IsBusy(r) /\ inFlight' = inFlight  BY <1>1, <1>3, <1>4, <2>2
    <3> QED  BY <1>1, <2>1, <3>1, RunningStep DEF Inv
  <2>3. CASE SubCount[e] # 0
    <3>1. IsBusy(r) /\ inFlight' = inFlight + 1  BY <1>1, <1>3, <1>4, <2>3
    <3> QED  BY <1>1, <2>1, <3>1, RunningStep DEF Inv
  <2> QED  BY <2>2, <2>3
<1> QED  BY <1>5, <1>6, <1>8, <1>9, <1>10 DEF Inv

\* The worker's part of a step that is done with a subscription.
LEMMA SubDoneStep ==
  ASSUME Inv, NEW w \in Workers, IsBusy(worker[w]), SubDone(w),
         pub' = pub, life' = life
  PROVE  /\ worker' \in [Workers -> WorkerStates]
         /\ inFlight' \in Int
         /\ InFlightExact'
         /\ WorkersAndLife'
         /\ w \in Tasks /\ EnvelopeOf(w) = Dlq /\ PrioOf(Dlq) = "HIGH"
         /\ Suspended(w) <=> worker[w].pc = "dlq"
         /\ ~Suspended(w)'
         /\ \A t \in Tasks : t # w => (Suspended(t)' <=> Suspended(t))
<1> DEFINE e == worker[w].at.env
           s == worker[w].at.sub
           r == AfterSub(e, s)
<1>1. worker[w] \in WorkerStates /\ worker[w].pc # "none"
  BY DEF Inv, TypeOK, IsBusy
<1>2. e \in Envelopes /\ s \in Nat  BY <1>1, BusyFacts
<1>3. /\ r \in WorkerStates /\ r.pc \in {"handler", "idle"}
      /\ IsBusy(r) <=> s < SubCount[e]
  BY <1>2, AfterSubFacts
<1>4. /\ worker' = [worker EXCEPT ![w] = r]
      /\ inFlight' = IF s < SubCount[e] THEN inFlight ELSE inFlight - 1
  BY DEF SubDone
<1> HIDE DEF e, s, r
<1>5. /\ worker' \in [Workers -> WorkerStates]
      /\ WorkersAndLife'
      /\ w \in Tasks /\ EnvelopeOf(w) = Dlq /\ PrioOf(Dlq) = "HIGH"
      /\ Suspended(w) <=> worker[w].pc = "dlq"
      /\ Suspended(w)' <=> r.pc = "dlq"
      /\ \A t \in Tasks : t # w => (Suspended(t)' <=> Suspended(t))
  BY <1>1, <1>3, <1>4, WorkerStep
<1>6. inFlight' \in Int  BY <1>4 DEF Inv, TypeOK
<1>7. InFlightExact'
  BY <1>3, <1>4, RunningStep DEF Inv
<1> QED  BY <1>3, <1>5, <1>6, <1>7

\* A worker leaves its dispatch step without having waited in a put.
LEMMA QuietSubDone ==
  ASSUME Inv, NEW w \in Workers, worker[w].pc = "handler", SubDone(w),
         Sound(bus'), SameLines(bus, bus'), pub' = pub, life' = life,
         fate' \in [Events -> {"none", "running", "done", "dropped", "cut"}],
         dropped' = dropped
  PROVE  Inv'
<1>1. IsBusy(worker[w])  BY DEF IsBusy
<1>2. /\ worker' \in [Workers -> WorkerStates] /\ inFlight' \in Int
      /\ InFlightExact' /\ WorkersAndLife'
      /\ Suspended(w) <=> worker[w].pc = "dlq"
      /\ ~Suspended(w)'
      /\ \A t \in Tasks : t # w => (Suspended(t)' <=> Suspended(t))
  BY <1>1, SubDoneStep
<1>3. \A t \in Tasks : Suspended(t)' <=> Suspended(t)  BY <1>2
<1>4. PuttersExact'  BY <1>3, LinesKept DEF Inv, SameLines
<1>5. TypeOK'  BY <1>2 DEF Inv, TypeOK, Sound
<1> QED  BY <1>2, <1>4, <1>5 DEF Inv

\* A handler that succeeds preserves the invariant.
LEMMA HandlerOkInv ==
  ASSUME Inv, NEW w \in Workers, HandlerOk(w) PROVE Inv'
<1>1. /\ worker[w].pc = "handler" /\ SubDone(w) /\ bus' = bus
      /\ pub' = pub /\ life' = life /\ dropped' = dropped
  BY DEF HandlerOk, CanRun
<1>2. fate' \in [Events -> {"none", "running", "done", "dropped", "cut"}]
  BY DEF HandlerOk, FateAfterSub, Inv, TypeOK
<1>3. Sound(bus') /\ SameLines(bus, bus')  BY <1>1 DEF Inv, SameLines
<1> QED  BY <1>1, <1>2, <1>3, QuietSubDone

\* The end of the retries of a bus.* envelope preserves the invariant.
LEMMA MetaExhaustedInv ==
  ASSUME Inv, NEW w \in Workers, MetaExhausted(w) PROVE Inv'
<1>1. /\ worker[w].pc = "handler" /\ SubDone(w) /\ bus' = bus /\ fate' = fate
      /\ pub' = pub /\ life' = life /\ dropped' = dropped
  BY DEF MetaExhausted, CanRun
<1>2. Sound(bus') /\ SameLines(bus, bus')  BY <1>1 DEF Inv, SameLines
<1>3. fate' \in [Events -> {"none", "running", "done", "dropped", "cut"}]
  BY <1>1 DEF Inv, TypeOK
<1> QED  BY <1>1, <1>2, <1>3, QuietSubDone

\* A retry of a handler preserves the invariant.
LEMMA HandlerRetryInv ==
  ASSUME Inv, NEW w \in Workers, HandlerRetry(w) PROVE Inv'
<1> DEFINE r == [worker[w] EXCEPT !.at = [worker[w].at EXCEPT !.attempt = worker[w].at.attempt + 1]]
<1>1. /\ worker[w].pc = "handler" /\ bus' = bus /\ fate' = fate /\ inFlight' = inFlight
      /\ pub' = pub /\ life' = life /\ dropped' = dropped
      /\ worker[w].at.attempt < RetryAttempts
  BY DEF HandlerRetry, CanRun
<1>2. /\ worker[w] \in [pc : {"handler", "dlq"},
                        at : [env : Envelopes, sub : Nat, attempt : 1..RetryAttempts]]
      /\ worker[w].at.attempt \in 1..RetryAttempts
  BY <1>1, BusyFacts DEF Inv, TypeOK, IsBusy
<1>3. worker' = [worker EXCEPT ![w] = r]
  BY <1>2 DEF HandlerRetry, Inv, TypeOK
<1>4. r \in WorkerStates /\ r.pc = "handler"
  <2>1. worker[w].at.attempt + 1 \in 1..RetryAttempts
    BY <1>1, <1>2, SizesAssumption
  <2>2. [worker[w].at EXCEPT !.attempt = worker[w].at.attempt + 1]
          \in [env : Envelopes, sub : Nat, attempt : 1..RetryAttempts]
    BY <1>2, <2>1
  <2> QED  BY <1>1, <1>2, <2>2 DEF WorkerStates
<1> HIDE DEF r
<1>5. /\ worker' \in [Workers -> WorkerStates]
      /\ WorkersAndLife'
      /\ Suspended(w) <=> worker[w].pc = "dlq"
      /\ Suspended(w)' <=> r.pc = "dlq"
      /\ \A t \in Tasks : t # w => (Suspended(t)' <=> Suspended(t))
  BY <1>1, <1>3, <1>4, WorkerStep
<1>6. \A t \in Tasks : Suspended(t)' <=> Suspended(t)  BY <1>1, <1>4, <1>5
<1>7. Sound(bus')  BY <1>1 DEF Inv
<1>8. PuttersExact'  BY <1>1, <1>6, <1>7, LinesKept DEF Inv
<1>9. InFlightExact'
  BY <1>1, <1>3, <1>4, RunningStep DEF Inv, IsBusy
<1>10. TypeOK'  BY <1>1, <1>5 DEF Inv, TypeOK
<1> QED  BY <1>5, <1>7, <1>8, <1>9, <1>10 DEF Inv

\* The end of the retries of an application envelope, with its meta-event and
\* the put of on_dlq, preserves the invariant.
LEMMA HandlerExhaustedInv ==
  ASSUME Inv, NEW w \in Workers, HandlerExhausted(w) PROVE Inv'
<1> DEFINE b == PublishMeta(bus)
           publish == HasDlq /\ ~life.closing
<1>1. /\ worker[w].pc = "handler" /\ pub' = pub /\ life' = life /\ dropped' = dropped
      /\ bus' = IF publish THEN EnqueueLocal(b, w) ELSE b
  BY DEF HandlerExhausted, CanRun
<1>2. Sound(b) /\ SameLines(bus, b)  BY MetaSound DEF Inv
<1>3. /\ w \in Tasks /\ EnvelopeOf(w) = Dlq /\ PrioOf(Dlq) = "HIGH"
      /\ "HIGH" \in Priorities
  BY DEF Tasks, EnvelopeOf, PrioOf, Priorities
<1>4. w \notin InLine(b, "HIGH")
  <2>1. ~Suspended(w)  BY <1>1 DEF Suspended
  <2> QED  BY <1>2, <1>3, <2>1 DEF Inv, PuttersExact, SameLines
<1>5. publish =>
        /\ Sound(bus')
        /\ \A q \in Priorities : q # "HIGH" => InLine(bus', q) = InLine(b, q)
        /\ InLine(bus', "HIGH") = IF Verdict(b, Dlq) = "block"
                                  THEN InLine(b, "HIGH") \cup {w} ELSE InLine(b, "HIGH")
  <2> HIDE DEF b
  <2> QED  BY <1>1, <1>2, <1>3, <1>4, EnqueueSound
<1>6. CASE publish /\ Verdict(b, Dlq) = "block"
  <2> DEFINE r == [worker[w] EXCEPT !.pc = "dlq"]
  <2>1. worker' = [worker EXCEPT ![w] = r] /\ fate' = fate /\ inFlight' = inFlight
    BY <1>6 DEF HandlerExhausted, Inv, TypeOK
  <2>2. worker[w] \in [pc : {"handler", "dlq"},
                       at : [env : Envelopes, sub : Nat, attempt : 1..RetryAttempts]]
    BY <1>1, BusyFacts DEF Inv, TypeOK, IsBusy
  <2>3. r \in WorkerStates /\ r.pc = "dlq"
    BY <2>2 DEF WorkerStates
  <2> HIDE DEF r
  <2>4. /\ worker' \in [Workers -> WorkerStates]
        /\ WorkersAndLife'
        /\ Suspended(w)'
        /\ \A t \in Tasks : t # w => (Suspended(t)' <=> Suspended(t))
    BY <1>1, <2>1, <2>3, WorkerStep
  <2>5. InFlightExact'
    BY <1>1, <2>1, <2>3, RunningStep DEF Inv, IsBusy
  <2>6. /\ \A q \in Priorities : q # "HIGH" => InLine(bus', q) = InLine(bus, q)
        /\ InLine(bus', "HIGH") = InLine(bus, "HIGH") \cup {w}
        /\ Sound(bus')
    BY <1>2, <1>3, <1>5, <1>6 DEF SameLines
  <2>7. PuttersExact'
    BY <1>3, <2>4, <2>6, LineChanged DEF Inv
  <2>8. TypeOK'  BY <1>1, <2>1, <2>4, <2>6 DEF Inv, TypeOK, Sound
  <2> QED  BY <2>4, <2>5, <2>6, <2>7, <2>8 DEF Inv
<1>7. CASE ~(publish /\ Verdict(b, Dlq) = "block")
  <2>1. SubDone(w)  BY <1>7 DEF HandlerExhausted
  <2>2. Sound(bus') /\ SameLines(bus, bus')
    BY <1>1, <1>2, <1>3, <1>5, <1>7 DEF SameLines
  <2>3. fate' \in [Events -> {"none", "running", "done", "dropped", "cut"}]
    BY <1>7 DEF HandlerExhausted, FateAfterSub, Inv, TypeOK
  <2> QED  BY <1>1, <2>1, <2>2, <2>3, QuietSubDone
<1> QED  BY <1>6, <1>7

\* A worker that runs again in the put of on_dlq preserves the invariant.
LEMMA DlqResumesInv ==
  ASSUME Inv, NEW w \in Workers, DlqResumes(w) PROVE Inv'
<1>1. /\ worker[w].pc = "dlq" /\ w \in bus.woken["HIGH"]
      /\ bus' = ResumedPut(bus, w)
      /\ pub' = pub /\ life' = life /\ dropped' = dropped
  BY DEF DlqResumes, CanRun
<1>2. /\ w \in Tasks /\ EnvelopeOf(w) = Dlq /\ PrioOf(Dlq) = "HIGH"
      /\ "HIGH" \in Priorities
  BY DEF Tasks, EnvelopeOf, PrioOf, Priorities
<1>3. /\ Sound(bus')
      /\ \A q \in Priorities : q # "HIGH" => InLine(bus', q) = InLine(bus, q)
      /\ InLine(bus', "HIGH") = IF Full(bus, "HIGH") THEN InLine(bus, "HIGH")
                                                     ELSE InLine(bus, "HIGH") \ {w}
  BY <1>1, <1>2, ResumedSound DEF Inv
<1>4. CASE Full(bus, "HIGH")
  <2>1. worker' = worker /\ fate' = fate /\ inFlight' = inFlight
    BY <1>4 DEF DlqResumes
  <2>2. \A t \in Tasks : Suspended(t)' <=> Suspended(t)
    BY <1>1, <2>1 DEF Suspended
  <2>3. PuttersExact'  BY <1>3, <1>4, <2>2, LinesKept DEF Inv
  <2>4. TypeOK'  BY <1>1, <1>3, <2>1 DEF Inv, TypeOK, Sound
  <2>5. InFlightExact' /\ WorkersAndLife'
    BY <1>1, <2>1 DEF Inv, InFlightExact, Running, IsBusy, WorkersAndLife
  <2> QED  BY <1>3, <2>3, <2>4, <2>5 DEF Inv
<1>5. CASE ~Full(bus, "HIGH")
  <2>1. SubDone(w) /\ fate' = FateAfterSub(w, fate)  BY <1>5 DEF DlqResumes
  <2>2. /\ worker' \in [Workers -> WorkerStates] /\ inFlight' \in Int
        /\ InFlightExact' /\ WorkersAndLife'
        /\ ~Suspended(w)'
        /\ \A t \in Tasks : t # w => (Suspended(t)' <=> Suspended(t))
    BY <1>1, <2>1, SubDoneStep DEF IsBusy
  <2>3. PuttersExact'
    BY <1>2, <1>3, <1>5, <2>2, LineChanged DEF Inv
  <2>4. fate' \in [Events -> {"none", "running", "done", "dropped", "cut"}]
    BY <2>1 DEF FateAfterSub, Inv, TypeOK
  <2>5. TypeOK'  BY <1>1, <1>3, <2>2, <2>4 DEF Inv, TypeOK, Sound
  <2> QED  BY <1>3, <2>2, <2>3, <2>5 DEF Inv
<1> QED  BY <1>4, <1>5

\* The cancellation of a worker, wherever it waits, preserves the invariant.
LEMMA CancelInv ==
  ASSUME Inv, NEW w \in Workers, Cancel(w) PROVE Inv'
<1>1. /\ worker' = [worker EXCEPT ![w] = At("exited")]
      /\ pub' = pub /\ life' = life /\ dropped' = dropped
      /\ inFlight' = IF IsBusy(worker[w]) THEN inFlight - 1 ELSE inFlight
      /\ bus' = IF worker[w].pc = "dlq" THEN CancelledPut(bus, w) ELSE bus
      /\ life.started
  BY DEF Cancel, Inv, WorkersAndLife
<1>2. At("exited") \in WorkerStates /\ At("exited").pc = "exited" /\ ~IsBusy(At("exited"))
  BY AtFacts
<1>3. /\ worker' \in [Workers -> WorkerStates]
      /\ WorkersAndLife'
      /\ w \in Tasks /\ EnvelopeOf(w) = Dlq /\ PrioOf(Dlq) = "HIGH"
      /\ Suspended(w) <=> worker[w].pc = "dlq"
      /\ ~Suspended(w)'
      /\ \A t \in Tasks : t # w => (Suspended(t)' <=> Suspended(t))
  BY <1>1, <1>2, WorkerStep
<1>4. InFlightExact'
  BY <1>1, <1>2, RunningStep DEF Inv
<1>5. Sound(bus') /\ PuttersExact'
  <2>1. CASE worker[w].pc = "dlq"
    <3>1. "HIGH" \in Priorities  BY DEF Priorities
    <3>2. w \in InLine(bus, "HIGH")
      BY <1>3, <2>1, <3>1 DEF Inv, PuttersExact
    <3>3. /\ Sound(bus')
          /\ \A q \in Priorities : q # "HIGH" => InLine(bus', q) = InLine(bus, q)
          /\ InLine(bus', "HIGH") = InLine(bus, "HIGH") \ {w}
      BY <1>1, <1>3, <2>1, <3>2, CancelledSound DEF Inv
    <3> QED  BY <1>3, <3>3, LineChanged DEF Inv
  <2>2. CASE worker[w].pc # "dlq"
    <3>1. bus' = bus /\ Sound(bus')  BY <1>1, <2>2 DEF Inv
    <3>2. \A t \in Tasks : Suspended(t)' <=> Suspended(t)  BY <1>3, <2>2
    <3> QED  BY <3>1, <3>2, LinesKept DEF Inv
  <2> QED  BY <2>1, <2>2
<1>6. inFlight' \in Int /\ fate' \in [Events -> {"none", "running", "done", "dropped", "cut"}]
  BY <1>1 DEF Cancel, Inv, TypeOK
<1>7. TypeOK'  BY <1>1, <1>3, <1>5, <1>6 DEF Inv, TypeOK, Sound
<1> QED  BY <1>3, <1>4, <1>5, <1>7 DEF Inv

\* A step of close() that moves no line and no worker.
LEMMA CloserStep ==
  ASSUME Inv, Sound(bus'), SameLines(bus, bus'),
         UNCHANGED <<worker, pub, fate, inFlight>>, dropped' \in Nat,
         life' \in [started : BOOLEAN, closing : BOOLEAN, stopping : BOOLEAN,
                    closer : {"none", "draining", "joining", "cancelling", "closed"},
                    pending : Nat, starts : Nat],
         life'.started = life.started,
         life'.closer \in {"joining", "cancelling"} => life.started
  PROVE  Inv'
<1>1. TypeOK'  BY DEF Inv, TypeOK, Sound
<1>2. \A t \in Tasks : Suspended(t)' <=> Suspended(t)  BY DEF Suspended
<1>3. PuttersExact'  BY <1>2, LinesKept DEF Inv, SameLines
<1>4. InFlightExact' /\ WorkersAndLife'
  BY DEF Inv, InFlightExact, Running, IsBusy, WorkersAndLife
<1> QED  BY <1>1, <1>3, <1>4 DEF Inv

\* The beginning of close() preserves the invariant.
LEMMA CloseBeginInv ==
  ASSUME Inv, CloseBegin PROVE Inv'
<1>1. Sound(bus') /\ SameLines(bus, bus')  BY DEF Inv, CloseBegin, SameLines
<1> QED  BY <1>1, CloserStep DEF CloseBegin, Inv, TypeOK

\* Setting _stopping and releasing a permit per worker preserves the invariant.
LEMMA StopWorkersStep ==
  ASSUME Inv, NEW b, Sound(b), SameLines(bus, b), NEW n \in Nat, StopWorkers(b, n),
         UNCHANGED <<worker, pub, fate, inFlight>>, dropped' \in Nat
  PROVE  Inv'
<1>1. b.permits \in Nat /\ TotalQueued(b) \in Nat /\ b.permits >= TotalQueued(b)
  BY TotalFacts
<1>2. Cardinality(Workers) \in Nat  BY WorkersAssumption, FS_CardinalityType
<1>3. b.permits + Cardinality(Workers) \in Nat
      /\ b.permits + Cardinality(Workers) >= TotalQueued(b)
  BY <1>1, <1>2
<1>4. bus' = [b EXCEPT !.permits = b.permits + Cardinality(Workers)]  BY DEF StopWorkers
<1>5. Sound(bus') /\ SameLines(b, bus')  BY <1>3, <1>4, PermitsSound
<1>6. SameLines(bus, bus')  BY <1>5 DEF SameLines
<1>7. /\ life' \in [started : BOOLEAN, closing : BOOLEAN, stopping : BOOLEAN,
                    closer : {"none", "draining", "joining", "cancelling", "closed"},
                    pending : Nat, starts : Nat]
      /\ life'.started = life.started
      /\ life'.closer \in {"joining", "cancelling"} => life.started
  BY DEF StopWorkers, Inv, TypeOK
<1> QED  BY <1>5, <1>6, <1>7, CloserStep

\* Both ends of the drain of close() preserve the invariant.
LEMMA DrainInv ==
  ASSUME Inv, DrainDone \/ DrainTimeout PROVE Inv'
<1>1. CASE DrainDone
  <2>1. SameLines(bus, bus)  BY DEF SameLines
  <2>2. dropped' \in Nat  BY <1>1 DEF DrainDone, Inv, TypeOK
  <2> QED  BY <1>1, <2>1, <2>2, StopWorkersStep DEF DrainDone, Inv
<1>2. CASE DrainTimeout
  <2>1. Sound(PublishMeta(bus)) /\ SameLines(bus, PublishMeta(bus))  BY MetaSound DEF Inv
  <2>2. TotalQueued(bus) \in Nat  BY TotalFacts DEF Inv
  <2>3. dropped' \in Nat  BY <1>2, <2>2 DEF DrainTimeout, Inv, TypeOK
  <2> QED  BY <1>2, <2>1, <2>2, <2>3, StopWorkersStep DEF DrainTimeout
<1> QED  BY <1>1, <1>2

\* The second deadline of close() preserves the invariant.
LEMMA JoinTimeoutInv ==
  ASSUME Inv, JoinTimeout PROVE Inv'
<1>1. Sound(bus') /\ SameLines(bus, bus')  BY DEF Inv, JoinTimeout, SameLines
<1>2. life.started  BY DEF Inv, WorkersAndLife, JoinTimeout
<1> QED  BY <1>1, <1>2, CloserStep DEF JoinTimeout, Inv, TypeOK

\* The end of the worker pool preserves the invariant.
LEMMA JoinDoneInv ==
  ASSUME Inv, JoinDone PROVE Inv'
<1>1. \A w \in Workers : worker[w].pc = "exited" /\ worker'[w].pc = "none"
  BY AtFacts DEF JoinDone
<1>2. TypeOK'  BY AtFacts DEF Inv, TypeOK, JoinDone
<1>3. Sound(bus') /\ bus' = bus  BY DEF Inv, JoinDone
<1>4. \A t \in Tasks : Suspended(t)' <=> Suspended(t)
  BY <1>1 DEF Suspended, JoinDone
<1>5. PuttersExact'  BY <1>3, <1>4, LinesKept DEF Inv
<1>6. InFlightExact'
  <2>1. Running' = Running  BY <1>1 DEF Running, IsBusy
  <2> QED  BY <2>1 DEF Inv, InFlightExact, JoinDone
<1>7. WorkersAndLife'  BY <1>1 DEF Inv, TypeOK, WorkersAndLife, JoinDone
<1> QED  BY <1>2, <1>3, <1>5, <1>6, <1>7 DEF Inv

------------------------------------------------------------------------------
(* Theorems.                                                               *)

\* Inv holds in every state of every behaviour: publish, dispatch, retry, on_dlq,
\* cancellation, close() and restarts all preserve it.
THEOREM Invariance == Spec => []Inv
<1>1. Inv /\ [Next]_vars => Inv'
  <2> SUFFICES ASSUME Inv, [Next]_vars PROVE Inv'
    OBVIOUS
  <2>1. CASE Start  BY <2>1, StartInv
  <2>2. ASSUME NEW e \in Events,
               PublishClosed(e) \/ Publish(e) \/ PublishResumes(e) \/ PublishCancelled(e)
        PROVE  Inv'
    BY <2>2, PublishClosedInv, PublishInv, PublishResumesInv, PublishCancelledInv
  <2>3. ASSUME NEW w \in Workers,
               \/ AcquireNothing(w) \/ AcquireEnvelope(w) \/ HandlerOk(w)
               \/ HandlerRetry(w) \/ MetaExhausted(w) \/ HandlerExhausted(w)
               \/ DlqResumes(w) \/ Cancel(w)
        PROVE  Inv'
    BY <2>3, AcquireNothingInv, AcquireEnvelopeInv, HandlerOkInv, HandlerRetryInv,
       MetaExhaustedInv, HandlerExhaustedInv, DlqResumesInv, CancelInv
  <2>4. CASE CloseBegin  BY <2>4, CloseBeginInv
  <2>5. CASE DrainDone \/ DrainTimeout  BY <2>5, DrainInv
  <2>6. CASE JoinTimeout  BY <2>6, JoinTimeoutInv
  <2>7. CASE JoinDone  BY <2>7, JoinDoneInv
  <2>8. CASE UNCHANGED vars
    BY <2>8 DEF vars, Inv, TypeOK, Sound, PuttersExact, LineIsSimple, InLine, Suspended,
       InFlightExact, Running, IsBusy, WorkersAndLife
  <2> QED  BY <2>1, <2>2, <2>3, <2>4, <2>5, <2>6, <2>7, <2>8 DEF Next
<1> QED  BY InitInv, <1>1, PTL DEF Spec

\* Queues, semaphore, putters, workers and the life cycle keep their types; the
\* attempt of an invocation never exceeds retry_attempts.
THEOREM TypeCorrect == Spec => []TypeOK
BY Invariance, PTL DEF Inv

\* No worker sleeps through a queued envelope: permits cover the queues.
THEOREM NoLostWorkerWakeup == Spec => []PermitsCoverQueued
<1>1. Inv => PermitsCoverQueued  BY DEF Inv, Sound, Covered, PermitsCoverQueued
<1> QED  BY Invariance, <1>1, PTL

\* queue_size is never exceeded, by a resumed put either.
THEOREM QueuesBounded == Spec => []QueueBounded
<1>1. Inv => QueueBounded  BY DEF Inv, Sound, Bounded, QueueBounded
<1> QED  BY Invariance, <1>1, PTL

\* No publisher sleeps while a slot of its queue is free and unclaimed.
THEOREM NoLostPublisherWakeup == Spec => []FreeSlotsAreClaimed
<1>1. Inv => FreeSlotsAreClaimed  BY DEF Inv, Sound, Claimed, FreeSlotsAreClaimed
<1> QED  BY Invariance, <1>1, PTL

\* The line of putters of a queue is exactly the set of suspended puts.
THEOREM PuttersAreExact == Spec => []PuttersExact
<1>1. Inv => PuttersExact  BY DEF Inv
<1> QED  BY Invariance, <1>1, PTL

\* _in_flight is exact, so _drain() never misses a dispatch in progress.
THEOREM InFlightIsExact == Spec => []InFlightExact
<1>1. Inv => InFlightExact  BY DEF Inv
<1> QED  BY Invariance, <1>1, PTL

------------------------------------------------------------------------------
(***************************************************************************)
(* Places: every accepted envelope is in exactly one, and a close() that   *)
(* drains abandons nothing.                                                *)
(*                                                                         *)
(* The queues are treated first: what each operator on the bus does to     *)
(* what they hold.  An action then moves one envelope between a queue, a   *)
(* worker and its fate.                                                    *)
(***************************************************************************)

------------------------------------------------------------------------------
(* What the queues hold.                                                   *)

\* Every envelope is in the queue of its priority.
Homed(q) == \A p \in Priorities : \A i \in 1..Len(q[p]) : PrioOf(q[p][i]) = p

\* No application envelope is in a queue twice.
Apart(q) ==
  \A p \in Priorities : \A i, j \in 1..Len(q[p]) :
    q[p][i] \in Events /\ q[p][i] = q[p][j] => i = j

Tidy(q) == q \in [Priorities -> Seq(Envelopes)] /\ Homed(q) /\ Apart(q)

Holds(q, e) == \E i \in 1..Len(q[PrioOf(e)]) : q[PrioOf(e)][i] = e

\* Every envelope has a priority.
LEMMA PrioFacts ==
  ASSUME NEW e \in Envelopes PROVE PrioOf(e) \in Priorities
BY TopicsAssumption DEF PrioOf, Envelopes, Priorities

\* An envelope put at the back of its queue.
LEMMA Appended ==
  ASSUME NEW q, Tidy(q), NEW e \in Envelopes, e \in Events => ~Holds(q, e),
         NEW c, c = [q EXCEPT ![PrioOf(e)] = Append(@, e)]
  PROVE  Tidy(c) /\ \A x \in Events : Holds(c, x) <=> Holds(q, x) \/ x = e
<1>1. PICK p \in Priorities : p = PrioOf(e)
  BY PrioFacts
<1>2. PICK s \in Seq(Envelopes) : s = q[p]
  BY DEF Tidy
<1>3. PICK t : t = Append(s, e)
  OBVIOUS
<1>4. /\ t \in Seq(Envelopes) /\ Len(t) = Len(s) + 1 /\ Len(s) \in Nat
      /\ t[Len(s) + 1] = e /\ \A i \in 1..Len(s) : t[i] = s[i]
  BY <1>3
<1>5. /\ c \in [Priorities -> Seq(Envelopes)] /\ c[p] = t
      /\ \A r \in Priorities : r # p => c[r] = q[r]
  BY <1>1, <1>2, <1>3, <1>4 DEF Tidy
<1>6. Homed(c)
  <2> SUFFICES ASSUME NEW r \in Priorities, NEW i \in 1..Len(c[r]) PROVE PrioOf(c[r][i]) = r
    BY DEF Homed
  <2>1. CASE r = p /\ i \in 1..Len(s)
    BY <1>2, <1>4, <1>5, <2>1 DEF Tidy, Homed
  <2>2. CASE r = p /\ i = Len(s) + 1
    BY <1>1, <1>4, <1>5, <2>2
  <2>3. CASE r # p
    BY <1>5, <2>3 DEF Tidy, Homed
  <2>4. r = p => i \in 1..Len(s) \/ i = Len(s) + 1
    BY <1>4, <1>5
  <2> QED  BY <2>1, <2>2, <2>3, <2>4
<1>7. e \in Events => \A i \in 1..Len(s) : s[i] # e
  BY <1>1, <1>2 DEF Holds
<1>8. Apart(c)
  <2> SUFFICES ASSUME NEW r \in Priorities, NEW i \in 1..Len(c[r]), NEW j \in 1..Len(c[r]),
                      c[r][i] \in Events, c[r][i] = c[r][j]
               PROVE  i = j
    BY DEF Apart
  <2>1. CASE r # p
    BY <1>5, <2>1 DEF Tidy, Apart
  <2>2. CASE r = p
    <3>0. c[r] = t
      BY <1>5, <2>2
    <3>1. /\ i \in 1..Len(s) \/ i = Len(s) + 1
          /\ j \in 1..Len(s) \/ j = Len(s) + 1
          /\ t[i] \in Events /\ t[i] = t[j]
      BY <1>4, <3>0
    <3>2. \A k, l \in 1..Len(s) : s[k] \in Events /\ s[k] = s[l] => k = l
      BY <1>2 DEF Tidy, Apart
    <3> QED  BY <1>4, <1>7, <3>1, <3>2
  <2> QED  BY <2>1, <2>2
<1>9. ASSUME NEW x \in Events PROVE Holds(c, x) <=> Holds(q, x) \/ x = e
  <2>1. PrioOf(x) \in Priorities
    BY PrioFacts DEF Envelopes
  <2>2. CASE PrioOf(x) # p
    BY <1>1, <1>5, <2>1, <2>2 DEF Holds
  <2>3. CASE PrioOf(x) = p
    <3>1. Holds(c, x) <=> \E i \in 1..Len(t) : t[i] = x
      BY <1>5, <2>3 DEF Holds
    <3>2. Holds(q, x) <=> \E i \in 1..Len(s) : s[i] = x
      BY <1>2, <2>3 DEF Holds
    <3>3. 1..Len(t) = 1..Len(s) \cup {Len(s) + 1}
      BY <1>4
    <3> QED  BY <1>4, <3>1, <3>2, <3>3
  <2> QED  BY <2>2, <2>3
<1> QED  BY <1>5, <1>6, <1>8, <1>9 DEF Tidy

\* The envelope at the front of a queue leaves it.
LEMMA Taken ==
  ASSUME NEW q, Tidy(q), NEW p \in Priorities, q[p] # << >>,
         NEW c, c = [q EXCEPT ![p] = Tail(@)]
  PROVE  /\ Tidy(c)
         /\ Head(q[p]) \in Envelopes /\ PrioOf(Head(q[p])) = p /\ Holds(q, Head(q[p]))
         /\ \A x \in Events : Holds(c, x) <=> Holds(q, x) /\ x # Head(q[p])
<1>2. PICK s \in Seq(Envelopes) : s = q[p]
  BY DEF Tidy
<1>3. PICK t : t = Tail(s)
  OBVIOUS
<1>4. /\ t \in Seq(Envelopes) /\ Len(t) = Len(s) - 1 /\ Len(s) \in Nat /\ Len(s) > 0
      /\ Head(s) = s[1] /\ 1 \in 1..Len(s) /\ s[1] \in Envelopes
      /\ \A i \in 1..Len(t) : t[i] = s[i + 1]
  BY <1>2, <1>3
<1>5. /\ c \in [Priorities -> Seq(Envelopes)] /\ c[p] = t
      /\ \A r \in Priorities : r # p => c[r] = q[r]
  BY <1>2, <1>3, <1>4 DEF Tidy
<1>6. /\ \A i \in 1..Len(s) : PrioOf(s[i]) = p
      /\ \A k, l \in 1..Len(s) : s[k] \in Events /\ s[k] = s[l] => k = l
  BY <1>2 DEF Tidy, Homed, Apart
<1>7. \A i \in 1..Len(t) : i + 1 \in 1..Len(s)
  BY <1>4
<1>8. Homed(c)
  <2> SUFFICES ASSUME NEW r \in Priorities, NEW i \in 1..Len(c[r]) PROVE PrioOf(c[r][i]) = r
    BY DEF Homed
  <2>1. CASE r = p
    <3>1. c[r] = t
      BY <1>5, <2>1
    <3>2. i \in 1..Len(t) /\ i + 1 \in 1..Len(s) /\ t[i] = s[i + 1]
      BY <1>4, <1>7, <3>1
    <3> QED  BY <1>6, <2>1, <3>1, <3>2
  <2>2. CASE r # p
    BY <1>5, <2>2 DEF Tidy, Homed
  <2> QED  BY <2>1, <2>2
<1>9. Apart(c)
  <2> SUFFICES ASSUME NEW r \in Priorities, NEW i \in 1..Len(c[r]), NEW j \in 1..Len(c[r]),
                      c[r][i] \in Events, c[r][i] = c[r][j]
               PROVE  i = j
    BY DEF Apart
  <2>1. CASE r # p
    BY <1>5, <2>1 DEF Tidy, Apart
  <2>2. CASE r = p
    <3>1. c[r] = t
      BY <1>5, <2>2
    <3>2. i \in 1..Len(t) /\ j \in 1..Len(t) /\ t[i] \in Events /\ t[i] = t[j]
      BY <3>1
    <3>3. /\ i + 1 \in 1..Len(s) /\ j + 1 \in 1..Len(s)
          /\ s[i + 1] \in Events /\ s[i + 1] = s[j + 1]
      BY <1>4, <1>7, <3>2
    <3>4. i + 1 = j + 1
      BY <1>6, <3>3
    <3> QED  BY <1>4, <3>2, <3>4
  <2> QED  BY <2>1, <2>2
<1>10. PrioOf(s[1]) = p /\ Holds(q, s[1])
  BY <1>2, <1>4, <1>6 DEF Holds
<1>11. ASSUME NEW x \in Events PROVE Holds(c, x) <=> Holds(q, x) /\ x # s[1]
  <2>1. PrioOf(x) \in Priorities
    BY PrioFacts DEF Envelopes
  <2>2. CASE PrioOf(x) # p
    BY <1>5, <1>10, <2>1, <2>2 DEF Holds
  <2>3. CASE PrioOf(x) = p
    <3>1. Holds(c, x) <=> \E i \in 1..Len(t) : t[i] = x
      BY <1>5, <2>3 DEF Holds
    <3>2. Holds(q, x) <=> \E i \in 1..Len(s) : s[i] = x
      BY <1>2, <2>3 DEF Holds
    <3>3. ASSUME NEW i \in 1..Len(t), t[i] = x PROVE i + 1 \in 1..Len(s) /\ s[i + 1] = x /\ x # s[1]
      <4>1. i + 1 # 1
        BY <1>4
      <4> QED  BY <1>4, <1>6, <1>7, <3>3, <4>1
    <3>4. ASSUME NEW i \in 1..Len(s), s[i] = x, x # s[1] PROVE i - 1 \in 1..Len(t) /\ t[i - 1] = x
      <4>1. i - 1 \in 1..Len(t) /\ (i - 1) + 1 = i
        BY <1>4, <3>4
      <4> QED  BY <1>4, <3>4, <4>1
    <3> QED  BY <3>1, <3>2, <3>3, <3>4
  <2> QED  BY <2>2, <2>3
<1> QED  BY <1>2, <1>4, <1>5, <1>8, <1>9, <1>10, <1>11 DEF Tidy

------------------------------------------------------------------------------
(* What the operators on bus do to it.                                     *)

\* put_nowait.
LEMMA PutTidy ==
  ASSUME NEW b \in BusType, Tidy(b.queue), NEW e \in Envelopes, e \in Events => ~Holds(b.queue, e),
         NEW p, p = PrioOf(e)
  PROVE  /\ Tidy(Put(b, p, e).queue)
         /\ \A x \in Events : Holds(Put(b, p, e).queue, x) <=> Holds(b.queue, x) \/ x = e
<1>1. p \in Priorities
  BY PrioFacts
<1>2. Put(b, p, e).queue = [b.queue EXCEPT ![PrioOf(e)] = Append(@, e)]
  BY <1>1, PutUpdate
<1> QED  BY <1>2, Appended

\* Waking a putter leaves the queues alone.
LEMMA WakeKeeps ==
  ASSUME NEW b \in BusType, NEW p \in Priorities
  PROVE  WakeNext(b, p) \in BusType /\ WakeNext(b, p).queue = b.queue
<1>1. CASE b.putters[p] = << >>
  BY <1>1 DEF WakeNext
<1>2. CASE b.putters[p] # << >>
  BY <1>2, WakeUpdate
<1> QED  BY <1>1, <1>2

\* get_nowait.
LEMMA GetTidy ==
  ASSUME NEW b \in BusType, Tidy(b.queue), NEW p \in Priorities, b.queue[p] # << >>
  PROVE  /\ Get(b, p) \in BusType /\ Tidy(Get(b, p).queue)
         /\ Head(b.queue[p]) \in Envelopes /\ PrioOf(Head(b.queue[p])) = p
         /\ Holds(b.queue, Head(b.queue[p]))
         /\ \A x \in Events : Holds(Get(b, p).queue, x) <=> Holds(b.queue, x) /\ x # Head(b.queue[p])
<1>1. PICK a : a = [b EXCEPT !.queue[p] = Tail(b.queue[p])]
  OBVIOUS
<1>2. Tail(b.queue[p]) \in Seq(Envelopes)
  BY DEF BusType
<1>3. a \in BusType /\ a.queue = [b.queue EXCEPT ![p] = Tail(@)]
  BY <1>1, <1>2, QueueUpdate
<1>4. Get(b, p) = WakeNext(a, p)
  BY <1>1 DEF Get
<1>5. Get(b, p) \in BusType /\ Get(b, p).queue = [b.queue EXCEPT ![p] = Tail(@)]
  BY <1>3, <1>4, WakeKeeps
<1> QED  BY <1>5, Taken

\* A meta-event is no application envelope.
LEMMA MetaTidy ==
  ASSUME NEW b \in BusType, Tidy(b.queue)
  PROVE  /\ PublishMeta(b) \in BusType /\ Tidy(PublishMeta(b).queue)
         /\ \A x \in Events : Holds(PublishMeta(b).queue, x) <=> Holds(b.queue, x)
<1>1. Meta \in Envelopes /\ PrioOf(Meta) = "HIGH" /\ Meta \notin Events /\ "HIGH" \in Priorities
  BY EnvelopesAssumption DEF Envelopes, PrioOf, Priorities
<1>2. CASE Full(b, "HIGH")
  BY <1>2 DEF PublishMeta
<1>3. CASE ~Full(b, "HIGH")
  <2>1. PublishMeta(b) = Put(b, "HIGH", Meta)
    BY <1>3 DEF PublishMeta
  <2>2. PublishMeta(b) \in BusType
    <3>1. Put(b, "HIGH", Meta) \in BusType
      BY <1>1, PutUpdate
    <3> QED  BY <2>1, <3>1
  <2>3. Tidy(PublishMeta(b).queue)
        /\ \A x \in Events : Holds(PublishMeta(b).queue, x) <=> Holds(b.queue, x) \/ x = Meta
    BY <1>1, <2>1, PutTidy
  <2> QED  BY <1>1, <2>2, <2>3
<1> QED  BY <1>2, <1>3

\* _enqueue_local: the envelope joins its queue unless it is rejected or has to
\* wait, and drop_oldest takes the oldest out.
LEMMA EnqueueTidy ==
  ASSUME NEW b, Sound(b), Tidy(b.queue), NEW t \in Tasks, NEW e, e = EnvelopeOf(t),
         e \in Events => ~Holds(b.queue, e), NEW v, v = Verdict(b, e),
         NEW h, h = Head(b.queue[PrioOf(e)])
  PROVE  /\ Tidy(EnqueueLocal(b, t).queue)
         /\ v \in {"put", "drop_oldest", "reject", "block"}
         /\ v = "drop_oldest" => Holds(b.queue, h)
         /\ \A x \in Events :
              Holds(EnqueueLocal(b, t).queue, x)
                <=> \/ Holds(b.queue, x) /\ ~(v = "drop_oldest" /\ x = h)
                    \/ v \in {"put", "drop_oldest"} /\ x = e
<1>1. PICK p \in Priorities : p = PrioOf(e)
  BY TaskFacts
<1>2. b \in BusType /\ e \in Envelopes
  BY TaskFacts DEF Sound
<1>3. PICK m : m = PublishMeta(b)
  OBVIOUS
<1>4. /\ m \in BusType /\ Tidy(m.queue)
      /\ \A x \in Events : Holds(m.queue, x) <=> Holds(b.queue, x)
  BY <1>2, <1>3, MetaTidy
<1>5. v \in {"put", "drop_oldest", "reject", "block"} /\ (v # "put" => Full(b, p))
  <2>1. e \in Events \cup {Dlq}
    BY TaskFacts
  <2> QED  BY <1>1, <2>1, TopicsAssumption DEF Verdict, Policies
<1>6. CASE v = "put"
  <2>1. EnqueueLocal(b, t) = Put(b, p, e)
    BY <1>1, <1>6 DEF EnqueueLocal
  <2> QED  BY <1>1, <1>2, <1>6, <2>1, PutTidy
<1>7. CASE v = "reject"
  <2>1. EnqueueLocal(b, t) = m
    BY <1>3, <1>7 DEF EnqueueLocal
  <2> QED  BY <1>4, <1>7, <2>1
<1>8. CASE v = "drop_oldest"
  <2>1. EnqueueLocal(b, t) = Put(Get(m, p), p, e)
    BY <1>1, <1>3, <1>8 DEF EnqueueLocal
  <2>2. b.queue[p] # << >> /\ m.queue[p] = b.queue[p]
    BY <1>3, <1>5, <1>8, FullFacts
  <2>3. PICK g : g = Get(m, p)
    OBVIOUS
  <2>4. /\ g \in BusType /\ Tidy(g.queue) /\ Holds(m.queue, h)
        /\ \A x \in Events : Holds(g.queue, x) <=> Holds(m.queue, x) /\ x # h
    BY <1>1, <1>4, <2>2, <2>3, GetTidy
  <2>5. Holds(b.queue, h)
    <3>1. h = b.queue[p][1] /\ 1 \in 1..Len(b.queue[p])
      BY <1>1, <1>2, <2>2 DEF BusType
    <3>2. PrioOf(h) = p
      BY <3>1 DEF Tidy, Homed
    <3> QED  BY <3>1, <3>2 DEF Holds
  <2>6. e \in Events => ~Holds(g.queue, e)
    BY <1>4, <2>4
  <2>7. Tidy(EnqueueLocal(b, t).queue)
        /\ \A x \in Events : Holds(EnqueueLocal(b, t).queue, x) <=> Holds(g.queue, x) \/ x = e
    BY <1>1, <1>2, <2>1, <2>3, <2>4, <2>6, PutTidy
  <2> QED  BY <1>4, <1>8, <2>4, <2>5, <2>7
<1>9. CASE v = "block"
  <2>1. EnqueueLocal(b, t) = [m EXCEPT !.putters[p] = Append(@, t)]
    BY <1>1, <1>3, <1>9 DEF EnqueueLocal
  <2>2. EnqueueLocal(b, t).queue = m.queue
    <3>1. Append(m.putters[p], t) \in Seq(Tasks)
      BY <1>4 DEF BusType
    <3> QED  BY <1>4, <2>1, <3>1, PuttersUpdate
  <2> QED  BY <1>4, <1>9, <2>2
<1> QED  BY <1>5, <1>6, <1>7, <1>8, <1>9

\* A resumed put finds room or waits again.
LEMMA ResumedTidy ==
  ASSUME NEW b, Sound(b), Tidy(b.queue), NEW t \in Tasks, NEW e, e = EnvelopeOf(t),
         e \in Events => ~Holds(b.queue, e)
  PROVE  /\ Tidy(ResumedPut(b, t).queue)
         /\ \A x \in Events :
              Holds(ResumedPut(b, t).queue, x)
                <=> Holds(b.queue, x) \/ (~Full(b, PrioOf(e)) /\ x = e)
<1>1. PICK p \in Priorities : p = PrioOf(e)
  BY TaskFacts
<1>2. b \in BusType /\ e \in Envelopes
  BY TaskFacts DEF Sound
<1>3. PICK r : r = [b EXCEPT !.woken[p] = @ \ {t}]
  OBVIOUS
<1>4. r \in BusType /\ r.queue = b.queue
  <2>1. b.woken[p] \ {t} \in SUBSET Tasks
    BY <1>2 DEF BusType
  <2> QED  BY <1>2, <1>3, <2>1, WokenUpdate
<1>5. CASE Full(b, p)
  <2>1. ResumedPut(b, t) = [r EXCEPT !.putters[p] = Append(@, t)]
    BY <1>1, <1>3, <1>5 DEF ResumedPut
  <2>2. Append(r.putters[p], t) \in Seq(Tasks)
    BY <1>4 DEF BusType
  <2>3. ResumedPut(b, t).queue = b.queue
    BY <1>4, <2>1, <2>2, PuttersUpdate
  <2> QED  BY <1>1, <1>5, <2>3
<1>6. CASE ~Full(b, p)
  <2>1. ResumedPut(b, t) = Put(r, p, e)
    BY <1>1, <1>3, <1>6 DEF ResumedPut
  <2> QED  BY <1>1, <1>2, <1>4, <1>6, <2>1, PutTidy
<1> QED  BY <1>5, <1>6

\* A cancelled put leaves the queues alone.
LEMMA CancelledKeeps ==
  ASSUME NEW b, Sound(b), NEW t \in Tasks, t \in InLine(b, PrioOf(EnvelopeOf(t)))
  PROVE  CancelledPut(b, t).queue = b.queue
<1>1. PICK p \in Priorities : p = PrioOf(EnvelopeOf(t))
  BY TaskFacts
<1>2. b \in BusType
  BY DEF Sound
<1>3. CASE t \in b.woken[p]
  <2>1. PICK r : r = [b EXCEPT !.woken[p] = @ \ {t}]
    OBVIOUS
  <2>2. b.woken[p] \ {t} \in SUBSET Tasks
    BY <1>2 DEF BusType
  <2>3. r \in BusType /\ r.queue = b.queue
    BY <1>2, <2>1, <2>2, WokenUpdate
  <2>4. CancelledPut(b, t) = IF Full(b, p) THEN r ELSE WakeNext(r, p)
    BY <1>1, <1>3, <2>1 DEF CancelledPut
  <2> QED  BY <2>3, <2>4, WakeKeeps
<1>4. CASE t \notin b.woken[p]
  <2>1. PICK i : i = CHOOSE j \in 1..Len(b.putters[p]) : b.putters[p][j] = t
    OBVIOUS
  <2>2. i \in 1..Len(b.putters[p])
    BY <1>1, <1>4, <2>1 DEF InLine
  <2>3. CancelledPut(b, t) = [b EXCEPT !.putters[p] = Without(b.putters[p], i)]
    BY <1>1, <1>4, <2>1 DEF CancelledPut
  <2>4. Without(b.putters[p], i) \in Seq(Tasks)
    <3>1. b.putters[p] \in Seq(Tasks) /\ LineIsSimple(b, p)
      BY <1>2 DEF BusType, Sound
    <3> QED  BY <2>2, <3>1, WithoutFacts DEF LineIsSimple
  <2> QED  BY <1>2, <2>3, <2>4, PuttersUpdate
<1> QED  BY <1>3, <1>4

------------------------------------------------------------------------------
(* The inductive invariant, on top of Inv.                                 *)

\* The queues hold the accepted envelopes that nobody has taken yet.
QueuedExact ==
  \A e \in Events : /\ Holds(bus.queue, e) <=> pub[e] = "accepted" /\ fate[e] = "none"
                    /\ fate[e] # "none" => pub[e] = "accepted"

\* The workers have the running ones in hand, each its own.
HandsExact ==
  /\ \A e \in Events : fate[e] = "running" <=> \E w \in Workers : worker[w].at.env = e
  /\ \A v, w \in Workers :
       worker[v].at.env \in Events /\ worker[v].at.env = worker[w].at.env => v = w

SubsInRange ==
  \A w \in Workers :
    IsBusy(worker[w]) => worker[w].at.sub \in 1..SubCount[worker[w].at.env]

Placed == Tidy(bus.queue) /\ QueuedExact /\ HandsExact /\ SubsInRange

\* What a worker that is not busy has in hand.
LEMMA FreeHands ==
  ASSUME NEW r \in WorkerStates
  PROVE  /\ ~IsBusy(r) => r.at.env = None
         /\ None \notin Events
         /\ IsBusy(r) => r.at.env \in Envelopes /\ r.at.sub \in Nat
<1>1. None \notin Events
  BY EnvelopesAssumption DEF Envelopes
<1>2. ~IsBusy(r) => r.at.env = None
  BY DEF WorkerStates, IsBusy, At, NoDispatch
<1> QED  BY <1>1, <1>2, BusyFacts

\* One worker takes, keeps or lets go of an envelope.
LEMMA HandsChange ==
  ASSUME TypeOK, HandsExact, NEW w \in Workers, NEW r, worker' = [worker EXCEPT ![w] = r],
         \A x \in Events : fate'[x] = "running"
                             <=> (fate[x] = "running" /\ x # worker[w].at.env) \/ x = r.at.env,
         r.at.env \in Events => r.at.env = worker[w].at.env \/ fate[r.at.env] # "running"
  PROVE  HandsExact'
<1>1. worker'[w] = r /\ \A v \in Workers : v # w => worker'[v] = worker[v]
  BY DEF TypeOK
<1>2. ASSUME NEW x \in Events PROVE fate'[x] = "running" <=> \E v \in Workers : worker'[v].at.env = x
  BY <1>1, <1>2 DEF HandsExact
<1>3. ASSUME NEW v \in Workers, NEW u \in Workers,
             worker'[v].at.env \in Events, worker'[v].at.env = worker'[u].at.env
      PROVE  v = u
  <2>1. CASE v # w /\ u # w
    BY <1>1, <1>3, <2>1 DEF HandsExact
  <2>2. ASSUME NEW y \in Workers, y # w, r.at.env \in Events, worker[y].at.env = r.at.env PROVE FALSE
    BY <2>2 DEF HandsExact
  <2> QED  BY <1>1, <1>3, <2>1, <2>2
<1> QED  BY <1>2, <1>3 DEF HandsExact

\* No worker moves and no envelope begins or ends to run.
LEMMA HandsKept ==
  ASSUME HandsExact, SubsInRange, worker' = worker,
         \A x \in Events : fate'[x] = "running" <=> fate[x] = "running"
  PROVE  HandsExact' /\ SubsInRange'
BY DEF HandsExact, SubsInRange

\* One worker moves.
LEMMA SubsChange ==
  ASSUME TypeOK, SubsInRange, NEW w \in Workers, NEW r, worker' = [worker EXCEPT ![w] = r],
         IsBusy(r) => r.at.sub \in 1..SubCount[r.at.env]
  PROVE  SubsInRange'
<1>1. worker'[w] = r /\ \A v \in Workers : v # w => worker'[v] = worker[v]
  BY DEF TypeOK
<1> QED  BY <1>1 DEF SubsInRange

------------------------------------------------------------------------------
(* Publishers and the life cycle.                                          *)

LEMMA InitPlaced == Init => Placed
<1> SUFFICES ASSUME Init PROVE Placed
  OBVIOUS
<1>1. \A w \in Workers : worker[w] = At("none") /\ worker[w].at.env = None /\ ~IsBusy(worker[w])
  BY AtFacts DEF Init, At, NoDispatch, IsBusy
<1>2. None \notin Events
  BY EnvelopesAssumption DEF Envelopes
<1>3. bus.queue = [p \in Priorities |-> << >>] /\ \A p \in Priorities : Len(bus.queue[p]) = 0
  BY DEF Init
<1>4. Tidy(bus.queue)
  BY <1>3 DEF Tidy, Homed, Apart
<1>5. QueuedExact
  <2> SUFFICES ASSUME NEW e \in Events PROVE ~Holds(bus.queue, e) /\ pub[e] = "new" /\ fate[e] = "none"
    BY DEF QueuedExact
  <2>1. PrioOf(e) \in Priorities
    BY PrioFacts DEF Envelopes
  <2> QED  BY <1>3, <2>1 DEF Holds, Init
<1>6. HandsExact /\ SubsInRange
  BY <1>1, <1>2 DEF HandsExact, SubsInRange, Init
<1> QED  BY <1>4, <1>5, <1>6 DEF Placed

\* start() and the end of the pool: nobody has anything in hand.
LEMMA PoolPlaced ==
  ASSUME Inv, Placed, Start \/ JoinDone PROVE Placed'
<1>1. PICK pc \in {"none", "idle"} : worker' = [w \in Workers |-> At(pc)]
  BY DEF Start, JoinDone
<1>2. \A w \in Workers : worker'[w] = At(pc) /\ worker'[w].at.env = None /\ ~IsBusy(worker'[w])
  BY <1>1, AtFacts DEF At, NoDispatch
<1>3. UNCHANGED <<bus, pub, fate>>
  BY DEF Start, JoinDone
<1>4. \A w \in Workers : ~IsBusy(worker[w])
  BY DEF Start, JoinDone, Inv, WorkersAndLife, IsBusy
<1>5. \A w \in Workers : worker[w].at.env = None
  BY <1>4, FreeHands DEF Inv, TypeOK
<1>6. None \notin Events
  BY EnvelopesAssumption DEF Envelopes
<1>7. HandsExact' /\ SubsInRange'
  BY <1>2, <1>3, <1>5, <1>6 DEF Placed, HandsExact, SubsInRange
<1> QED  BY <1>3, <1>7 DEF Placed, QueuedExact

\* Steps that move no worker and decide no fate, and touch the queues only by a
\* meta-event.
LEMMA QuietPlaced ==
  ASSUME Inv, Placed, UNCHANGED <<worker, fate>>, Tidy(bus'.queue),
         \A x \in Events : Holds(bus'.queue, x) <=> Holds(bus.queue, x),
         \A x \in Events : pub'[x] = "accepted" <=> pub[x] = "accepted"
  PROVE  Placed'
<1>1. QueuedExact'
  BY DEF Placed, QueuedExact
<1> QED  BY <1>1, HandsKept DEF Placed

\* A refused or cancelled publish().
LEMMA RefusedPlaced ==
  ASSUME Inv, Placed, NEW e \in Events, PublishClosed(e) \/ PublishCancelled(e) PROVE Placed'
<1>1. UNCHANGED <<worker, fate>>
  BY DEF PublishClosed, PublishCancelled
<1>2. \A x \in Events : pub'[x] = "accepted" <=> pub[x] = "accepted"
  BY DEF PublishClosed, PublishCancelled, Inv, TypeOK
<1>3. bus'.queue = bus.queue
  <2>1. CASE PublishClosed(e)
    BY <2>1 DEF PublishClosed
  <2>2. CASE PublishCancelled(e)
    <3>1. e \in Tasks /\ EnvelopeOf(e) = e /\ PrioOf(e) \in Priorities
      BY PrioFacts, EnvelopesAssumption DEF Tasks, EnvelopeOf, Envelopes
    <3>2. Suspended(e)
      BY <2>2, EnvelopesAssumption DEF PublishCancelled, Suspended
    <3>3. e \in InLine(bus, PrioOf(EnvelopeOf(e)))
      BY <3>1, <3>2 DEF Inv, PuttersExact
    <3> QED  BY <2>2, <3>1, <3>3, CancelledKeeps DEF PublishCancelled, Inv
  <2> QED  BY <2>1, <2>2
<1> QED  BY <1>1, <1>2, <1>3, QuietPlaced DEF Placed

\* publish(): the envelope is put, or waits, or is refused; the oldest may go.
LEMMA PublishPlaced ==
  ASSUME Inv, Placed, NEW e \in Events, Publish(e) PROVE Placed'
<1>1. PICK v : v = Verdict(bus, e)
  OBVIOUS
<1>2. PICK h : h = Head(bus.queue[PrioOf(e)])
  OBVIOUS
<1>3. /\ pub[e] = "new" /\ worker' = worker
      /\ bus' = EnqueueLocal(bus, e)
      /\ pub' = [pub EXCEPT ![e] = CASE v = "reject" -> "rejected"
                                     [] v = "block"  -> "blocked"
                                     [] OTHER        -> "accepted"]
      /\ fate' = IF v = "drop_oldest" /\ h \in Events THEN [fate EXCEPT ![h] = "dropped"] ELSE fate
  BY <1>1, <1>2 DEF Publish, FateAfterEnqueue
<1>4. e \in Tasks /\ e = EnvelopeOf(e)
  BY EnvelopesAssumption DEF Tasks, EnvelopeOf
<1>5. fate[e] = "none" /\ ~Holds(bus.queue, e)
  BY <1>3 DEF Placed, QueuedExact
<1>6. /\ Tidy(bus'.queue)
      /\ v \in {"put", "drop_oldest", "reject", "block"}
      /\ v = "drop_oldest" => Holds(bus.queue, h)
      /\ \A x \in Events :
           Holds(bus'.queue, x) <=> \/ Holds(bus.queue, x) /\ ~(v = "drop_oldest" /\ x = h)
                                    \/ v \in {"put", "drop_oldest"} /\ x = e
  BY <1>1, <1>2, <1>3, <1>4, <1>5, EnqueueTidy DEF Inv, Placed
<1>7. /\ \A x \in Events : pub'[x] = IF x # e THEN pub[x] ELSE IF v = "reject" THEN "rejected"
                                    ELSE IF v = "block" THEN "blocked" ELSE "accepted"
      /\ \A x \in Events : fate'[x] = IF v = "drop_oldest" /\ x = h THEN "dropped" ELSE fate[x]
  BY <1>3 DEF Inv, TypeOK
<1>8. v = "drop_oldest" /\ h \in Events => pub[h] = "accepted" /\ fate[h] = "none"
  BY <1>6 DEF Placed, QueuedExact
<1>9. QueuedExact'
  <2> SUFFICES ASSUME NEW x \in Events
               PROVE  /\ Holds(bus'.queue, x) <=> pub'[x] = "accepted" /\ fate'[x] = "none"
                      /\ fate'[x] # "none" => pub'[x] = "accepted"
    BY DEF QueuedExact
  <2>1. CASE x = e
    BY <1>3, <1>5, <1>6, <1>7, <1>8, <2>1
  <2>2. CASE x # e
    BY <1>6, <1>7, <1>8, <2>2 DEF Placed, QueuedExact
  <2> QED  BY <2>1, <2>2
<1>10. \A x \in Events : fate'[x] = "running" <=> fate[x] = "running"
  BY <1>7, <1>8
<1> QED  BY <1>3, <1>6, <1>9, <1>10, HandsKept DEF Placed

\* A resumed publish() puts its envelope or waits again.
LEMMA PublishResumesPlaced ==
  ASSUME Inv, Placed, NEW e \in Events, PublishResumes(e) PROVE Placed'
<1>1. /\ bus' = ResumedPut(bus, e) /\ UNCHANGED <<worker, fate>>
      /\ e \in bus.woken[PrioOf(e)]
      /\ pub' = IF Full(bus, PrioOf(e)) THEN pub ELSE [pub EXCEPT ![e] = "accepted"]
  BY DEF PublishResumes
<1>2. e \in Tasks /\ e = EnvelopeOf(e) /\ PrioOf(e) \in Priorities /\ e \notin Workers
  BY PrioFacts, EnvelopesAssumption DEF Tasks, EnvelopeOf, Envelopes
<1>3. pub[e] = "blocked"
  <2>1. e \in InLine(bus, PrioOf(e))
    BY <1>1 DEF InLine
  <2> QED  BY <1>2, <2>1 DEF Inv, PuttersExact, Suspended
<1>4. fate[e] = "none" /\ ~Holds(bus.queue, e)
  BY <1>3 DEF Placed, QueuedExact
<1>5. /\ Tidy(bus'.queue)
      /\ \A x \in Events : Holds(bus'.queue, x)
                             <=> Holds(bus.queue, x) \/ (~Full(bus, PrioOf(e)) /\ x = e)
  BY <1>1, <1>2, <1>4, ResumedTidy DEF Inv, Placed
<1>6. \A x \in Events : pub'[x] = IF x = e /\ ~Full(bus, PrioOf(e)) THEN "accepted" ELSE pub[x]
  BY <1>1 DEF Inv, TypeOK
<1>7. QueuedExact'
  BY <1>1, <1>4, <1>5, <1>6 DEF Placed, QueuedExact
<1> QED  BY <1>1, <1>5, <1>7, HandsKept DEF Placed

\* close() and its deadlines, up to the end of the pool.
LEMMA ClosePlaced ==
  ASSUME Inv, Placed, CloseBegin \/ DrainDone \/ DrainTimeout \/ JoinTimeout PROVE Placed'
<1>1. UNCHANGED <<worker, pub, fate>>
  BY DEF CloseBegin, DrainDone, DrainTimeout, JoinTimeout
<1>2. bus'.queue = bus.queue \/ bus'.queue = PublishMeta(bus).queue
  <2>1. CASE CloseBegin \/ JoinTimeout
    BY <2>1 DEF CloseBegin, JoinTimeout
  <2>2. ASSUME NEW b \in BusType, NEW n, StopWorkers(b, n) PROVE bus'.queue = b.queue
    BY <2>2 DEF StopWorkers, BusType
  <2>3. bus \in BusType /\ PublishMeta(bus) \in BusType
    BY MetaTidy DEF Inv, Sound, Placed
  <2>4. CASE DrainDone
    BY <2>2, <2>3, <2>4 DEF DrainDone
  <2>5. CASE DrainTimeout
    BY <2>2, <2>3, <2>5 DEF DrainTimeout
  <2> QED  BY <2>1, <2>4, <2>5
<1>3. Tidy(bus'.queue) /\ \A x \in Events : Holds(bus'.queue, x) <=> Holds(bus.queue, x)
  BY <1>2, MetaTidy DEF Inv, Sound, Placed
<1> QED  BY <1>1, <1>3, QuietPlaced

------------------------------------------------------------------------------
(* Workers.                                                                *)

\* A permit without an envelope.
LEMMA AcquireNothingPlaced ==
  ASSUME Inv, Placed, NEW w \in Workers, AcquireNothing(w) PROVE Placed'
<1>1. PICK pc \in {"exited", "idle"} : worker' = [worker EXCEPT ![w] = At(pc)]
  BY DEF AcquireNothing
<1>2. PICK r : r = At(pc)
  OBVIOUS
<1>3. r.at.env = None /\ ~IsBusy(r)
  BY <1>2, AtFacts DEF At, NoDispatch
<1>4. worker[w].at.env = None /\ None \notin Events
  BY FreeHands DEF AcquireNothing, CanRun, IsBusy, Inv, TypeOK
<1>5. UNCHANGED <<pub, fate>> /\ bus'.queue = bus.queue
  BY DEF AcquireNothing, Inv, Sound, BusType
<1>6. worker' = [worker EXCEPT ![w] = r]
  BY <1>1, <1>2
<1>7. \A x \in Events : fate'[x] = "running"
                          <=> (fate[x] = "running" /\ x # worker[w].at.env) \/ x = r.at.env
  BY <1>3, <1>4, <1>5
<1>8. r.at.env \in Events => r.at.env = worker[w].at.env \/ fate[r.at.env] # "running"
  BY <1>3, <1>4
<1>9. HandsExact'
  <2>1. TypeOK /\ HandsExact  BY DEF Inv, Placed
  <2> QED  BY <1>6, <1>7, <1>8, <2>1, HandsChange
<1>10. IsBusy(r) => r.at.sub \in 1..SubCount[r.at.env]
  BY <1>3
<1>11. SubsInRange'
  BY <1>6, <1>10, SubsChange DEF Inv, Placed
<1> QED  BY <1>5, <1>9, <1>11 DEF Placed, QueuedExact

\* An envelope goes from the front of its queue to a worker.
LEMMA AcquireEnvelopePlaced ==
  ASSUME Inv, Placed, NEW w \in Workers, AcquireEnvelope(w) PROVE Placed'
<1>1. PICK p : p = NextPriority(bus)
  OBVIOUS
<1>2. PICK e : e = Head(bus.queue[p])
  OBVIOUS
<1>3. PICK r : r = AfterSub(e, 0)
  OBVIOUS
<1>4. /\ worker[w].pc = "idle" /\ ~Empty(bus) /\ pub' = pub
      /\ bus' = [Get(bus, p) EXCEPT !.permits = @ - 1]
      /\ worker' = [worker EXCEPT ![w] = r]
      /\ fate' = IF e \in Events
                 THEN [fate EXCEPT ![e] = IF SubCount[e] = 0 THEN "done" ELSE "running"] ELSE fate
  BY <1>1, <1>2, <1>3 DEF AcquireEnvelope, CanRun
<1>5. bus \in BusType /\ p \in Priorities /\ bus.queue[p] # << >>
  BY <1>1, <1>4, NextPriorityFacts DEF Inv, Sound
<1>6. /\ Tidy(bus'.queue) /\ e \in Envelopes /\ Holds(bus.queue, e)
      /\ \A x \in Events : Holds(bus'.queue, x) <=> Holds(bus.queue, x) /\ x # e
  <2>1. PICK g : g = Get(bus, p)
    OBVIOUS
  <2>2. /\ g \in BusType /\ Tidy(g.queue) /\ e \in Envelopes /\ Holds(bus.queue, e)
        /\ \A x \in Events : Holds(g.queue, x) <=> Holds(bus.queue, x) /\ x # e
    BY <1>2, <1>5, <2>1, GetTidy DEF Placed
  <2>3. bus'.queue = g.queue
    BY <1>4, <2>1, <2>2 DEF BusType
  <2> QED  BY <2>2, <2>3
<1>7. e \in Events => pub[e] = "accepted" /\ fate[e] = "none"
  BY <1>6 DEF Placed, QueuedExact
<1>8. \A x \in Events : fate'[x] = IF x # e THEN fate[x] ELSE IF SubCount[e] = 0 THEN "done" ELSE "running"
  BY <1>4 DEF Inv, TypeOK
<1>9. QueuedExact'
  <2> SUFFICES ASSUME NEW x \in Events
               PROVE  /\ Holds(bus'.queue, x) <=> pub'[x] = "accepted" /\ fate'[x] = "none"
                      /\ fate'[x] # "none" => pub'[x] = "accepted"
    BY DEF QueuedExact
  <2> QED  BY <1>4, <1>6, <1>7, <1>8 DEF Placed, QueuedExact
<1>10. SubCount[e] \in Nat /\ worker[w].at.env = None /\ None \notin Events
  BY <1>4, <1>6, FreeHands, TopicsAssumption DEF IsBusy, Inv, TypeOK
<1>11. /\ SubCount[e] = 0 => r.at.env = None /\ ~IsBusy(r)
       /\ SubCount[e] # 0 => r.at.env = e /\ r.at.sub = 1
  BY <1>3, <1>10, AtFacts DEF AfterSub, Invoking, At, NoDispatch
<1>12. \A x \in Events : fate'[x] = "running"
                           <=> (fate[x] = "running" /\ x # worker[w].at.env) \/ x = r.at.env
  BY <1>7, <1>8, <1>10, <1>11
<1>13. r.at.env \in Events => fate[r.at.env] # "running"
  BY <1>7, <1>10, <1>11
<1>14. HandsExact'
  <2>1. TypeOK /\ HandsExact  BY DEF Inv, Placed
  <2> QED  BY <1>4, <1>12, <1>13, <2>1, HandsChange, ZenonT(30)
<1>15. IsBusy(r) => r.at.sub \in 1..SubCount[r.at.env]
  BY <1>10, <1>11
<1>16. SubsInRange'
  BY <1>4, <1>15, SubsChange DEF Inv, Placed
<1> QED  BY <1>6, <1>9, <1>14, <1>16 DEF Placed

\* A subscription is dealt with; the last one ends the dispatch.  An envelope in
\* D is dropped from its queue meanwhile.
LEMMA SubDonePlaced ==
  ASSUME Inv, Placed, NEW w \in Workers, IsBusy(worker[w]), SubDone(w), pub' = pub,
         NEW D \in SUBSET Events, \A x \in D : Holds(bus.queue, x),
         Tidy(bus'.queue), \A x \in Events : Holds(bus'.queue, x) <=> Holds(bus.queue, x) /\ x \notin D,
         NEW f, f \in [Events -> {"none", "running", "done", "dropped", "cut"}],
         \A x \in Events : f[x] = IF x \in D THEN "dropped" ELSE fate[x],
         fate' = FateAfterSub(w, f)
  PROVE  Placed'
<1>1. PICK e : e = worker[w].at.env
  OBVIOUS
<1>2. PICK s : s = worker[w].at.sub
  OBVIOUS
<1>3. PICK r : r = AfterSub(e, s)
  OBVIOUS
<1>4. worker' = [worker EXCEPT ![w] = r]
  BY <1>1, <1>2, <1>3 DEF SubDone
<1>5. e \in Envelopes /\ s \in 1..SubCount[e] /\ SubCount[e] \in Nat /\ None \notin Events
  BY <1>1, <1>2, FreeHands, TopicsAssumption DEF Inv, TypeOK, Placed, SubsInRange
<1>6. \A x \in Events : fate'[x] = IF x = e /\ s = SubCount[e] THEN "done"
                                   ELSE IF x \in D THEN "dropped" ELSE fate[x]
  BY <1>1, <1>2 DEF FateAfterSub
<1>7. /\ s < SubCount[e] => r.at.env = e /\ r.at.sub = s + 1
      /\ s = SubCount[e] => r.at.env = None /\ ~IsBusy(r)
      /\ s < SubCount[e] \/ s = SubCount[e]
  BY <1>3, <1>5, AtFacts DEF AfterSub, Invoking, At, NoDispatch
<1>8. \A x \in D : pub[x] = "accepted" /\ fate[x] = "none"
  BY DEF Placed, QueuedExact
<1>9. e \in Events => fate[e] = "running" /\ pub[e] = "accepted"
  BY <1>1 DEF Placed, HandsExact, QueuedExact
<1>10. QueuedExact'
  <2> SUFFICES ASSUME NEW x \in Events
               PROVE  /\ Holds(bus'.queue, x) <=> pub'[x] = "accepted" /\ fate'[x] = "none"
                      /\ fate'[x] # "none" => pub'[x] = "accepted"
    BY DEF QueuedExact
  <2> QED  BY <1>6, <1>8, <1>9 DEF Placed, QueuedExact
<1>11. \A x \in Events : fate'[x] = "running"
                           <=> (fate[x] = "running" /\ x # worker[w].at.env) \/ x = r.at.env
  BY <1>1, <1>5, <1>6, <1>7, <1>8, <1>9
<1>12. r.at.env \in Events => r.at.env = worker[w].at.env \/ fate[r.at.env] # "running"
  BY <1>1, <1>5, <1>7
<1>13. HandsExact'
  <2>1. TypeOK /\ HandsExact  BY DEF Inv, Placed
  <2> QED  BY <1>4, <1>11, <1>12, <2>1, HandsChange, ZenonT(30)
<1>14. IsBusy(r) => r.at.sub \in 1..SubCount[r.at.env]
  BY <1>5, <1>7
<1>15. SubsInRange'
  BY <1>4, <1>14, SubsChange DEF Inv, Placed
<1> QED  BY <1>10, <1>13, <1>15 DEF Placed

\* A handler that succeeds, or fails for the last time on a bus.* envelope.
LEMMA HandlerEndsPlaced ==
  ASSUME Inv, Placed, NEW w \in Workers, HandlerOk(w) \/ MetaExhausted(w) PROVE Placed'
<1>1. /\ worker[w].pc = "handler" /\ SubDone(w) /\ UNCHANGED <<bus, pub>>
      /\ fate' = FateAfterSub(w, fate) \/ (fate' = fate /\ worker[w].at.env \in {Meta, Dlq})
  BY DEF HandlerOk, MetaExhausted, CanRun
<1>2. fate' = FateAfterSub(w, fate)
  BY <1>1, EnvelopesAssumption DEF FateAfterSub
<1>3. PICK D : D = {}
  OBVIOUS
<1>4. /\ D \in SUBSET Events /\ \A x : x \notin D
      /\ Tidy(bus'.queue) /\ IsBusy(worker[w])
      /\ fate \in [Events -> {"none", "running", "done", "dropped", "cut"}]
  BY <1>1, <1>3 DEF Placed, IsBusy, Inv, TypeOK
<1>5. PICK f : f = fate
  OBVIOUS
<1> QED  BY <1>1, <1>2, <1>4, <1>5, SubDonePlaced

\* A failed attempt with others left.
LEMMA HandlerRetryPlaced ==
  ASSUME Inv, Placed, NEW w \in Workers, HandlerRetry(w) PROVE Placed'
<1>1. PICK r : r = [worker[w] EXCEPT !.at.attempt = @ + 1]
  OBVIOUS
<1>2. worker' = [worker EXCEPT ![w] = r] /\ UNCHANGED <<bus, pub, fate>> /\ worker[w].pc = "handler"
  BY <1>1 DEF HandlerRetry, CanRun, Inv, TypeOK
<1>3. worker[w] \in [pc : {"handler", "dlq"},
                     at : [env : Envelopes, sub : Nat, attempt : 1..RetryAttempts]]
  BY <1>2, BusyFacts DEF Inv, TypeOK, IsBusy
<1>4. r.at.env = worker[w].at.env /\ r.at.sub = worker[w].at.sub
  BY <1>1, <1>3
<1>5. worker[w].at.env \in Events => fate[worker[w].at.env] = "running"
  BY DEF Placed, HandsExact
<1>6. \A x \in Events : fate'[x] = "running"
                          <=> (fate[x] = "running" /\ x # worker[w].at.env) \/ x = r.at.env
  BY <1>2, <1>4, <1>5
<1>7. HandsExact'
  <2>1. TypeOK /\ HandsExact  BY DEF Inv, Placed
  <2> QED  BY <1>2, <1>4, <1>6, <2>1, HandsChange
<1>8. SubsInRange'
  BY <1>2, <1>4, SubsChange DEF Inv, Placed, SubsInRange, IsBusy
<1> QED  BY <1>2, <1>7, <1>8 DEF Placed, QueuedExact

\* The last failure on an application envelope: a meta-event, and on_dlq, which
\* puts, drops the oldest, gives up or waits.
LEMMA HandlerExhaustedPlaced ==
  ASSUME Inv, Placed, NEW w \in Workers, HandlerExhausted(w) PROVE Placed'
<1>1. PICK b : b = PublishMeta(bus)
  OBVIOUS
<1>2. PICK publish \in BOOLEAN : publish <=> HasDlq /\ ~life.closing
  OBVIOUS
<1>3. PICK v : v = Verdict(b, Dlq)
  OBVIOUS
<1>4. PICK h : h = Head(b.queue["HIGH"])
  OBVIOUS
<1>5. /\ worker[w].pc = "handler" /\ pub' = pub
      /\ bus' = IF publish THEN EnqueueLocal(b, w) ELSE b
      /\ IF publish /\ v = "block"
         THEN worker' = [worker EXCEPT ![w].pc = "dlq"] /\ fate' = fate
         ELSE /\ SubDone(w)
              /\ fate' = FateAfterSub(w, IF publish /\ v = "drop_oldest" /\ h \in Events
                                         THEN [fate EXCEPT ![h] = "dropped"] ELSE fate)
  BY <1>1, <1>2, <1>3, <1>4 DEF HandlerExhausted, CanRun
<1>6. /\ Sound(b) /\ Tidy(b.queue)
      /\ \A x \in Events : Holds(b.queue, x) <=> Holds(bus.queue, x)
  BY <1>1, MetaSound, MetaTidy DEF Inv, Sound, Placed
<1>7. w \in Tasks /\ EnvelopeOf(w) = Dlq /\ PrioOf(Dlq) = "HIGH" /\ Dlq \notin Events
  BY EnvelopesAssumption DEF Tasks, EnvelopeOf, PrioOf
<1>8. publish => /\ Tidy(bus'.queue)
                 /\ v = "drop_oldest" => Holds(b.queue, h)
                 /\ \A x \in Events : Holds(bus'.queue, x)
                                        <=> Holds(b.queue, x) /\ ~(v = "drop_oldest" /\ x = h)
  BY <1>3, <1>4, <1>5, <1>6, <1>7, EnqueueTidy
<1>9. PICK D : D = IF publish /\ v = "drop_oldest" THEN {h} \cap Events ELSE {}
  OBVIOUS
<1>10. /\ D \in SUBSET Events /\ \A x \in D : Holds(bus.queue, x)
       /\ Tidy(bus'.queue)
       /\ \A x \in Events : Holds(bus'.queue, x) <=> Holds(bus.queue, x) /\ x \notin D
  BY <1>5, <1>6, <1>8, <1>9
<1>11. CASE publish /\ v = "block"
  <2>1. PICK r : r = [worker[w] EXCEPT !.pc = "dlq"]
    OBVIOUS
  <2>2. worker' = [worker EXCEPT ![w] = r] /\ fate' = fate
    BY <1>5, <1>11, <2>1 DEF Inv, TypeOK
  <2>3. r.at = worker[w].at
    <3>1. worker[w] \in [pc : {"handler", "dlq"},
                         at : [env : Envelopes, sub : Nat, attempt : 1..RetryAttempts]]
      BY <1>5, BusyFacts DEF Inv, TypeOK, IsBusy
    <3> QED  BY <2>1, <3>1
  <2>4. worker[w].at.env \in Events => fate[worker[w].at.env] = "running"
    BY DEF Placed, HandsExact
  <2>5. \A x \in Events : fate'[x] = "running"
                            <=> (fate[x] = "running" /\ x # worker[w].at.env) \/ x = r.at.env
    BY <2>2, <2>3, <2>4
  <2>6. HandsExact'
    <3>1. TypeOK /\ HandsExact  BY DEF Inv, Placed
    <3>2. worker' = [worker EXCEPT ![w] = r]  BY <2>2
    <3>3. r.at.env \in Events => r.at.env = worker[w].at.env  BY <2>3
    <3> QED  BY <2>5, <3>1, <3>2, <3>3, HandsChange
  <2>7. SubsInRange'
    BY <1>5, <2>2, <2>3, SubsChange DEF Inv, Placed, SubsInRange, IsBusy
  <2>8. D = {}
    BY <1>9, <1>11
  <2> QED  BY <1>5, <1>10, <2>2, <2>6, <2>7, <2>8 DEF Placed, QueuedExact
<1>12. CASE ~(publish /\ v = "block")
  <2>1. PICK f : f = IF publish /\ v = "drop_oldest" /\ h \in Events
                     THEN [fate EXCEPT ![h] = "dropped"] ELSE fate
    OBVIOUS
  <2>2. /\ f \in [Events -> {"none", "running", "done", "dropped", "cut"}]
        /\ \A x \in Events : f[x] = IF x \in D THEN "dropped" ELSE fate[x]
    BY <1>9, <2>1 DEF Inv, TypeOK
  <2>3. SubDone(w) /\ fate' = FateAfterSub(w, f) /\ IsBusy(worker[w])
    BY <1>5, <1>12, <2>1 DEF IsBusy
  <2> QED  BY <1>5, <1>10, <2>2, <2>3, SubDonePlaced
<1> QED  BY <1>11, <1>12

\* on_dlq runs again: its envelope is put, or waits again.
LEMMA DlqResumesPlaced ==
  ASSUME Inv, Placed, NEW w \in Workers, DlqResumes(w) PROVE Placed'
<1>1. /\ worker[w].pc = "dlq" /\ bus' = ResumedPut(bus, w) /\ pub' = pub
      /\ IF Full(bus, "HIGH") THEN UNCHANGED <<worker, fate>>
         ELSE SubDone(w) /\ fate' = FateAfterSub(w, fate)
  BY DEF DlqResumes, CanRun
<1>2. w \in Tasks /\ EnvelopeOf(w) = Dlq /\ PrioOf(Dlq) = "HIGH" /\ Dlq \notin Events
  BY EnvelopesAssumption DEF Tasks, EnvelopeOf, PrioOf
<1>3. Tidy(bus'.queue) /\ \A x \in Events : Holds(bus'.queue, x) <=> Holds(bus.queue, x)
  BY <1>1, <1>2, ResumedTidy DEF Inv, Placed
<1>4. CASE Full(bus, "HIGH")
  BY <1>1, <1>3, <1>4, QuietPlaced
<1>5. CASE ~Full(bus, "HIGH")
  <2>1. PICK D : D = {}
    OBVIOUS
  <2>2. PICK f : f = fate
    OBVIOUS
  <2>3. /\ D \in SUBSET Events /\ \A x : x \notin D
        /\ IsBusy(worker[w]) /\ f \in [Events -> {"none", "running", "done", "dropped", "cut"}]
    BY <1>1, <2>1, <2>2 DEF IsBusy, Inv, TypeOK
  <2> QED  BY <1>1, <1>3, <1>5, <2>2, <2>3, SubDonePlaced
<1> QED  BY <1>4, <1>5

\* A cancelled worker lets go of its envelope, which is cut off.
LEMMA CancelPlaced ==
  ASSUME Inv, Placed, NEW w \in Workers, Cancel(w) PROVE Placed'
<1>1. PICK r : r = At("exited")
  OBVIOUS
<1>2. r.at.env = None /\ ~IsBusy(r) /\ None \notin Events
  BY <1>1, AtFacts, EnvelopesAssumption DEF At, NoDispatch, Envelopes
<1>3. /\ worker' = [worker EXCEPT ![w] = r] /\ pub' = pub
      /\ fate' = [e \in Events |-> IF worker[w].at.env = e THEN "cut" ELSE fate[e]]
      /\ bus' = IF worker[w].pc = "dlq" THEN CancelledPut(bus, w) ELSE bus
  BY <1>1 DEF Cancel
<1>4. bus'.queue = bus.queue
  <2>1. CASE worker[w].pc = "dlq"
    <3>1. /\ w \in Tasks /\ EnvelopeOf(w) = Dlq /\ PrioOf(Dlq) = "HIGH" /\ "HIGH" \in Priorities
          /\ Suspended(w)
      BY <2>1 DEF Tasks, EnvelopeOf, PrioOf, Priorities, Suspended
    <3>2. w \in InLine(bus, PrioOf(EnvelopeOf(w)))
      BY <3>1 DEF Inv, PuttersExact
    <3> QED  BY <1>3, <2>1, <3>1, <3>2, CancelledKeeps DEF Inv
  <2> QED  BY <1>3, <2>1
<1>5. worker[w].at.env \in Events => fate[worker[w].at.env] = "running"
  BY DEF Placed, HandsExact
<1>6. QueuedExact'
  BY <1>3, <1>4, <1>5 DEF Placed, QueuedExact
<1>7. \A x \in Events : fate'[x] = "running"
                          <=> (fate[x] = "running" /\ x # worker[w].at.env) \/ x = r.at.env
  BY <1>2, <1>3
<1>8. HandsExact'
  <2>1. TypeOK /\ HandsExact  BY DEF Inv, Placed
  <2> QED  BY <1>2, <1>3, <1>7, <2>1, HandsChange, ZenonT(30)
<1>9. SubsInRange'
  BY <1>2, <1>3, SubsChange DEF Inv, Placed
<1> QED  BY <1>4, <1>6, <1>8, <1>9 DEF Placed

------------------------------------------------------------------------------
(* Theorems.                                                               *)

LEMMA PlacedStep == Inv /\ Placed /\ [Next]_vars => Placed'
<1> SUFFICES ASSUME Inv, Placed, [Next]_vars PROVE Placed'
  OBVIOUS
<1>1. CASE Start \/ JoinDone
  BY <1>1, PoolPlaced
<1>2. ASSUME NEW e \in Events,
             PublishClosed(e) \/ Publish(e) \/ PublishResumes(e) \/ PublishCancelled(e)
      PROVE  Placed'
  BY <1>2, RefusedPlaced, PublishPlaced, PublishResumesPlaced
<1>3. ASSUME NEW w \in Workers,
             \/ AcquireNothing(w) \/ AcquireEnvelope(w) \/ HandlerOk(w)
             \/ HandlerRetry(w) \/ MetaExhausted(w) \/ HandlerExhausted(w)
             \/ DlqResumes(w) \/ Cancel(w)
      PROVE  Placed'
  BY <1>3, AcquireNothingPlaced, AcquireEnvelopePlaced, HandlerEndsPlaced, HandlerRetryPlaced,
     HandlerExhaustedPlaced, DlqResumesPlaced, CancelPlaced
<1>4. CASE CloseBegin \/ DrainDone \/ DrainTimeout \/ JoinTimeout
  BY <1>4, ClosePlaced
<1>5. CASE UNCHANGED vars
  BY <1>5, QuietPlaced DEF vars, Placed
<1> QED  BY <1>1, <1>2, <1>3, <1>4, <1>5 DEF Next

\* Queues, workers and fates agree in every state of every behaviour.
THEOREM PlacesInvariance == Spec => []Placed
<1>1. Init => Placed
  BY InitPlaced
<1>2. Inv /\ Placed /\ [Next]_vars => Placed'
  BY PlacedStep
<1> QED  BY <1>1, <1>2, Invariance, PTL DEF Spec

\* Every envelope publish() accepted is in exactly one place: queued once, with
\* one worker, or dispatched, dropped or cut off; the others are nowhere
\* (core.py's _enqueue_local, _pop_next, _dispatch and close()).
THEOREM AcceptedIsInOnePlace == Spec => []OnePlace
<1>1. Inv /\ Placed => OnePlace
  <2> SUFFICES ASSUME Inv, Placed, NEW e \in Events
               PROVE  /\ Cardinality(Occurrences(e))
                           = IF pub[e] = "accepted" /\ fate[e] = "none" THEN 1 ELSE 0
                      /\ Cardinality(Dispatching(e)) = IF fate[e] = "running" THEN 1 ELSE 0
                      /\ fate[e] # "none" => pub[e] = "accepted"
    BY DEF OnePlace
  <2>1. PICK s \in Seq(Envelopes) : s = bus.queue[PrioOf(e)]
    BY PrioFacts DEF Placed, Tidy, Envelopes
  <2>2. Occurrences(e) = {i \in 1..Len(s) : s[i] = e}
    BY <2>1 DEF Occurrences
  <2>3. \A i, j \in Occurrences(e) : i = j
    BY <2>1, <2>2, PrioFacts DEF Placed, Tidy, Apart, Envelopes
  <2>4. Holds(bus.queue, e) <=> Occurrences(e) # {}
    BY <2>1, <2>2 DEF Holds
  <2>5. \A v, w \in Dispatching(e) : v = w
    BY DEF Dispatching, Placed, HandsExact
  <2>6. fate[e] = "running" <=> Dispatching(e) # {}
    BY DEF Dispatching, Placed, HandsExact
  <2>7. ASSUME NEW S, \A i, j \in S : i = j PROVE Cardinality(S) = IF S # {} THEN 1 ELSE 0
    <3>1. CASE S = {}
      BY <3>1, FS_EmptySet
    <3>2. CASE S # {}
      <4>1. PICK i \in S : TRUE
        BY <3>2
      <4>2. S = {i}
        BY <2>7, <4>1
      <4> QED  BY <3>2, <4>2, FS_Singleton
    <3> QED  BY <3>1, <3>2
  <2>8. Cardinality(Occurrences(e)) = IF Occurrences(e) # {} THEN 1 ELSE 0
    BY <2>3, <2>7
  <2>9. Cardinality(Dispatching(e)) = IF Dispatching(e) # {} THEN 1 ELSE 0
    BY <2>5, <2>7
  <2> QED  BY <2>4, <2>6, <2>8, <2>9 DEF Placed, QueuedExact
<1> QED  BY <1>1, Invariance, PlacesInvariance, PTL

\* A close() that drains before its deadline abandons nothing: _drain() cannot
\* return while an accepted envelope is queued or being dispatched.
THEOREM GracefulCloseIsClean == Spec => DrainIsClean
<1>1. ASSUME Inv, Placed, DrainDone, NEW e \in Events, pub[e] = "accepted"
      PROVE  fate[e] \in {"done", "dropped", "cut"}
  <2>1. Empty(bus) /\ inFlight = 0
    BY <1>1 DEF DrainDone, Drained
  <2>2. fate[e] # "none"
    <3>1. ~Holds(bus.queue, e)
      <4>1. PrioOf(e) \in Priorities
        BY PrioFacts DEF Envelopes
      <4>2. Len(bus.queue[PrioOf(e)]) = 0
        BY <2>1, <4>1 DEF Empty
      <4> QED  BY <4>2 DEF Holds
    <3> QED  BY <1>1, <3>1 DEF Placed, QueuedExact
  <2>3. fate[e] # "running"
    <3>1. Running = {}
      <4>1. IsFiniteSet(Running)
        BY WorkersAssumption, FS_Subset DEF Running
      <4> QED  BY <1>1, <2>1, <4>1, FS_EmptySet DEF Inv, InFlightExact
    <3>2. \A w \in Workers : worker[w].at.env # e
      BY <1>1, <3>1, FreeHands DEF Running, Inv, TypeOK
    <3> QED  BY <1>1, <3>2 DEF Placed, HandsExact
  <2> QED  BY <1>1, <2>2, <2>3 DEF Inv, TypeOK
<1>2. Inv /\ Placed /\ [Next]_vars
        => [DrainDone => \A e \in Events : pub[e] = "accepted"
                                             => fate[e] \in {"done", "dropped", "cut"}]_vars
  BY <1>1
<1> QED  BY <1>2, Invariance, PlacesInvariance, PTL DEF Spec, DrainIsClean

------------------------------------------------------------------------------
(***************************************************************************)
(* The service: BusCore implements BusService.                             *)
(*                                                                         *)
(* Lines come first: the application envelopes of a queue, numbered by     *)
(* counting, and what each operator on the bus does to them.  A step of    *)
(* the bus then moves the stage of few envelopes and the end of one line.  *)
(***************************************************************************)


------------------------------------------------------------------------------
(* Lines: the application envelopes of a queue, counted from its front.    *)

\* The members of a finite set of places are numbered by how many there are up
\* to each.
LEMMA Counting ==
  ASSUME NEW S \in SUBSET (Nat \ {0}), IsFiniteSet(S)
  PROVE  /\ \A i \in S : Cardinality(S \cap 1..i) \in 1..Cardinality(S)
         /\ \A i, j \in S : Cardinality(S \cap 1..i) = Cardinality(S \cap 1..j) => i = j
         /\ \A k \in 1..Cardinality(S) : \E i \in S : Cardinality(S \cap 1..i) = k
<1> DEFINE n(i) == Cardinality(S \cap 1..i)
           N == Cardinality(S)
<1>1. N \in Nat
  BY FS_CardinalityType
<1>2. ASSUME NEW i \in S
      PROVE  /\ IsFiniteSet(S \cap 1..i) /\ n(i) \in Nat /\ n(i) <= N
             /\ i \in S \cap 1..i /\ n(i) # 0
  <2>1. S \cap 1..i \in SUBSET S /\ i \in S \cap 1..i
    BY <1>2
  <2>2. IsFiniteSet(S \cap 1..i) /\ n(i) <= N
    BY <2>1, FS_Subset
  <2>3. n(i) \in Nat /\ n(i) # 0
    BY <2>1, <2>2, FS_CardinalityType, FS_EmptySet
  <2> QED  BY <2>1, <2>2, <2>3
<1>3. ASSUME NEW i \in S, NEW j \in S, i < j PROVE n(i) < n(j)
  <2>1. /\ S \cap 1..i \in SUBSET (S \cap 1..j)
        /\ j \in S \cap 1..j /\ j \notin S \cap 1..i
    BY <1>3
  <2>2. n(i) <= n(j) /\ n(i) # n(j)
    BY <1>2, <2>1, FS_Subset
  <2> QED  BY <1>2, <2>2
<1>4. \A i \in S : n(i) \in 1..N
  BY <1>1, <1>2
<1>5. \A i, j \in S : n(i) = n(j) => i = j
  <2> SUFFICES ASSUME NEW i \in S, NEW j \in S, n(i) = n(j) PROVE i = j
    OBVIOUS
  <2>1. i \in Nat /\ j \in Nat /\ n(i) \in Nat
    BY <1>2
  <2>2. ~(i < j) /\ ~(j < i)
    BY <1>3, <2>1
  <2> QED  BY <2>1, <2>2
<1>6. \A k \in 1..N : \E i \in S : n(i) = k
  <2> DEFINE f == [i \in S |-> n(i)]
  <2>1. f \in Injection(S, 1..N)
    BY <1>4, <1>5 DEF Injection, IsInjective
  <2>2. IsFiniteSet(1..N) /\ Cardinality(1..N) = N
    BY <1>1, FS_Interval
  <2> HIDE DEF f
  <2>3. f \in Surjection(S, 1..N)
    BY <2>1, <2>2, FS_Injection
  <2> QED  BY <2>3 DEF Surjection, f
<1> QED  BY <1>4, <1>5, <1>6

\* A line is recognized by where it has each application envelope of the queue.
LEMMA LineIs ==
  ASSUME NEW q, q \in Seq(Envelopes), NEW S, S = PlacesIn(q),
         NEW l \in Seq(Envelopes), Len(l) = Cardinality(S),
         \A i \in S : l[Cardinality(S \cap 1..i)] = q[i]
  PROVE  l = Applications(q)
<1> DEFINE N == Cardinality(S)
           at(k) == CHOOSE i \in S : Cardinality(S \cap 1..i) = k
<1>1. S \in SUBSET (Nat \ {0}) /\ IsFiniteSet(S)
  <2>1. IsFiniteSet(1..Len(q))
    BY FS_Interval
  <2>2. S \in SUBSET (1..Len(q)) /\ 1..Len(q) \subseteq Nat \ {0}
    BY DEF PlacesIn
  <2> QED  BY <2>1, <2>2, FS_Subset
<1>2. \A k \in 1..N : \E i \in S : Cardinality(S \cap 1..i) = k
  BY <1>1, Counting
<1>3. \A k \in 1..N : at(k) \in S /\ Cardinality(S \cap 1..at(k)) = k
  BY <1>2
<1>4. \A k \in 1..N : l[k] = q[at(k)]
  BY <1>3
<1>5. Applications(q) = [k \in 1..N |-> q[at(k)]]
  BY DEF Applications
<1>6. l = [k \in 1..N |-> l[k]]
  OBVIOUS
<1> HIDE DEF at, N
<1> QED  BY <1>4, <1>5, <1>6

\* A line is a sequence of application envelopes: those that are queued.
LEMMA LineFacts ==
  ASSUME NEW q, q \in Seq(Envelopes)
  PROVE  /\ Applications(q) \in Seq(Events)
         /\ PlacesIn(q) \in SUBSET (Nat \ {0}) /\ IsFiniteSet(PlacesIn(q))
         /\ Len(Applications(q)) = Cardinality(PlacesIn(q))
         /\ \A i \in PlacesIn(q) :
              /\ Cardinality(PlacesIn(q) \cap 1..i) \in 1..Len(Applications(q))
              /\ Applications(q)[Cardinality(PlacesIn(q) \cap 1..i)] = q[i]
         /\ \A k \in 1..Len(Applications(q)) : \E i \in PlacesIn(q) : Applications(q)[k] = q[i]
<1> DEFINE S == PlacesIn(q)
           N == Cardinality(S)
           at(k) == CHOOSE i \in S : Cardinality(S \cap 1..i) = k
<1>1. S \in SUBSET (Nat \ {0}) /\ IsFiniteSet(S) /\ \A i \in S : q[i] \in Events
  <2>1. IsFiniteSet(1..Len(q))
    BY FS_Interval
  <2>2. S \in SUBSET (1..Len(q)) /\ 1..Len(q) \subseteq Nat \ {0} /\ \A i \in S : q[i] \in Events
    BY DEF PlacesIn
  <2> QED  BY <2>1, <2>2, FS_Subset
<1>2. Applications(q) = [k \in 1..N |-> q[at(k)]]
  BY DEF Applications
<1> HIDE DEF S
<1>3. /\ \A i \in S : Cardinality(S \cap 1..i) \in 1..N
      /\ \A i, j \in S : Cardinality(S \cap 1..i) = Cardinality(S \cap 1..j) => i = j
      /\ \A k \in 1..N : \E i \in S : Cardinality(S \cap 1..i) = k
  BY <1>1, Counting
<1>4. N \in Nat
  BY <1>1, FS_CardinalityType
<1>5. \A k \in 1..N : at(k) \in S /\ Cardinality(S \cap 1..at(k)) = k
  BY <1>3
<1>6. \A i \in S : at(Cardinality(S \cap 1..i)) = i
  BY <1>3, <1>5
<1> HIDE DEF at
<1>7. Applications(q) \in Seq(Events) /\ Len(Applications(q)) = N
  <2>1. \A k \in 1..N : q[at(k)] \in Events
    BY <1>1, <1>5
  <2> QED  BY <1>2, <1>4, <2>1
<1>8. \A i \in S : Applications(q)[Cardinality(S \cap 1..i)] = q[i]
  BY <1>2, <1>3, <1>6
<1>9. \A k \in 1..N : \E i \in S : Applications(q)[k] = q[i]
  BY <1>2, <1>5
<1> QED  BY <1>1, <1>3, <1>7, <1>8, <1>9 DEF S

\* An envelope at the back of a queue is at the back of its line, or in none.
LEMMA LineAppended ==
  ASSUME NEW q, q \in Seq(Envelopes), NEW x \in Envelopes
  PROVE  Applications(Append(q, x)) = IF x \in Events THEN Append(Applications(q), x)
                                                      ELSE Applications(q)
<1> DEFINE r == Append(q, x)
           S == PlacesIn(q)
           T == PlacesIn(r)
           b == Len(q) + 1
           l == Applications(q)
<1>1. /\ r \in Seq(Envelopes) /\ Len(r) = b /\ Len(q) \in Nat /\ r[b] = x
      /\ \A i \in 1..Len(q) : r[i] = q[i]
  OBVIOUS
<1>2. S \subseteq 1..Len(q) /\ T = IF x \in Events THEN S \cup {b} ELSE S
  <2>1. 1..Len(r) = 1..Len(q) \cup {b}
    BY <1>1
  <2> QED  BY <1>1, <2>1 DEF PlacesIn
<1>3. /\ l \in Seq(Events) /\ IsFiniteSet(S) /\ Len(l) = Cardinality(S)
      /\ \A i \in S : Cardinality(S \cap 1..i) \in 1..Len(l) /\ l[Cardinality(S \cap 1..i)] = q[i]
  BY LineFacts
<1>4. l \in Seq(Envelopes)
  BY <1>3 DEF Envelopes
<1> HIDE DEF r, l, S, T
<1>5. \A i \in S : S \cap 1..i = T \cap 1..i /\ r[i] = q[i]
  BY <1>1, <1>2
<1>6. CASE x \notin Events
  <2>1. T = S /\ \A i \in T : l[Cardinality(T \cap 1..i)] = r[i]
    BY <1>2, <1>3, <1>5, <1>6
  <2>2. T = PlacesIn(r) /\ Len(l) = Cardinality(T)
    BY <1>3, <2>1 DEF T
  <2>3. l = Applications(r)
    BY <1>1, <1>4, <2>1, <2>2, LineIs
  <2> QED  BY <1>6, <2>3 DEF r, l
<1>7. CASE x \in Events
  <2> DEFINE m == Append(l, x)
  <2>1. b \notin S /\ T \cap 1..b = T
    <3>1. S \subseteq 1..b /\ b \in 1..b /\ b \notin 1..Len(q)
      BY <1>1, <1>2
    <3> QED  BY <1>2, <1>7, <3>1
  <2>2. Cardinality(T) = Cardinality(S) + 1
    BY <1>2, <1>3, <1>7, <2>1, FS_AddElement
  <2>3. m \in Seq(Envelopes) /\ Len(m) = Cardinality(T) /\ m[Cardinality(T)] = x
        /\ \A k \in 1..Len(l) : m[k] = l[k]
    BY <1>3, <1>4, <2>2
  <2> HIDE DEF m
  <2>4. \A i \in T : m[Cardinality(T \cap 1..i)] = r[i]
    <3> SUFFICES ASSUME NEW i \in T PROVE m[Cardinality(T \cap 1..i)] = r[i]
      OBVIOUS
    <3>1. CASE i = b
      BY <1>1, <2>1, <2>3, <3>1
    <3>2. CASE i \in S
      BY <1>3, <1>5, <2>3, <3>2
    <3> QED  BY <1>2, <3>1, <3>2
  <2>5. T = PlacesIn(r)
    BY DEF T
  <2>6. m = Applications(r)
    BY <1>1, <2>3, <2>4, <2>5, LineIs
  <2> QED  BY <1>7, <2>6 DEF r, l, m
<1> QED  BY <1>6, <1>7

\* Taking the front of a queue takes the front of its line, if it is there.
LEMMA LineTaken ==
  ASSUME NEW q, q \in Seq(Envelopes), q # << >>
  PROVE  /\ Head(q) \in Events => Applications(q) # << >> /\ Head(Applications(q)) = Head(q)
         /\ Applications(Tail(q)) = IF Head(q) \in Events THEN Tail(Applications(q))
                                                          ELSE Applications(q)
<1> DEFINE r == Tail(q)
           S == PlacesIn(q)
           T == PlacesIn(r)
           l == Applications(q)
           R == S \ {1}
<1>1. /\ r \in Seq(Envelopes) /\ Len(r) = Len(q) - 1 /\ Len(q) \in Nat /\ Len(q) >= 1
      /\ Head(q) = q[1] /\ \A i \in 1..Len(r) : r[i] = q[i + 1]
  OBVIOUS
<1>2. S \subseteq 1..Len(q) /\ (1 \in S <=> Head(q) \in Events)
  BY <1>1 DEF PlacesIn
<1>3. T \subseteq Nat \ {0} /\ \A i \in Nat \ {0} : i \in T <=> i + 1 \in R
  BY <1>1 DEF PlacesIn
<1>4. /\ l \in Seq(Events) /\ IsFiniteSet(S) /\ Len(l) = Cardinality(S)
      /\ \A i \in S : Cardinality(S \cap 1..i) \in 1..Len(l) /\ l[Cardinality(S \cap 1..i)] = q[i]
  BY LineFacts
<1>5. l \in Seq(Envelopes)
  BY <1>4 DEF Envelopes
<1>6. \A i \in T : i + 1 \in S /\ r[i] = q[i + 1]
  BY <1>1, <1>3 DEF PlacesIn
<1> HIDE DEF r, l, S, T
\* What is counted up to a place, before and after.
<1>7. ASSUME NEW A \in SUBSET R, NEW B \in SUBSET T, \A i \in Nat \ {0} : i \in B <=> i + 1 \in A
      PROVE  Cardinality(B) = Cardinality(A)
  <2> DEFINE f == [i \in A |-> i - 1]
  <2>1. IsFiniteSet(A)
    BY <1>4, FS_Subset
  <2>2. \A i \in A : i \in Nat /\ i > 1 /\ i - 1 \in B
    BY <1>2, <1>7
  <2>3. f \in Injection(A, B)
    BY <2>2 DEF Injection, IsInjective
  <2>4. \A j \in B : j + 1 \in A /\ f[j + 1] = j
    BY <1>3, <1>7
  <2>5. f \in Surjection(A, B)
    BY <2>2, <2>4 DEF Surjection
  <2>6. ExistsBijection(A, B)
    BY <2>3, <2>5 DEF ExistsBijection, Bijection
  <2> QED  BY <2>1, <2>6, FS_Bijection
<1>8. Cardinality(T) = Cardinality(R)
  BY <1>3, <1>7
<1>9. \A i \in T : Cardinality(T \cap 1..i) = Cardinality(R \cap 1..(i + 1))
  <2> SUFFICES ASSUME NEW i \in T PROVE Cardinality(T \cap 1..i) = Cardinality(R \cap 1..(i + 1))
    OBVIOUS
  <2>1. \A j \in Nat \ {0} : j \in T \cap 1..i <=> j + 1 \in R \cap 1..(i + 1)
    BY <1>3
  <2> QED  BY <1>7, <2>1
<1>10. CASE Head(q) \notin Events
  <2>1. R = S
    BY <1>2, <1>10
  <2>2. \A i \in T : l[Cardinality(T \cap 1..i)] = r[i]
    BY <1>4, <1>6, <1>9, <2>1
  <2>3. T = PlacesIn(r) /\ Len(l) = Cardinality(T)
    BY <1>4, <1>8, <2>1 DEF T
  <2>4. l = Applications(r)
    BY <1>1, <1>5, <2>2, <2>3, LineIs
  <2> QED  BY <1>10, <2>4 DEF r, l
<1>11. CASE Head(q) \in Events
  <2>1. 1 \in S /\ S \cap 1..1 = {1}
    BY <1>2, <1>11
  <2>2. Cardinality(S \cap 1..1) = 1
    BY <2>1, FS_Singleton
  <2>3. Len(l) >= 1 /\ Len(l) \in Nat /\ l[1] = q[1]
    BY <1>4, <2>1, <2>2
  <2>4. l # << >> /\ Head(l) = Head(q)
    BY <1>1, <1>4, <2>3
  <2> DEFINE m == Tail(l)
  <2>5. m \in Seq(Envelopes) /\ Len(m) = Len(l) - 1 /\ \A k \in 1..Len(m) : m[k] = l[k + 1]
    BY <1>5, <2>3, <2>4
  <2>6. Cardinality(R) = Len(l) - 1
    BY <1>4, <2>1, FS_RemoveElement
  <2>7. ASSUME NEW i \in T
        PROVE  /\ Cardinality(R \cap 1..(i + 1)) = Cardinality(S \cap 1..(i + 1)) - 1
               /\ Cardinality(S \cap 1..(i + 1)) \in 2..Len(l)
    <3> DEFINE A == S \cap 1..(i + 1)
    <3>1. i \in Nat /\ i >= 1 /\ i + 1 \in S
      BY <1>3, <1>6
    <3>2. IsFiniteSet(A) /\ 1 \in A /\ R \cap 1..(i + 1) = A \ {1}
      BY <1>4, <2>1, <3>1, FS_Subset
    <3>3. Cardinality(A \ {1}) = Cardinality(A) - 1
      BY <3>2, FS_RemoveElement
    <3>4. Cardinality(A) \in 1..Len(l)
      BY <1>4, <3>1
    <3>5. Cardinality(A) # 1
      <4>1. IsFiniteSet(A \ {1})
        BY <3>2, FS_RemoveElement
      <4>2. i + 1 \in A \ {1}
        BY <3>1
      <4>3. Cardinality(A \ {1}) # 0
        BY <4>1, <4>2, FS_EmptySet
      <4> QED  BY <3>3, <3>4, <4>3
    <3>6. Cardinality(A) \in 2..Len(l)
      BY <2>3, <3>4, <3>5
    <3> QED  BY <3>2, <3>3, <3>6
  <2> HIDE DEF m, R
  <2>8. \A i \in T : m[Cardinality(T \cap 1..i)] = r[i]
    <3> SUFFICES ASSUME NEW i \in T PROVE m[Cardinality(T \cap 1..i)] = r[i]
      OBVIOUS
    <3>1. PICK k : k = Cardinality(S \cap 1..(i + 1))
      OBVIOUS
    <3>2. Cardinality(T \cap 1..i) = k - 1 /\ k \in 2..Len(l)
      BY <1>9, <2>7, <3>1
    <3>3. k - 1 \in 1..Len(m) /\ m[k - 1] = l[k]
      <4>1. k - 1 \in 1..Len(m) /\ (k - 1) + 1 = k
        BY <2>3, <2>5, <3>2
      <4> QED  BY <2>5, <4>1
    <3>4. l[k] = q[i + 1] /\ r[i] = q[i + 1]
      BY <1>4, <1>6, <3>1
    <3> QED  BY <3>2, <3>3, <3>4
  <2>9. T = PlacesIn(r) /\ Len(m) = Cardinality(T)
    BY <1>8, <2>5, <2>6 DEF T
  <2>10. m = Applications(r)
    BY <1>1, <2>5, <2>8, <2>9, LineIs, SMTT(30)
  <2> QED  BY <1>11, <2>4, <2>10 DEF r, l, m
<1> QED  BY <1>10, <1>11

\* put_nowait puts an application envelope at the back of its line.
LEMMA PutLine ==
  ASSUME NEW b \in BusType, NEW p \in Priorities, NEW e \in Envelopes
  PROVE  \A r \in Priorities :
           Applications(Put(b, p, e).queue[r])
             = IF r = p /\ e \in Events THEN Append(Applications(b.queue[r]), e)
                                        ELSE Applications(b.queue[r])
<1>1. Put(b, p, e).queue = [b.queue EXCEPT ![p] = Append(@, e)]
  BY PutUpdate
<1>2. b.queue \in [Priorities -> Seq(Envelopes)]
  BY DEF BusType
<1>3. Applications(Append(b.queue[p], e)) = IF e \in Events THEN Append(Applications(b.queue[p]), e)
                                                            ELSE Applications(b.queue[p])
  BY <1>2, LineAppended
<1> QED  BY <1>1, <1>2, <1>3

\* get_nowait takes the front of the line, if the front of the queue is in it.
LEMMA GetLine ==
  ASSUME NEW b \in BusType, NEW p \in Priorities, b.queue[p] # << >>, NEW h, h = Head(b.queue[p])
  PROVE  /\ h \in Events => Applications(b.queue[p]) # << >> /\ Head(Applications(b.queue[p])) = h
         /\ \A r \in Priorities :
              Applications(Get(b, p).queue[r])
                = IF r = p /\ h \in Events THEN Tail(Applications(b.queue[r]))
                                           ELSE Applications(b.queue[r])
<1>1. PICK a : a = [b EXCEPT !.queue[p] = Tail(b.queue[p])]
  OBVIOUS
<1>2. b.queue \in [Priorities -> Seq(Envelopes)] /\ Tail(b.queue[p]) \in Seq(Envelopes)
  BY DEF BusType
<1>3. a \in BusType /\ a.queue = [b.queue EXCEPT ![p] = Tail(b.queue[p])]
  BY <1>1, <1>2, QueueUpdate
<1>4. Get(b, p) = WakeNext(a, p)
  BY <1>1 DEF Get
<1>5. Get(b, p).queue = [b.queue EXCEPT ![p] = Tail(b.queue[p])]
  BY <1>3, <1>4, WakeKeeps
<1>6. /\ h \in Events => Applications(b.queue[p]) # << >> /\ Head(Applications(b.queue[p])) = h
      /\ Applications(Tail(b.queue[p])) = IF h \in Events THEN Tail(Applications(b.queue[p]))
                                                          ELSE Applications(b.queue[p])
  BY <1>2, LineTaken
<1> QED  BY <1>2, <1>5, <1>6

\* Meta-events are in no line.
LEMMA MetaLine ==
  ASSUME NEW b \in BusType
  PROVE  /\ PublishMeta(b) \in BusType
         /\ \A r \in Priorities :
              Applications(PublishMeta(b).queue[r]) = Applications(b.queue[r])
<1>1. Meta \in Envelopes /\ Meta \notin Events /\ "HIGH" \in Priorities
  BY EnvelopesAssumption DEF Envelopes, Priorities
<1>2. CASE Full(b, "HIGH")
  BY <1>2 DEF PublishMeta
<1>3. CASE ~Full(b, "HIGH")
  <2>1. PublishMeta(b) = Put(b, "HIGH", Meta)
    BY <1>3 DEF PublishMeta
  <2>2. Put(b, "HIGH", Meta) \in BusType
    BY <1>1, PutUpdate
  <2> QED  BY <1>1, <2>1, <2>2, PutLine
<1> QED  BY <1>2, <1>3

\* What is left of line p when the verdict is v and the front of its queue is h.
Remains(b, p, v, h) ==
  IF v = "drop_oldest" /\ h \in Events THEN Tail(Applications(b.queue[p]))
                                        ELSE Applications(b.queue[p])

\* _enqueue_local: what its line loses to drop_oldest and what joins it.
LEMMA EnqueueLine ==
  ASSUME NEW b, Sound(b), NEW t \in Tasks, NEW e, e = EnvelopeOf(t), NEW v, v = Verdict(b, e),
         NEW p, p = PrioOf(e), NEW h, h = Head(b.queue[p])
  PROVE  /\ v \in {"put", "drop_oldest", "reject", "block"}
         /\ v = "drop_oldest" /\ h \in Events =>
              Applications(b.queue[p]) # << >> /\ Head(Applications(b.queue[p])) = h
         /\ \A r \in Priorities :
              Applications(EnqueueLocal(b, t).queue[r])
                = IF r # p THEN Applications(b.queue[r])
                  ELSE IF v \in {"put", "drop_oldest"} /\ e \in Events
                       THEN Append(Remains(b, p, v, h), e) ELSE Remains(b, p, v, h)
<1>1. p \in Priorities /\ b \in BusType /\ e \in Envelopes
  BY TaskFacts DEF Sound
<1>2. PICK m : m = PublishMeta(b)
  OBVIOUS
<1>3. m \in BusType /\ \A r \in Priorities : Applications(m.queue[r]) = Applications(b.queue[r])
  BY <1>1, <1>2, MetaLine
<1>4. v \in {"put", "drop_oldest", "reject", "block"} /\ (v # "put" => Full(b, p))
  <2>1. e \in Events \cup {Dlq}
    BY TaskFacts
  <2> QED  BY <2>1, TopicsAssumption DEF Verdict, Policies
<1>5. CASE v = "put"
  <2>1. EnqueueLocal(b, t) = Put(b, p, e)
    BY <1>5 DEF EnqueueLocal
  <2> QED  BY <1>1, <1>5, <2>1, PutLine DEF Remains
<1>6. CASE v = "reject"
  <2>1. EnqueueLocal(b, t) = m
    BY <1>2, <1>6 DEF EnqueueLocal
  <2> QED  BY <1>3, <1>6, <2>1 DEF Remains
<1>7. CASE v = "drop_oldest"
  <2>1. EnqueueLocal(b, t) = Put(Get(m, p), p, e)
    BY <1>2, <1>7 DEF EnqueueLocal
  <2>2. b.queue[p] # << >> /\ m.queue[p] = b.queue[p]
    BY <1>1, <1>2, <1>4, <1>7, FullFacts
  <2>3. PICK g : g = Get(m, p)
    OBVIOUS
  <2>4. g \in BusType
    <3>1. PICK a : a = [m EXCEPT !.queue[p] = Tail(m.queue[p])]
      OBVIOUS
    <3>2. Tail(m.queue[p]) \in Seq(Envelopes)
      BY <1>1, <1>3, <2>2 DEF BusType
    <3>3. a \in BusType
      BY <1>1, <1>3, <3>1, <3>2, QueueUpdate
    <3>4. g = WakeNext(a, p)
      BY <2>3, <3>1 DEF Get
    <3> QED  BY <1>1, <3>3, <3>4, WakeKeeps
  <2>5. /\ h \in Events => Applications(m.queue[p]) # << >> /\ Head(Applications(m.queue[p])) = h
        /\ \A r \in Priorities :
             Applications(g.queue[r]) = IF r = p /\ h \in Events THEN Tail(Applications(m.queue[r]))
                                                                 ELSE Applications(m.queue[r])
    BY <1>1, <1>3, <2>2, <2>3, GetLine
  <2>6. \A r \in Priorities :
          Applications(EnqueueLocal(b, t).queue[r])
            = IF r = p /\ e \in Events THEN Append(Applications(g.queue[r]), e)
                                       ELSE Applications(g.queue[r])
    BY <1>1, <2>1, <2>3, <2>4, PutLine
  <2> QED  BY <1>1, <1>3, <1>7, <2>5, <2>6 DEF Remains
<1>8. CASE v = "block"
  <2>1. EnqueueLocal(b, t) = [m EXCEPT !.putters[p] = Append(@, t)]
    BY <1>2, <1>8 DEF EnqueueLocal
  <2>2. Append(m.putters[p], t) \in Seq(Tasks)
    BY <1>1, <1>3 DEF BusType
  <2>3. EnqueueLocal(b, t).queue = m.queue
    BY <1>1, <1>3, <2>1, <2>2, PuttersUpdate
  <2> QED  BY <1>3, <1>8, <2>3 DEF Remains
<1> QED  BY <1>4, <1>5, <1>6, <1>7, <1>8

\* A resumed put joins its line, or waits again.
LEMMA ResumedLine ==
  ASSUME NEW b, Sound(b), NEW t \in Tasks, NEW e, e = EnvelopeOf(t), NEW p, p = PrioOf(e)
  PROVE  \A r \in Priorities :
           Applications(ResumedPut(b, t).queue[r])
             = IF r = p /\ ~Full(b, p) /\ e \in Events THEN Append(Applications(b.queue[r]), e)
                                                       ELSE Applications(b.queue[r])
<1>1. p \in Priorities /\ b \in BusType /\ e \in Envelopes
  BY TaskFacts DEF Sound
<1>2. PICK c : c = [b EXCEPT !.woken[p] = @ \ {t}]
  OBVIOUS
<1>3. c \in BusType /\ c.queue = b.queue
  <2>1. b.woken[p] \ {t} \in SUBSET Tasks
    BY <1>1 DEF BusType
  <2> QED  BY <1>1, <1>2, <2>1, WokenUpdate
<1>4. CASE Full(b, p)
  <2>1. ResumedPut(b, t) = [c EXCEPT !.putters[p] = Append(@, t)]
    BY <1>2, <1>4 DEF ResumedPut
  <2>2. Append(c.putters[p], t) \in Seq(Tasks)
    BY <1>1, <1>3 DEF BusType
  <2>3. ResumedPut(b, t).queue = b.queue
    BY <1>1, <1>3, <2>1, <2>2, PuttersUpdate
  <2> QED  BY <1>4, <2>3
<1>5. CASE ~Full(b, p)
  <2>1. ResumedPut(b, t) = Put(c, p, e)
    BY <1>2, <1>5 DEF ResumedPut
  <2> QED  BY <1>1, <1>3, <1>5, <2>1, PutLine
<1> QED  BY <1>4, <1>5

------------------------------------------------------------------------------
(* The stages of an envelope.                                              *)

Line(p) == Applications(bus.queue[p])

\* What waits is what the queues hold; what runs is what the workers have.
LEMMA StageFacts ==
  ASSUME Inv, Placed, NEW e \in Events
  PROVE  /\ Stage(e) \in {"new", "asked", "refused", "waiting", "running", "done", "dropped", "cut"}
         /\ Stage(e) = "waiting" <=> Holds(bus.queue, e)
         /\ Stage(e) = "running" <=> fate[e] = "running"
<1>1. /\ pub[e] \in {"new", "blocked", "accepted", "rejected", "closed", "cancelled"}
      /\ fate[e] \in {"none", "running", "done", "dropped", "cut"}
  BY DEF Inv, TypeOK
<1>2. /\ Holds(bus.queue, e) <=> pub[e] = "accepted" /\ fate[e] = "none"
      /\ fate[e] # "none" => pub[e] = "accepted"
  BY DEF Placed, QueuedExact
<1> QED  BY <1>1, <1>2 DEF Stage

\* The lines hold what waits, each envelope at its priority.
LEMMA LinesHold ==
  ASSUME Inv, Placed
  PROVE  /\ \A p \in Priorities : Line(p) \in Seq(Events)
         /\ \A e \in Events : Stage(e) = "waiting" <=> \E i \in DOMAIN Line(Prio[e]) : Line(Prio[e])[i] = e
<1>1. bus.queue \in [Priorities -> Seq(Envelopes)]
  BY DEF Placed, Tidy
<1>2. \A p \in Priorities : Line(p) \in Seq(Events)
  BY <1>1, LineFacts DEF Line
<1>3. ASSUME NEW e \in Events
      PROVE  Stage(e) = "waiting" <=> \E i \in DOMAIN Line(Prio[e]) : Line(Prio[e])[i] = e
  <2>1. PrioOf(e) = Prio[e] /\ Prio[e] \in Priorities
    BY EnvelopesAssumption, TopicsAssumption DEF PrioOf
  <2>2. PICK q \in Seq(Envelopes) : q = bus.queue[Prio[e]]
    BY <1>1, <2>1
  <2>3. DOMAIN Line(Prio[e]) = 1..Len(Applications(q)) /\ Line(Prio[e]) = Applications(q)
    BY <1>2, <2>1, <2>2 DEF Line
  <2>4. Holds(bus.queue, e) <=> \E i \in PlacesIn(q) : q[i] = e
    BY <2>1, <2>2 DEF Holds, PlacesIn
  <2>5. (\E i \in PlacesIn(q) : q[i] = e) <=> \E k \in 1..Len(Applications(q)) : Applications(q)[k] = e
    <3>1. /\ \A i \in PlacesIn(q) : \E k \in 1..Len(Applications(q)) : Applications(q)[k] = q[i]
          /\ \A k \in 1..Len(Applications(q)) : \E i \in PlacesIn(q) : Applications(q)[k] = q[i]
      BY LineFacts
    <3> QED  BY <3>1
  <2> QED  BY <2>3, <2>4, <2>5, StageFacts
<1> QED  BY <1>2, <1>3

\* No more envelopes run than there are workers.
LEMMA RunningFits ==
  ASSUME Inv, Placed
  PROVE  Cardinality({e \in Events : Stage(e) = "running"}) <= Cardinality(Workers)
<1> DEFINE R == {e \in Events : Stage(e) = "running"}
           f == [e \in R |-> CHOOSE w \in Workers : worker[w].at.env = e]
<1>1. \A e \in R : \E w \in Workers : worker[w].at.env = e
  BY StageFacts DEF Placed, HandsExact
<1>2. \A e \in R : f[e] \in Workers /\ worker[f[e]].at.env = e
  BY <1>1
<1> HIDE DEF f
<1>3. f \in [R -> Workers]
  BY <1>2 DEF f
<1>4. f \in Injection(R, Workers)
  BY <1>2, <1>3 DEF Injection, IsInjective
<1> QED  BY <1>4, WorkersAssumption, FS_Injection

\* What BusService says of a state in the mapped variables.
Served ==
  /\ \A e \in Events :
       /\ Stage(e) \in {"new", "asked", "refused", "waiting", "running", "done", "dropped", "cut"}
       /\ Stage(e) = "waiting" <=> \E i \in DOMAIN Line(Prio[e]) : Line(Prio[e])[i] = e
  /\ \A p \in Priorities : Line(p) \in Seq(Events)
  /\ Cardinality({e \in Events : Stage(e) = "running"}) <= Cardinality(Workers)

LEMMA PlacedIsServed == Inv /\ Placed => Served
BY StageFacts, LinesHold, RunningFits DEF Served

------------------------------------------------------------------------------
(* A step of the bus as a step of the service.                             *)

Moved(a, b) == a # b => <<a, b>> \in Service!Moves

\* The instance counts as the module does.
LEMMA SameCardinality ==
  ASSUME NEW S PROVE Service!Cardinality(S) = Cardinality(S)
BY DEF Service!Cardinality, Cardinality

\* At most one line changes: the oldest may leave it and X, if not empty, joins.
LEMMA ServiceStep ==
  ASSUME Served, Served', NEW p \in Priorities, NEW rest, NEW X,
         \A r \in Priorities : r # p => Line(r)' = Line(r),
         rest = Line(p) \/ (Line(p) # << >> /\ rest = Tail(Line(p))),
         \/ X = {} /\ Line(p)' = rest
         \/ \E x \in Events : X = {x} /\ Prio[x] = p /\ Line(p)' = Append(rest, x),
         \A e \in Events : /\ Moved(Stage(e), Stage(e)')
                           /\ e \in X <=> Stage(e) # "waiting" /\ Stage(e)' = "waiting"
                           /\ Stage(e) = "waiting" /\ Stage(e)' \in {"running", "done"} =>
                                \A r \in Priorities : PriorityValue[r] > PriorityValue[Prio[e]] => Line(r) = << >>
  PROVE  Service!Next
<1>1. ASSUME NEW e \in Events
      PROVE  Stage(e)' \in {m[2] : m \in Service!Moves} \cup {"new"}
  <2>1. Stage(e)' \in {"new", "asked", "refused", "waiting", "running", "done", "dropped", "cut"}
    BY DEF Served
  <2> QED  BY <2>1 DEF Service!Moves
<1>2. ASSUME NEW e \in Events
      PROVE  Service!Entered(e) <=> e \in X
  BY DEF Service!Entered
<1>3. ASSUME NEW r \in Priorities
      PROVE  Service!LineMoves(r)
  <2>1. PICK l \in Seq(Events) : l = Line(r)
    BY DEF Served
  <2>2. PICK J : J = {e \in Events : Prio[e] = r /\ Service!Entered(e)}
    OBVIOUS
  <2>3. J = IF r = p THEN X ELSE {}
    BY <1>2, <2>2
  <2>4. /\ SubSeq(l, 1, Len(l)) = l /\ 0 \in {0, 1} \cap 0..Len(l) /\ 0 + 1 = 1
        /\ l # << >> => SubSeq(l, 2, Len(l)) = Tail(l) /\ 1 \in {0, 1} \cap 0..Len(l) /\ 1 + 1 = 2
    OBVIOUS
  <2>5. PICK s : s = IF r = p THEN rest ELSE l
    OBVIOUS
  <2>6. \E gone \in {0, 1} \cap 0..Len(l) : SubSeq(l, gone + 1, Len(l)) = s
    BY <2>1, <2>4, <2>5
  <2>7. (J = {} /\ Line(r)' = s) \/ \E e \in J : J = {e} /\ Line(r)' = Append(s, e)
    BY <2>1, <2>3, <2>5
  <2>8. \E gone \in {0, 1} \cap 0..Len(l) :
          \/ J = {} /\ Line(r)' = SubSeq(l, gone + 1, Len(l))
          \/ \E e \in J : J = {e} /\ Line(r)' = Append(SubSeq(l, gone + 1, Len(l)), e)
    BY <2>6, <2>7
  <2> QED  BY <2>1, <2>2, <2>8 DEF Service!LineMoves, Line
<1>4. Service!StrictPriority
  BY TopicsAssumption DEF Service!StrictPriority, Service!Started, Line
<1>5. Cardinality({e \in Events : Stage(e)' = "running"}) <= Cardinality(Workers)
  BY DEF Served
<1>6. Service!Cardinality({e \in Events : Stage(e)' = "running"}) <= Cardinality(Workers)
  BY <1>5, SameCardinality
<1>7. /\ [r \in Priorities |-> Line(r)'] \in [Priorities -> Seq(Events)]
      /\ [e \in Events |-> Stage(e)'] \in [Events -> {m[2] : m \in Service!Moves} \cup {"new"}]
  BY <1>1 DEF Served
<1>8. ASSUME NEW e \in Events
      PROVE  /\ Stage(e)' # Stage(e) => <<Stage(e), Stage(e)'>> \in Service!Moves
             /\ Stage(e)' = "waiting" <=> \E i \in DOMAIN (Line(Prio[e])') : Line(Prio[e])'[i] = e
             /\ Prio[e] \in Priorities
  BY TopicsAssumption DEF Moved, Served
<1> QED  BY <1>3, <1>4, <1>6, <1>7, <1>8 DEF Service!Next, Line

\* A step that decides fates only, and at most takes the oldest off one line.
LEMMA FateStep ==
  ASSUME Placed, Served, Served', pub' = pub, NEW p \in Priorities,
         \A r \in Priorities : r # p => Line(r)' = Line(r),
         Line(p)' = Line(p) \/ (Line(p) # << >> /\ Line(p)' = Tail(Line(p))),
         \A e \in Events :
           \/ fate'[e] = fate[e]
           \/ fate[e] = "running" /\ fate'[e] \in {"done", "cut"}
           \/ fate[e] = "none" /\ pub[e] = "accepted" /\ fate'[e] = "dropped"
           \/ /\ fate[e] = "none" /\ pub[e] = "accepted" /\ fate'[e] \in {"running", "done"}
              /\ \A r \in Priorities : PriorityValue[r] > PriorityValue[Prio[e]] => Line(r) = << >>
  PROVE  Service!Next
<1>1. PICK rest : rest = Line(p)'
  OBVIOUS
<1>2. PICK X : X = {}
  OBVIOUS
<1>3. ASSUME NEW e \in Events
      PROVE  /\ Moved(Stage(e), Stage(e)')
             /\ ~(Stage(e) # "waiting" /\ Stage(e)' = "waiting")
             /\ Stage(e) = "waiting" /\ Stage(e)' \in {"running", "done"} =>
                  \A r \in Priorities : PriorityValue[r] > PriorityValue[Prio[e]] => Line(r) = << >>
  <2>1. fate[e] # "none" => pub[e] = "accepted"
    BY DEF Placed, QueuedExact
  <2>2. CASE fate'[e] = fate[e]
    <3>1. Stage(e)' = Stage(e)
      BY <2>2 DEF Stage
    <3> QED  BY <3>1 DEF Moved
  <2>3. CASE fate'[e] # fate[e]
    <3>1. Stage(e) = (IF fate[e] = "none" THEN "waiting" ELSE fate[e]) /\ Stage(e)' = fate'[e]
      BY <2>1, <2>3 DEF Stage
    <3> QED  BY <2>3, <3>1 DEF Moved, Service!Moves
  <2> QED  BY <2>2, <2>3
<1>4. \A e \in Events : e \in X <=> Stage(e) # "waiting" /\ Stage(e)' = "waiting"
  BY <1>2, <1>3
<1>5. rest = Line(p) \/ (Line(p) # << >> /\ rest = Tail(Line(p)))
  BY <1>1
<1>6. X = {} /\ Line(p)' = rest
  BY <1>1, <1>2
<1> QED  BY <1>3, <1>4, <1>5, <1>6, ServiceStep

\* No line changes and no fate is decided.
LEMMA QuietStep ==
  ASSUME Placed, Served, Served', UNCHANGED <<pub, fate>>, \A r \in Priorities : Line(r)' = Line(r)
  PROVE  Service!Next
<1>1. "HIGH" \in Priorities
  BY DEF Priorities
<1> QED  BY <1>1, FateStep

------------------------------------------------------------------------------
(* One lemma per kind of action.                                           *)

\* The life of the pool, retries and spare permits concern no envelope.
LEMMA IdleServes ==
  ASSUME Inv, Placed, Served, Served',
         \/ Start \/ JoinDone \/ CloseBegin \/ JoinTimeout
         \/ \E w \in Workers : AcquireNothing(w) \/ HandlerRetry(w)
         \/ UNCHANGED vars
  PROVE  Service!Next
<1>1. UNCHANGED <<pub, fate>> /\ bus'.queue = bus.queue
  BY DEF Start, JoinDone, CloseBegin, JoinTimeout, AcquireNothing, HandlerRetry, vars, Inv, Sound, BusType
<1> QED  BY <1>1, QuietStep DEF Line

\* close() counts what is left, and publishes a meta-event at most.
LEMMA DrainServes ==
  ASSUME Inv, Placed, Served, Served', DrainDone \/ DrainTimeout PROVE Service!Next
<1>1. UNCHANGED <<pub, fate>>
  BY DEF DrainDone, DrainTimeout
<1>2. PICK b : b = PublishMeta(bus)
  OBVIOUS
<1>3. bus \in BusType /\ b \in BusType /\ \A r \in Priorities : Applications(b.queue[r]) = Applications(bus.queue[r])
  BY <1>2, MetaLine DEF Inv, Sound
<1>4. bus'.queue = bus.queue \/ bus'.queue = b.queue
  BY <1>2, <1>3 DEF DrainDone, DrainTimeout, StopWorkers, BusType
<1> QED  BY <1>1, <1>3, <1>4, QuietStep DEF Line

\* The end of a handler and a cancellation decide the fate of what is running.
LEMMA DispatchServes ==
  ASSUME Inv, Placed, Served, Served', NEW w \in Workers,
         HandlerOk(w) \/ MetaExhausted(w) \/ Cancel(w)
  PROVE  Service!Next
<1>1. pub' = pub /\ "HIGH" \in Priorities
  BY DEF HandlerOk, MetaExhausted, Cancel, Priorities
<1>2. bus'.queue = bus.queue
  <2>1. CASE Cancel(w) /\ worker[w].pc = "dlq"
    <3>1. /\ w \in Tasks /\ EnvelopeOf(w) = Dlq /\ PrioOf(Dlq) = "HIGH" /\ Suspended(w)
      BY <2>1 DEF Tasks, EnvelopeOf, PrioOf, Suspended
    <3>2. w \in InLine(bus, PrioOf(EnvelopeOf(w)))
      BY <1>1, <3>1 DEF Inv, PuttersExact
    <3> QED  BY <2>1, <3>1, <3>2, CancelledKeeps DEF Cancel, Inv
  <2> QED  BY <2>1 DEF HandlerOk, MetaExhausted, Cancel
<1>3. ASSUME NEW e \in Events
      PROVE  fate'[e] = fate[e] \/ (fate[e] = "running" /\ fate'[e] \in {"done", "cut"})
  <2>1. worker[w].at.env = e => fate[e] = "running"
    BY DEF Placed, HandsExact
  <2> QED  BY <2>1 DEF HandlerOk, MetaExhausted, Cancel, FateAfterSub, Inv, TypeOK
<1> QED  BY <1>1, <1>2, <1>3, FateStep DEF Line

\* A worker takes the oldest envelope of the highest priority that waits.
LEMMA AcquireServes ==
  ASSUME Inv, Placed, Served, Served', NEW w \in Workers, AcquireEnvelope(w) PROVE Service!Next
<1>1. PICK p : p = NextPriority(bus)
  OBVIOUS
<1>2. PICK e : e = Head(bus.queue[p])
  OBVIOUS
<1>3. PICK g : g = Get(bus, p)
  OBVIOUS
<1>4. /\ ~Empty(bus) /\ pub' = pub
      /\ bus' = [g EXCEPT !.permits = @ - 1]
      /\ fate' = IF e \in Events
                 THEN [fate EXCEPT ![e] = IF SubCount[e] = 0 THEN "done" ELSE "running"] ELSE fate
  BY <1>1, <1>2, <1>3 DEF AcquireEnvelope
<1>5. /\ bus \in BusType /\ p \in Priorities /\ bus.queue[p] # << >>
      /\ \A r \in Priorities : PriorityValue[r] > PriorityValue[p] => bus.queue[r] = << >>
  BY <1>1, <1>4, NextPriorityFacts DEF Inv, Sound
<1>6. /\ g \in BusType /\ e \in Envelopes /\ PrioOf(e) = p /\ Holds(bus.queue, e)
  BY <1>2, <1>3, <1>5, GetTidy DEF Placed
<1>7. bus'.queue = g.queue
  BY <1>4, <1>6 DEF BusType
<1>8. /\ e \in Events => Line(p) # << >>
      /\ \A r \in Priorities : Line(r)' = IF r = p /\ e \in Events THEN Tail(Line(r)) ELSE Line(r)
  BY <1>2, <1>3, <1>5, <1>7, GetLine DEF Line
<1>9. \A r \in Priorities : PriorityValue[r] > PriorityValue[p] => Line(r) = << >>
  <2>1. PlacesIn(<< >>) = {} /\ << >> \in Seq(Envelopes)
    BY DEF PlacesIn
  <2>2. Applications(<< >>) \in Seq(Events) /\ Len(Applications(<< >>)) = 0
    BY <2>1, LineFacts, FS_EmptySet
  <2>3. Applications(<< >>) = << >>
    BY <2>2
  <2> QED  BY <1>5, <2>3 DEF Line
<1>10. e \in Events => pub[e] = "accepted" /\ fate[e] = "none" /\ Prio[e] = p
  BY <1>6, EnvelopesAssumption DEF Placed, QueuedExact, PrioOf
<1>11. \A x \in Events : \/ fate'[x] = fate[x]
                         \/ x = e /\ fate'[x] \in {"running", "done"}
  BY <1>4 DEF Inv, TypeOK
<1> QED  BY <1>4, <1>5, <1>8, <1>9, <1>10, <1>11, FateStep

\* publish() before it is admitted, or given up.
LEMMA RefusedServes ==
  ASSUME Inv, Placed, Served, Served', NEW e \in Events, PublishClosed(e) \/ PublishCancelled(e)
  PROVE  Service!Next
<1>1. fate' = fate /\ Prio[e] \in Priorities
  BY TopicsAssumption DEF PublishClosed, PublishCancelled
<1>2. bus'.queue = bus.queue
  <2>1. CASE PublishClosed(e)
    BY <2>1 DEF PublishClosed
  <2>2. CASE PublishCancelled(e)
    <3>1. e \in Tasks /\ EnvelopeOf(e) = e /\ PrioOf(e) \in Priorities /\ Suspended(e)
      BY <2>2, PrioFacts, EnvelopesAssumption
         DEF Tasks, EnvelopeOf, Envelopes, PublishCancelled, Suspended
    <3>2. e \in InLine(bus, PrioOf(EnvelopeOf(e)))
      BY <3>1 DEF Inv, PuttersExact
    <3> QED  BY <2>2, <3>1, <3>2, CancelledKeeps DEF PublishCancelled, Inv
  <2> QED  BY <2>1, <2>2
<1>3. ASSUME NEW x \in Events
      PROVE  /\ Moved(Stage(x), Stage(x)')
             /\ ~(Stage(x) # "waiting" /\ Stage(x)' = "waiting")
             /\ ~(Stage(x) = "waiting" /\ Stage(x)' \in {"running", "done"})
  <2>1. CASE x = e
    <3>1. Stage(x) \in {"new", "asked"} /\ Stage(x)' = "refused"
      BY <1>1, <2>1 DEF Stage, PublishClosed, PublishCancelled, Inv, TypeOK
    <3> QED  BY <3>1 DEF Moved, Service!Moves
  <2>2. CASE x # e
    <3>1. Stage(x)' = Stage(x)
      BY <1>1, <2>2 DEF Stage, PublishClosed, PublishCancelled, Inv, TypeOK
    <3> QED  BY <3>1 DEF Moved
  <2> QED  BY <2>1, <2>2
<1>4. PICK X : X = {}
  OBVIOUS
<1>5. PICK rest : rest = Line(Prio[e])
  OBVIOUS
<1>6. \A r \in Priorities : Line(r)' = Line(r)
  BY <1>2 DEF Line
<1>7. \A x \in Events : x \in X <=> Stage(x) # "waiting" /\ Stage(x)' = "waiting"
  BY <1>3, <1>4
<1>8. X = {} /\ Line(Prio[e])' = rest
  BY <1>1, <1>4, <1>5, <1>6
<1> QED  BY <1>1, <1>3, <1>5, <1>6, <1>7, <1>8, ServiceStep

\* publish(): the envelope is put, or waits for room, or is refused; the oldest
\* envelope of its priority may be dropped for it.
LEMMA PublishServes ==
  ASSUME Inv, Placed, Served, Served', NEW e \in Events, Publish(e) PROVE Service!Next
<1>1. PICK v : v = Verdict(bus, e)
  OBVIOUS
<1>2. PICK p : p = PrioOf(e)
  OBVIOUS
<1>3. PICK h : h = Head(bus.queue[p])
  OBVIOUS
<1>4. /\ pub[e] = "new" /\ bus' = EnqueueLocal(bus, e)
      /\ pub' = [pub EXCEPT ![e] = CASE v = "reject" -> "rejected"
                                     [] v = "block"  -> "blocked"
                                     [] OTHER        -> "accepted"]
      /\ fate' = IF v = "drop_oldest" /\ h \in Events THEN [fate EXCEPT ![h] = "dropped"] ELSE fate
  BY <1>1, <1>2, <1>3 DEF Publish, FateAfterEnqueue
<1>5. /\ e \in Tasks /\ e = EnvelopeOf(e) /\ e \in Envelopes
      /\ p \in Priorities /\ Prio[e] = p
  BY <1>2, PrioFacts, EnvelopesAssumption DEF Tasks, EnvelopeOf, Envelopes, PrioOf
<1>6. fate[e] = "none" /\ ~Holds(bus.queue, e)
  BY <1>4 DEF Placed, QueuedExact
<1>7. PICK rest : rest = Remains(bus, p, v, h)
  OBVIOUS
<1>8. /\ v \in {"put", "drop_oldest", "reject", "block"}
      /\ v = "drop_oldest" /\ h \in Events => Line(p) # << >>
      /\ \A r \in Priorities :
           Line(r)' = IF r # p THEN Line(r)
                      ELSE IF v \in {"put", "drop_oldest"} THEN Append(rest, e) ELSE rest
  <2>1. Sound(bus) /\ p = PrioOf(e) /\ h = Head(bus.queue[p]) /\ v = Verdict(bus, e)
    BY <1>1, <1>2, <1>3 DEF Inv
  <2>2. /\ v \in {"put", "drop_oldest", "reject", "block"}
        /\ v = "drop_oldest" /\ h \in Events =>
             Applications(bus.queue[p]) # << >> /\ Head(Applications(bus.queue[p])) = h
        /\ \A r \in Priorities :
             Applications(EnqueueLocal(bus, e).queue[r])
               = IF r # p THEN Applications(bus.queue[r])
                 ELSE IF v \in {"put", "drop_oldest"} /\ e \in Events
                      THEN Append(Remains(bus, p, v, h), e) ELSE Remains(bus, p, v, h)
    BY <1>5, <2>1, EnqueueLine
  <2> QED  BY <1>4, <1>5, <1>7, <2>2 DEF Line
<1>9. PICK X : X = IF v \in {"put", "drop_oldest"} THEN {e} ELSE {}
  OBVIOUS
<1>10. v = "drop_oldest" /\ h \in Events => pub[h] = "accepted" /\ fate[h] = "none"
  <2>1. Sound(bus) /\ Tidy(bus.queue) /\ h = Head(bus.queue[PrioOf(e)])
    BY <1>2, <1>3 DEF Inv, Placed
  <2>2. /\ Tidy(EnqueueLocal(bus, e).queue)
        /\ v \in {"put", "drop_oldest", "reject", "block"}
        /\ v = "drop_oldest" => Holds(bus.queue, h)
    BY <1>1, <1>5, <1>6, <2>1, EnqueueTidy
  <2> QED  BY <2>2 DEF Placed, QueuedExact
<1>11. ASSUME NEW x \in Events
       PROVE  /\ pub'[x] = IF x # e THEN pub[x] ELSE IF v = "reject" THEN "rejected"
                           ELSE IF v = "block" THEN "blocked" ELSE "accepted"
              /\ fate'[x] = IF v = "drop_oldest" /\ x = h THEN "dropped" ELSE fate[x]
  BY <1>4 DEF Inv, TypeOK
<1>12. ASSUME NEW x \in Events
       PROVE  /\ Moved(Stage(x), Stage(x)')
              /\ x \in X <=> Stage(x) # "waiting" /\ Stage(x)' = "waiting"
              /\ ~(Stage(x) = "waiting" /\ Stage(x)' \in {"running", "done"})
  <2>1. CASE x = e
    <3>1. Stage(x) = "new"
      BY <1>4, <2>1 DEF Stage
    <3>2. Stage(x)' = IF v = "reject" THEN "refused" ELSE IF v = "block" THEN "asked" ELSE "waiting"
      BY <1>4, <1>6, <1>10, <1>11, <2>1 DEF Stage
    <3> QED  BY <1>8, <1>9, <2>1, <3>1, <3>2 DEF Moved, Service!Moves
  <2>2. CASE x # e /\ v = "drop_oldest" /\ x = h
    <3>1. Stage(x) = "waiting" /\ Stage(x)' = "dropped"
      BY <1>10, <1>11, <2>2 DEF Stage
    <3> QED  BY <1>9, <2>2, <3>1 DEF Moved, Service!Moves
  <2>3. CASE x # e /\ ~(v = "drop_oldest" /\ x = h)
    <3>1. Stage(x)' = Stage(x)
      BY <1>11, <2>3 DEF Stage
    <3> QED  BY <1>9, <2>3, <3>1 DEF Moved
  <2> QED  BY <2>1, <2>2, <2>3
<1>13. rest = Line(p) \/ (Line(p) # << >> /\ rest = Tail(Line(p)))
  BY <1>7, <1>8 DEF Remains, Line
<1>14. \/ X = {} /\ Line(p)' = rest
       \/ X = {e} /\ Prio[e] = p /\ Line(p)' = Append(rest, e)
  BY <1>5, <1>8, <1>9
<1> QED  BY <1>5, <1>8, <1>12, <1>13, <1>14, ServiceStep

\* A blocked publish() runs again: its envelope is put, or waits on.
LEMMA ResumesServes ==
  ASSUME Inv, Placed, Served, Served', NEW e \in Events, PublishResumes(e) PROVE Service!Next
<1>1. PICK p : p = PrioOf(e)
  OBVIOUS
<1>2. /\ bus' = ResumedPut(bus, e) /\ fate' = fate
      /\ e \in bus.woken[p]
      /\ pub' = IF Full(bus, p) THEN pub ELSE [pub EXCEPT ![e] = "accepted"]
  BY <1>1 DEF PublishResumes
<1>3. /\ e \in Tasks /\ e = EnvelopeOf(e) /\ e \in Envelopes /\ e \notin Workers
      /\ p \in Priorities /\ Prio[e] = p
  BY <1>1, PrioFacts, EnvelopesAssumption DEF Tasks, EnvelopeOf, Envelopes, PrioOf
<1>4. pub[e] = "blocked"
  <2>1. e \in InLine(bus, p)
    BY <1>2 DEF InLine
  <2> QED  BY <1>3, <2>1 DEF Inv, PuttersExact, Suspended
<1>5. fate[e] = "none"
  BY <1>4 DEF Placed, QueuedExact
<1>6. \A r \in Priorities : Line(r)' = IF r = p /\ ~Full(bus, p) THEN Append(Line(r), e) ELSE Line(r)
  BY <1>1, <1>2, <1>3, ResumedLine DEF Line, Inv
<1>7. CASE Full(bus, p)
  BY <1>2, <1>6, <1>7, QuietStep
<1>8. CASE ~Full(bus, p)
  <2>1. PICK X : X = {e}
    OBVIOUS
  <2>2. PICK rest : rest = Line(p)
    OBVIOUS
  <2>3. ASSUME NEW x \in Events
        PROVE  /\ Moved(Stage(x), Stage(x)')
               /\ x \in X <=> Stage(x) # "waiting" /\ Stage(x)' = "waiting"
               /\ ~(Stage(x) = "waiting" /\ Stage(x)' \in {"running", "done"})
    <3>1. pub'[x] = IF x = e THEN "accepted" ELSE pub[x]
      BY <1>2, <1>8 DEF Inv, TypeOK
    <3>2. CASE x = e
      <4>1. Stage(x) = "asked" /\ Stage(x)' = "waiting"
        BY <1>2, <1>4, <1>5, <3>1, <3>2 DEF Stage
      <4> QED  BY <2>1, <3>2, <4>1 DEF Moved, Service!Moves
    <3>3. CASE x # e
      <4>1. Stage(x)' = Stage(x)
        BY <1>2, <3>1, <3>3 DEF Stage
      <4> QED  BY <2>1, <3>3, <4>1 DEF Moved
    <3> QED  BY <3>2, <3>3
  <2>4. X = {e} /\ Prio[e] = p /\ Line(p)' = Append(rest, e) /\ rest = Line(p)
    BY <1>3, <1>6, <1>8, <2>1, <2>2
  <2>5. \A r \in Priorities : r # p => Line(r)' = Line(r)
    BY <1>6
  <2> QED  BY <1>3, <2>3, <2>4, <2>5, ServiceStep
<1> QED  BY <1>7, <1>8

\* The last failure of a handler: the dispatch is over, or waits in on_dlq; the
\* oldest envelope of its priority may be dropped for the bus.dlq envelope.
LEMMA ExhaustedServes ==
  ASSUME Inv, Placed, Served, Served', NEW w \in Workers, HandlerExhausted(w) PROVE Service!Next
<1>1. PICK b : b = PublishMeta(bus)
  OBVIOUS
<1>2. PICK publish \in BOOLEAN : publish <=> HasDlq /\ ~life.closing
  OBVIOUS
<1>3. PICK v : v = Verdict(b, Dlq)
  OBVIOUS
<1>4. PICK h : h = Head(b.queue["HIGH"])
  OBVIOUS
<1>5. PICK drops \in BOOLEAN : drops <=> publish /\ v = "drop_oldest" /\ h \in Events
  OBVIOUS
<1>6. PICK f : f = IF drops THEN [fate EXCEPT ![h] = "dropped"] ELSE fate
  OBVIOUS
<1>7. /\ pub' = pub
      /\ bus' = IF publish THEN EnqueueLocal(b, w) ELSE b
      /\ (publish /\ v = "block" /\ fate' = fate) \/ fate' = FateAfterSub(w, f)
  BY <1>1, <1>2, <1>3, <1>4, <1>5, <1>6 DEF HandlerExhausted
<1>8. /\ Sound(b) /\ Tidy(b.queue)
      /\ \A x \in Events : Holds(b.queue, x) <=> Holds(bus.queue, x)
      /\ \A r \in Priorities : Applications(b.queue[r]) = Line(r)
  BY <1>1, MetaSound, MetaTidy, MetaLine DEF Inv, Sound, Placed, Line
<1>9. /\ w \in Tasks /\ EnvelopeOf(w) = Dlq /\ PrioOf(Dlq) = "HIGH" /\ Dlq \notin Events
      /\ "HIGH" \in Priorities
  BY EnvelopesAssumption DEF Tasks, EnvelopeOf, PrioOf, Priorities
<1>10. drops => pub[h] = "accepted" /\ fate[h] = "none"
  <2>1. /\ Tidy(EnqueueLocal(b, w).queue)
        /\ v \in {"put", "drop_oldest", "reject", "block"}
        /\ v = "drop_oldest" => Holds(b.queue, h)
    BY <1>3, <1>4, <1>8, <1>9, EnqueueTidy
  <2> QED  BY <1>5, <1>8, <2>1 DEF Placed, QueuedExact
<1>11. /\ drops => Line("HIGH") # << >>
       /\ \A r \in Priorities : Line(r)' = IF r = "HIGH" /\ drops THEN Tail(Line(r)) ELSE Line(r)
  <2>1. CASE publish
    <3>1. /\ v \in {"put", "drop_oldest", "reject", "block"}
          /\ v = "drop_oldest" /\ h \in Events =>
               Applications(b.queue["HIGH"]) # << >> /\ Head(Applications(b.queue["HIGH"])) = h
          /\ \A r \in Priorities :
               Applications(EnqueueLocal(b, w).queue[r])
                 = IF r # "HIGH" THEN Applications(b.queue[r])
                   ELSE IF v \in {"put", "drop_oldest"} /\ Dlq \in Events
                        THEN Append(Remains(b, "HIGH", v, h), Dlq) ELSE Remains(b, "HIGH", v, h)
      BY <1>3, <1>4, <1>8, <1>9, EnqueueLine
    <3> QED  BY <1>5, <1>7, <1>8, <1>9, <2>1, <3>1 DEF Line, Remains
  <2>2. CASE ~publish
    BY <1>5, <1>7, <1>8, <2>2 DEF Line
  <2> QED  BY <2>1, <2>2
<1>12. ASSUME NEW x \in Events
       PROVE  \/ fate'[x] = fate[x]
              \/ fate[x] = "running" /\ fate'[x] \in {"done", "cut"}
              \/ fate[x] = "none" /\ pub[x] = "accepted" /\ fate'[x] = "dropped"
  <2>1. worker[w].at.env = x => fate[x] = "running"
    BY DEF Placed, HandsExact
  <2>2. f[x] = IF drops /\ x = h THEN "dropped" ELSE fate[x]
    BY <1>6 DEF Inv, TypeOK
  <2>3. f \in [Events -> {"none", "running", "done", "dropped", "cut"}]
    BY <1>6 DEF Inv, TypeOK
  <2> QED  BY <1>7, <1>10, <2>1, <2>2, <2>3 DEF FateAfterSub
<1> QED  BY <1>7, <1>9, <1>11, <1>12, FateStep

\* on_dlq runs again: its put concerns no application envelope.
LEMMA DlqServes ==
  ASSUME Inv, Placed, Served, Served', NEW w \in Workers, DlqResumes(w) PROVE Service!Next
<1>1. /\ bus' = ResumedPut(bus, w) /\ pub' = pub
      /\ fate' = fate \/ fate' = FateAfterSub(w, fate)
  BY DEF DlqResumes
<1>2. /\ w \in Tasks /\ EnvelopeOf(w) = Dlq /\ PrioOf(Dlq) = "HIGH" /\ Dlq \notin Events
      /\ "HIGH" \in Priorities
  BY EnvelopesAssumption DEF Tasks, EnvelopeOf, PrioOf, Priorities
<1>3. \A r \in Priorities : Line(r)' = Line(r)
  BY <1>1, <1>2, ResumedLine DEF Line, Inv
<1>4. ASSUME NEW e \in Events
      PROVE  fate'[e] = fate[e] \/ (fate[e] = "running" /\ fate'[e] \in {"done", "cut"})
  <2>1. worker[w].at.env = e => fate[e] = "running"
    BY DEF Placed, HandsExact
  <2> QED  BY <1>1, <2>1 DEF FateAfterSub, Inv, TypeOK
<1> QED  BY <1>1, <1>2, <1>3, <1>4, FateStep

------------------------------------------------------------------------------
(* The refinement.                                                         *)

\* Every step of the bus is a step of the service.
LEMMA StepServes ==
  ASSUME Inv, Placed, Served, Served', [Next]_vars PROVE Service!Next
<1>1. CASE Start \/ JoinDone \/ CloseBegin \/ JoinTimeout \/ UNCHANGED vars
  BY <1>1, IdleServes
<1>2. CASE DrainDone \/ DrainTimeout
  BY <1>2, DrainServes
<1>3. ASSUME NEW e \in Events,
             PublishClosed(e) \/ Publish(e) \/ PublishResumes(e) \/ PublishCancelled(e)
      PROVE  Service!Next
  BY <1>3, RefusedServes, PublishServes, ResumesServes
<1>4. ASSUME NEW w \in Workers,
             \/ AcquireNothing(w) \/ AcquireEnvelope(w) \/ HandlerOk(w)
             \/ HandlerRetry(w) \/ MetaExhausted(w) \/ HandlerExhausted(w)
             \/ DlqResumes(w) \/ Cancel(w)
      PROVE  Service!Next
  BY <1>4, IdleServes, AcquireServes, DispatchServes, ExhaustedServes, DlqServes
<1> QED  BY <1>1, <1>2, <1>3, <1>4 DEF Next

\* The bus starts as the service does, with empty lines.
LEMMA InitServes == Init => Service!Init
<1> SUFFICES ASSUME Init PROVE Service!Init
  OBVIOUS
<1>1. PlacesIn(<< >>) = {} /\ << >> \in Seq(Envelopes)
  BY DEF PlacesIn
<1>2. Applications(<< >>) \in Seq(Events) /\ Len(Applications(<< >>)) = 0
  BY <1>1, LineFacts, FS_EmptySet
<1>3. Applications(<< >>) = << >>
  BY <1>2
<1>4. /\ \A p \in Priorities : Applications(bus.queue[p]) = << >>
      /\ \A e \in Events : Stage(e) = "new"
  BY <1>3 DEF Init, Stage
<1> QED  BY <1>4 DEF Service!Init

\* BusCore implements BusService: an accepted envelope is dispatched at most
\* once, oldest first within a priority and highest priority first, by as many
\* workers at most as the pool has, whatever meta-events, blocked puts, dropped
\* envelopes, cancellations and restarts come in between.
THEOREM BusImplementsService == Spec => ImplementsService
<1>1. Init => Service!Init
  BY InitServes
<1>2. Inv /\ Placed => Served
  BY PlacedIsServed
<1>3. Inv /\ Placed /\ Served /\ Served' /\ [Next]_vars => [Service!Next]_Service!vars
  BY StepServes
<1> QED  BY <1>1, <1>2, <1>3, Invariance, PlacesInvariance, PTL DEF Spec, ImplementsService, Service!Spec
=============================================================================
