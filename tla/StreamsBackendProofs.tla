------------------------ MODULE StreamsBackendProofs ------------------------
(* Proofs about the Redis Streams transport, for any number of processes,    *)
(* events, entries, faults and deployments: what a group acknowledges is     *)
(* accounted for, duplicates are excused, and broadcast readers skip         *)
(* nothing.                                                                   *)
EXTENDS MCStreamsBackend, FiniteSetTheorems, SequenceTheorems, TLAPS

-----------------------------------------------------------------------------
(* Entries in the order of the stream.                                      *)

(* The members of a finite set of integers have the ranks 0, 1, 2, ...      *)
LEMMA Ranks ==
  ASSUME NEW S, IsFiniteSet(S), S \subseteq Int
  PROVE  \A k \in 1..Cardinality(S) : \E n \in S : Cardinality({m \in S : m < n}) = k - 1
<1> DEFINE c == Cardinality(S)
           below(n) == {m \in S : m < n}
           f == [n \in S |-> Cardinality(below(n))]
           T == 0..(c - 1)
<1>1. c \in Nat
  BY FS_CardinalityType
<1>2. ASSUME NEW n \in S PROVE IsFiniteSet(below(n)) /\ Cardinality(below(n)) \in T
  <2>1. below(n) \in SUBSET S /\ below(n) # S
    OBVIOUS
  <2>2. IsFiniteSet(below(n)) /\ Cardinality(below(n)) <= c /\ c # Cardinality(below(n))
    BY <2>1, FS_Subset
  <2>3. Cardinality(below(n)) \in Nat
    BY <2>2, FS_CardinalityType
  <2> QED  BY <1>1, <2>2, <2>3
<1>3. ASSUME NEW m \in S, NEW n \in S, m < n PROVE f[m] < f[n]
  <2>0. m \in Int /\ n \in Int /\ \A x \in S : x \in Int
    OBVIOUS
  <2>1. below(m) \in SUBSET below(n) /\ m \in below(n) /\ m \notin below(m)
    <3>1. \A x \in S : x < m => x < n
      BY <1>3, <2>0
    <3>2. below(m) \in SUBSET below(n)
      BY <3>1, Zenon
    <3>3. m \in below(n) /\ ~(m < m)
      BY <1>3, <2>0
    <3> QED  BY <3>2, <3>3
  <2>2. Cardinality(below(m)) <= Cardinality(below(n)) /\ Cardinality(below(m)) # Cardinality(below(n))
    BY <1>2, <2>1, FS_Subset
  <2> QED  BY <1>2, <2>2
<1>4. f \in [S -> T]
  BY <1>2
<1>5. ASSUME NEW m \in S, NEW n \in S, f[m] = f[n] PROVE m = n
  <2>1. f[m] \in Int /\ f[n] \in Int
    BY <1>4
  <2>2. ~(m < n) /\ ~(n < m)
    BY <1>3, <1>5, <2>1
  <2> QED  BY <2>2
<1>6. IsFiniteSet(T) /\ Cardinality(T) = c
  BY <1>1, FS_Interval
<1> HIDE DEF f, T, c
<1>7. f \in Injection(S, T)
  BY <1>4, <1>5 DEF Injection, IsInjective
<1>8. f \in Surjection(S, T)
  BY <1>6, <1>7, FS_Injection DEF c
<1>9. ASSUME NEW k \in 1..c PROVE \E n \in S : Cardinality({m \in S : m < n}) = k - 1
  <2>1. k - 1 \in T
    BY <1>1 DEF T
  <2>2. PICK n \in S : f[n] = k - 1
    BY <1>8, <2>1 DEF Surjection
  <2> QED  BY <2>2 DEF f
<1> QED  BY <1>9 DEF c

(* A claimed batch holds claimed entries.                                   *)
LEMMA InOrderMembers ==
  ASSUME NEW S, IsFiniteSet(S), S \subseteq Int
  PROVE  InOrder(S) \in Seq(S)
<1>1. Cardinality(S) \in Nat
  BY FS_CardinalityType
<1>2. ASSUME NEW k \in 1..Cardinality(S) PROVE InOrder(S)[k] \in S
  BY Ranks DEF InOrder
<1>3. InOrder(S) = [k \in 1..Cardinality(S) |-> InOrder(S)[k]]
  BY SMTT(30) DEF InOrder
<1> QED  BY <1>1, <1>2, <1>3

-----------------------------------------------------------------------------
(* The inductive invariant.                                                 *)

Kinds == {"published", "run", "echoed", "parked", "dropped", "unrun", "excused", "gap"}
Steps == {"loop", "read", "get", "run", "mark", "ack", "park", "claim"}

(* Event e was run off the transport, or will never have to be.             *)
Accounted(e) ==
  total[e] > 0 \/ e \in Undecodable \cup notes.echoed \cup notes.parked \cup notes.dropped

(* Where a task may be: what it has marked or is about to acknowledge is    *)
(* accounted for.                                                           *)
Sound(k) ==
  /\ k = [pc |-> k.pc, batch |-> k.batch, over |-> k.over]
  /\ k.pc \in Steps /\ k.batch \in Seq(1..Len(log))
  /\ k.pc \in {"mark", "ack"} /\ k.batch # <<>> => Accounted(Ev(Head(k.batch)))

(* Task k is at this step with an entry of event e.                         *)
Occupied(k, pc, e) == k.pc = pc /\ k.batch # <<>> /\ Ev(Head(k.batch)) = e

OnlyAt(k, pc, e) == \A p, x : Occupied(k, p, x) <=> p = pc /\ x = e

(* The tasks that are.                                                      *)
Standing(pc, e) == {x \in Instances \X Tasks : Occupied(task[x[1]][x[2]], pc, e)}

StreamsTypes ==
  /\ log \in Seq(Events) /\ lo \in 0..Len(log) /\ cursor \in 0..Len(log)
  /\ DOMAIN pel \subseteq 1..Len(log) /\ idle \subseteq 1..Len(log)
  /\ total \in [Events -> 0..2]
  /\ notes = [k \in Kinds |-> notes[k]]
  /\ task = [i \in Instances |-> [t \in Tasks |-> task[i][t]]]
  /\ known \in [Instances -> BOOLEAN] /\ up \in [Instances -> {"up", "closing", "down"}]
  /\ lastId \in [Instances -> Nat \cup {Dollar}] /\ start \in [Instances -> Nat]
  /\ seen = [i \in Instances |-> seen[i]]

(* A task of a process that is down does nothing; only broadcast readers    *)
(* read, and they do nothing else.                                          *)
Discipline ==
  \A i \in Instances, t \in Tasks :
    /\ up[i] = "down" => task[i][t].pc = "loop"
    /\ task[i][t].pc = "loop" \/ (Grouped <=> task[i][t].pc # "read")

TasksSound == \A i \in Instances, t \in Tasks : Sound(task[i][t])

(* An event that no task had an excuse to run twice: one task at most is    *)
(* between its check and its mark, and while it may still run the event     *)
(* nobody has; once it has been run the mark is written or about to be.     *)
Single(e) ==
  /\ \A x, y \in Standing("run", e) \cup Standing("mark", e) : x = y
  /\ Standing("run", e) # {} => total[e] = 0 /\ e \notin marks
  /\ total[e] = 0 \/ (total[e] = 1 /\ (e \in marks \/ Standing("mark", e) # {}))

Singles == Grouped => \A e \in Events : e \in notes.excused \/ Single(e)

(* What a broadcast reader has in hand follows its cursor.                  *)
Follows(i) ==
  LET b == task[i]["consumer"].batch
  IN task[i]["consumer"].pc = "read" =>
       /\ b # <<>> /\ \A k \in 1..Len(b) : b[k] = b[1] + k - 1
       /\ \A n \in 1..Len(log) : lastId[i] < n /\ n < b[1] => n <= lo

Gapless ==
  ~Grouped => \A i \in Instances : known[i] /\ i \notin notes.gap =>
    /\ lastId[i] \in 0..Len(log) /\ Follows(i)
    /\ \A n \in 1..lastId[i] : start[i] < n => n \in seen[i] \/ n <= lo

MarksSound == \A e \in marks : e \in Events /\ Accounted(e)

StreamsInv ==
  /\ StreamsTypes /\ Discipline /\ TasksSound /\ MarksSound /\ AckedIsAccounted
  /\ Singles /\ Gapless

-----------------------------------------------------------------------------
(* What every step keeps.                                                   *)

(* The stream only grows, nothing is taken back of what happened.           *)
Grows ==
  /\ conf' = conf /\ log' \in Seq(Events) /\ lo' \in Nat /\ lo <= lo' /\ (lost => lost')
  /\ Len(log) <= Len(log') /\ \A n \in 1..Len(log) : log'[n] = log[n]
  /\ \A e \in Events : total[e] > 0 => total'[e] > 0
  /\ \A k \in Kinds \ {"gap"} : notes[k] \cap Events \subseteq notes'[k]

LEMMA SeqWidens == ASSUME NEW A, NEW B, A \subseteq B, NEW q \in Seq(A) PROVE q \in Seq(B)
OBVIOUS

LEMMA SoundStays ==
  ASSUME StreamsTypes, Grows, NEW k, Sound(k)
  PROVE  Sound(k)'
<1>1. 1..Len(log) \subseteq 1..Len(log') /\ Len(log) \in Nat /\ Len(log') \in Nat
  BY DEF StreamsTypes, Grows
<1>2. k.batch \in Seq(1..Len(log')) /\ k.batch \in Seq(1..Len(log))
  <2>1. k.batch \in Seq(1..Len(log))
    BY DEF Sound
  <2> QED  BY <1>1, <2>1, SeqWidens
<1>3. ASSUME k.pc \in {"mark", "ack"}, k.batch # <<>> PROVE Accounted(Ev(Head(k.batch)))'
  <2>1. Head(k.batch) \in 1..Len(log)
    BY <1>2, <1>3
  <2>2. Ev(Head(k.batch))' = Ev(Head(k.batch)) /\ Ev(Head(k.batch)) \in Events
    BY <2>1 DEF Ev, Grows, StreamsTypes
  <2>3. Accounted(Ev(Head(k.batch)))
    BY <1>3 DEF Sound
  <2> QED  BY <2>2, <2>3 DEF Grows, Accounted, Undecodable, Kinds
<1> QED  BY <1>2, <1>3 DEF Sound

(* A task that turns to its next entry.                                     *)
LEMMA BeforeSound ==
  ASSUME NEW b \in Seq(1..Len(log)), NEW over
  PROVE  Sound(Before(b, over)) /\ Before(b, over).pc \in {"loop", "ack", "park", "get"}
         /\ (Before(b, over).pc # "loop" => b # <<>>)
<1>1. CASE b = <<>>
  BY <1>1 DEF Before, Looping, Sound, Steps
<1>2. CASE b # <<>>
  <2> DEFINE pc == IF Ev(Head(b)) \in Undecodable THEN "ack"
                   ELSE IF Head(b) \in over THEN "park" ELSE "get"
  <2>1. Before(b, over) = [pc |-> pc, batch |-> b, over |-> over]
    BY <1>2 DEF Before
  <2>2. pc \in {"ack", "park", "get"} /\ (pc = "ack" => Ev(Head(b)) \in Undecodable)
    OBVIOUS
  <2> HIDE DEF pc
  <2> QED  BY <1>2, <2>1, <2>2 DEF Sound, Steps, Accounted
<1> QED  BY <1>1, <1>2

LEMMA SameBut ==
  ASSUME NEW A, NEW B, NEW x, B \ {x} = A \ {x}, x \notin B
  PROVE  B \subseteq A /\ (x \notin A => B = A)
OBVIOUS

(* Task t of process i is now k, no other task has changed.                 *)
Turns(i, t, k) == task' = [task EXCEPT ![i][t] = k]

(* A step that changes one task.                                            *)
LEMMA OneTask ==
  ASSUME StreamsTypes, NEW i \in Instances, NEW t \in Tasks, NEW k,
         Turns(i, t, k)
  PROVE  /\ task'[i][t] = k
         /\ \A j \in Instances, u \in Tasks : j # i \/ u # t => task'[j][u] = task[j][u]
BY DEF StreamsTypes, Turns

LEMMA TaskForm ==
  ASSUME StreamsTypes, NEW i, NEW k, task' = [task EXCEPT ![i] = k],
         k = [u \in Tasks |-> k[u]]
  PROVE  task' = [j \in Instances |-> [u \in Tasks |-> task'[j][u]]]
BY DEF StreamsTypes

LEMMA OneTaskForm ==
  ASSUME StreamsTypes, NEW i, NEW t, NEW k, Turns(i, t, k)
  PROVE  task' = [j \in Instances |-> [u \in Tasks |-> task'[j][u]]]
BY ZenonT(30) DEF StreamsTypes, Turns

LEMMA OneTaskSound ==
  ASSUME StreamsTypes, TasksSound, Grows, NEW i \in Instances, NEW t \in Tasks, NEW k, Sound(k)',
         Turns(i, t, k)
  PROVE  TasksSound'
<1> SUFFICES ASSUME NEW j \in Instances, NEW u \in Tasks PROVE Sound(task[j][u])'
  BY DEF TasksSound
<1>0. /\ task'[i][t] = k
      /\ \A x \in Instances, v \in Tasks : x # i \/ v # t => task'[x][v] = task[x][v]
  BY OneTask
<1>1. CASE j = i /\ u = t
  BY <1>0, <1>1
<1>2. CASE j # i \/ u # t
  <2>1. PICK h : h = task[j][u]
    OBVIOUS
  <2>2. Sound(h)
    BY <2>1 DEF TasksSound
  <2>3. Sound(h)' /\ task'[j][u] = h
    BY <1>0, <1>2, <2>1, <2>2, SoundStays
  <2> QED  BY <2>3
<1> QED  BY <1>1, <1>2

LEMMA OneStanding ==
  ASSUME StreamsTypes, TasksSound, Grows, NEW i \in Instances, NEW t \in Tasks, NEW k,
         Turns(i, t, k), NEW pc, NEW e
  PROVE  /\ Standing(pc, e)' \ {<<i, t>>} = Standing(pc, e) \ {<<i, t>>}
         /\ <<i, t>> \in Standing(pc, e)' <=> Occupied(k, pc, e)'
         /\ <<i, t>> \in Standing(pc, e) <=> Occupied(task[i][t], pc, e)
<1>0. /\ task'[i][t] = k
      /\ \A x \in Instances, v \in Tasks : x # i \/ v # t => task'[x][v] = task[x][v]
  BY OneTask
<1>1. ASSUME NEW j \in Instances, NEW u \in Tasks, j # i \/ u # t
      PROVE  Occupied(task[j][u], pc, e)' <=> Occupied(task[j][u], pc, e)
  <2>1. Sound(task[j][u])
    BY DEF TasksSound
  <2>2. task'[j][u] = task[j][u]
    BY <1>0, <1>1
  <2>3. task[j][u].batch # <<>> => Head(task[j][u].batch) \in 1..Len(log)
    BY <2>1 DEF Sound
  <2> QED  BY <2>2, <2>3 DEF Occupied, Ev, Grows
<1>2. \A j \in Instances, u \in Tasks :
        /\ <<j, u>> \in Standing(pc, e)' <=> Occupied(task[j][u], pc, e)'
        /\ <<j, u>> \in Standing(pc, e) <=> Occupied(task[j][u], pc, e)
  BY DEF Standing
<1>3. \A x \in Standing(pc, e) \cup Standing(pc, e)' :
        \E j \in Instances, u \in Tasks : x = <<j, u>>
  BY DEF Standing
<1>4. <<i, t>> \in Standing(pc, e)' <=> Occupied(k, pc, e)'
  BY <1>0, <1>2
<1>5. ASSUME NEW x, x # <<i, t>> PROVE x \in Standing(pc, e)' <=> x \in Standing(pc, e)
  BY <1>1, <1>2, <1>3, <1>5
<1> QED  BY <1>2, <1>4, <1>5

(* A step that leaves the tasks alone.                                      *)
LEMMA NoTask ==
  ASSUME StreamsTypes, TasksSound, Grows, task' = task
  PROVE  TasksSound' /\ \A pc, e : Standing(pc, e)' = Standing(pc, e)
<1>1. ASSUME NEW j \in Instances, NEW u \in Tasks
      PROVE  Sound(task[j][u])' /\ \A pc, e : Occupied(task[j][u], pc, e)' <=> Occupied(task[j][u], pc, e)
  <2>1. PICK h : h = task[j][u]
    OBVIOUS
  <2>2. Sound(h)
    BY <2>1 DEF TasksSound
  <2>3. Sound(h)' /\ task'[j][u] = h
    BY <2>1, <2>2, SoundStays
  <2>4. h.batch # <<>> => Head(h.batch) \in 1..Len(log)
    BY <2>2 DEF Sound
  <2> QED  BY <2>1, <2>3, <2>4 DEF Occupied, Ev, Grows
<1>2. TasksSound'
  BY <1>1 DEF TasksSound
<1>3. \A pc, e : Standing(pc, e)' = Standing(pc, e)
  BY <1>1 DEF Standing
<1> QED  BY <1>2, <1>3

(* Steps that do not bear on a part of the invariant.                       *)
LEMMA AccountedStays ==
  ASSUME Grows, NEW e \in Events, Accounted(e)
  PROVE  Accounted(e)'
BY DEF Grows, Accounted, Undecodable, Kinds

LEMMA MarksStay ==
  ASSUME Grows, MarksSound, marks' \subseteq marks
  PROVE  MarksSound'
BY AccountedStays DEF MarksSound

LEMMA AckedStays ==
  ASSUME StreamsTypes, Grows, AckedIsAccounted, cursor' = cursor, DOMAIN pel \subseteq DOMAIN pel'
  PROVE  AckedIsAccounted'
<1> SUFFICES ASSUME Grouped', ~lost', NEW n \in 1..Len(log'), Settled(n)', n > lo'
             PROVE  Accounted(Ev(n))'
  BY DEF AckedIsAccounted, Accounted
<1>1. Settled(n) /\ n \in 1..Len(log) /\ n > lo /\ ~lost /\ Grouped
  BY DEF Settled, Grows, StreamsTypes, Grouped
<1>2. Accounted(Ev(n)) /\ Ev(n)' = Ev(n) /\ Ev(n) \in Events
  <2>1. Accounted(Ev(n))
    BY <1>1 DEF AckedIsAccounted, Accounted
  <2> QED  BY <1>1, <2>1 DEF Ev, Grows, StreamsTypes
<1> QED  BY <1>2, AccountedStays

LEMMA SinglesStay ==
  ASSUME Grows, Singles, total' = total, marks' = marks,
         \A e \in Events : /\ Standing("run", e)' \subseteq Standing("run", e)
                           /\ Standing("mark", e)' = Standing("mark", e)
  PROVE  Singles'
<1> SUFFICES ASSUME Grouped', NEW e \in Events, e \notin notes'.excused PROVE Single(e)'
  BY DEF Singles
<1>1. Grouped /\ e \notin notes.excused
  BY DEF Grouped, Grows, Kinds
<1>2. Single(e)
  BY <1>1 DEF Singles
<1> QED  BY <1>2 DEF Single

LEMMA GaplessStays ==
  ASSUME StreamsTypes, TasksSound, Grows, Gapless, lastId' = lastId, start' = start, seen' = seen,
         \A i \in Instances :
           ~Grouped /\ known'[i] /\ i \notin notes'.gap =>
             /\ known[i] /\ i \notin notes.gap
             /\ task'[i]["consumer"] = task[i]["consumer"] \/ task'[i]["consumer"].pc # "read"
  PROVE  Gapless'
<1> SUFFICES ASSUME ~Grouped', NEW i \in Instances, known'[i], i \notin notes'.gap
             PROVE  /\ lastId'[i] \in 0..Len(log') /\ Follows(i)'
                    /\ \A n \in 1..lastId'[i] : start'[i] < n => n \in seen'[i] \/ n <= lo'
  BY DEF Gapless
<1>1. ~Grouped /\ known[i] /\ i \notin notes.gap
      /\ (task'[i]["consumer"] = task[i]["consumer"] \/ task'[i]["consumer"].pc # "read")
  BY DEF Grouped, Grows
<1>2. /\ lastId[i] \in 0..Len(log) /\ Follows(i)
      /\ \A n \in 1..lastId[i] : start[i] < n => n \in seen[i] \/ n <= lo
  BY <1>1 DEF Gapless
<1>3. Len(log) \in Nat /\ Len(log') \in Nat /\ Len(log) <= Len(log') /\ lo \in Nat /\ lo' \in Nat /\ lo <= lo'
  BY DEF StreamsTypes, Grows
<1>4. Follows(i)'
  <2>1. CASE task'[i]["consumer"].pc # "read"
    BY <2>1 DEF Follows
  <2>2. CASE task'[i]["consumer"] = task[i]["consumer"] /\ task[i]["consumer"].pc = "read"
    <3>1. PICK b : b = task[i]["consumer"].batch
      OBVIOUS
    <3>2. b \in Seq(1..Len(log))
      BY <3>1 DEF TasksSound, Sound, Tasks
    <3>3. /\ b # <<>> /\ \A k \in 1..Len(b) : b[k] = b[1] + k - 1
          /\ \A n \in 1..Len(log) : lastId[i] < n /\ n < b[1] => n <= lo
      BY <1>2, <2>2, <3>1 DEF Follows
    <3>4. b[1] \in 1..Len(log)
      BY <3>2, <3>3
    <3>5. \A n \in 1..Len(log') : lastId'[i] < n /\ n < b[1] => n <= lo'
      BY <1>3, <3>3, <3>4
    <3> QED  BY <2>2, <3>1, <3>3, <3>5 DEF Follows
  <2> QED  BY <1>1, <2>1, <2>2
<1> QED  BY <1>2, <1>3, <1>4

(* A note is added, none is erased.                                         *)
LEMMA Noted ==
  ASSUME StreamsTypes, NEW kind \in Kinds, NEW es, notes' = Note(kind, es)
  PROVE  /\ notes' = [k \in Kinds |-> notes'[k]]
         /\ \A k \in Kinds : notes'[k] = IF k = kind THEN notes[k] \cup es ELSE notes[k]
<1>1. notes = [k \in Kinds |-> notes[k]] /\ notes' = [notes EXCEPT ![kind] = @ \cup es]
  BY DEF StreamsTypes, Note
<1> QED  BY <1>1

-----------------------------------------------------------------------------
(* Steps that leave the tasks alone.                                        *)

(* Publishing adds an entry or fails.                                       *)
LEMMA StreamGrows ==
  ASSUME StreamsTypes, NEW i, NEW e \in Events, BackendPublish(i, e)
  PROVE  /\ log' \in Seq(Events) /\ lo' \in 0..Len(log') /\ lo <= lo' /\ Len(log) <= Len(log')
         /\ \A n \in 1..Len(log) : log'[n] = log[n]
         /\ cursor' = cursor /\ known' \in [Instances -> BOOLEAN] /\ (~Grouped => known' = known)
<1>1. log \in Seq(Events) /\ lo \in 0..Len(log) /\ known \in [Instances -> BOOLEAN]
  BY DEF StreamsTypes
<1>2. CASE /\ Xadd(e)
           /\ IF Grouped THEN EnsureGroup(i) ELSE UNCHANGED <<ready, known, group, cursor>>
  <2>1. log' = Append(log, e) /\ (lo' = lo \/ (lo' = Len(log) + 1 - MaxLen /\ lo' > lo))
    BY <1>2 DEF Xadd
  <2>2. log' \in Seq(Events) /\ Len(log') = Len(log) + 1 /\ Len(log) \in Nat
        /\ \A n \in 1..Len(log) : log'[n] = log[n]
    BY <1>1, <2>1
  <2>3. lo' \in 0..Len(log') /\ lo <= lo'
    BY <1>1, <2>1, <2>2, StreamsAssumption
  <2>4. cursor' = cursor /\ known' \in [Instances -> BOOLEAN] /\ (~Grouped => known' = known)
    BY <1>1, <1>2 DEF EnsureGroup
  <2> QED  BY <2>2, <2>3, <2>4
<1>3. CASE UNCHANGED <<log, lo, ready, known, group, cursor>>
  BY <1>1, <1>3
<1> QED  BY <1>2, <1>3 DEF BackendPublish

LEMMA PublishStep ==
  ASSUME StreamsInv, NEW i, NEW e \in Events, Publish(i, e) \/ Relay(i, e)
  PROVE  StreamsInv'
<1> USE DEF StreamsInv
<1>1. BackendPublish(i, e) /\ UNCHANGED <<conf, pel, idle, marks, up, lastId, task, lost, total, heard>>
  BY DEF Publish, Relay
<1>2. /\ notes' = [k \in Kinds |-> notes'[k]]
      /\ \A k \in Kinds : notes[k] \subseteq notes'[k]
      /\ notes'.gap = notes.gap
  <2>1. notes = [k \in Kinds |-> notes[k]]
    BY DEF StreamsTypes
  <2>2. \E S : notes' = [notes EXCEPT !.excused = @ \cup S]
               \/ notes' = [[notes EXCEPT !["published"] = @ \cup {e}] EXCEPT !.excused = @ \cup S]
    <3>1. CASE Publish(i, e)
      BY <3>1 DEF Publish, Note
    <3>2. CASE Relay(i, e)
      <4>1. notes' = [notes EXCEPT !.excused = @ \cup (Evicted(i, e) \cup (IF Grouped THEN {} ELSE {e}))]
        BY <3>2 DEF Relay
      <4> QED  BY <4>1
    <3> QED  BY <3>1, <3>2
  <2> QED  BY <2>1, <2>2 DEF Kinds
<1>3. Grows /\ cursor' = cursor /\ known' \in [Instances -> BOOLEAN] /\ (~Grouped => known' = known)
      /\ lo' \in 0..Len(log')
  BY <1>1, <1>2, StreamGrows DEF Grows
<1>4. StreamsTypes'
  BY <1>1, <1>2, <1>3 DEF StreamsTypes, Grows, heard
<1>5. TasksSound' /\ \A pc, x : Standing(pc, x)' = Standing(pc, x)
  BY <1>1, <1>3, NoTask
<1>6. Discipline'
  BY <1>1 DEF Discipline, Grouped
<1>7. MarksSound' /\ AckedIsAccounted' /\ Singles'
  BY <1>1, <1>3, <1>5, MarksStay, AckedStays, SinglesStay
<1>8. Gapless'
  BY <1>1, <1>2, <1>3, GaplessStays DEF heard
<1> QED  BY <1>4, <1>5, <1>6, <1>7, <1>8

(* A step that touches neither stream nor group, and adds notes at most.    *)
LEMMA LocalStep ==
  ASSUME StreamsInv,
         UNCHANGED <<conf, log, cursor, lost, marks, lastId, task, total, heard>>,
         lo' \in lo..Len(log), DOMAIN pel' = DOMAIN pel, idle' \subseteq 1..Len(log),
         known' \in [Instances -> BOOLEAN], ~Grouped => known' = known,
         up' \in [Instances -> {"up", "closing", "down"}],
         \A j \in Instances : up'[j] = "down" => up[j] = "down",
         notes' = [k \in Kinds |-> notes'[k]], \A k \in Kinds : notes[k] \subseteq notes'[k]
  PROVE  StreamsInv'
<1> USE DEF StreamsInv, heard
<1>1. Grows
  BY DEF Grows, StreamsTypes
<1>2. StreamsTypes'
  BY DEF StreamsTypes
<1>3. TasksSound' /\ \A pc, x : Standing(pc, x)' = Standing(pc, x)
  BY <1>1, NoTask
<1>4. Discipline'
  BY DEF Discipline, Grouped
<1>5. MarksSound' /\ AckedIsAccounted' /\ Singles'
  BY <1>1, <1>3, MarksStay, AckedStays, SinglesStay
<1>6. "gap" \in Kinds
  BY DEF Kinds
<1>7. Gapless'
  BY <1>1, <1>6, GaplessStays
<1> QED  BY <1>2, <1>3, <1>4, <1>5, <1>7

LEMMA LocalDispatchStep ==
  ASSUME StreamsInv, NEW i, NEW e, LocalDispatch(i, e) PROVE StreamsInv'
<1>1. /\ UNCHANGED <<conf, log, lo, cursor, pel, idle, marks, up, known, lastId, task, lost, total, heard>>
      /\ notes' = Note("run", {e})
  BY DEF LocalDispatch, budget, redis
<1>2. "run" \in Kinds
  BY DEF Kinds
<1>3. notes' = [k \in Kinds |-> notes'[k]] /\ \A k \in Kinds : notes[k] \subseteq notes'[k]
  BY <1>1, <1>2, Noted DEF StreamsInv
<1>4. /\ lo' \in lo..Len(log) /\ idle' \subseteq 1..Len(log)
      /\ known' \in [Instances -> BOOLEAN] /\ up' \in [Instances -> {"up", "closing", "down"}]
  BY <1>1 DEF StreamsInv, StreamsTypes
<1> QED  BY <1>1, <1>3, <1>4, LocalStep

LEMMA TrimStep == ASSUME StreamsInv, NEW i, RetentionTrim(i) PROVE StreamsInv'
<1>1. /\ UNCHANGED <<conf, log, cursor, pel, idle, marks, up, known, lastId, task, lost, total, heard, notes>>
      /\ lo' = lo + 1 /\ lo < Len(log)
  BY DEF RetentionTrim, local, ghost, heard
<1> QED  BY <1>1, LocalStep DEF StreamsInv, StreamsTypes

LEMMA IdleStep == ASSUME StreamsInv, NEW n, BecomesIdle(n) PROVE StreamsInv'
<1>1. /\ UNCHANGED <<conf, log, lo, cursor, pel, marks, up, known, lastId, task, lost, total, heard, notes>>
      /\ idle' = idle \cup {n} /\ n \in DOMAIN pel
  BY DEF BecomesIdle, local, ghost, heard
<1> QED  BY <1>1, LocalStep DEF StreamsInv, StreamsTypes

LEMMA BeginCloseStep == ASSUME StreamsInv, NEW i, BeginClose(i) \/ StartConsumer(i) PROVE StreamsInv'
<1>1. /\ UNCHANGED <<conf, log, lo, cursor, pel, idle, marks, known, lastId, task, lost, total, heard, notes>>
      /\ \E s \in {"up", "closing"} : up' = [up EXCEPT ![i] = s]
  BY DEF BeginClose, StartConsumer, redis, budget, ghost, heard
<1>2. up \in [Instances -> {"up", "closing", "down"}]
  BY DEF StreamsInv, StreamsTypes
<1>3. up' \in [Instances -> {"up", "closing", "down"}]
      /\ \A j \in Instances : up'[j] = "down" => up[j] = "down"
  BY <1>1, <1>2
<1> QED  BY <1>1, <1>3, LocalStep DEF StreamsInv, StreamsTypes

LEMMA RefreshStep == ASSUME StreamsInv, NEW i \in Instances, RefreshStreams(i) PROVE StreamsInv'
<1> USE DEF StreamsInv
<1>1. /\ Available(i, "consumer") /\ ~known[i]
      /\ UNCHANGED <<conf, log, lo, pel, idle, marks, up, task, lost, total, seen>>
  BY DEF RefreshStreams
<1>2. CASE Grouped
  <2>1. UNCHANGED <<lastId, start, notes, cursor>> /\ known' = [known EXCEPT ![i] = TRUE]
    BY <1>2 DEF RefreshStreams, EnsureGroup
  <2> QED  BY <1>1, <1>2, <2>1, LocalStep DEF StreamsTypes, heard
<1>3. CASE ~Grouped
  <2>1. /\ known' = [known EXCEPT ![i] = TRUE] /\ start' = [start EXCEPT ![i] = Len(log)] /\ cursor' = cursor
        /\ \/ lastId' = [lastId EXCEPT ![i] = Len(log)] /\ notes' = notes
           \/ lastId' = [lastId EXCEPT ![i] = Dollar] /\ notes' = Note("gap", {i})
    BY <1>3 DEF RefreshStreams
  <2>2. "gap" \in Kinds
    BY DEF Kinds
  <2>3. /\ notes' = [k \in Kinds |-> notes'[k]]
        /\ \A k \in Kinds : notes'[k] = notes[k] \/ (k = "gap" /\ notes'[k] = notes[k] \cup {i})
    <3>1. CASE notes' = notes
      BY <3>1 DEF StreamsTypes
    <3>2. CASE notes' = Note("gap", {i})
      BY <2>2, <3>2, Noted
    <3> QED  BY <2>1, <3>1, <3>2
  <2>4. Grows
    BY <1>1, <2>3 DEF Grows, StreamsTypes
  <2>5. StreamsTypes'
    <3>1. Len(log) \in Nat /\ lastId \in [Instances -> Nat \cup {Dollar}] /\ start \in [Instances -> Nat]
      BY DEF StreamsTypes
    <3>2. lastId' \in [Instances -> Nat \cup {Dollar}] /\ start' \in [Instances -> Nat]
      BY <2>1, <3>1
    <3> QED  BY <1>1, <2>1, <2>3, <3>2 DEF StreamsTypes
  <2>6. TasksSound' /\ \A pc, x : Standing(pc, x)' = Standing(pc, x)
    BY <1>1, <2>4, NoTask
  <2>7. Discipline' /\ MarksSound' /\ AckedIsAccounted' /\ Singles'
    BY <1>1, <2>1, <2>4, <2>6, MarksStay, AckedStays, SinglesStay DEF Discipline, Grouped
  <2>8. task[i]["consumer"].pc = "loop"
    BY <1>1 DEF Available
  <2>9. ASSUME NEW j \in Instances, known'[j], j \notin notes'.gap
        PROVE  /\ lastId'[j] \in 0..Len(log') /\ Follows(j)'
               /\ \A n \in 1..lastId'[j] : start'[j] < n => n \in seen'[j] \/ n <= lo'
    <3>1. Len(log) \in Nat
      BY DEF StreamsTypes
    <3>2. CASE j = i
      <4>1. lastId'[i] = Len(log) /\ start'[i] = Len(log)
        <5>1. i \notin Note("gap", {i}).gap => FALSE
          BY <2>2 DEF Note, StreamsTypes
        <5> QED  BY <2>1, <2>9, <3>2, <5>1 DEF StreamsTypes
      <4> QED  BY <1>1, <2>8, <3>1, <3>2, <4>1 DEF Follows
    <3>3. CASE j # i
      <4>1. known[j] /\ lastId'[j] = lastId[j] /\ start'[j] = start[j] /\ j \notin notes.gap
        BY <2>1, <2>2, <2>3, <2>9, <3>3 DEF StreamsTypes
      <4>2. /\ lastId[j] \in 0..Len(log) /\ Follows(j)
            /\ \A n \in 1..lastId[j] : start[j] < n => n \in seen[j] \/ n <= lo
        BY <1>3, <4>1 DEF Gapless
      <4> QED  BY <1>1, <4>1, <4>2 DEF Follows
    <3> QED  BY <3>2, <3>3
  <2> QED  BY <2>5, <2>6, <2>7, <2>9 DEF Gapless
<1> QED  BY <1>2, <1>3

(* An event whose key has gone has an excuse.                               *)
LEMMA MarkExpiresStep == ASSUME StreamsInv, NEW x \in Events, MarkExpires(x) PROVE StreamsInv'
<1> USE DEF StreamsInv
<1>1. /\ marks' = marks \ {x} /\ notes' = Note("excused", {x})
      /\ UNCHANGED <<conf, log, lo, cursor, pel, idle, lost, up, known, lastId, task, total, start, seen>>
  BY DEF MarkExpires, local, heard
<1>2. {"excused", "gap"} \subseteq Kinds
  BY DEF Kinds
<1>3. /\ notes' = [k \in Kinds |-> notes'[k]]
      /\ \A k \in Kinds : notes'[k] = IF k = "excused" THEN notes[k] \cup {x} ELSE notes[k]
  BY <1>1, <1>2, Noted
<1>4. Grows
  <2>1. log \in Seq(Events) /\ lo \in Nat /\ Len(log) \in Nat
    BY DEF StreamsTypes
  <2>2. \A k \in Kinds : notes[k] \subseteq notes'[k]
    BY <1>3
  <2>3. (lost => lost') /\ conf' = conf /\ log' = log /\ lo' = lo /\ total' = total
    BY <1>1, Zenon
  <2> QED  BY <2>1, <2>2, <2>3 DEF Grows
<1>5. StreamsTypes'
  BY <1>1, <1>3 DEF StreamsTypes
<1>6. TasksSound' /\ \A pc, e : Standing(pc, e)' = Standing(pc, e)
  BY <1>1, <1>4, NoTask
<1>7. Discipline' /\ MarksSound' /\ AckedIsAccounted'
  BY <1>1, <1>4, MarksStay, AckedStays DEF Discipline, Grouped
<1>8. ASSUME Grouped', NEW e \in Events, e \notin notes'.excused PROVE Single(e)'
  <2>1. Grouped /\ e \notin notes.excused /\ e # x
    BY <1>1, <1>2, <1>3, <1>8 DEF Grouped
  <2>2. Single(e)
    BY <2>1 DEF Singles
  <2> QED  BY <1>1, <1>6, <2>1, <2>2 DEF Single
<1>9. Gapless'
  BY <1>1, <1>2, <1>3, <1>4, GaplessStays
<1> QED  BY <1>5, <1>6, <1>7, <1>8, <1>9 DEF Singles

(* Whoever finds Redis empty has an excuse.                                 *)
LEMMA DataLossStep == ASSUME StreamsInv, RedisLosesData PROVE StreamsInv'
<1> USE DEF StreamsInv
<1>1. /\ lost' = TRUE /\ lo' = Len(log) /\ cursor' = 0 /\ pel' = <<>> /\ idle' = {} /\ marks' = {}
      /\ notes' = [notes EXCEPT !.excused = Events]
      /\ UNCHANGED <<conf, log, up, known, lastId, task, total, start, seen>>
  BY DEF RedisLosesData, local, heard
<1>2. notes' = [k \in Kinds |-> notes'[k]] /\ notes'.excused = Events
      /\ \A k \in Kinds : k # "excused" => notes'[k] = notes[k]
  <2>1. notes = [k \in Kinds |-> notes[k]] /\ "excused" \in Kinds
    BY DEF StreamsTypes, Kinds
  <2> QED  BY <1>1, <2>1
<1>3. Grows
  <2>1. ASSUME NEW k \in Kinds PROVE notes[k] \cap Events \subseteq notes'[k]
    <3>1. CASE k = "excused"
      BY <1>2, <3>1
    <3>2. CASE k # "excused"
      BY <1>2, <3>2
    <3> QED  BY <3>1, <3>2
  <2>2. log \in Seq(Events) /\ lo \in 0..Len(log) /\ Len(log) \in Nat
    BY DEF StreamsTypes
  <2> QED  BY <1>1, <2>1, <2>2 DEF Grows
<1>4. StreamsTypes'
  BY <1>1, <1>2 DEF StreamsTypes
<1>5. TasksSound'
  BY <1>1, <1>3, NoTask
<1>6. Discipline' /\ MarksSound' /\ AckedIsAccounted' /\ Singles'
  BY <1>1, <1>2 DEF Discipline, Grouped, MarksSound, AckedIsAccounted, Singles
<1>7. "gap" \in Kinds /\ notes'.gap = notes.gap
  BY <1>2 DEF Kinds
<1>8. Gapless'
  BY <1>1, <1>3, <1>7, GaplessStays
<1> QED  BY <1>4, <1>5, <1>6, <1>8

-----------------------------------------------------------------------------
(* Steps of one task of a group.                                            *)

LEMMA GroupGrows ==
  ASSUME StreamsInv, UNCHANGED <<conf, log, lo, lost>>,
         \A x \in Kinds : notes[x] \subseteq notes'[x], \A e \in Events : total[e] > 0 => total'[e] > 0
  PROVE  Grows
<1>1. log \in Seq(Events) /\ lo \in 0..Len(log) /\ Len(log) \in Nat
  BY DEF StreamsInv, StreamsTypes
<1> QED  BY <1>1 DEF Grows

(* A task that is not between check and mark before or after the step.      *)
LEMMA GroupStep ==
  ASSUME StreamsInv, Grouped, Grows, NEW i \in Instances, NEW t \in Tasks, NEW k,
         Turns(i, t, k), Sound(k)', up[i] # "down",
         k.pc \notin {"run", "mark", "read"}, task[i][t].pc # "mark",
         UNCHANGED <<log, lo, total, marks, up, known, lastId, start, seen>>,
         cursor' \in 0..Len(log), DOMAIN pel' \subseteq 1..Len(log), idle' \subseteq 1..Len(log),
         notes' = [x \in Kinds |-> notes'[x]], AckedIsAccounted'
  PROVE  StreamsInv'
<1> USE DEF StreamsInv
<1>1. Grows
  OBVIOUS
<1>2. /\ task' = [j \in Instances |-> [u \in Tasks |-> task'[j][u]]]
      /\ task'[i][t] = k
      /\ \A j \in Instances, u \in Tasks : j # i \/ u # t => task'[j][u] = task[j][u]
  BY OneTask, OneTaskForm
<1>3. TasksSound'
  BY OneTaskSound
<1>4. StreamsTypes'
  BY <1>2 DEF StreamsTypes
<1>5. Discipline'
  BY <1>2 DEF Discipline, Grouped, Grows
<1>6. Singles'
  <2>1. ASSUME NEW e
        PROVE  Standing("run", e)' \subseteq Standing("run", e) /\ Standing("mark", e)' = Standing("mark", e)
    <3>1. <<i, t>> \notin Standing("run", e)' /\ <<i, t>> \notin Standing("mark", e)'
          /\ <<i, t>> \notin Standing("mark", e)
      <4>1. ~Occupied(k, "run", e)' /\ ~Occupied(k, "mark", e)' /\ ~Occupied(task[i][t], "mark", e)
        BY DEF Occupied
      <4> QED  BY <1>1, <4>1, OneStanding
    <3>2. /\ Standing("run", e)' \ {<<i, t>>} = Standing("run", e) \ {<<i, t>>}
          /\ Standing("mark", e)' \ {<<i, t>>} = Standing("mark", e) \ {<<i, t>>}
      BY <1>1, OneStanding
    <3> HIDE DEF StreamsInv
    <3> QED  BY <3>1, <3>2, SameBut
  <2> QED  BY <1>1, <2>1, SinglesStay
<1>7. MarksSound' /\ AckedIsAccounted'
  BY <1>1, MarksStay
<1>8. Gapless'
  BY DEF Gapless, Grouped, Grows
<1> QED  BY <1>3, <1>4, <1>5, <1>6, <1>7, <1>8

(* The head of a batch, and what comes after it.                            *)
LEMMA HeadOf ==
  ASSUME StreamsInv, NEW i \in Instances, NEW t \in Tasks, NEW pc, At(i, t, pc)
  PROVE  /\ up[i] # "down" /\ task[i][t].pc = pc /\ Head(task[i][t].batch) \in 1..Len(log)
         /\ task[i][t].batch \in Seq(1..Len(log)) /\ task[i][t].batch # <<>>
         /\ EvOf(i, t) \in Events /\ Occupied(task[i][t], pc, EvOf(i, t))
         /\ (pc \in {"mark", "ack"} => Accounted(EvOf(i, t)))
         /\ Sound(Skip(i, t)) /\ Skip(i, t).pc \in {"loop", "ack", "park", "get"}
         /\ (pc \notin {"loop", "read"} => Grouped)
<1>1. up[i] # "down" /\ task[i][t].pc = pc /\ task[i][t].batch # <<>>
  BY DEF At
<1>2. Sound(task[i][t]) /\ (pc \notin {"loop", "read"} => Grouped)
  BY <1>1 DEF StreamsInv, TasksSound, Discipline
<1>3. task[i][t].batch \in Seq(1..Len(log))
  BY <1>2 DEF Sound
<1>4. Head(task[i][t].batch) \in 1..Len(log) /\ Tail(task[i][t].batch) \in Seq(1..Len(log))
  <2>1. \A S, b : b \in Seq(S) /\ b # <<>> => Head(b) \in S /\ Tail(b) \in Seq(S)
    OBVIOUS
  <2> QED  BY <1>1, <1>3, <2>1, Zenon
<1>5. EvOf(i, t) \in Events /\ Occupied(task[i][t], pc, EvOf(i, t))
  BY <1>1, <1>4 DEF EvOf, Ev, Occupied, StreamsInv, StreamsTypes
<1>6. pc \in {"mark", "ack"} => Accounted(EvOf(i, t))
  BY <1>1, <1>2 DEF Sound, EvOf
<1>7. Sound(Skip(i, t)) /\ Skip(i, t).pc \in {"loop", "ack", "park", "get"}
  BY <1>4, BeforeSound DEF Skip
<1> QED  BY <1>1, <1>2, <1>3, <1>4, <1>5, <1>6, <1>7

(* Moving a task on.                                                        *)
LEMMA Moved ==
  ASSUME StreamsInv, Grows, NEW i \in Instances, NEW t \in Tasks, NEW pc \in Steps, Move(i, t, pc),
         task[i][t].batch # <<>>, NEW e, e = EvOf(i, t), pc \in {"mark", "ack"} => Accounted(e)'
  PROVE  \E k : Turns(i, t, k) /\ k.pc = pc /\ Sound(k)' /\ OnlyAt(k, pc, e)'
<1>1. PICK k : k = [task[i][t] EXCEPT !.pc = pc]
  OBVIOUS
<1>2. Turns(i, t, k)
  BY <1>1 DEF Move, Turns
<1>3. PICK h : h = task[i][t]
  OBVIOUS
<1>4. Sound(h) /\ h.batch # <<>> /\ e = Ev(Head(h.batch))
  BY <1>3 DEF StreamsInv, TasksSound, EvOf
<1>5. Sound(h)'
  BY <1>4, SoundStays DEF StreamsInv
<1>6. k = [pc |-> pc, batch |-> h.batch, over |-> h.over]
  BY <1>1, <1>3, <1>4 DEF Sound
<1>7. k.pc = pc /\ k.batch = h.batch /\ k.over = h.over
  BY <1>6
<1>8. e = Ev(Head(h.batch))'
  <2>1. h.batch \in Seq(1..Len(log))
    BY <1>4 DEF Sound
  <2>2. Head(h.batch) \in 1..Len(log)
    BY <1>4, <2>1
  <2> QED  BY <1>4, <2>2 DEF Ev, Grows
<1>9. Sound(k)'
  BY <1>5, <1>6, <1>7, <1>8 DEF Sound
<1>10. OnlyAt(k, pc, e)'
  BY <1>4, <1>7, <1>8 DEF Occupied, OnlyAt
<1> QED  BY <1>2, <1>7, <1>9, <1>10

(* Where the tasks stand after it.                                          *)
LEMMA Walked ==
  ASSUME StreamsTypes, TasksSound, Grows, NEW i \in Instances, NEW t \in Tasks, NEW k,
         Turns(i, t, k), NEW q, NEW e, OnlyAt(k, q, e)', NEW p, e = EvOf(i, t), At(i, t, p)
  PROVE  \A pc, x : /\ Standing(pc, x)' \ {<<i, t>>} = Standing(pc, x) \ {<<i, t>>}
                    /\ <<i, t>> \in Standing(pc, x)' <=> pc = q /\ x = e
                    /\ <<i, t>> \in Standing(pc, x) <=> pc = p /\ x = e
<1> SUFFICES ASSUME NEW pc, NEW x
             PROVE  /\ Standing(pc, x)' \ {<<i, t>>} = Standing(pc, x) \ {<<i, t>>}
                    /\ <<i, t>> \in Standing(pc, x)' <=> pc = q /\ x = e
                    /\ <<i, t>> \in Standing(pc, x) <=> pc = p /\ x = e
  OBVIOUS
<1>1. Occupied(task[i][t], pc, x) <=> pc = p /\ x = e
  BY DEF At, EvOf, Occupied
<1>2. Occupied(k, pc, x)' <=> pc = q /\ x = e
  BY DEF OnlyAt
<1> QED  BY <1>1, <1>2, OneStanding

LEMMA ParkStep == ASSUME StreamsInv, NEW i \in Instances, NEW t \in Tasks, Park(i, t) PROVE StreamsInv'
<1>1. /\ At(i, t, "park") /\ Move(i, t, "ack") /\ notes' = Note("parked", {EvOf(i, t)})
      /\ UNCHANGED <<conf, log, lo, cursor, pel, idle, marks, lost, up, known, lastId, total, start, seen>>
  BY DEF Park, redis, budget, heard
<1>2. PICK e : e = EvOf(i, t)
  OBVIOUS
<1>3. /\ task[i][t].batch # <<>> /\ up[i] # "down" /\ task[i][t].pc = "park" /\ Grouped
      /\ e \in Events
  BY <1>1, <1>2, HeadOf
<1>4. StreamsTypes /\ "parked" \in Kinds /\ "ack" \in Steps
  BY DEF StreamsInv, Kinds, Steps
<1>5. /\ notes' = [k \in Kinds |-> notes'[k]]
      /\ \A k \in Kinds : notes'[k] = IF k = "parked" THEN notes[k] \cup {e} ELSE notes[k]
  BY <1>1, <1>2, <1>4, Noted
<1>6. Grows
  BY <1>1, <1>5, GroupGrows
<1>7. Accounted(e)'
  BY <1>4, <1>5 DEF Accounted
<1>8. PICK k : Turns(i, t, k) /\ k.pc = "ack" /\ Sound(k)'
  BY <1>1, <1>2, <1>3, <1>4, <1>6, <1>7, Moved
<1>9. AckedIsAccounted'
  BY <1>1, <1>6, AckedStays DEF StreamsInv
<1>10. cursor' \in 0..Len(log) /\ DOMAIN pel' \subseteq 1..Len(log) /\ idle' \subseteq 1..Len(log)
  BY <1>1, <1>4 DEF StreamsTypes
<1> QED  BY <1>1, <1>3, <1>5, <1>6, <1>8, <1>9, <1>10, GroupStep

(* The acknowledged head of a batch is accounted for.                       *)
LEMMA AckStep == ASSUME StreamsInv, NEW i \in Instances, NEW t \in Tasks, Ack(i, t) PROVE StreamsInv'
<1>1. /\ At(i, t, "ack")
      /\ UNCHANGED <<conf, log, lo, cursor, marks, lost, up, known, lastId, total, start, seen, notes>>
  BY DEF Ack, ghost
<1>2. PICK k : k = Skip(i, t)
  OBVIOUS
<1>3. Turns(i, t, k)
  BY <1>2 DEF Ack, Turns
<1>4. /\ up[i] # "down" /\ task[i][t].pc = "ack" /\ Grouped /\ Accounted(EvOf(i, t))
      /\ Sound(k) /\ k.pc \in {"loop", "ack", "park", "get"}
  BY <1>1, <1>2, HeadOf
<1>5. Grows
  BY <1>1, GroupGrows
<1>6. Sound(k)'
  BY <1>4, <1>5, SoundStays DEF StreamsInv
<1>7. PICK n : n = Head(task[i][t].batch)
  OBVIOUS
<1>8. DOMAIN pel' \subseteq DOMAIN pel /\ DOMAIN pel \ {n} \subseteq DOMAIN pel' /\ idle' \subseteq idle
  BY <1>7 DEF Ack, Unpend
<1>9. AckedIsAccounted'
  <2> SUFFICES ASSUME Grouped', ~lost', NEW m \in 1..Len(log'), Settled(m)', m > lo'
               PROVE  Accounted(Ev(m))'
    BY DEF AckedIsAccounted, Accounted
  <2>1. m \in 1..Len(log) /\ m > lo /\ ~lost /\ (m = n \/ Settled(m))
    BY <1>1, <1>8 DEF Settled
  <2>2. Accounted(Ev(m))
    <3>1. CASE m = n
      BY <1>4, <1>7, <3>1 DEF EvOf
    <3>2. CASE Settled(m)
      BY <1>4, <2>1, <3>2 DEF AckedIsAccounted, Accounted, StreamsInv
    <3> QED  BY <2>1, <3>1, <3>2
  <2> QED  BY <1>1, <2>2 DEF Accounted, Ev, Undecodable
<1>10. notes' = [x \in Kinds |-> notes'[x]] /\ cursor' \in 0..Len(log)
       /\ DOMAIN pel' \subseteq 1..Len(log) /\ idle' \subseteq 1..Len(log)
  BY <1>1, <1>8 DEF StreamsInv, StreamsTypes
<1> QED  BY <1>1, <1>3, <1>4, <1>5, <1>6, <1>9, <1>10, GroupStep

(* A read of the group, a claim or a failure gives a task a new batch.      *)
LEMMA BatchStep ==
  ASSUME StreamsInv, Grouped, NEW i \in Instances, NEW t \in Tasks, NEW k, Turns(i, t, k), Sound(k),
         up[i] # "down", k.pc \notin {"run", "mark", "read"}, task[i][t].pc # "mark",
         UNCHANGED <<conf, log, lo, lost, total, marks, up, known, lastId, start, seen, notes>>,
         cursor' \in cursor..Len(log), DOMAIN pel' \subseteq 1..Len(log), idle' \subseteq idle,
         \A n \in 1..Len(log) : n > lo /\ (n \in DOMAIN pel \/ (n > cursor /\ n <= cursor')) => n \in DOMAIN pel'
  PROVE  StreamsInv'
<1>1. Grows
  BY GroupGrows
<1>2. Sound(k)'
  BY <1>1, SoundStays DEF StreamsInv
<1>3. cursor \in Nat /\ Len(log) \in Nat /\ idle \subseteq 1..Len(log) /\ notes' = [x \in Kinds |-> notes'[x]]
  BY DEF StreamsInv, StreamsTypes
<1>4. AckedIsAccounted'
  <2> SUFFICES ASSUME Grouped', ~lost', NEW m \in 1..Len(log'), Settled(m)', m > lo'
               PROVE  Accounted(Ev(m))'
    BY DEF AckedIsAccounted, Accounted
  <2>1. m \in 1..Len(log) /\ m > lo /\ ~lost /\ Settled(m)
    BY <1>3 DEF Settled
  <2>2. Accounted(Ev(m))
    BY <2>1 DEF AckedIsAccounted, Accounted, StreamsInv
  <2> QED  BY <2>2 DEF Accounted, Ev, Undecodable
<1>5. cursor' \in 0..Len(log) /\ idle' \subseteq 1..Len(log)
  BY <1>3
<1> QED  BY <1>1, <1>2, <1>3, <1>4, <1>5, GroupStep

(* What is read is all there is beyond the cursor.                          *)
LEMMA UnreadEntries ==
  ASSUME StreamsInv, NEW from \in Nat
  PROVE  /\ Unread(from) \in Seq(1..Len(log))
         /\ \A n \in 1..Len(log) : n > lo /\ n > from => n \in ToSet(Unread(from))
         /\ ToSet(Unread(from)) \subseteq 1..Len(log)
         /\ Unread(from) # <<>> =>
              /\ \A k \in 1..Len(Unread(from)) : Unread(from)[k] = Unread(from)[1] + k - 1
              /\ \A n \in 1..Len(log) : from < n /\ n < Unread(from)[1] => n <= lo
<1>1. PICK first : first = IF from < lo THEN lo ELSE from
  OBVIOUS
<1>2. lo \in Nat /\ Len(log) \in Nat /\ first \in Nat
  BY <1>1 DEF StreamsInv, StreamsTypes
<1>3. Unread(from) = [k \in 1..(Len(log) - first) |-> first + k]
  BY <1>1 DEF Unread
<1>4. \A k \in 1..(Len(log) - first) : first + k \in 1..Len(log) /\ Unread(from)[k] = first + k
  BY <1>2, <1>3
<1>5. Unread(from) \in Seq(1..Len(log))
  <2>1. CASE Len(log) - first \in Nat
    BY <1>3, <1>4, <2>1
  <2>2. CASE Len(log) - first \notin Nat
    <3>1. 1..(Len(log) - first) = 1..0
      BY <1>2, <2>2
    <3>2. Unread(from) = [k \in 1..0 |-> first + k]
      BY <1>3, <3>1
    <3> QED  BY <3>2
  <2> QED  BY <2>1, <2>2
<1>6. DOMAIN Unread(from) = 1..(Len(log) - first)
  BY <1>3
<1>7. \A n \in 1..Len(log) : n > lo /\ n > from => n \in ToSet(Unread(from))
  <2> SUFFICES ASSUME NEW n \in 1..Len(log), n > lo, n > from PROVE n \in ToSet(Unread(from))
    OBVIOUS
  <2>1. n - first \in 1..(Len(log) - first) /\ first + (n - first) = n
    BY <1>1, <1>2
  <2>2. Unread(from)[n - first] = n
    BY <1>4, <2>1
  <2> QED  BY <1>6, <2>1, <2>2 DEF ToSet
<1>8. ToSet(Unread(from)) \subseteq 1..Len(log)
  BY <1>4, <1>6 DEF ToSet
<1>9. Unread(from) # <<>> =>
        /\ \A k \in 1..Len(Unread(from)) : Unread(from)[k] = Unread(from)[1] + k - 1
        /\ \A n \in 1..Len(log) : from < n /\ n < Unread(from)[1] => n <= lo
  <2> SUFFICES ASSUME Unread(from) # <<>>
               PROVE  /\ \A k \in 1..Len(Unread(from)) : Unread(from)[k] = Unread(from)[1] + k - 1
                      /\ \A n \in 1..Len(log) : from < n /\ n < Unread(from)[1] => n <= lo
    OBVIOUS
  <2>1. 1..Len(Unread(from)) = 1..(Len(log) - first) /\ 1 \in 1..Len(Unread(from))
    BY <1>5, <1>6
  <2>2. Unread(from)[1] = first + 1
    BY <1>4, <2>1
  <2> QED  BY <1>1, <1>2, <1>4, <2>1, <2>2
<1> QED  BY <1>5, <1>7, <1>8, <1>9

LEMMA ReadGroupStep == ASSUME StreamsInv, NEW i \in Instances, ReadGroup(i) PROVE StreamsInv'
<1>1. PICK b : b = Unread(cursor)
  OBVIOUS
<1>2. PICK k : k = Before(b, {})
  OBVIOUS
<1>3. /\ Grouped /\ up[i] # "down" /\ task[i]["consumer"].pc = "loop" /\ cursor' = Len(log)
      /\ Turns(i, "consumer", k) /\ DOMAIN pel' = DOMAIN pel \cup ToSet(b)
      /\ UNCHANGED <<conf, log, lo, lost, total, marks, up, known, lastId, start, seen, notes, idle>>
  BY <1>1, <1>2 DEF ReadGroup, Available, Turns, budget, ghost
<1>4. cursor \in Nat /\ Len(log) \in Nat /\ cursor <= Len(log) /\ DOMAIN pel \subseteq 1..Len(log)
  BY DEF StreamsInv, StreamsTypes
<1>5. /\ b \in Seq(1..Len(log)) /\ ToSet(b) \subseteq 1..Len(log)
      /\ \A n \in 1..Len(log) : n > lo /\ n > cursor => n \in ToSet(b)
  BY <1>1, <1>4, UnreadEntries
<1>6. Sound(k) /\ k.pc \in {"loop", "ack", "park", "get"}
  BY <1>2, <1>5, BeforeSound
<1>7. "consumer" \in Tasks
  BY DEF Tasks
<1> QED  BY <1>3, <1>4, <1>5, <1>6, <1>7, BatchStep

LEMMA LoopSound == Sound(Looping) /\ Looping.pc = "loop"
BY DEF Sound, Looping, Steps

LEMMA FailStep ==
  ASSUME StreamsInv, NEW i \in Instances, ConsumerFails(i) \/ SweepFails(i)
  PROVE  StreamsInv'
<1>1. PICK k : k = Looping
  OBVIOUS
<1>2. Sound(k) /\ k.pc = "loop"
  BY <1>1, LoopSound
<1>3. PICK t \in Tasks : Turns(i, t, k) /\ task[i][t].pc \in {"loop", "get", "claim"}
  BY <1>1 DEF ConsumerFails, SweepFails, Available, Turns, Tasks
<1>4. /\ Grouped /\ up[i] # "down"
      /\ UNCHANGED <<conf, log, lo, cursor, pel, idle, lost, total, marks, up, known, lastId, start, seen, notes>>
  BY DEF ConsumerFails, SweepFails, redis, ghost
<1>5. cursor' \in cursor..Len(log) /\ DOMAIN pel' \subseteq 1..Len(log)
      /\ \A n \in 1..Len(log) : ~(n > cursor /\ n <= cursor')
  BY <1>4 DEF StreamsInv, StreamsTypes
<1> QED  BY <1>2, <1>3, <1>4, <1>5, BatchStep

LEMMA SweepPendingStep == ASSUME StreamsInv, NEW i \in Instances, SweepPending(i) PROVE StreamsInv'
<1>1. PICK over : task' = [task EXCEPT ![i]["sweeper"] = [pc |-> "claim", batch |-> <<>>, over |-> over]]
  BY DEF SweepPending
<1>2. PICK k : k = [pc |-> "claim", batch |-> <<>>, over |-> over]
  OBVIOUS
<1>3. Turns(i, "sweeper", k) /\ "sweeper" \in Tasks
  BY <1>1, <1>2 DEF Turns, Tasks
<1>4. Sound(k) /\ k.pc = "claim"
  BY <1>2 DEF Sound, Steps
<1>5. /\ Grouped /\ up[i] # "down" /\ task[i]["sweeper"].pc = "loop"
      /\ UNCHANGED <<conf, log, lo, cursor, pel, idle, lost, total, marks, up, known, lastId, start, seen, notes>>
  BY DEF SweepPending, Available, redis, budget, ghost
<1>6. cursor' \in cursor..Len(log) /\ DOMAIN pel' \subseteq 1..Len(log)
      /\ \A n \in 1..Len(log) : ~(n > cursor /\ n <= cursor')
  BY <1>5 DEF StreamsInv, StreamsTypes
<1> QED  BY <1>3, <1>4, <1>5, <1>6, BatchStep

LEMMA SweepClaimStep == ASSUME StreamsInv, NEW i \in Instances, SweepClaim(i) PROVE StreamsInv'
<1>1. PICK S : S = {n \in idle : n > lo}
  OBVIOUS
<1>2. PICK b : b = InOrder(S)
  OBVIOUS
<1>3. PICK k : k = Before(b, task[i]["sweeper"].over)
  OBVIOUS
<1>4. /\ up[i] # "down" /\ task[i]["sweeper"].pc = "claim" /\ Turns(i, "sweeper", k) /\ idle' = {}
      /\ DOMAIN pel' = {n \in DOMAIN pel : n > lo \/ n \notin idle}
      /\ UNCHANGED <<conf, log, lo, cursor, lost, total, marks, up, known, lastId, start, seen, notes>>
  BY <1>1, <1>2, <1>3 DEF SweepClaim, Turns, budget, ghost
<1>5. "sweeper" \in Tasks
  BY DEF Tasks
<1>6. Grouped
  BY <1>4, <1>5 DEF StreamsInv, Discipline
<1>7. idle \subseteq 1..Len(log) /\ Len(log) \in Nat /\ DOMAIN pel \subseteq 1..Len(log) /\ cursor \in 0..Len(log)
  BY DEF StreamsInv, StreamsTypes
<1>8. b \in Seq(1..Len(log))
  <2>0. S \subseteq idle
    BY <1>1
  <2>1. S \subseteq 1..Len(log) /\ S \subseteq Int
    BY <1>7, <2>0
  <2>2. IsFiniteSet(S)
    <3>1. IsFiniteSet(1..Len(log))
      BY <1>7, FS_Interval
    <3>2. S \in SUBSET (1..Len(log))
      BY <2>1
    <3> QED  BY <3>1, <3>2, FS_Subset
  <2>3. b \in Seq(S)
    BY <1>2, <2>1, <2>2, InOrderMembers
  <2> QED  BY <2>1, <2>3, SeqWidens
<1>9. Sound(k) /\ k.pc \in {"loop", "ack", "park", "get"}
  BY <1>3, <1>8, BeforeSound
<1>10. cursor' \in cursor..Len(log) /\ \A n \in 1..Len(log) : ~(n > cursor /\ n <= cursor')
  BY <1>4, <1>7
<1> QED  BY <1>4, <1>5, <1>6, <1>7, <1>9, <1>10, BatchStep

(* A task that comes between check and mark, or leaves.                     *)
LEMMA RunStep ==
  ASSUME StreamsInv, Grouped, Grows, NEW i \in Instances, NEW t \in Tasks, NEW k,
         Turns(i, t, k), Sound(k)', up[i] # "down", k.pc # "read",
         UNCHANGED <<log, lo, cursor, pel, idle, up, known, lastId, start, seen>>,
         total' \in [Events -> 0..2], notes' = [x \in Kinds |-> notes'[x]], MarksSound', Singles'
  PROVE  StreamsInv'
<1> USE DEF StreamsInv
<1>2. /\ task' = [j \in Instances |-> [u \in Tasks |-> task'[j][u]]]
      /\ task'[i][t] = k
      /\ \A j \in Instances, u \in Tasks : j # i \/ u # t => task'[j][u] = task[j][u]
  BY OneTask, OneTaskForm
<1>3. TasksSound'
  BY OneTaskSound
<1>4. StreamsTypes'
  BY <1>2 DEF StreamsTypes
<1>5. Discipline'
  BY <1>2 DEF Discipline, Grouped, Grows
<1>7. AckedIsAccounted'
  BY AckedStays
<1>8. Gapless'
  BY DEF Gapless, Grouped, Grows
<1> QED  BY <1>3, <1>4, <1>5, <1>7, <1>8

LEMMA CheckDedupStep ==
  ASSUME StreamsInv, NEW i \in Instances, NEW t \in Tasks, CheckDedup(i, t)
  PROVE  StreamsInv'
<1>1. PICK e : e = EvOf(i, t)
  OBVIOUS
<1>2. PICK S : S = IF e \notin marks /\ Overlaps(i, t) THEN {e} ELSE {}
  OBVIOUS
<1>3. /\ At(i, t, "get") /\ Move(i, t, IF e \in marks THEN "ack" ELSE "run")
      /\ notes' = Note("excused", S)
      /\ UNCHANGED <<conf, log, lo, cursor, pel, idle, marks, lost, up, known, lastId, total, start, seen>>
  BY <1>1, <1>2 DEF CheckDedup, redis, budget, heard
<1>4. /\ task[i][t].batch # <<>> /\ up[i] # "down" /\ task[i][t].pc = "get" /\ Grouped
      /\ e \in Events
  BY <1>1, <1>3, HeadOf
<1>5. StreamsTypes /\ TasksSound /\ "excused" \in Kinds /\ {"ack", "run"} \subseteq Steps
  BY DEF StreamsInv, Kinds, Steps
<1>6. /\ notes' = [k \in Kinds |-> notes'[k]]
      /\ \A k \in Kinds : notes'[k] = IF k = "excused" THEN notes[k] \cup S ELSE notes[k]
  BY <1>3, <1>5, Noted
<1>7. Grows
  BY <1>3, <1>6, GroupGrows
<1>8. CASE e \in marks
  <2>1. Accounted(e)'
    BY <1>7, <1>8, AccountedStays DEF StreamsInv, MarksSound
  <2>2. Move(i, t, "ack")
    BY <1>3, <1>8
  <2>3. PICK k : Turns(i, t, k) /\ k.pc = "ack" /\ Sound(k)'
    BY <1>1, <1>4, <1>5, <1>7, <2>1, <2>2, Moved
  <2>4. AckedIsAccounted'
    BY <1>3, <1>7, AckedStays DEF StreamsInv
  <2>5. cursor' \in 0..Len(log) /\ DOMAIN pel' \subseteq 1..Len(log) /\ idle' \subseteq 1..Len(log)
    BY <1>3, <1>5 DEF StreamsTypes
  <2> QED  BY <1>3, <1>4, <1>6, <1>7, <2>3, <2>4, <2>5, GroupStep
<1>9. CASE e \notin marks
  <2>1. Move(i, t, "run")
    BY <1>3, <1>9
  <2>2. PICK k : Turns(i, t, k) /\ k.pc = "run" /\ Sound(k)' /\ OnlyAt(k, "run", e)'
    BY <1>1, <1>4, <1>5, <1>7, <2>1, Moved
  <2>3. \A x : /\ Standing("run", x)' \ {<<i, t>>} = Standing("run", x) \ {<<i, t>>}
               /\ Standing("mark", x)' \ {<<i, t>>} = Standing("mark", x) \ {<<i, t>>}
               /\ <<i, t>> \in Standing("run", x)' <=> x = e
               /\ <<i, t>> \notin Standing("mark", x)'
               /\ <<i, t>> \notin Standing("run", x) /\ <<i, t>> \notin Standing("mark", x)
    BY <1>1, <1>3, <1>5, <1>7, <2>2, Walked
  <2>4. ASSUME ~Overlaps(i, t) PROVE Standing("run", e) = {} /\ Standing("mark", e) = {}
    <3>1. ASSUME NEW pc \in {"run", "mark"}, NEW x \in Standing(pc, e) PROVE FALSE
      <4>1. PICK j \in Instances, u \in Tasks : x = <<j, u>> /\ Occupied(task[j][u], pc, e)
        BY <3>1 DEF Standing
      <4>2. up[j] # "down"
        BY <4>1 DEF Occupied, StreamsInv, Discipline
      <4>3. At(j, u, pc) /\ EvOf(j, u) = EvOf(i, t)
        BY <1>1, <4>1, <4>2 DEF At, Occupied, EvOf
      <4>4. <<j, u>> # <<i, t>>
        BY <1>4, <3>1, <4>1 DEF Occupied
      <4> QED  BY <2>4, <3>1, <4>3, <4>4 DEF Overlaps
    <3> QED  BY <3>1
  <2>5. ASSUME NEW x \in Events, x \notin notes'.excused PROVE Single(x)'
    <3>1. x \notin notes.excused /\ x \notin S
      BY <1>5, <1>6, <2>5
    <3>2. Single(x)
      BY <1>4, <3>1 DEF StreamsInv, Singles
    <3>3. CASE x = e
      <4>1. Standing("run", e) = {} /\ Standing("mark", e) = {}
        BY <1>2, <1>9, <2>4, <3>1, <3>3
      <4>2. total[e] = 0
        BY <1>9, <3>2, <3>3, <4>1 DEF Single
      <4>3. Standing("run", e)' = {<<i, t>>} /\ Standing("mark", e)' = {}
        BY <2>3, <4>1
      <4> QED  BY <1>3, <1>9, <3>3, <4>2, <4>3 DEF Single
    <3>4. CASE x # e
      <4>1. Standing("run", x)' = Standing("run", x) /\ Standing("mark", x)' = Standing("mark", x)
        BY <2>3, <3>4, SameBut
      <4> QED  BY <1>3, <3>2, <4>1 DEF Single
    <3> QED  BY <3>3, <3>4
  <2>6. Singles'
    BY <2>5 DEF Singles
  <2>7. MarksSound' /\ total' \in [Events -> 0..2]
    BY <1>3, <1>5, <1>7, MarksStay DEF StreamsInv, StreamsTypes
  <2> QED  BY <1>3, <1>4, <1>6, <1>7, <2>2, <2>6, <2>7, RunStep
<1> QED  BY <1>8, <1>9

(* Handlers run with the mark still to be written.                          *)
LEMMA DispatchStep ==
  ASSUME StreamsInv, NEW i \in Instances, NEW t \in Tasks, Dispatch(i, t)
  PROVE  StreamsInv'
<1>1. PICK e : e = EvOf(i, t)
  OBVIOUS
<1>2. /\ At(i, t, "run")
      /\ UNCHANGED <<conf, log, lo, cursor, pel, idle, marks, lost, up, known, lastId, start, seen>>
  BY DEF Dispatch, redis, budget, heard
<1>3. /\ task[i][t].batch # <<>> /\ up[i] # "down" /\ task[i][t].pc = "run" /\ Grouped
      /\ e \in Events /\ Sound(Skip(i, t)) /\ Skip(i, t).pc \in {"loop", "ack", "park", "get"}
  BY <1>1, <1>2, HeadOf
<1>4. StreamsTypes /\ TasksSound /\ {"echoed", "dropped", "run"} \subseteq Kinds /\ "mark" \in Steps
      /\ cursor' \in cursor..Len(log) /\ DOMAIN pel' \subseteq 1..Len(log) /\ total \in [Events -> 0..2]
      /\ \A n \in 1..Len(log) : ~(n > cursor /\ n <= cursor')
  BY <1>2 DEF StreamsInv, StreamsTypes, Kinds, Steps
<1>5. CASE task' = [task EXCEPT ![i][t] = Skip(i, t)] /\ UNCHANGED <<total, notes>>
  <2>1. PICK k : k = Skip(i, t)
    OBVIOUS
  <2>2. Turns(i, t, k)
    BY <1>5, <2>1 DEF Turns
  <2> QED  BY <1>2, <1>3, <1>4, <1>5, <2>1, <2>2, BatchStep
<1>6. CASE Move(i, t, "mark") /\ OnTransportEnvelope(i, e)
  <2>1. \/ total' = total /\ \E kind \in {"echoed", "dropped"} : notes' = Note(kind, {e})
        \/ total' = [total EXCEPT ![e] = Capped(@ + 1)] /\ notes' = Note("run", {e})
    BY <1>6 DEF OnTransportEnvelope
  <2>2. PICK kind \in {"echoed", "dropped", "run"} :
          /\ notes' = Note(kind, {e})
          /\ IF kind = "run" THEN total' = [total EXCEPT ![e] = Capped(@ + 1)] ELSE total' = total
    BY <2>1
  <2>3. /\ notes' = [x \in Kinds |-> notes'[x]]
        /\ \A x \in Kinds : notes'[x] = IF x = kind THEN notes[x] \cup {e} ELSE notes[x]
    BY <1>4, <2>2, Noted
  <2>4. /\ total' \in [Events -> 0..2] /\ \A x \in Events : x # e => total'[x] = total[x]
        /\ total[e] = 0 => total'[e] \in 0..1
        /\ \A x \in Events : total[x] > 0 => total'[x] > 0
        /\ kind = "run" => total'[e] > 0
    BY <1>3, <1>4, <2>2 DEF Capped
  <2>5. Grows
    BY <1>2, <2>3, <2>4, GroupGrows
  <2>6. Accounted(e)'
    BY <2>3, <2>4 DEF Accounted, Kinds
  <2>7. PICK k : Turns(i, t, k) /\ k.pc = "mark" /\ Sound(k)' /\ OnlyAt(k, "mark", e)'
    BY <1>1, <1>3, <1>4, <1>6, <2>5, <2>6, Moved
  <2>8. \A x : /\ Standing("run", x)' \ {<<i, t>>} = Standing("run", x) \ {<<i, t>>}
               /\ Standing("mark", x)' \ {<<i, t>>} = Standing("mark", x) \ {<<i, t>>}
               /\ <<i, t>> \in Standing("mark", x)' <=> x = e
               /\ <<i, t>> \notin Standing("run", x)'
               /\ <<i, t>> \in Standing("run", x) <=> x = e
               /\ <<i, t>> \notin Standing("mark", x)
    BY <1>1, <1>2, <1>4, <2>5, <2>7, Walked
  <2>9. ASSUME NEW x \in Events, x \notin notes'.excused PROVE Single(x)'
    <3>1. Single(x)
      BY <1>3, <2>3, <2>9 DEF StreamsInv, Singles, Kinds
    <3>2. CASE x = e
      <4>1. Standing("run", e) = {<<i, t>>} /\ Standing("mark", e) = {} /\ total[e] = 0
        BY <2>8, <3>1, <3>2 DEF Single
      <4>2. Standing("run", e)' = {} /\ Standing("mark", e)' = {<<i, t>>}
        BY <2>8, <4>1
      <4>3. total'[e] = 0 \/ total'[e] = 1
        BY <2>4, <4>1
      <4> QED  BY <3>2, <4>2, <4>3 DEF Single
    <3>3. CASE x # e
      <4>1. Standing("run", x)' = Standing("run", x) /\ Standing("mark", x)' = Standing("mark", x)
        BY <2>8, <3>3, SameBut
      <4> QED  BY <1>2, <2>4, <3>1, <3>3, <4>1 DEF Single
    <3> QED  BY <3>2, <3>3
  <2>10. Singles'
    BY <2>9 DEF Singles
  <2>11. MarksSound'
    BY <1>2, <2>5, MarksStay DEF StreamsInv
  <2> QED  BY <1>2, <1>3, <2>3, <2>4, <2>5, <2>7, <2>10, <2>11, RunStep
<1> QED  BY <1>1, <1>5, <1>6 DEF Dispatch

(* The mark is written, or failing to write it is the excuse.               *)
LEMMA MarkStep ==
  ASSUME StreamsInv, NEW i \in Instances, NEW t \in Tasks, Mark(i, t)
  PROVE  StreamsInv'
<1>1. PICK e : e = EvOf(i, t)
  OBVIOUS
<1>2. /\ At(i, t, "mark") /\ Move(i, t, "ack")
      /\ UNCHANGED <<conf, log, lo, cursor, pel, idle, lost, up, known, lastId, total, start, seen>>
  BY DEF Mark, heard
<1>3. /\ task[i][t].batch # <<>> /\ up[i] # "down" /\ task[i][t].pc = "mark" /\ Grouped
      /\ e \in Events /\ Accounted(e)
  BY <1>1, <1>2, HeadOf
<1>4. StreamsTypes /\ TasksSound /\ "excused" \in Kinds /\ "ack" \in Steps /\ total' \in [Events -> 0..2]
  BY <1>2 DEF StreamsInv, StreamsTypes, Kinds, Steps
<1>5. \/ marks' = marks \cup {e} /\ notes' = notes
      \/ marks' = marks /\ notes' = Note("excused", {e})
  BY <1>1 DEF Mark
<1>6. /\ notes' = [x \in Kinds |-> notes'[x]] /\ marks \subseteq marks' /\ marks' \subseteq marks \cup {e}
      /\ \A x \in Kinds : notes[x] \subseteq notes'[x]
      /\ e \in marks' \/ e \in notes'.excused
  <2>1. CASE marks' = marks \cup {e} /\ notes' = notes
    BY <1>4, <2>1 DEF StreamsTypes
  <2>2. CASE marks' = marks /\ notes' = Note("excused", {e})
    <3>1. /\ notes' = [x \in Kinds |-> notes'[x]]
          /\ \A x \in Kinds : notes'[x] = IF x = "excused" THEN notes[x] \cup {e} ELSE notes[x]
      BY <1>4, <2>2, Noted
    <3> QED  BY <1>4, <2>2, <3>1
  <2> QED  BY <1>5, <2>1, <2>2
<1>7. Grows
  BY <1>2, <1>6, GroupGrows
<1>8. Accounted(e)'
  BY <1>3, <1>7, AccountedStays
<1>9. PICK k : Turns(i, t, k) /\ k.pc = "ack" /\ Sound(k)' /\ OnlyAt(k, "ack", e)'
  BY <1>1, <1>2, <1>3, <1>4, <1>7, <1>8, Moved
<1>10. \A x : /\ Standing("run", x)' \ {<<i, t>>} = Standing("run", x) \ {<<i, t>>}
              /\ Standing("mark", x)' \ {<<i, t>>} = Standing("mark", x) \ {<<i, t>>}
              /\ <<i, t>> \notin Standing("run", x)' /\ <<i, t>> \notin Standing("mark", x)'
              /\ <<i, t>> \in Standing("mark", x) <=> x = e
              /\ <<i, t>> \notin Standing("run", x)
  BY <1>1, <1>2, <1>4, <1>7, <1>9, Walked
<1>11. ASSUME NEW x \in Events, x \notin notes'.excused PROVE Single(x)'
  <2>1. Single(x)
    BY <1>3, <1>4, <1>6, <1>11 DEF StreamsInv, Singles
  <2>2. CASE x = e
    <3>1. Standing("run", e)' = {} /\ Standing("mark", e)' = {}
      BY <1>10, <2>1, <2>2 DEF Single
    <3>2. e \in marks'
      BY <1>6, <1>11, <2>2
    <3> QED  BY <1>2, <2>1, <2>2, <3>1, <3>2 DEF Single
  <2>3. CASE x # e
    <3>1. Standing("run", x)' = Standing("run", x) /\ Standing("mark", x)' = Standing("mark", x)
      BY <1>10, <2>3, SameBut
    <3> QED  BY <1>2, <1>6, <2>1, <2>3, <3>1 DEF Single
  <2> QED  BY <2>2, <2>3
<1>12. Singles'
  BY <1>11 DEF Singles
<1>13. MarksSound'
  <2>1. ASSUME NEW x \in marks' PROVE x \in Events /\ Accounted(x)'
    <3>1. CASE x = e
      BY <1>3, <1>8, <3>1
    <3>2. CASE x \in marks
      BY <1>7, <3>2, AccountedStays DEF StreamsInv, MarksSound
    <3> QED  BY <1>6, <2>1, <3>1, <3>2
  <2> QED  BY <2>1 DEF MarksSound
<1> QED  BY <1>2, <1>3, <1>4, <1>6, <1>7, <1>9, <1>12, <1>13, RunStep

-----------------------------------------------------------------------------
(* Broadcast readers.                                                       *)

(* What a cursor has passed was dispatched or trimmed.                      *)
Covers(i) ==
  /\ lastId[i] \in 0..Len(log) /\ Follows(i)
  /\ \A n \in 1..lastId[i] : start[i] < n => n \in seen[i] \/ n <= lo

LEMMA BroadcastStep ==
  ASSUME StreamsInv, ~Grouped, Grows, NEW i \in Instances, NEW k,
         Turns(i, "consumer", k), Sound(k)', k.pc \in {"loop", "read"}, up[i] # "down",
         UNCHANGED <<log, lo, cursor, pel, idle, marks, up, known, start>>,
         total' \in [Events -> 0..2], notes' = [x \in Kinds |-> notes'[x]], notes'.gap = notes.gap,
         lastId' \in [Instances -> Nat \cup {Dollar}], seen' = [j \in Instances |-> seen'[j]],
         \A j \in Instances : j # i => lastId'[j] = lastId[j] /\ seen'[j] = seen[j],
         known[i] /\ i \notin notes.gap => Covers(i)'
  PROVE  StreamsInv'
<1> USE DEF StreamsInv
<1>1. "consumer" \in Tasks
  BY DEF Tasks
<1>2. /\ task' = [j \in Instances |-> [u \in Tasks |-> task'[j][u]]]
      /\ task'[i]["consumer"] = k
      /\ \A j \in Instances, u \in Tasks : j # i \/ u # "consumer" => task'[j][u] = task[j][u]
  BY <1>1, OneTask, OneTaskForm
<1>3. TasksSound'
  BY <1>1, OneTaskSound
<1>4. StreamsTypes'
  BY <1>2 DEF StreamsTypes
<1>5. ~Grouped' /\ Discipline'
  BY <1>2, SMTT(30) DEF Discipline, Grouped, Grows
<1>6. AckedIsAccounted' /\ Singles'
  BY <1>5 DEF AckedIsAccounted, Singles
<1>7. MarksSound'
  BY MarksStay
<1>8. ASSUME NEW j \in Instances, known'[j], j \notin notes'.gap PROVE Covers(j)'
  <2>1. CASE j = i
    BY <1>8, <2>1
  <2>2. CASE j # i
    <3>1. Covers(j)
      BY <1>8 DEF Gapless, Covers
    <3> QED  BY <1>1, <1>2, <2>2, <3>1 DEF Covers, Follows
  <2> QED  BY <2>1, <2>2
<1>9. Gapless'
  BY <1>8 DEF Gapless, Covers
<1> QED  BY <1>3, <1>4, <1>5, <1>6, <1>7, <1>9

LEMMA ReadBroadcastStep ==
  ASSUME StreamsInv, NEW i \in Instances, ReadBroadcast(i) PROVE StreamsInv'
<1>1. PICK from \in IF lastId[i] = Dollar THEN start[i]..Len(log) ELSE {lastId[i]} :
        /\ Unread(from) /= <<>>
        /\ task' = [task EXCEPT ![i]["consumer"] = [Looping EXCEPT !.pc = "read", !.batch = Unread(from)]]
  BY DEF ReadBroadcast
<1>2. PICK b : b = Unread(from)
  OBVIOUS
<1>3. PICK k : k = [Looping EXCEPT !.pc = "read", !.batch = b]
  OBVIOUS
<1>4. /\ ~Grouped /\ up[i] # "down" /\ Turns(i, "consumer", k)
      /\ UNCHANGED <<conf, log, lo, cursor, pel, idle, marks, lost, up, known, lastId, total, start, seen, notes>>
  BY <1>1, <1>2, <1>3 DEF ReadBroadcast, Available, Turns, redis, budget, ghost
<1>5. StreamsTypes /\ TasksSound
  BY DEF StreamsInv
<1>6. from \in Nat /\ (lastId[i] # Dollar => from = lastId[i])
  <2>1. start[i] \in Nat /\ Len(log) \in Nat /\ lastId[i] \in Nat \cup {Dollar}
    BY <1>5 DEF StreamsTypes
  <2> QED  BY <2>1
<1>7. /\ b \in Seq(1..Len(log)) /\ b # <<>>
      /\ \A x \in 1..Len(b) : b[x] = b[1] + x - 1
      /\ \A n \in 1..Len(log) : from < n /\ n < b[1] => n <= lo
  BY <1>1, <1>2, <1>6, UnreadEntries
<1>8. k = [pc |-> "read", batch |-> b, over |-> {}]
  BY <1>3 DEF Looping
<1>9. Sound(k)
  BY <1>7, <1>8 DEF Sound, Steps
<1>10. Grows
  BY <1>4, GroupGrows
<1>11. Sound(k)'
  BY <1>5, <1>9, <1>10, SoundStays
<1>12. ASSUME known[i], i \notin notes.gap PROVE Covers(i)'
  <2>1. Covers(i) /\ lastId[i] # Dollar
    BY <1>4, <1>12, StreamsAssumption DEF StreamsInv, Gapless, Covers
  <2>2. task'[i]["consumer"] = k
    BY <1>4, <1>5, OneTask DEF Tasks
  <2>3. Follows(i)'
    BY <1>4, <1>6, <1>7, <1>8, <2>1, <2>2 DEF Follows
  <2> QED  BY <1>4, <2>1, <2>3 DEF Covers
<1>13. /\ total' \in [Events -> 0..2] /\ notes' = [x \in Kinds |-> notes'[x]] /\ notes'.gap = notes.gap
       /\ lastId' \in [Instances -> Nat \cup {Dollar}] /\ seen' = [j \in Instances |-> seen'[j]]
       /\ \A j \in Instances : j # i => lastId'[j] = lastId[j] /\ seen'[j] = seen[j]
  BY <1>4, <1>5 DEF StreamsTypes
<1> QED  BY <1>4, <1>8, <1>10, <1>11, <1>12, <1>13, BroadcastStep

(* The cursor moves with the entry that is dispatched.                      *)
LEMMA DispatchBroadcastStep ==
  ASSUME StreamsInv, NEW i \in Instances, DispatchBroadcastEntry(i) PROVE StreamsInv'
<1>1. PICK b : b = task[i]["consumer"].batch
  OBVIOUS
<1>2. PICK e : e = EvOf(i, "consumer")
  OBVIOUS
<1>3. PICK k : k = IF Tail(b) = <<>> THEN Looping ELSE [task[i]["consumer"] EXCEPT !.batch = Tail(b)]
  OBVIOUS
<1>4. /\ At(i, "consumer", "read") /\ "consumer" \in Tasks
      /\ UNCHANGED <<conf, log, lo, cursor, pel, idle, marks, lost, up, known, start>>
      /\ lastId' = [lastId EXCEPT ![i] = Head(b)] /\ seen' = [seen EXCEPT ![i] = @ \cup {Head(b)}]
  BY <1>1 DEF DispatchBroadcastEntry, LastId, redis, budget, Tasks
<1>5. Turns(i, "consumer", k)
  BY <1>1, <1>3 DEF DispatchBroadcastEntry, Turns
<1>6. StreamsTypes /\ TasksSound /\ Discipline
  BY DEF StreamsInv
<1>7. /\ up[i] # "down" /\ task[i]["consumer"].pc = "read" /\ b # <<>> /\ b \in Seq(1..Len(log))
      /\ e \in Events /\ Head(b) \in 1..Len(log)
  BY <1>1, <1>2, <1>4, HeadOf
<1>8. ~Grouped
  BY <1>4, <1>6, <1>7 DEF Discipline
<1>9. Tail(b) \in Seq(1..Len(log))
  <2>1. \A S, q : q \in Seq(S) /\ q # <<>> => Tail(q) \in Seq(S)
    OBVIOUS
  <2> QED  BY <1>7, <2>1, Zenon
<1>10. /\ Sound(k) /\ k.pc \in {"loop", "read"}
       /\ k.pc = "read" => Tail(b) # <<>> /\ k.batch = Tail(b)
  <2>1. CASE Tail(b) = <<>>
    BY <1>3, <2>1, LoopSound
  <2>2. CASE Tail(b) # <<>>
    <3>1. PICK h : h = task[i]["consumer"]
      OBVIOUS
    <3>2. h = [pc |-> h.pc, batch |-> h.batch, over |-> h.over] /\ h.pc = "read"
      BY <1>4, <1>6, <1>7, <3>1 DEF TasksSound, Sound
    <3>3. k = [pc |-> "read", batch |-> Tail(b), over |-> h.over]
      BY <1>3, <2>2, <3>1, <3>2
    <3> QED  BY <1>9, <2>2, <3>3 DEF Sound, Steps
  <2> QED  BY <2>1, <2>2
<1>11. \/ total' = total /\ notes' = notes
       \/ total' = total /\ \E kind \in {"echoed", "dropped"} : notes' = Note(kind, {e})
       \/ total' = [total EXCEPT ![e] = Capped(@ + 1)] /\ notes' = Note("run", {e})
  BY <1>2 DEF DispatchBroadcastEntry, OnTransportEnvelope
<1>12. /\ total' \in [Events -> 0..2] /\ \A x \in Events : total[x] > 0 => total'[x] > 0
  <2>1. total \in [Events -> 0..2]
    BY <1>6 DEF StreamsTypes
  <2>2. total' = total \/ total' = [total EXCEPT ![e] = Capped(@ + 1)]
    BY <1>11
  <2> QED  BY <1>7, <2>1, <2>2 DEF Capped
<1>13. /\ notes' = [x \in Kinds |-> notes'[x]] /\ notes'.gap = notes.gap
       /\ \A x \in Kinds : notes[x] \subseteq notes'[x]
  <2>1. CASE notes' = notes
    BY <1>6, <2>1 DEF StreamsTypes
  <2>2. ASSUME NEW kind \in {"echoed", "dropped", "run"}, notes' = Note(kind, {e})
        PROVE  /\ notes' = [x \in Kinds |-> notes'[x]]
               /\ \A x \in Kinds : notes'[x] = IF x = kind THEN notes[x] \cup {e} ELSE notes[x]
    <3>1. kind \in Kinds
      BY DEF Kinds
    <3> QED  BY <1>6, <2>2, <3>1, Noted
  <2>3. "gap" \in Kinds /\ "gap" \notin {"echoed", "dropped", "run"}
    BY DEF Kinds
  <2>4. notes' = notes \/ \E kind \in {"echoed", "dropped", "run"} : notes' = Note(kind, {e})
    BY <1>11
  <2> QED  BY <2>1, <2>2, <2>3, <2>4
<1>14. Grows
  BY <1>4, <1>12, <1>13, GroupGrows
<1>15. Sound(k)'
  BY <1>6, <1>10, <1>14, SoundStays
<1>16. ASSUME known[i], i \notin notes.gap PROVE Covers(i)'
  <2>1. Covers(i)
    BY <1>8, <1>16 DEF StreamsInv, Gapless, Covers
  <2>2. Len(log) \in Nat /\ lo \in Nat /\ lastId'[i] = Head(b) /\ seen'[i] = seen[i] \cup {Head(b)} /\ Head(b) = b[1]
        /\ start[i] \in Nat
    BY <1>4, <1>6, <1>7 DEF StreamsTypes
  <2>3. /\ \A x \in 1..Len(b) : b[x] = b[1] + x - 1
        /\ \A n \in 1..Len(log) : lastId[i] < n /\ n < b[1] => n <= lo
    BY <1>1, <1>7, <2>1 DEF Covers, Follows
  <2>4. task'[i]["consumer"] = k
    BY <1>4, <1>5, <1>6, OneTask
  <2>5. ASSUME k.pc = "read"
        PROVE  /\ Tail(b) # <<>> /\ k.batch = Tail(b) /\ Tail(b)[1] = b[1] + 1
               /\ \A x \in 1..Len(Tail(b)) : Tail(b)[x] = Tail(b)[1] + x - 1
    <3>1. Tail(b) # <<>> /\ k.batch = Tail(b)
      BY <1>10, <2>5
    <3>2. Len(Tail(b)) = Len(b) - 1 /\ Len(b) \in Nat /\ \A x \in 1..Len(Tail(b)) : Tail(b)[x] = b[x + 1]
      BY <1>7
    <3>3. 1 \in 1..Len(Tail(b)) /\ b[1] \in Int
      BY <1>7, <1>9, <2>2, <3>1
    <3>4. \A x \in 1..Len(Tail(b)) : Tail(b)[x] = b[1] + x
      BY <2>3, <3>2, <3>3
    <3> QED  BY <3>1, <3>3, <3>4
  <2>6. Follows(i)'
    <3>1. \A n \in 1..Len(log) : ~(b[1] < n /\ n < b[1] + 1)
      BY <1>7, <2>2
    <3> QED  BY <1>4, <2>2, <2>4, <2>5, <3>1 DEF Follows
  <2>7. ASSUME NEW n \in 1..lastId'[i], start[i] < n PROVE n \in seen'[i] \/ n <= lo
    <3>1. n \in 1..Len(log) /\ n <= b[1] /\ lastId[i] \in Nat
      BY <1>7, <2>1, <2>2 DEF Covers
    <3>2. CASE n <= lastId[i]
      BY <2>1, <2>2, <2>7, <3>1, <3>2 DEF Covers
    <3>3. CASE n > lastId[i]
      BY <1>7, <2>2, <2>3, <3>1, <3>3
    <3> QED  BY <3>1, <3>2, <3>3
  <2> QED  BY <1>4, <1>7, <2>2, <2>6, <2>7 DEF Covers
<1>17. /\ lastId' \in [Instances -> Nat \cup {Dollar}] /\ seen' = [j \in Instances |-> seen'[j]]
       /\ \A j \in Instances : j # i => lastId'[j] = lastId[j] /\ seen'[j] = seen[j]
  <2>1. Head(b) \in Nat
    BY <1>6, <1>7 DEF StreamsTypes
  <2>2. PICK h \in Nat : h = Head(b)
    BY <2>1
  <2>3. lastId \in [Instances -> Nat \cup {Dollar}] /\ lastId' = [lastId EXCEPT ![i] = h]
    BY <1>4, <1>6, <2>2 DEF StreamsTypes
  <2>4. PICK S : S = seen[i] \cup {h}
    OBVIOUS
  <2>5. seen = [j \in Instances |-> seen[j]] /\ seen' = [seen EXCEPT ![i] = S]
    BY <1>4, <1>6, <2>2, <2>4 DEF StreamsTypes
  <2> QED  BY <2>3, <2>5
<1> QED  BY <1>4, <1>5, <1>7, <1>8, <1>10, <1>12, <1>13, <1>14, <1>15, <1>16, <1>17, BroadcastStep

-----------------------------------------------------------------------------
(* A process that stops between handlers and mark is the excuse of the      *)
(* events it leaves there.                                                  *)
LEMMA StopStep ==
  ASSUME StreamsInv, NEW i \in Instances, Crash(i) \/ CloseBackend(i) PROVE StreamsInv'
<1>1. PICK f : f = Fresh(i)
  OBVIOUS
<1>2. PICK R : R = RanUnmarked(i)
  OBVIOUS
<1>3. /\ up[i] # "down"
      /\ UNCHANGED <<conf, log, lo, cursor, pel, idle, marks, lost, total>>
      /\ up' = [up EXCEPT ![i] = "down"] /\ known' = [known EXCEPT ![i] = FALSE]
      /\ lastId' = [lastId EXCEPT ![i] = 0] /\ task' = [task EXCEPT ![i] = f]
      /\ start' = [start EXCEPT ![i] = 0] /\ seen' = [seen EXCEPT ![i] = {}]
  BY <1>1 DEF Crash, CloseBackend, Stop, redis, budget
<1>4. \E U : notes' = [notes EXCEPT !.excused = @ \cup R, !.unrun = @ \cup U, !.gap = @ \ {i}]
  BY <1>2 DEF Crash, CloseBackend, Stop
<1>5. StreamsTypes /\ TasksSound /\ Discipline
  BY DEF StreamsInv
<1>6. /\ notes' = [x \in Kinds |-> notes'[x]] /\ notes'.gap = notes.gap \ {i}
      /\ notes'.excused = notes.excused \cup R
      /\ \A x \in Kinds : x # "gap" => notes[x] \subseteq notes'[x]
  <2>1. notes = [x \in Kinds |-> notes[x]] /\ {"gap", "excused", "unrun"} \subseteq Kinds
    BY <1>5 DEF StreamsTypes, Kinds
  <2>2. PICK U : notes' = [notes EXCEPT !.excused = @ \cup R, !.unrun = @ \cup U, !.gap = @ \ {i}]
    BY <1>4
  <2> QED  BY <2>1, <2>2
<1>7. Grows
  <2>1. log \in Seq(Events) /\ lo \in 0..Len(log) /\ Len(log) \in Nat
    BY <1>5 DEF StreamsTypes
  <2> QED  BY <1>3, <1>6, <2>1 DEF Grows
<1>8. /\ f = [u \in Tasks |-> f[u]] /\ \A u \in Tasks : f[u] = Looping
  BY <1>1 DEF Fresh
<1>9. /\ task' = [j \in Instances |-> [u \in Tasks |-> task'[j][u]]]
      /\ \A u \in Tasks : task'[i][u] = Looping
      /\ \A j \in Instances : j # i => task'[j] = task[j]
  <2>1. task' = [j \in Instances |-> [u \in Tasks |-> task'[j][u]]]
    BY <1>3, <1>5, <1>8, TaskForm
  <2>2. task'[i] = f /\ \A j \in Instances : j # i => task'[j] = task[j]
    BY <1>3, <1>5 DEF StreamsTypes
  <2> QED  BY <1>8, <2>1, <2>2
<1>10. StreamsTypes'
  <2>1. /\ known \in [Instances -> BOOLEAN] /\ up \in [Instances -> {"up", "closing", "down"}]
        /\ lastId \in [Instances -> Nat \cup {Dollar}] /\ start \in [Instances -> Nat]
        /\ seen = [j \in Instances |-> seen[j]]
    BY <1>5 DEF StreamsTypes
  <2>2. known' \in [Instances -> BOOLEAN] /\ up' \in [Instances -> {"up", "closing", "down"}]
    BY <1>3, <2>1
  <2>3. lastId' \in [Instances -> Nat \cup {Dollar}] /\ start' \in [Instances -> Nat]
    BY <1>3, <2>1
  <2>4. seen' = [j \in Instances |-> seen'[j]]
    BY <1>3, <2>1
  <2> QED  BY <1>3, <1>5, <1>6, <1>9, <2>2, <2>3, <2>4 DEF StreamsTypes
<1>11. TasksSound'
  <2> SUFFICES ASSUME NEW j \in Instances, NEW u \in Tasks PROVE Sound(task[j][u])'
    BY DEF TasksSound
  <2>1. PICK h : h = task'[j][u]
    OBVIOUS
  <2>2. h = Looping \/ h = task[j][u]
    BY <1>9, <2>1
  <2>3. Sound(h)
    BY <1>5, <2>2, LoopSound DEF TasksSound
  <2>4. Sound(h)'
    BY <1>5, <1>7, <2>3, SoundStays
  <2> QED  BY <2>1, <2>4
<1>12. Discipline'
  <2> SUFFICES ASSUME NEW j \in Instances, NEW u \in Tasks
               PROVE  /\ up'[j] = "down" => task'[j][u].pc = "loop"
                      /\ task'[j][u].pc = "loop" \/ (Grouped' <=> task'[j][u].pc # "read")
    BY DEF Discipline
  <2>1. CASE j = i
    BY <1>9, <2>1, LoopSound
  <2>2. CASE j # i
    BY <1>3, <1>5, <1>9, <2>2 DEF Discipline, Grouped, StreamsTypes
  <2> QED  BY <2>1, <2>2
<1>13. ASSUME NEW pc \in {"run", "mark"}, NEW e
       PROVE  /\ Standing(pc, e)' \subseteq Standing(pc, e)
              /\ (pc = "run" \/ e \notin R) => \A x \in Standing(pc, e) : x \in Standing(pc, e)' \/ pc = "run"
  <2>1. ASSUME NEW j \in Instances, j # i, NEW u \in Tasks
        PROVE  Occupied(task[j][u], pc, e)' <=> Occupied(task[j][u], pc, e)
    BY <1>3, <1>9, <2>1 DEF Occupied, Ev
  <2>2. ASSUME NEW u \in Tasks PROVE ~Occupied(task[i][u], pc, e)'
    <3>1. task'[i][u].pc = "loop"
      BY <1>9, LoopSound
    <3> QED  BY <3>1 DEF Occupied
  <2>3. ASSUME NEW u \in Tasks, pc = "mark", Occupied(task[i][u], pc, e) PROVE e \in R
    BY <1>2, <1>3, <2>3 DEF RanUnmarked, At, Occupied, EvOf
  <2>4. \A x : x \in Standing(pc, e)' => \E j \in Instances, u \in Tasks : x = <<j, u>> /\ Occupied(task[j][u], pc, e)'
    BY DEF Standing
  <2>5. \A j \in Instances, u \in Tasks : Occupied(task[j][u], pc, e) => <<j, u>> \in Standing(pc, e)
    BY DEF Standing
  <2>6. \A j \in Instances, u \in Tasks : Occupied(task[j][u], pc, e)' => <<j, u>> \in Standing(pc, e)'
    BY DEF Standing
  <2>7. \A x \in Standing(pc, e) : \E j \in Instances, u \in Tasks : x = <<j, u>> /\ Occupied(task[j][u], pc, e)
    BY DEF Standing
  <2>8. Standing(pc, e)' \subseteq Standing(pc, e)
    BY <2>1, <2>2, <2>4, <2>5
  <2>9. ASSUME e \notin R, pc = "mark", NEW x \in Standing(pc, e) PROVE x \in Standing(pc, e)'
    <3>1. PICK j \in Instances, u \in Tasks : x = <<j, u>> /\ Occupied(task[j][u], pc, e)
      BY <2>7, <2>9
    <3>2. j # i
      BY <2>3, <2>9, <3>1
    <3> QED  BY <2>1, <2>6, <3>1, <3>2
  <2> QED  BY <2>8, <2>9
<1>14. Singles'
  <2> SUFFICES ASSUME Grouped', NEW e \in Events, e \notin notes'.excused PROVE Single(e)'
    BY DEF Singles
  <2>1. Single(e) /\ e \notin R
    BY <1>3, <1>6 DEF StreamsInv, Singles, Grouped
  <2>2. Standing("run", e)' \subseteq Standing("run", e) /\ Standing("mark", e)' \subseteq Standing("mark", e)
    BY <1>13
  <2>3. Standing("mark", e) \subseteq Standing("mark", e)'
    <3>1. "mark" \in {"run", "mark"} /\ "mark" # "run"
      OBVIOUS
    <3>2. \A x \in Standing("mark", e) : x \in Standing("mark", e)'
      BY <1>13, <2>1, <3>1, Zenon
    <3> QED  BY <3>2
  <2> QED  BY <1>3, <2>1, <2>2, <2>3 DEF Single
<1>15. MarksSound' /\ AckedIsAccounted'
  BY <1>3, <1>5, <1>7, MarksStay, AckedStays DEF StreamsInv
<1>16. Gapless'
  <2> SUFFICES ASSUME ~Grouped', NEW j \in Instances, known'[j], j \notin notes'.gap PROVE Covers(j)'
    BY DEF Gapless, Covers
  <2>1. j # i /\ known[j] /\ j \notin notes.gap /\ ~Grouped
    BY <1>3, <1>5, <1>6 DEF StreamsTypes, Grouped
  <2>2. Covers(j)
    BY <2>1 DEF StreamsInv, Gapless, Covers
  <2>3. lastId'[j] = lastId[j] /\ start'[j] = start[j] /\ seen'[j] = seen[j]
    BY <1>3, <1>5, <2>1 DEF StreamsTypes
  <2> QED  BY <1>3, <1>9, <2>1, <2>2, <2>3 DEF Covers, Follows
<1> QED  BY <1>10, <1>11, <1>12, <1>14, <1>15, <1>16 DEF StreamsInv

-----------------------------------------------------------------------------
(* The theorems.                                                            *)

LEMMA StreamsInit == ASSUME Init PROVE StreamsInv
<1> USE DEF Init
<1>1. StreamsTypes
  <2>1. log \in Seq(Events) /\ Len(log) = 0 /\ DOMAIN pel = {}
    OBVIOUS
  <2>2. task = [i \in Instances |-> [t \in Tasks |-> task[i][t]]]
    BY DEF Fresh
  <2> QED  BY <2>1, <2>2 DEF StreamsTypes, Kinds
<1>2. \A i \in Instances, t \in Tasks : task[i][t] = Looping
  BY DEF Fresh
<1>3. Discipline /\ TasksSound
  BY <1>2, LoopSound DEF Discipline, TasksSound
<1>4. MarksSound /\ AckedIsAccounted
  BY DEF MarksSound, AckedIsAccounted
<1>5. ASSUME NEW e, NEW pc \in {"run", "mark"} PROVE Standing(pc, e) = {}
  BY <1>2, LoopSound DEF Standing, Occupied
<1>6. Singles
  BY <1>5 DEF Singles, Single
<1>7. Gapless
  BY DEF Gapless
<1> QED  BY <1>1, <1>3, <1>4, <1>6, <1>7 DEF StreamsInv

LEMMA Stutters == ASSUME StreamsInv, UNCHANGED vars PROVE StreamsInv'
<1>1. UNCHANGED <<conf, log, lo, cursor, pel, idle, marks, lost, up, known, lastId, task, total, start, seen, notes>>
  BY DEF vars, redis, local, budget, ghost
<1> QED  BY <1>1, LocalStep DEF heard, StreamsInv, StreamsTypes

LEMMA StreamsStep == ASSUME StreamsInv, [Next]_vars PROVE StreamsInv'
<1>1. CASE \E i \in Publishers, e \in Events : Publish(i, e) \/ Relay(i, e) \/ LocalDispatch(i, e)
  BY <1>1, PublishStep, LocalDispatchStep
<1>2. CASE \E i \in Instances, t \in Tasks :
             CheckDedup(i, t) \/ Dispatch(i, t) \/ Mark(i, t) \/ Ack(i, t) \/ Park(i, t)
  BY <1>2, CheckDedupStep, DispatchStep, MarkStep, AckStep, ParkStep
<1>3. CASE \E i \in Instances : RefreshStreams(i) \/ ReadGroup(i) \/ ConsumerFails(i)
  BY <1>3, RefreshStep, ReadGroupStep, FailStep
<1>4. CASE \E i \in Instances : ReadBroadcast(i) \/ DispatchBroadcastEntry(i)
  BY <1>4, ReadBroadcastStep, DispatchBroadcastStep
<1>5. CASE \E i \in Instances : SweepPending(i) \/ SweepClaim(i) \/ SweepFails(i) \/ RetentionTrim(i)
  BY <1>5, SweepPendingStep, SweepClaimStep, FailStep, TrimStep
<1>6. CASE \E i \in Instances : Crash(i) \/ BeginClose(i) \/ CloseBackend(i) \/ StartConsumer(i)
  BY <1>6, StopStep, BeginCloseStep
<1>7. CASE \E n \in Entries : BecomesIdle(n)
  BY <1>7, IdleStep
<1>8. CASE RedisLosesData
  BY <1>8, DataLossStep
<1>9. CASE \E e \in Events : MarkExpires(e)
  BY <1>9, MarkExpiresStep
<1>10. CASE UNCHANGED vars
  BY <1>10, Stutters
<1> QED  BY <1>1, <1>2, <1>3, <1>4, <1>5, <1>6, <1>7, <1>8, <1>9, <1>10 DEF Next

(* The invariant of the transport, whatever fails and whoever stops: the    *)
(* theorems below rest on it (backends/redis_streams.py).             *)
THEOREM StreamsInvariant == Spec => []StreamsInv
<1>1. Init => StreamsInv
  BY StreamsInit
<1>2. StreamsInv /\ [Next]_vars => StreamsInv'
  BY StreamsStep
<1> QED  BY <1>1, <1>2, PTL DEF Spec

(* A consumer group acknowledges nothing that was not run off the transport,*)
(* suppressed as an echo, parked, undecodable or dropped by a closing bus   *)
(* (_handle_message, _park_to_dlq): for any number of processes, entries,   *)
(* crashes, failed commands and claims.                                     *)
THEOREM AckedEntriesAreAccounted == Spec => []AckedIsAccounted
<1>1. StreamsInv => AckedIsAccounted
  BY DEF StreamsInv
<1> QED  BY <1>1, StreamsInvariant, PTL

(* An event is run twice off the transport only with an excuse: two tasks   *)
(* between its check and its mark, a mark that failed or was never written, *)
(* a key that has expired or been evicted since, a Redis that lost its data *)
(* (_handle_message's dedup key, and the causes the docstring names).       *)
THEOREM StreamDuplicatesAreExcused == Spec => []DuplicatesAreExcused
<1>1. StreamsInv => DuplicatesAreExcused
  <2> SUFFICES ASSUME StreamsInv, Grouped, NEW e \in Events PROVE total[e] < 2 \/ e \in notes.excused
    BY DEF DuplicatesAreExcused
  <2>1. e \in notes.excused \/ total[e] = 0 \/ total[e] = 1
    BY DEF StreamsInv, Singles, Single
  <2> QED  BY <2>1
<1> QED  BY <1>1, StreamsInvariant, PTL

(* A broadcast reader passes over nothing that was added since it found the *)
(* stream, unless it was trimmed (_run_broadcast and its _last_ids).          *)
THEOREM BroadcastSkipsNothing == Spec => []BroadcastGapless
<1>1. StreamsInv => BroadcastGapless
  <2> SUFFICES ASSUME StreamsInv, NEW i \in Instances, ~Grouped, known[i], i \notin notes.gap,
                      NEW n \in 1..Len(log), start[i] < n, n <= lastId[i]
               PROVE  n \in seen[i] \/ n <= lo
    BY DEF BroadcastGapless
  <2>1. /\ lastId[i] \in 0..Len(log) /\ Len(log) \in Nat
        /\ \A m \in 1..lastId[i] : start[i] < m => m \in seen[i] \/ m <= lo
    BY DEF StreamsInv, Gapless, StreamsTypes
  <2>2. n \in 1..lastId[i]
    BY <2>1
  <2> QED  BY <2>1, <2>2
<1> QED  BY <1>1, StreamsInvariant, PTL
=============================================================================
