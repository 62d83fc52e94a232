------------------------- MODULE OutboxRelayProofs -------------------------
(***************************************************************************)
(* Proofs about OutboxRelay, for any envelopes and publish() calls, any    *)
(* max_rows, overflow policy and batch, and any number of crashes, store   *)
(* failures and restarts.                                                  *)
(*                                                                         *)
(* Inv is inductive.  TaskInv says of the executor's queue that each job   *)
(* has at most one task waiting for it, in the place that fits the job     *)
(* (QueueOK), and of the tasks that they carry what is in flight; without  *)
(* it an ack could be for a row that was never confirmed.  DataInv says    *)
(* that the table has one row for each envelope and that the counters      *)
(* account for every row that left it unconfirmed.                         *)
(*                                                                         *)
(* OneInv adds, for calls with envelopes of their own, that the table and  *)
(* the relay only hold what a call has appended, and that the relay does   *)
(* not carry what the task of a call publishes: no envelope has two tasks. *)
(***************************************************************************)
EXTENDS OutboxRelay, FiniteSetTheorems, WellFoundedInduction, TLAPS

-----------------------------------------------------------------------------
(* Numbers and sets.                                                       *)

\* A set of numbers that is not empty has a smallest one.
LEMMA LeastNumber ==
  ASSUME NEW T, T \subseteq Nat, T # {}
  PROVE  \E x \in T : \A y \in T : x <= y
<1>1. PICK x \in T : \A y \in T : ~ (<<y, x>> \in OpToRel(<, Nat))
  BY NatLessThanWellFounded, WFMin
<1>2. \A y \in T : ~ (y < x)
  BY <1>1 DEF OpToRel
<1> QED BY <1>2

\* A finite set of numbers that is not empty has a largest one: a smallest
\* subset without one would have one.
LEMMA LargestNumber ==
  ASSUME NEW S, S \subseteq Nat, IsFiniteSet(S), S # {}
  PROVE  Max(S) \in S /\ \A y \in S : Max(S) >= y
<1> DEFINE Capped(T) == \E x \in T : \A y \in T : x >= y
           bad == {T \in FiniteSubsetsOf(S) : T # {} /\ ~Capped(T)}
<1>1. ASSUME bad # {} PROVE FALSE
  <2>1. bad \subseteq FiniteSubsetsOf(S)
    OBVIOUS
  <2>2. PICK T \in bad : \A U \in bad : ~ (<<U, T>> \in StrictSubsetOrdering(S))
    <3> HIDE DEF bad
    <3> QED BY <1>1, <2>1, FS_StrictSubsetOrderingWellFounded, WFMin
  <2>3. T \subseteq S /\ IsFiniteSet(T) /\ T # {} /\ ~Capped(T)
    BY DEF FiniteSubsetsOf
  <2>4. PICK x \in T : TRUE
    BY <2>3
  <2>5. IsFiniteSet(T \ {x}) /\ T \ {x} \subseteq S
    BY <2>3, FS_RemoveElement
  <2>6. <<T \ {x}, T>> \in StrictSubsetOrdering(S)
    BY <2>3 DEF StrictSubsetOrdering
  <2>7. T \ {x} = {} \/ Capped(T \ {x})
    BY <2>2, <2>5, <2>6 DEF FiniteSubsetsOf
  <2>8. CASE T \ {x} = {}
    BY <2>3, <2>8
  <2>9. CASE Capped(T \ {x})
    <3>1. PICK m \in T \ {x} : \A y \in T \ {x} : m >= y
      BY <2>9
    <3>2. m \in Nat /\ x \in Nat /\ \A y \in T : y \in Nat
      BY <2>3
    <3>3. CASE m >= x
      BY <2>3, <3>1, <3>2, <3>3
    <3>4. CASE x >= m
      BY <2>3, <3>1, <3>2, <3>4
    <3> QED BY <3>2, <3>3, <3>4
  <2> QED BY <2>7, <2>8, <2>9
<1>2. S \in FiniteSubsetsOf(S)
  BY DEF FiniteSubsetsOf
<1>3. Capped(S)
  BY <1>1, <1>2
<1> QED BY <1>3 DEF Max

\* The image of a finite set is finite and no larger.
LEMMA ImageIsFinite ==
  ASSUME NEW S, IsFiniteSet(S), NEW T, NEW f \in [S -> T],
         \A y \in T : \E x \in S : f[x] = y
  PROVE  IsFiniteSet(T) /\ Cardinality(T) <= Cardinality(S)
<1>1. f \in Surjection(S, T)
  BY DEF Surjection
<1> QED BY <1>1, FS_Surjection

\* A map that keeps the elements apart keeps their number.
LEMMA SameNumber ==
  ASSUME NEW S, IsFiniteSet(S), NEW T, NEW f \in [S -> T],
         \A y \in T : \E x \in S : f[x] = y,
         \A x, y \in S : f[x] = f[y] => x = y
  PROVE  Cardinality(T) = Cardinality(S)
<1>1. f \in Surjection(S, T)
  BY DEF Surjection
<1>2. f \in Injection(S, T)
  BY DEF Injection, IsInjective
<1> QED BY <1>1, <1>2, FS_Surjection

-----------------------------------------------------------------------------
(* The table.                                                              *)

\* A row; its wait is at most MaxBackoff.  (That it is not negative rests on
\* powers of two, of which the provers know nothing.)
Waits == {n \in Int : n <= MaxBackoff}
Row == [env : Envelopes, at : Nat, wait : Waits, old : BOOLEAN]

\* The table is finite, with one row for each envelope.
Table(R) ==
  /\ R \subseteq Row
  /\ IsFiniteSet(R)
  /\ \A r, q \in R : r.env = q.env => r = q

\* There is an oldest row.
LEMMA OldestIsThere ==
  ASSUME NEW R, R \subseteq Row, R # {}
  PROVE  Oldest(R) \in R
<1> DEFINE T == {r.at : r \in R}
<1>1. T \subseteq Nat /\ T # {}
  BY DEF Row
<1>2. PICK x \in T : \A y \in T : x <= y
  BY <1>1, LeastNumber
<1>3. PICK r \in R : r.at = x
  OBVIOUS
<1>4. \E r1 \in R : \A q \in R : r1.at <= q.at
  BY <1>2, <1>3
<1> QED BY <1>4 DEF Oldest

\* What INSERT OR IGNORE leaves.
LEMMA InsertTable ==
  ASSUME NEW R, Table(R), NEW e \in Envelopes
  PROVE  /\ Table(Insert(R, e))
         /\ RowEnvs(Insert(R, e)) = RowEnvs(R) \cup {e}
         /\ Cardinality(Insert(R, e)) \in Nat
         /\ Cardinality(Insert(R, e)) =
              IF e \in RowEnvs(R) THEN Cardinality(R) ELSE Cardinality(R) + 1
<1>0. R \subseteq Row /\ IsFiniteSet(R) /\ Cardinality(R) \in Nat
  BY FS_CardinalityType DEF Table
<1>1. CASE e \in RowEnvs(R)
  BY <1>0, <1>1 DEF Insert, RowEnvs
<1>2. CASE e \notin RowEnvs(R)
  <2> DEFINE T == {r.at : r \in R}
             S == T \cup {0}
             n == [env |-> e, at |-> 1 + Max(S), wait |-> 0, old |-> FALSE]
  <2>1. IsFiniteSet(T)
    <3> DEFINE f == [r \in R |-> r.at]
    <3>1. f \in [R -> T] /\ \A y \in T : \E x \in R : f[x] = y
      OBVIOUS
    <3> QED BY <1>0, <3>1, ImageIsFinite, ZenonT(30)
  <2>2. IsFiniteSet(S) /\ S \subseteq Nat /\ S # {}
    BY <1>0, <2>1, FS_AddElement DEF Row
  <2>3. Max(S) \in Nat
    BY <2>2, LargestNumber
  <2>4. n \in Row
    BY <2>3, OutboxSizes DEF Row, Waits
  <2>5. n \notin R /\ Insert(R, e) = R \cup {n}
    BY <1>2 DEF RowEnvs, Insert
  <2> HIDE DEF n
  <2>6. n.env = e
    BY DEF n
  <2>7. IsFiniteSet(R \cup {n}) /\ Cardinality(R \cup {n}) = Cardinality(R) + 1
    BY <1>0, <2>5, FS_AddElement
  <2>8. \A r, q \in R \cup {n} : r.env = q.env => r = q
    BY <1>2, <2>6 DEF Table, RowEnvs
  <2>9. RowEnvs(R \cup {n}) = RowEnvs(R) \cup {e}
    BY <2>6 DEF RowEnvs
  <2>10. Table(R \cup {n})
    BY <1>0, <2>4, <2>7, <2>8 DEF Table
  <2>11. Table(Insert(R, e)) /\ RowEnvs(Insert(R, e)) = RowEnvs(R) \cup {e}
    BY <2>5, <2>9, <2>10
  <2>12. Cardinality(Insert(R, e)) = Cardinality(R) + 1
    BY <2>5, <2>7
  <2> QED BY <1>0, <1>2, <2>11, <2>12
<1> QED BY <1>1, <1>2

\* A part of the table is a table, and its size is what is left.
LEMMA PartOfTable ==
  ASSUME NEW R, Table(R), NEW Q, Q \subseteq R
  PROVE  /\ Table(Q)
         /\ Cardinality(R) \in Nat /\ Cardinality(Q) \in Nat
         /\ Cardinality(Q) <= Cardinality(R)
         /\ IsFiniteSet(R \ Q)
         /\ Cardinality(R \ Q) = Cardinality(R) - Cardinality(Q)
<1>1. IsFiniteSet(R) /\ IsFiniteSet(Q) /\ Cardinality(Q) <= Cardinality(R)
  BY FS_Subset DEF Table
<1>2. IsFiniteSet(R \ Q) /\ Cardinality(R \ Q) = Cardinality(R) - Cardinality(R \cap Q)
  BY <1>1, FS_Difference
<1>3. R \cap Q = Q
  OBVIOUS
<1> QED BY <1>1, <1>2, <1>3, FS_CardinalityType DEF Table

\* No more envelopes go than rows.
LEMMA EnvsOfRows ==
  ASSUME NEW R, Table(R), NEW Q, Q \subseteq R
  PROVE  /\ IsFiniteSet(RowEnvs(R) \ RowEnvs(Q))
         /\ Cardinality(RowEnvs(R) \ RowEnvs(Q)) \in Nat
         /\ Cardinality(RowEnvs(R) \ RowEnvs(Q)) <= Cardinality(R) - Cardinality(Q)
<1> DEFINE T == {r.env : r \in R \ Q}
           f == [r \in R \ Q |-> r.env]
<1>1. IsFiniteSet(R \ Q) /\ Cardinality(R \ Q) = Cardinality(R) - Cardinality(Q)
  BY PartOfTable
<1>2. f \in [R \ Q -> T] /\ \A y \in T : \E x \in R \ Q : f[x] = y
  OBVIOUS
<1>3. IsFiniteSet(T) /\ Cardinality(T) <= Cardinality(R \ Q)
  <2> HIDE DEF f, T
  <2> QED BY <1>1, <1>2, ImageIsFinite
<1>4. RowEnvs(R) \ RowEnvs(Q) \subseteq T
  BY DEF RowEnvs
<1>5. IsFiniteSet(RowEnvs(R) \ RowEnvs(Q))
      /\ Cardinality(RowEnvs(R) \ RowEnvs(Q)) <= Cardinality(T)
  <2> HIDE DEF T
  <2> QED BY <1>3, <1>4, FS_Subset
<1>6. Cardinality(RowEnvs(R) \ RowEnvs(Q)) \in Nat /\ Cardinality(T) \in Nat
      /\ Cardinality(R \ Q) \in Nat /\ Cardinality(R) \in Nat /\ Cardinality(Q) \in Nat
  BY <1>1, <1>3, <1>5, FS_CardinalityType, PartOfTable
<1> HIDE DEF T
<1> QED BY <1>1, <1>3, <1>5, <1>6

\* Rows that change in place stay as many, for the same envelopes.
LEMMA ChangedInPlace ==
  ASSUME NEW R, Table(R), NEW Q, NEW f \in [R -> Q],
         \A y \in Q : \E x \in R : f[x] = y,
         \A r \in R : f[r] \in Row /\ f[r].env = r.env
  PROVE  /\ Table(Q)
         /\ RowEnvs(Q) = RowEnvs(R)
         /\ Cardinality(Q) = Cardinality(R)
<1>1. \A r, q \in R : f[r] = f[q] => r = q
  BY DEF Table
<1>0. IsFiniteSet(R)
  BY DEF Table
<1>2. IsFiniteSet(Q) /\ Cardinality(Q) = Cardinality(R)
  BY <1>0, <1>1, ImageIsFinite, SameNumber
<1>3. Q \subseteq Row /\ \A r, q \in Q : r.env = q.env => r = q
  BY DEF Table
<1>4. RowEnvs(Q) = RowEnvs(R)
  BY DEF RowEnvs
<1> QED BY <1>2, <1>3, <1>4 DEF Table

\* nack, the passing of time and ageing change rows in place.
LEMMA NackTable ==
  ASSUME NEW R, Table(R), NEW e, NEW n \in Waits
  PROVE  /\ Table(Nack(R, e, n))
         /\ RowEnvs(Nack(R, e, n)) = RowEnvs(R)
         /\ Cardinality(Nack(R, e, n)) = Cardinality(R)
<1> DEFINE f == [r \in R |-> IF r.env = e THEN [r EXCEPT !.wait = n] ELSE r]
<1>1. f \in [R -> Nack(R, e, n)] /\ \A y \in Nack(R, e, n) : \E x \in R : f[x] = y
  BY DEF Nack
<1>2. \A r \in R : f[r] \in Row /\ f[r].env = r.env
  BY DEF Table, Row
<1> HIDE DEF f
<1> QED BY <1>1, <1>2, ChangedInPlace

LEMMA LaterTable ==
  ASSUME NEW R, Table(R)
  PROVE  /\ Table(Later(R))
         /\ RowEnvs(Later(R)) = RowEnvs(R)
         /\ Cardinality(Later(R)) = Cardinality(R)
<1> DEFINE f == [r \in R |-> [r EXCEPT !.wait = IF @ > 0 THEN @ - 1 ELSE 0]]
<1>1. f \in [R -> Later(R)] /\ \A y \in Later(R) : \E x \in R : f[x] = y
  BY DEF Later
<1>2. \A r \in R : f[r] \in Row /\ f[r].env = r.env
  BY OutboxSizes DEF Table, Row, Waits
<1> HIDE DEF f
<1> QED BY <1>1, <1>2, ChangedInPlace

LEMMA AgeTable ==
  ASSUME NEW R, Table(R), NEW o \in R
  PROVE  LET Q == (R \ {o}) \cup {[o EXCEPT !.old = TRUE]}
         IN  Table(Q) /\ RowEnvs(Q) = RowEnvs(R) /\ Cardinality(Q) = Cardinality(R)
<1> DEFINE Q == (R \ {o}) \cup {[o EXCEPT !.old = TRUE]}
           f == [r \in R |-> IF r = o THEN [o EXCEPT !.old = TRUE] ELSE r]
<1>1. f \in [R -> Q] /\ \A y \in Q : \E x \in R : f[x] = y
  OBVIOUS
<1>2. \A r \in R : f[r] \in Row /\ f[r].env = r.env
  BY DEF Table, Row
<1> HIDE DEF f, Q
<1>3. Table(Q) /\ RowEnvs(Q) = RowEnvs(R) /\ Cardinality(Q) = Cardinality(R)
  BY <1>1, <1>2, ChangedInPlace
<1> QED BY <1>3 DEF Q

-----------------------------------------------------------------------------
(* The store.                                                              *)

Store == [overflow : Overflows, alive : BOOLEAN, open : BOOLEAN, pending : Int,
          rejected : Nat, dropped : Nat, expired : Nat, corrupt : Nat]

\* What the counters of a store add up to.
GivenUp(S) == S.dropped + S.expired + S.corrupt

\* An open store knows the number of its rows.
Exact(R, S) == S.open => S.pending = Cardinality(R)

LEMMA EnsureConnExact ==
  ASSUME NEW R, Table(R), NEW S \in Store, Exact(R, S)
  PROVE  /\ EnsureConn(R, S) \in Store
         /\ EnsureConn(R, S).pending = Cardinality(R)
         /\ EnsureConn(R, S).open
         /\ EnsureConn(R, S).alive = S.alive
         /\ EnsureConn(R, S).overflow = S.overflow
         /\ GivenUp(EnsureConn(R, S)) = GivenUp(S)
<1>1. Cardinality(R) \in Nat /\ Cardinality(R) \in Int
  BY FS_CardinalityType DEF Table
<1>2. CASE S.open
  BY <1>2 DEF EnsureConn, Exact
<1>3. CASE ~S.open
  <2> DEFINE T == [S EXCEPT !.open = TRUE, !.pending = Cardinality(R)]
  <2>1. T = EnsureConn(R, S)
    BY <1>3 DEF EnsureConn
  <2>2. T \in Store
    BY <1>1 DEF Store
  <2>5. T.pending = Cardinality(R) /\ T.open
    BY DEF Store
  <2>3. T.alive = S.alive /\ T.overflow = S.overflow
    BY DEF Store
  <2>4. T.dropped = S.dropped /\ T.expired = S.expired /\ T.corrupt = S.corrupt
    BY DEF Store
  <2> HIDE DEF T
  <2> QED BY <2>1, <2>2, <2>3, <2>4, <2>5 DEF GivenUp
<1> QED BY <1>2, <1>3

\* An append that is not refused keeps the table within max_rows and counts
\* the row that made room.
LEMMA AppendExact ==
  ASSUME NEW R, Table(R), Cardinality(R) <= MaxRows,
         NEW S \in Store, S.pending = Cardinality(R), ~Refuses(S),
         NEW e \in Envelopes
  PROVE  LET Q == Insert(AppendRoom(R, S), e)
         IN  /\ Table(Q)
             /\ Cardinality(Q) <= MaxRows
             /\ e \in RowEnvs(Q)
             /\ AppendStore(R, S, e) \in Store
             /\ AppendStore(R, S, e).pending = Cardinality(Q)
             /\ IsFiniteSet(RowEnvs(R) \ RowEnvs(Q))
             /\ Cardinality(RowEnvs(R) \ RowEnvs(Q)) \in Nat
             /\ GivenUp(S) + Cardinality(RowEnvs(R) \ RowEnvs(Q))
                  <= GivenUp(AppendStore(R, S, e))
<1> DEFINE room == AppendRoom(R, S)
           Q == Insert(room, e)
<1>1. room \subseteq R
  BY DEF AppendRoom
<1>2. /\ Table(room) /\ Cardinality(R) \in Nat /\ Cardinality(room) \in Nat
      /\ Cardinality(room) <= Cardinality(R)
  <2> HIDE DEF room
  <2> QED BY <1>1, PartOfTable
<1>3. Cardinality(room) + 1 <= MaxRows
  <2>1. CASE S.pending < MaxRows
    BY <2>1, <1>2, OutboxSizes DEF AppendRoom
  <2>2. CASE S.pending >= MaxRows
    <3>1. R # {}
      BY <1>2, <2>2, FS_EmptySet, OutboxSizes DEF Table
    <3>2. Oldest(R) \in R /\ room = R \ {Oldest(R)}
      BY <2>2, <3>1, OldestIsThere DEF Table, AppendRoom
    <3>3. Cardinality(R \ {Oldest(R)}) = Cardinality(R) - 1
      BY <3>2, FS_RemoveElement DEF Table
    <3> QED BY <1>2, <3>2, <3>3
  <2> QED BY <1>2, <2>1, <2>2, OutboxSizes
<1>4. /\ Table(Q)
      /\ RowEnvs(Q) = RowEnvs(room) \cup {e}
      /\ Cardinality(Q) \in Nat
      /\ Cardinality(Q) = IF e \in RowEnvs(room) THEN Cardinality(room)
                                                 ELSE Cardinality(room) + 1
  <2> HIDE DEF room
  <2> QED BY <1>2, InsertTable
<1>5. Cardinality(Q) <= MaxRows
  BY <1>2, <1>3, <1>4, OutboxSizes
<1>6. /\ AppendStore(R, S, e) \in Store
      /\ AppendStore(R, S, e).pending = Cardinality(Q)
      /\ GivenUp(AppendStore(R, S, e)) = GivenUp(S) + (Cardinality(R) - Cardinality(room))
  <2> HIDE DEF room, Q
  <2>1. AppendStore(R, S, e) =
          [S EXCEPT !.pending = @ - (Cardinality(R) - Cardinality(room))
                                  + (Cardinality(Q) - Cardinality(room)),
                    !.dropped = @ + (Cardinality(R) - Cardinality(room))]
    BY DEF AppendStore, room, Q
  <2> DEFINE p == S.pending - (Cardinality(R) - Cardinality(room))
                    + (Cardinality(Q) - Cardinality(room))
             d == S.dropped + (Cardinality(R) - Cardinality(room))
  <2>2. /\ S.dropped \in Nat /\ S.expired \in Nat /\ S.corrupt \in Nat
    BY DEF Store
  <2>3. p = Cardinality(Q) /\ p \in Int /\ d \in Nat
    BY <1>2, <1>4, <2>2
  <2>4. AppendStore(R, S, e) = [S EXCEPT !.pending = p, !.dropped = d]
    BY <2>1
  <2>5. d = S.dropped + (Cardinality(R) - Cardinality(room))
    OBVIOUS
  <2> HIDE DEF d, p
  <2>6. AppendStore(R, S, e) \in Store
    BY <2>3, <2>4 DEF Store
  <2>7. AppendStore(R, S, e).pending = p /\ AppendStore(R, S, e).dropped = d
    BY <2>4 DEF Store
  <2>8. /\ AppendStore(R, S, e).expired = S.expired
        /\ AppendStore(R, S, e).corrupt = S.corrupt
    BY <2>4 DEF Store
  <2> QED BY <1>2, <2>2, <2>3, <2>5, <2>6, <2>7, <2>8 DEF GivenUp
<1>7. /\ IsFiniteSet(RowEnvs(R) \ RowEnvs(room))
      /\ Cardinality(RowEnvs(R) \ RowEnvs(room)) \in Nat
      /\ Cardinality(RowEnvs(R) \ RowEnvs(room)) <= Cardinality(R) - Cardinality(room)
  <2> HIDE DEF room
  <2> QED BY <1>1, EnvsOfRows
<1>8. /\ IsFiniteSet(RowEnvs(R) \ RowEnvs(Q))
      /\ Cardinality(RowEnvs(R) \ RowEnvs(Q)) <= Cardinality(RowEnvs(R) \ RowEnvs(room))
  <2> HIDE DEF room, Q
  <2>1. RowEnvs(R) \ RowEnvs(Q) \subseteq RowEnvs(R) \ RowEnvs(room)
    BY <1>4
  <2> QED BY <1>7, <2>1, FS_Subset
<1>9. Cardinality(RowEnvs(R) \ RowEnvs(Q)) \in Nat
  <2> HIDE DEF Q
  <2> QED BY <1>8, FS_CardinalityType
<1>10. GivenUp(S) \in Nat
  BY DEF GivenUp, Store
<1>11. e \in RowEnvs(Q)
  BY <1>4
<1> HIDE DEF room, Q
<1>12. GivenUp(S) + Cardinality(RowEnvs(R) \ RowEnvs(Q)) <= GivenUp(AppendStore(R, S, e))
  BY <1>2, <1>6, <1>7, <1>8, <1>9, <1>10
<1> QED BY <1>4, <1>5, <1>6, <1>8, <1>9, <1>11, <1>12 DEF Q, room

\* An ack deletes at most the row of its envelope.
LEMMA AckExact ==
  ASSUME NEW R, Table(R), Cardinality(R) <= MaxRows,
         NEW S \in Store, S.pending = Cardinality(R), NEW e
  PROVE  /\ Table(Delete(R, e))
         /\ Cardinality(Delete(R, e)) <= MaxRows
         /\ RowEnvs(R) \ {e} \subseteq RowEnvs(Delete(R, e))
         /\ AckStore(R, S, e) \in Store
         /\ AckStore(R, S, e).pending = Cardinality(Delete(R, e))
         /\ GivenUp(AckStore(R, S, e)) = GivenUp(S)
<1>1. Delete(R, e) \subseteq R
  BY DEF Delete
<1>2. /\ Table(Delete(R, e)) /\ Cardinality(R) \in Nat /\ Cardinality(Delete(R, e)) \in Nat
      /\ Cardinality(Delete(R, e)) <= Cardinality(R)
  BY <1>1, PartOfTable
<1>3. RowEnvs(R) \ {e} \subseteq RowEnvs(Delete(R, e))
  BY DEF RowEnvs, Delete
<1> QED BY <1>2, <1>3, OutboxSizes DEF AckStore, Store, GivenUp

\* The read of the due rows counts what it deletes: the expired rows, and those
\* of its batch that do not decode.
LEMMA DueExact ==
  ASSUME NEW R, Table(R), Cardinality(R) <= MaxRows,
         NEW S \in Store, S.pending = Cardinality(R)
  PROVE  /\ Table(DueRows(R))
         /\ Cardinality(DueRows(R)) <= MaxRows
         /\ DueStore(R, S) \in Store
         /\ DueStore(R, S).pending = Cardinality(DueRows(R))
         /\ IsFiniteSet(RowEnvs(R) \ RowEnvs(DueRows(R)))
         /\ Cardinality(RowEnvs(R) \ RowEnvs(DueRows(R))) \in Nat
         /\ GivenUp(S) + Cardinality(RowEnvs(R) \ RowEnvs(DueRows(R)))
              <= GivenUp(DueStore(R, S))
<1>1. Purged(R) \subseteq R /\ Unreadable(R) \subseteq Purged(R) /\ DueRows(R) \subseteq R
  BY DEF Purged, Unreadable, Batch, DueRows
<1>2. /\ Table(Purged(R)) /\ Cardinality(R) \in Nat /\ Cardinality(Purged(R)) \in Nat
      /\ Cardinality(Purged(R)) <= Cardinality(R)
  BY <1>1, PartOfTable
<1>3. /\ Cardinality(Unreadable(R)) \in Nat
      /\ Cardinality(DueRows(R)) = Cardinality(Purged(R)) - Cardinality(Unreadable(R))
  BY <1>1, <1>2, PartOfTable DEF DueRows
<1>4. /\ Table(DueRows(R)) /\ Cardinality(DueRows(R)) \in Nat
      /\ Cardinality(DueRows(R)) <= Cardinality(R)
  BY <1>1, PartOfTable
<1>5. /\ DueStore(R, S) \in Store
      /\ DueStore(R, S).pending = Cardinality(DueRows(R))
      /\ GivenUp(DueStore(R, S)) = GivenUp(S) + (Cardinality(R) - Cardinality(DueRows(R)))
  <2> DEFINE p == S.pending - (Cardinality(R) - Cardinality(Purged(R)))
                    - Cardinality(Unreadable(R))
             x == S.expired + (Cardinality(R) - Cardinality(Purged(R)))
             c == S.corrupt + Cardinality(Unreadable(R))
  <2>1. /\ S.dropped \in Nat /\ S.expired \in Nat /\ S.corrupt \in Nat
    BY DEF Store
  <2>2. DueStore(R, S) = [S EXCEPT !.pending = p, !.expired = x, !.corrupt = c]
    BY DEF DueStore
  <2>3. p = Cardinality(DueRows(R)) /\ p \in Int /\ x \in Nat /\ c \in Nat
    BY <1>2, <1>3, <1>4, <2>1
  <2>4. S.dropped + x + c = S.dropped + S.expired + S.corrupt
                              + (Cardinality(R) - Cardinality(DueRows(R)))
    BY <1>2, <1>3, <1>4, <2>1
  <2> HIDE DEF p, x, c
  <2>5. DueStore(R, S) \in Store
    BY <2>2, <2>3 DEF Store
  <2>6. DueStore(R, S).pending = p /\ DueStore(R, S).dropped = S.dropped
    BY <2>2 DEF Store
  <2>7. DueStore(R, S).expired = x /\ DueStore(R, S).corrupt = c
    BY <2>2 DEF Store
  <2> QED BY <2>3, <2>4, <2>5, <2>6, <2>7 DEF GivenUp
<1>6. /\ IsFiniteSet(RowEnvs(R) \ RowEnvs(DueRows(R)))
      /\ Cardinality(RowEnvs(R) \ RowEnvs(DueRows(R))) \in Nat
      /\ Cardinality(RowEnvs(R) \ RowEnvs(DueRows(R))) <= Cardinality(R) - Cardinality(DueRows(R))
  BY <1>1, EnvsOfRows
<1>7. GivenUp(S) \in Nat
  BY DEF GivenUp, Store
<1> QED BY <1>2, <1>4, <1>5, <1>6, <1>7, OutboxSizes

\* Counting rows that were deleted.
LEMMA CountExact ==
  ASSUME NEW S \in Store, NEW d \in Nat, NEW x \in Nat, NEW c \in Nat
  PROVE  /\ Count(S, d, x, c) \in Store
         /\ Count(S, d, x, c).pending = S.pending - (d + x + c)
         /\ GivenUp(Count(S, d, x, c)) = GivenUp(S) + (d + x + c)
<1>1. /\ S.pending \in Int /\ S.dropped \in Nat /\ S.expired \in Nat /\ S.corrupt \in Nat
  BY DEF Store
<1> DEFINE p == S.pending - d - x - c
           dd == S.dropped + d
           xx == S.expired + x
           cc == S.corrupt + c
           T == Count(S, d, x, c)
<1>2. T = [S EXCEPT !.pending = p, !.dropped = dd, !.expired = xx, !.corrupt = cc]
  BY DEF Count
<1>3. p \in Int /\ dd \in Nat /\ xx \in Nat /\ cc \in Nat
  BY <1>1
<1>4. /\ p = S.pending - (d + x + c)
      /\ dd + xx + cc = S.dropped + S.expired + S.corrupt + (d + x + c)
  BY <1>1
<1> HIDE DEF p, dd, xx, cc, T
<1>5. T \in Store
  BY <1>2, <1>3 DEF Store
<1>6. T.pending = p /\ T.dropped = dd /\ T.expired = xx /\ T.corrupt = cc
  BY <1>2 DEF Store
<1>7. T.pending = S.pending - (d + x + c) /\ GivenUp(T) = GivenUp(S) + (d + x + c)
  BY <1>4, <1>6 DEF GivenUp
<1> QED BY <1>5, <1>7 DEF T

\* Rows Q are left of the table R, and a store T has counted what is gone.
Accounted(R, S, Q, T) ==
  /\ Q \subseteq R
  /\ T \in Store /\ Exact(Q, T)
  /\ GivenUp(T) = GivenUp(S) + (Cardinality(R) - Cardinality(Q))

LEMMA CountedPart ==
  ASSUME NEW R, Table(R), NEW S \in Store, S.pending = Cardinality(R), NEW Q, Q \subseteq R,
         NEW d \in Nat, NEW x \in Nat, NEW c \in Nat, d + x + c = Cardinality(R) - Cardinality(Q)
  PROVE  Accounted(R, S, Q, Count(S, d, x, c))
<1>1. Cardinality(R) \in Nat /\ Cardinality(Q) \in Nat
  BY PartOfTable
<1>2. Count(S, d, x, c) \in Store /\ GivenUp(Count(S, d, x, c)) = GivenUp(S) + (d + x + c)
  BY CountExact
<1>3. Count(S, d, x, c).pending = S.pending - (d + x + c)
  BY CountExact
<1>4. Count(S, d, x, c).pending = Cardinality(Q)
  BY <1>1, <1>3
<1> QED BY <1>2, <1>4 DEF Accounted, Exact

\* A job that is interrupted between two statements has counted what it deleted.
LEMMA InterruptedExact ==
  ASSUME Table(rows), store \in Store, Exact(rows, store), NEW j, NEW left \in Interrupted(j)
  PROVE  Accounted(rows, store, left.rows, left.store)
<1> DEFINE S     == EnsureConn(rows, store)
           room  == AppendRoom(rows, S)
           young == Purged(rows)
           old   == Cardinality(rows) - Cardinality(young)
<1>1. /\ S \in Store /\ S.pending = Cardinality(rows) /\ GivenUp(S) = GivenUp(store)
      /\ Exact(rows, S) /\ Cardinality(rows) \in Nat
  BY EnsureConnExact, FS_CardinalityType DEF Exact, Table
<1>2. room \subseteq rows /\ young \subseteq rows /\ Unreadable(rows) \subseteq young
  BY DEF AppendRoom, Purged, Unreadable, Batch
<1>3. GivenUp(store) \in Nat
  BY DEF GivenUp, Store
<1>4. CASE left \in {[rows |-> rows, store |-> store], [rows |-> rows, store |-> S]}
  <2> HIDE DEF S
  <2> QED BY <1>1, <1>3, <1>4 DEF Accounted
<1>5. CASE left = [rows |-> room, store |-> Count(S, Cardinality(rows) - Cardinality(room), 0, 0)]
  <2> DEFINE d == Cardinality(rows) - Cardinality(room)
  <2>1. left.rows = room /\ left.store = Count(S, d, 0, 0)
    BY <1>5
  <2> HIDE DEF S, room
  <2>2. d \in Nat /\ d + 0 + 0 = Cardinality(rows) - Cardinality(room)
    <3>1. Cardinality(room) \in Nat /\ Cardinality(room) <= Cardinality(rows)
      BY <1>2, PartOfTable
    <3> QED BY <1>1, <3>1
  <2> HIDE DEF d
  <2>3. Accounted(rows, S, room, Count(S, d, 0, 0))
    BY <1>1, <1>2, <2>2, CountedPart
  <2> QED BY <1>1, <2>1, <2>3 DEF Accounted
<1>6. ASSUME NEW bad, bad \subseteq Unreadable(rows),
             left = [rows |-> young \ bad, store |-> Count(S, 0, old, Cardinality(bad))]
      PROVE  Accounted(rows, store, left.rows, left.store)
  <2> DEFINE Q == young \ bad
             c == Cardinality(bad)
  <2>1. left.rows = Q /\ left.store = Count(S, 0, old, c) /\ bad \subseteq young /\ Q \subseteq rows
    BY <1>2, <1>6
  <2> HIDE DEF S, young
  <2>2. old \in Nat /\ c \in Nat /\ 0 + old + c = Cardinality(rows) - Cardinality(Q)
    <3>1. Table(young) /\ Cardinality(young) \in Nat /\ Cardinality(young) <= Cardinality(rows)
      BY <1>2, PartOfTable
    <3>2. c \in Nat /\ Cardinality(Q) = Cardinality(young) - c
      BY <2>1, <3>1, PartOfTable
    <3> QED BY <1>1, <3>1, <3>2
  <2> HIDE DEF Q, old, c
  <2>3. Accounted(rows, S, Q, Count(S, 0, old, c))
    BY <1>1, <2>1, <2>2, CountedPart
  <2> QED BY <1>1, <2>1, <2>3 DEF Accounted
<1>7. \/ left \in {[rows |-> rows, store |-> store], [rows |-> rows, store |-> S]}
      \/ left = [rows |-> room, store |-> Count(S, Cardinality(rows) - Cardinality(room), 0, 0)]
      \/ \E bad : /\ bad \subseteq Unreadable(rows)
                  /\ left = [rows |-> young \ bad, store |-> Count(S, 0, old, Cardinality(bad))]
  BY DEF Interrupted
<1> QED BY <1>4, <1>5, <1>6, <1>7

\* What goes is counted, envelope by envelope.
LEMMA AccountedEnvs ==
  ASSUME NEW R, Table(R), NEW S \in Store, NEW Q, NEW T, Accounted(R, S, Q, T)
  PROVE  /\ Table(Q) /\ Cardinality(Q) \in Nat /\ Cardinality(Q) <= Cardinality(R)
         /\ Cardinality(R) \in Nat
         /\ IsFiniteSet(RowEnvs(R) \ RowEnvs(Q))
         /\ GivenUp(S) + Cardinality(RowEnvs(R) \ RowEnvs(Q)) <= GivenUp(T)
<1>1. Q \subseteq R /\ GivenUp(T) = GivenUp(S) + (Cardinality(R) - Cardinality(Q))
  BY DEF Accounted
<1>2. /\ Table(Q) /\ Cardinality(Q) \in Nat /\ Cardinality(Q) <= Cardinality(R) /\ Cardinality(R) \in Nat
  BY <1>1, PartOfTable
<1>3. /\ IsFiniteSet(RowEnvs(R) \ RowEnvs(Q)) /\ Cardinality(RowEnvs(R) \ RowEnvs(Q)) \in Nat
      /\ Cardinality(RowEnvs(R) \ RowEnvs(Q)) <= Cardinality(R) - Cardinality(Q)
  BY <1>1, EnvsOfRows
<1>4. GivenUp(S) \in Nat
  BY DEF GivenUp, Store
<1> QED BY <1>1, <1>2, <1>3, <1>4

-----------------------------------------------------------------------------
(* The executor's queue.                                                   *)

Takers == Calls \cup {Relay}
PubStates == {"new", "appending", "durable", "degraded", "rejected", "closed", "cancelled"}
Carriers == {NoCarrier} \cup [pc : {"publish", "ack", "nack"}, env : Envelopes]
Ops == {"append", "ack", "nack", "due", "stats", "close", "void"}
JobType == [op : Ops, by : Takers \cup {Closer, None}, env : Envelopes \cup {None}, wait : Waits]

\* Somebody waits for the job j, in the place that fits it, and only a publish
\* that was confirmed is acknowledged.  (pb, ca, pc, at and conf are the calls,
\* the carriers, the relay's place, the bus's and the confirmed envelopes.)
Fits(j, pb, ca, pc, at, conf) ==
  /\ j.op = "append" =>
       /\ j.env \in Envelopes
       /\ j.by \in Calls \cup {None}
       /\ j.by # None => j.env = EnvOf[j.by] /\ pb[j.by] = "appending"
  /\ j.op \in {"ack", "nack"} =>
       /\ j.env \in Envelopes
       /\ j.by \in Takers \cup {None}
       /\ j.by # None => ca[j.by] = [pc |-> j.op, env |-> j.env]
  /\ j.op = "ack" => j.env \in conf
  /\ j.op \in {"due", "stats"} => j.by \in {Relay, None} /\ (j.by = Relay => pc = j.op)
  /\ j.op = "close" => j.by = Closer /\ at = "closing"
  /\ j.op = "void" => j.by = None

\* Every job fits, and a task waits for one job at a time.
QueueOK(js, pb, ca, pc, at, conf) ==
  /\ js \in Seq(JobType)
  /\ \A i \in 1..Len(js) : Fits(js[i], pb, ca, pc, at, conf)
  /\ \A i, n \in 1..Len(js) : i # n /\ js[i].by = js[n].by => js[i].by = None

Absent(js, k) == \A i \in 1..Len(js) : js[i].by # k

\* The relay, close() and nobody are three, and none of them is a call.
LEMMA Apart ==
  /\ Relay # Closer /\ Relay # None /\ Closer # None
  /\ \A c \in Calls : c # Relay /\ c # Closer /\ c # None
<1>1. Cardinality({Relay, Closer, None}) = 3
  BY OutboxAssumption
<1>2. \A x, y : IsFiniteSet({x, y}) /\ Cardinality({x, y}) <= 2
  <2> TAKE x, y
  <2>1. IsFiniteSet({x}) /\ Cardinality({x}) = 1
    BY FS_Singleton
  <2>2. {x, y} = {x} \cup {y}
    OBVIOUS
  <2> QED BY <2>1, <2>2, FS_AddElement
<1>3. \A x, y : {Relay, Closer, None} # {x, y}
  <2> SUFFICES ASSUME NEW x, NEW y, {Relay, Closer, None} = {x, y} PROVE FALSE
    OBVIOUS
  <2>1. Cardinality({x, y}) = 3
    BY <1>1
  <2>2. Cardinality({x, y}) <= 2
    BY <1>2
  <2> QED BY <2>1, <2>2
<1>4. Relay # Closer
  <2> SUFFICES ASSUME Relay = Closer PROVE FALSE
    OBVIOUS
  <2>1. {Relay, Closer, None} = {Closer, None}
    OBVIOUS
  <2> QED BY <1>3, <2>1
<1>5. Relay # None
  <2> SUFFICES ASSUME Relay = None PROVE FALSE
    OBVIOUS
  <2>1. {Relay, Closer, None} = {Closer, None}
    OBVIOUS
  <2> QED BY <1>3, <2>1
<1>6. Closer # None
  <2> SUFFICES ASSUME Closer = None PROVE FALSE
    OBVIOUS
  <2>1. {Relay, Closer, None} = {Relay, None}
    OBVIOUS
  <2> QED BY <1>3, <2>1
<1>7. \A c \in Calls : c # Relay /\ c # Closer /\ c # None
  BY OutboxAssumption
<1> QED BY <1>4, <1>5, <1>6, <1>7

\* Tasks that nobody in the queue works for may go on.
LEMMA FrameQueue ==
  ASSUME NEW js, NEW pb, NEW ca, NEW pc, NEW at, NEW conf,
         QueueOK(js, pb, ca, pc, at, conf),
         NEW pb2, NEW ca2, NEW pc2, NEW at2, NEW conf2,
         \A c \in Calls : Absent(js, c) \/ pb2[c] = pb[c],
         \A k \in Takers : Absent(js, k) \/ ca2[k] = ca[k],
         Absent(js, Relay) \/ pc2 = pc,
         Absent(js, Closer) \/ (at = "closing" => at2 = "closing"),
         conf \subseteq conf2
  PROVE  QueueOK(js, pb2, ca2, pc2, at2, conf2)
<1> SUFFICES ASSUME NEW i \in 1..Len(js) PROVE Fits(js[i], pb2, ca2, pc2, at2, conf2)
  BY DEF QueueOK
<1>1. Fits(js[i], pb, ca, pc, at, conf)
  BY DEF QueueOK
<1>2. \A c \in Calls : js[i].by = c => pb2[c] = pb[c]
  BY DEF Absent
<1>3. \A k \in Takers : js[i].by = k => ca2[k] = ca[k]
  BY DEF Absent
<1>4. js[i].by = Relay => pc2 = pc
  BY DEF Absent
<1>5. js[i].by = Closer => (at = "closing" => at2 = "closing")
  BY DEF Absent
<1> QED BY <1>1, <1>2, <1>3, <1>4, <1>5 DEF Fits

\* A task that waits for nothing has no job in the queue.
LEMMA NobodyWaits ==
  ASSUME NEW js, NEW pb, NEW ca, NEW pc, NEW at, NEW conf,
         QueueOK(js, pb, ca, pc, at, conf), NEW k \in Takers,
         ca[k].pc \notin {"ack", "nack"},
         k \in Calls => pb[k] # "appending",
         k = Relay => pc \notin {"due", "stats"}
  PROVE  Absent(js, k)
<1> SUFFICES ASSUME NEW i \in 1..Len(js), js[i].by = k PROVE FALSE
  BY DEF Absent
<1>1. js[i] \in JobType /\ Fits(js[i], pb, ca, pc, at, conf)
  BY DEF QueueOK
<1> QED BY <1>1, Apart DEF Fits, JobType, Ops, Takers

\* The queue after its head was run.
LEMMA TailQueue ==
  ASSUME NEW js, NEW pb, NEW ca, NEW pc, NEW at, NEW conf,
         QueueOK(js, pb, ca, pc, at, conf), js # << >>
  PROVE  /\ QueueOK(Tail(js), pb, ca, pc, at, conf)
         /\ Head(js) \in JobType
         /\ Fits(Head(js), pb, ca, pc, at, conf)
         /\ Head(js).by # None => Absent(Tail(js), Head(js).by)
<1>1. /\ js \in Seq(JobType) /\ Len(js) \in Nat /\ Len(js) > 0
      /\ Tail(js) \in Seq(JobType) /\ Len(Tail(js)) = Len(js) - 1
      /\ \A i \in 1..Len(Tail(js)) : Tail(js)[i] = js[i + 1] /\ i + 1 \in 1..Len(js)
      /\ Head(js) = js[1] /\ 1 \in 1..Len(js)
  BY DEF QueueOK
<1>2. Head(js) \in JobType /\ Fits(Head(js), pb, ca, pc, at, conf)
  BY <1>1 DEF QueueOK
<1>3. \A i \in 1..Len(Tail(js)) : Fits(Tail(js)[i], pb, ca, pc, at, conf)
  BY <1>1 DEF QueueOK
<1>4. \A i, n \in 1..Len(Tail(js)) :
         i # n /\ Tail(js)[i].by = Tail(js)[n].by => Tail(js)[i].by = None
  <2> SUFFICES ASSUME NEW i \in 1..Len(Tail(js)), NEW n \in 1..Len(Tail(js)),
                      i # n, Tail(js)[i].by = Tail(js)[n].by
               PROVE  Tail(js)[i].by = None
    OBVIOUS
  <2>1. i + 1 # n + 1
    BY <1>1
  <2> QED BY <1>1, <2>1 DEF QueueOK
<1>5. Head(js).by # None => Absent(Tail(js), Head(js).by)
  <2> SUFFICES ASSUME Head(js).by # None, NEW i \in 1..Len(Tail(js)),
                      Tail(js)[i].by = Head(js).by
               PROVE  FALSE
    BY DEF Absent
  <2>1. i + 1 # 1
    BY <1>1
  <2> QED BY <1>1, <2>1 DEF QueueOK
<1> QED BY <1>1, <1>2, <1>3, <1>4, <1>5 DEF QueueOK

\* A job is submitted for a task that waits for no other.
LEMMA AppendQueue ==
  ASSUME NEW js, NEW pb, NEW ca, NEW pc, NEW at, NEW conf,
         QueueOK(js, pb, ca, pc, at, conf),
         NEW j \in JobType, Fits(j, pb, ca, pc, at, conf), Absent(js, j.by)
  PROVE  QueueOK(Append(js, j), pb, ca, pc, at, conf)
<1> DEFINE q == Append(js, j)
<1>1. /\ js \in Seq(JobType) /\ Len(js) \in Nat
      /\ q \in Seq(JobType) /\ Len(q) = Len(js) + 1
      /\ \A i \in 1..Len(js) : q[i] = js[i]
      /\ q[Len(js) + 1] = j
  BY DEF QueueOK
<1>2. \A i \in 1..Len(q) : i \in 1..Len(js) \/ i = Len(js) + 1
  BY <1>1
<1> HIDE DEF q
<1>3. \A i \in 1..Len(q) : Fits(q[i], pb, ca, pc, at, conf)
  BY <1>1, <1>2 DEF QueueOK
<1>4. ASSUME NEW i \in 1..Len(q), NEW n \in 1..Len(q), i # n, q[i].by = q[n].by
      PROVE  q[i].by = None
  <2>1. CASE i \in 1..Len(js) /\ n \in 1..Len(js)
    BY <1>1, <1>4, <2>1 DEF QueueOK
  <2>2. CASE i = Len(js) + 1 /\ n \in 1..Len(js)
    BY <1>1, <1>4, <2>2 DEF Absent
  <2>3. CASE n = Len(js) + 1 /\ i \in 1..Len(js)
    BY <1>1, <1>4, <2>3 DEF Absent
  <2> QED BY <1>2, <1>4, <2>1, <2>2, <2>3
<1>5. QueueOK(q, pb, ca, pc, at, conf)
  BY <1>1, <1>3, <1>4 DEF QueueOK
<1> QED BY <1>5 DEF q

\* The queue after a task was cancelled.
LEMMA VoidedQueue ==
  ASSUME NEW pb, NEW ca, NEW pc, NEW at, NEW conf,
         QueueOK(jobs, pb, ca, pc, at, conf),
         NEW k \in Takers, NEW js \in WithoutJobOf(k)
  PROVE  /\ QueueOK(js, pb, ca, pc, at, conf)
         /\ Absent(js, k)
         /\ Len(js) = Len(jobs)
         /\ \A i \in 1..Len(js) : js[i].by = None \/ js[i] = jobs[i]
<1> DEFINE v == Job("void", None, None, 0)
<1>0. /\ k # None /\ k # Closer
      /\ jobs \in Seq(JobType) /\ Len(jobs) \in Nat /\ DOMAIN jobs = 1..Len(jobs)
      /\ \A i \in 1..Len(jobs) : jobs[i] \in JobType /\ Fits(jobs[i], pb, ca, pc, at, conf)
  BY Apart DEF QueueOK, Takers
<1>1. /\ v \in JobType /\ v.by = None /\ Fits(v, pb, ca, pc, at, conf)
  BY OutboxSizes DEF Job, JobType, Ops, Waits, Fits
<1>2. CASE js = [i \in DOMAIN jobs |-> IF jobs[i].by = k THEN v ELSE jobs[i]]
  <2>1. js \in Seq(JobType) /\ Len(js) = Len(jobs)
        /\ \A i \in 1..Len(jobs) : js[i] = IF jobs[i].by = k THEN v ELSE jobs[i]
    <3> HIDE DEF v
    <3> QED BY <1>0, <1>1, <1>2
  <2> HIDE DEF v
  <2> QED BY <1>0, <1>1, <2>1 DEF QueueOK, Absent
<1>3. CASE jobs # << >> /\ Head(jobs).by = k /\ js = [jobs EXCEPT ![1].by = None]
  <2> DEFINE h == [jobs[1] EXCEPT !.by = None]
  <2>1. 1 \in 1..Len(jobs) /\ jobs[1].by = k
    BY <1>0, <1>3
  <2>2. h \in JobType /\ h.by = None /\ h.op = jobs[1].op /\ h.env = jobs[1].env
    BY <1>0, <2>1 DEF JobType
  <2>3. Fits(h, pb, ca, pc, at, conf)
    <3>1. Fits(jobs[1], pb, ca, pc, at, conf)
      BY <1>0, <2>1
    <3> HIDE DEF h
    <3> QED BY <1>0, <2>1, <2>2, <3>1, Apart DEF Fits
  <2>4. js = [jobs EXCEPT ![1] = h]
    BY <1>3
  <2> HIDE DEF h
  <2>5. js \in Seq(JobType) /\ Len(js) = Len(jobs)
        /\ js[1] = h /\ \A i \in 1..Len(jobs) : i # 1 => js[i] = jobs[i]
    BY <1>0, <2>1, <2>2, <2>4
  <2>6. \A i \in 1..Len(jobs) : i # 1 => jobs[i].by # k
    BY <1>0, <2>1 DEF QueueOK
  <2>7. \A i \in 1..Len(js) : Fits(js[i], pb, ca, pc, at, conf)
    BY <1>0, <2>3, <2>5
  <2>8. \A i, n \in 1..Len(js) : i # n /\ js[i].by = js[n].by => js[i].by = None
    BY <1>0, <2>2, <2>5 DEF QueueOK
  <2> QED BY <1>0, <2>2, <2>5, <2>6, <2>7, <2>8 DEF QueueOK, Absent
<1> QED BY <1>2, <1>3 DEF WithoutJobOf

-----------------------------------------------------------------------------
(* The tasks: the calls, the carriers, the relay and the executor's queue. *)

Relays == [pc : {"off", "begin", "due", "carry", "stats", "sleep"},
           batch : SUBSET Row, last : BOOLEAN]
Memories == [inflight : SUBSET Envelopes, attempts : [Envelopes -> 0..MaxBackoff]]
Lives == [at : {"new", "running", "draining", "stopping", "joining", "gather",
                "cancelling", "final", "ending", "closing", "closed"},
          waited : SUBSET Calls]

\* Where the bus has no relay.
Quiet == {"new", "gather", "cancelling", "closing", "closed"}

\* The task of a call publishes the call's envelope, after the append.
SendsOwn(pb, ca) ==
  \A c \in Calls : ca[c].pc # "none" => ca[c].env = EnvOf[c] /\ pb[c] \in {"durable", "degraded"}

\* What is in flight is carried by one of the tasks K.
Carried(mem, ca, K) ==
  \A e \in mem.inflight : \E k \in K : ca[k].pc # "none" /\ ca[k].env = e

TasksAt(js, pb, ca, re, mem, at, conf) ==
  /\ ca \in [Takers -> Carriers]
  /\ re \in Relays
  /\ mem \in Memories
  /\ QueueOK(js, pb, ca, re.pc, at, conf)
  /\ re.pc = "carry" <=> ca[Relay].pc # "none"
  /\ SendsOwn(pb, ca)
  /\ Carried(mem, ca, Takers)
  /\ at \in Quiet => re.pc = "off"

\* The same with the relay between two places: nothing waits in the queue for
\* it, and it carries nothing that is in flight.
Between(js, pb, ca, pc, mem, at, conf) ==
  /\ ca \in [Takers -> Carriers]
  /\ mem \in Memories
  /\ QueueOK(js, pb, ca, pc, at, conf)
  /\ Absent(js, Relay)
  /\ SendsOwn(pb, ca)
  /\ Carried(mem, ca, Calls)
  /\ at \notin Quiet

\* From there the relay may go to its stats, or end.
LEMMA ToStatsStep ==
  ASSUME NEW js, NEW mem, NEW last \in BOOLEAN, NEW at, NEW conf,
         Between(js, pub, carrier, relay.pc, mem, at, conf), ToStats(js, mem, last)
  PROVE  TasksAt(jobs', pub, carrier', relay', memory', at, conf)
<1>1. /\ carrier' = [carrier EXCEPT ![Relay] = NoCarrier]
      /\ memory' = mem
  BY DEF ToStats
<1>2. /\ carrier' \in [Takers -> Carriers]
      /\ carrier'[Relay].pc = "none"
      /\ \A c \in Calls : carrier'[c] = carrier[c]
  BY <1>1, Apart DEF Between, Takers, Carriers, NoCarrier
<1>3. SendsOwn(pub, carrier') /\ Carried(memory', carrier', Takers) /\ memory' \in Memories
  BY <1>1, <1>2 DEF Between, SendsOwn, Carried, Takers
<1>4. /\ relay' \in Relays
      /\ relay'.pc # "carry"
      /\ \/ relay'.pc = "stats" /\ jobs' = Append(js, Job("stats", Relay, None, 0))
         \/ jobs' = js
  <2>1. CASE store.alive
    BY <2>1 DEF ToStats, Relays
  <2>2. CASE ~store.alive
    <3>1. relay' \in {NoRelay, Sleeping} /\ jobs' = js
      BY <2>2 DEF ToStats, AfterPass
    <3>2. NoRelay \in Relays /\ NoRelay.pc = "off" /\ Sleeping \in Relays /\ Sleeping.pc = "sleep"
      BY DEF NoRelay, Sleeping, Relays
    <3> QED BY <3>1, <3>2
  <2> QED BY <2>1, <2>2
<1>5. QueueOK(js, pub, carrier', relay'.pc, at, conf)
  BY <1>2, FrameQueue DEF Between, Takers
<1>6. QueueOK(jobs', pub, carrier', relay'.pc, at, conf)
  <2> DEFINE j == Job("stats", Relay, None, 0)
  <2>1. j \in JobType /\ j.by = Relay
    BY OutboxSizes DEF Job, JobType, Ops, Waits, Takers
  <2>2. relay'.pc = "stats" => Fits(j, pub, carrier', relay'.pc, at, conf)
    BY DEF Job, Fits
  <2> HIDE DEF j
  <2>3. CASE relay'.pc = "stats" /\ jobs' = Append(js, j)
    BY <1>5, <2>1, <2>2, <2>3, AppendQueue DEF Between
  <2> QED BY <1>4, <1>5, <2>3 DEF j
<1> QED BY <1>2, <1>3, <1>4, <1>6 DEF TasksAt, Between

\* Or to the next row.
LEMMA NextRowStep ==
  ASSUME NEW js, NEW mem, NEW batch \in SUBSET Row, NEW last \in BOOLEAN, NEW at, NEW conf,
         Between(js, pub, carrier, relay.pc, mem, at, conf), NextRow(js, mem, batch, last)
  PROVE  TasksAt(jobs', pub, carrier', relay', memory', at, conf)
<1> DEFINE free == {r \in batch : r.env \notin mem.inflight}
<1>1. CASE free = {}
  <2>1. ToStats(js, mem, last)
    BY <1>1 DEF NextRow
  <2> QED BY <2>1, ToStatsStep
<1>2. CASE free # {}
  <2> DEFINE row == Oldest(free)
  <2>1. row \in free /\ row \in Row /\ row.env \in Envelopes
    <3>1. free \subseteq Row
      OBVIOUS
    <3>2. row \in free
      <4> HIDE DEF free
      <4> QED BY <1>2, <3>1, OldestIsThere
    <3> QED BY <3>1, <3>2 DEF Row
  <2>2. /\ relay' = [pc |-> "carry", last |-> last, batch |-> {r \in batch : r.at > row.at}]
        /\ carrier' = [carrier EXCEPT ![Relay] = [pc |-> "publish", env |-> row.env]]
        /\ memory' = [mem EXCEPT !.inflight = @ \cup {row.env}]
        /\ jobs' = js
    BY <1>2 DEF NextRow
  <2> HIDE DEF row, free
  <2>3. relay' \in Relays /\ relay'.pc = "carry"
    BY <2>2 DEF Relays
  <2>4. /\ carrier' \in [Takers -> Carriers]
        /\ carrier'[Relay].pc # "none" /\ carrier'[Relay].env = row.env
        /\ \A c \in Calls : carrier'[c] = carrier[c]
    BY <2>1, <2>2, Apart DEF Between, Takers, Carriers
  <2>5. memory' \in Memories /\ memory'.inflight = mem.inflight \cup {row.env}
    BY <2>1, <2>2 DEF Between, Memories
  <2>6. SendsOwn(pub, carrier') /\ Carried(memory', carrier', Takers)
    BY <2>4, <2>5 DEF Between, SendsOwn, Carried, Takers
  <2>7. QueueOK(jobs', pub, carrier', relay'.pc, at, conf)
    <3>1. \A k \in Takers : Absent(js, k) \/ carrier'[k] = carrier[k]
      BY <2>4 DEF Between, Takers
    <3>2. QueueOK(js, pub, carrier', relay'.pc, at, conf)
      BY <3>1, FrameQueue DEF Between
    <3> QED BY <2>2, <3>2
  <2> QED BY <2>3, <2>4, <2>5, <2>6, <2>7 DEF TasksAt, Between
<1> QED BY <1>1, <1>2

\* A relay that carries nothing and waits for no job is between two places.
LEMMA IdleIsBetween ==
  ASSUME NEW js, NEW at, NEW conf, at \notin Quiet,
         TasksAt(jobs, pub, carrier, relay, memory, life.at, conf),
         QueueOK(js, pub, carrier, relay.pc, at, conf), Absent(js, Relay),
         relay.pc # "carry"
  PROVE  Between(js, pub, carrier, relay.pc, memory, at, conf)
<1>1. Carried(memory, carrier, Calls)
  BY DEF TasksAt, Carried, Takers
<1> QED BY <1>1 DEF TasksAt, Between

\* A pass begins.
LEMMA BeginPassStep ==
  ASSUME NEW last \in BOOLEAN, NEW at, NEW conf, at \notin Quiet,
         TasksAt(jobs, pub, carrier, relay, memory, life.at, conf),
         relay.pc \in {"begin", "sleep", "off"},
         life.at = "closing" => at = "closing",
         BeginPass(last)
  PROVE  TasksAt(jobs', pub, carrier', relay', memory', at, conf)
<1>1. QueueOK(jobs, pub, carrier, relay.pc, at, conf)
  BY FrameQueue DEF TasksAt
<1>2. Absent(jobs, Relay)
  <2> SUFFICES ASSUME NEW i \in 1..Len(jobs), jobs[i].by = Relay PROVE FALSE
    BY DEF Absent
  <2>1. jobs[i] \in JobType /\ Fits(jobs[i], pub, carrier, relay.pc, at, conf)
    BY <1>1 DEF QueueOK
  <2>2. carrier[Relay].pc = "none" /\ Relay \in Takers
    BY DEF TasksAt, Takers
  <2> QED BY <2>1, <2>2, Apart DEF Fits, JobType, Ops
<1>3. CASE store.alive
  <2>1. /\ relay' = [pc |-> "due", batch |-> {}, last |-> last]
        /\ jobs' = Append(jobs, Job("due", Relay, None, 0))
        /\ carrier' = carrier /\ memory' = memory
    BY <1>3 DEF BeginPass, Submitted
  <2>2. relay' \in Relays /\ relay'.pc = "due"
    BY <2>1 DEF Relays
  <2>3. QueueOK(jobs, pub, carrier', relay'.pc, at, conf)
    BY <1>1, <1>2, <2>1, FrameQueue
  <2> DEFINE j == Job("due", Relay, None, 0)
  <2>4. j \in JobType /\ j.by = Relay /\ Fits(j, pub, carrier', relay'.pc, at, conf)
    BY <2>2, OutboxSizes DEF Job, JobType, Ops, Waits, Takers, Fits
  <2> HIDE DEF j
  <2>5. QueueOK(jobs', pub, carrier', relay'.pc, at, conf)
    BY <1>2, <2>1, <2>3, <2>4, AppendQueue DEF j
  <2> QED BY <2>1, <2>2, <2>5 DEF TasksAt
<1>4. CASE ~store.alive
  <2>1. ToStats(jobs, memory, last)
    BY <1>4 DEF BeginPass
  <2>2. Between(jobs, pub, carrier, relay.pc, memory, at, conf)
    BY <1>1, <1>2, IdleIsBetween
  <2> QED BY <2>1, <2>2, ToStatsStep
<1> QED BY <1>3, <1>4

\* What a task carries is taken out of flight.
LEMMA ReleaseCarried ==
  ASSUME NEW mem \in Memories, NEW ca, NEW k \in Takers, Carried(mem, ca, Takers)
  PROVE  LET free == [mem EXCEPT !.inflight = @ \ {ca[k].env}]
         IN  free \in Memories /\ Carried(free, ca, Takers \ {k})
BY DEF Memories, Carried

\* The pass is cancelled.
LEMMA CancelPassStep ==
  ASSUME NEW at, NEW conf, at \notin Quiet,
         TasksAt(jobs, pub, carrier, relay, memory, life.at, conf),
         life.at = "closing" => at = "closing",
         CancelPass
  PROVE  TasksAt(jobs', pub, carrier', relay', memory', at, conf)
<1>0. QueueOK(jobs, pub, carrier, relay.pc, at, conf)
  BY FrameQueue DEF TasksAt
<1>1. PICK js \in WithoutJobOf(Relay) :
        IF relay.pc \in {"off", "begin", "sleep", "stats"}
        THEN relay' = NoRelay /\ jobs' = js /\ UNCHANGED <<carrier, memory>>
        ELSE ToStats(js, [memory EXCEPT !.inflight = @ \ {carrier[Relay].env}], TRUE)
  BY DEF CancelPass
<1>2. QueueOK(js, pub, carrier, relay.pc, at, conf) /\ Absent(js, Relay)
  BY <1>0, VoidedQueue DEF Takers
<1>3. CASE relay.pc \in {"off", "begin", "sleep", "stats"}
  <2>1. relay' = NoRelay /\ jobs' = js /\ carrier' = carrier /\ memory' = memory
    BY <1>1, <1>3
  <2>2. relay' \in Relays /\ relay'.pc = "off"
    BY <2>1 DEF Relays, NoRelay
  <2>3. QueueOK(jobs', pub, carrier', relay'.pc, at, conf)
    BY <1>2, <2>1, FrameQueue
  <2> QED BY <1>3, <2>1, <2>2, <2>3 DEF TasksAt
<1>4. CASE relay.pc \notin {"off", "begin", "sleep", "stats"}
  <2> DEFINE free == [memory EXCEPT !.inflight = @ \ {carrier[Relay].env}]
  <2>1. ToStats(js, free, TRUE)
    BY <1>1, <1>4
  <2>2. Takers \ {Relay} = Calls
    BY Apart DEF Takers
  <2>3. free \in Memories /\ Carried(free, carrier, Calls)
    BY <2>2, ReleaseCarried, SMTT(30) DEF TasksAt, Takers
  <2> HIDE DEF free
  <2>4. Between(js, pub, carrier, relay.pc, free, at, conf)
    BY <1>2, <2>3 DEF TasksAt, Between
  <2> QED BY <2>1, <2>4, ToStatsStep
<1> QED BY <1>3, <1>4

\* A task returns from _backend_publish.
LEMMA FinishStep ==
  ASSUME NEW k \in Takers, NEW ok, NEW js, NEW mem \in Memories, NEW conf,
         TasksAt(jobs, pub, carrier, relay, memory, life.at, conf),
         carrier[k].pc # "none",
         QueueOK(js, pub, carrier, relay.pc, life.at, conf), Absent(js, k),
         mem.inflight = memory.inflight,
         Finish(k, ok, js, mem)
  PROVE  TasksAt(jobs', pub, carrier', relay', memory', life.at, conf)
<1> DEFINE free == [mem EXCEPT !.inflight = @ \ {carrier[k].env}]
<1>1. free \in Memories /\ Carried(free, carrier, Takers \ {k})
  BY ReleaseCarried DEF TasksAt, Carried
<1>2. CASE k # Relay
  <2>1. /\ carrier' = [carrier EXCEPT ![k] = NoCarrier]
        /\ memory' = free /\ jobs' = js /\ relay' = relay
    BY <1>2 DEF Finish
  <2> HIDE DEF free
  <2>2. /\ carrier' \in [Takers -> Carriers]
        /\ carrier'[k].pc = "none"
        /\ \A n \in Takers : n # k => carrier'[n] = carrier[n]
    BY <2>1 DEF TasksAt, Carriers, NoCarrier
  <2>3. SendsOwn(pub, carrier') /\ Carried(memory', carrier', Takers)
    BY <1>1, <2>1, <2>2 DEF TasksAt, SendsOwn, Carried, Takers
  <2>4. QueueOK(jobs', pub, carrier', relay'.pc, life.at, conf)
    <3>1. \A n \in Takers : Absent(js, n) \/ carrier'[n] = carrier[n]
      BY <2>2
    <3>2. QueueOK(js, pub, carrier', relay.pc, life.at, conf)
      BY <3>1, FrameQueue
    <3> QED BY <2>1, <3>2
  <2>5. carrier'[Relay] = carrier[Relay]
    BY <1>2, <2>2 DEF Takers
  <2> QED BY <1>1, <2>1, <2>2, <2>3, <2>4, <2>5 DEF TasksAt
<1>3. CASE k = Relay
  <2>1. Takers \ {k} = Calls
    BY <1>3, Apart DEF Takers
  <2>2. Between(js, pub, carrier, relay.pc, free, life.at, conf)
    <3> HIDE DEF free
    <3> QED BY <1>1, <1>3, <2>1 DEF TasksAt, Between
  <2>3. relay.batch \in SUBSET Row /\ relay.last \in BOOLEAN
    BY DEF TasksAt, Relays
  <2>4. NextRow(js, free, relay.batch, relay.last) \/ ToStats(js, free, relay.last)
    BY <1>3 DEF Finish
  <2> HIDE DEF free
  <2> QED BY <2>2, <2>3, <2>4, NextRowStep, ToStatsStep
<1> QED BY <1>2, <1>3

\* A task whose publish was confirmed or failed has it recorded.
LEMMA RecordStep ==
  ASSUME NEW k \in Takers, NEW op \in {"ack", "nack"}, NEW ok, NEW n \in Waits,
         NEW mem \in Memories, NEW conf,
         TasksAt(jobs, pub, carrier, relay, memory, life.at, conf),
         carrier[k].pc = "publish", mem.inflight = memory.inflight,
         op = "ack" => carrier[k].env \in conf,
         Record(k, op, ok, n, mem)
  PROVE  TasksAt(jobs', pub, carrier', relay', memory', life.at, conf)
<1>0. carrier[k] \in Carriers /\ carrier[k].env \in Envelopes
  BY DEF TasksAt, Carriers, NoCarrier
<1>1. Absent(jobs, k)
  <2> SUFFICES ASSUME NEW i \in 1..Len(jobs), jobs[i].by = k PROVE FALSE
    BY DEF Absent
  <2>1. jobs[i] \in JobType /\ Fits(jobs[i], pub, carrier, relay.pc, life.at, conf)
    BY DEF QueueOK, TasksAt
  <2>2. k = Relay => relay.pc = "carry"
    BY DEF TasksAt
  <2>3. k \in Calls => pub[k] # "appending"
    BY DEF TasksAt, SendsOwn
  <2> QED BY <2>1, <2>2, <2>3, Apart DEF Fits, JobType, Ops, Takers
<1>2. CASE carrier[k].env \in mem.inflight /\ store.alive
  <2> DEFINE j == Job(op, k, carrier[k].env, n)
  <2>1. /\ carrier' = [carrier EXCEPT ![k].pc = op]
        /\ jobs' = Append(jobs, j)
        /\ memory' = mem /\ relay' = relay
    BY <1>2 DEF Record, Submitted
  <2>2. /\ carrier' \in [Takers -> Carriers]
        /\ carrier'[k] = [pc |-> op, env |-> carrier[k].env]
        /\ \A m \in Takers : m # k => carrier'[m] = carrier[m]
    <3>1. [carrier[k] EXCEPT !.pc = op] = [pc |-> op, env |-> carrier[k].env]
      BY <1>0 DEF Carriers, NoCarrier
    <3>2. [pc |-> op, env |-> carrier[k].env] \in Carriers
      BY <1>0 DEF Carriers
    <3>3. carrier' = [carrier EXCEPT ![k] = [pc |-> op, env |-> carrier[k].env]]
      BY <2>1, <3>1
    <3> QED BY <3>2, <3>3 DEF TasksAt
  <2>3. /\ j \in JobType /\ j.by = k
        /\ Fits(j, pub, carrier', relay'.pc, life.at, conf)
    BY <1>0, <2>2 DEF Job, JobType, Ops, Takers, Fits
  <2> HIDE DEF j
  <2>4. QueueOK(jobs, pub, carrier', relay'.pc, life.at, conf)
    <3>1. \A m \in Takers : Absent(jobs, m) \/ carrier'[m] = carrier[m]
      BY <1>1, <2>2
    <3>2. QueueOK(jobs, pub, carrier', relay.pc, life.at, conf)
      BY <3>1, FrameQueue DEF TasksAt
    <3> QED BY <2>1, <3>2
  <2>5. QueueOK(jobs', pub, carrier', relay'.pc, life.at, conf)
    BY <1>1, <2>1, <2>3, <2>4, AppendQueue
  <2>6. \A m \in Takers : /\ carrier'[m].env = carrier[m].env
                          /\ carrier'[m].pc = "none" <=> carrier[m].pc = "none"
    BY <2>2
  <2>7. SendsOwn(pub, carrier') /\ Carried(memory', carrier', Takers)
    BY <2>1, <2>6 DEF TasksAt, SendsOwn, Carried, Takers
  <2>8. relay'.pc = "carry" <=> carrier'[Relay].pc # "none"
    BY <2>1, <2>6 DEF TasksAt, Takers
  <2> QED BY <2>1, <2>2, <2>5, <2>7, <2>8 DEF TasksAt
<1>3. CASE ~ (carrier[k].env \in mem.inflight /\ store.alive)
  <2>1. Finish(k, ok, jobs, mem)
    BY <1>3 DEF Record
  <2> QED BY <1>1, <2>1, FinishStep DEF TasksAt
<1> QED BY <1>2, <1>3

-----------------------------------------------------------------------------
(* The inductive invariant.                                                *)

Worlds == [confirmed : SUBSET Envelopes, up : BOOLEAN, crashes : Nat, faults : Nat]
Losses == [envs : SUBSET Envelopes, unseen : SUBSET Envelopes, counted : Nat]

TaskInv ==
  /\ pub \in [Calls -> PubStates]
  /\ life \in Lives
  /\ TasksAt(jobs, pub, carrier, relay, memory, life.at, world.confirmed)

DataInv ==
  /\ Table(rows)
  /\ Cardinality(rows) <= MaxRows
  /\ store \in Store
  /\ Exact(rows, store)
  /\ world \in Worlds
  /\ lost \in Losses
  /\ Cardinality(lost.envs \ lost.unseen) <= lost.counted + GivenUp(store)
  /\ Durable

Inv == TaskInv /\ DataInv

\* A set that grows by no more than another.
LEMMA GrowsByNoMore ==
  ASSUME NEW E, IsFiniteSet(E), NEW G, IsFiniteSet(G), NEW F, F \subseteq E \cup G
  PROVE  /\ Cardinality(E) \in Nat /\ Cardinality(G) \in Nat /\ Cardinality(F) \in Nat
         /\ Cardinality(F) <= Cardinality(E) + Cardinality(G)
<1>1. /\ Cardinality(E \cup G) = Cardinality(E) + Cardinality(G) - Cardinality(E \cap G)
      /\ IsFiniteSet(E \cup G) /\ Cardinality(E \cup G) \in Nat
      /\ Cardinality(E) \in Nat /\ Cardinality(G) \in Nat /\ Cardinality(E \cap G) \in Nat
  BY FS_Union, FS_Intersection, FS_CardinalityType
<1>2. IsFiniteSet(F) /\ Cardinality(F) <= Cardinality(E \cup G) /\ Cardinality(F) \in Nat
  BY <1>1, FS_Subset, FS_CardinalityType
<1> QED BY <1>1, <1>2

\* A step of the store: what leaves the table is confirmed or counted.
LEMMA DataStep ==
  ASSUME DataInv, NEW gone,
         Table(rows'), Cardinality(rows') <= MaxRows,
         store' \in Store, Exact(rows', store'),
         world' \in Worlds, world.confirmed \subseteq world'.confirmed,
         lost' \in Losses, lost'.envs = lost.envs \cup gone, lost'.unseen = lost.unseen,
         lost'.counted = lost.counted,
         IsFiniteSet(gone), GivenUp(store) + Cardinality(gone) <= GivenUp(store'),
         \A c \in Calls : pub'[c] = "durable" => pub[c] = "durable" \/ EnvOf[c] \in RowEnvs(rows'),
         RowEnvs(rows) \subseteq RowEnvs(rows') \cup world'.confirmed \cup gone
  PROVE  DataInv'
<1> DEFINE E == lost.envs \ lost.unseen
           F == lost'.envs \ lost'.unseen
<1>1. IsFiniteSet(E) /\ F \subseteq E \cup gone
  BY OutboxAssumption, FS_Subset DEF DataInv, Losses
<1>2. Cardinality(E) <= lost.counted + GivenUp(store)
  BY DEF DataInv
<1>3. GivenUp(store) \in Nat /\ GivenUp(store') \in Nat /\ lost.counted \in Nat
  BY DEF DataInv, Losses, Store, GivenUp
<1> HIDE DEF E, F
<1>4. Cardinality(F) <= lost'.counted + GivenUp(store')
  <2>1. /\ Cardinality(E) \in Nat /\ Cardinality(gone) \in Nat /\ Cardinality(F) \in Nat
        /\ Cardinality(F) <= Cardinality(E) + Cardinality(gone)
    BY <1>1, GrowsByNoMore
  <2> QED BY <1>2, <1>3, <2>1
<1>5. Durable'
  BY DEF DataInv, Durable
<1> QED BY <1>4, <1>5 DEF DataInv, F

\* A step that loses nothing.
LEMMA LosslessStep ==
  ASSUME DataInv, lost' = lost,
         Table(rows'), Cardinality(rows') <= MaxRows,
         store' \in Store, Exact(rows', store'), GivenUp(store') = GivenUp(store),
         world' \in Worlds, world.confirmed \subseteq world'.confirmed,
         \A c \in Calls : pub'[c] = "durable" => pub[c] = "durable",
         RowEnvs(rows) \subseteq RowEnvs(rows') \cup world'.confirmed
  PROVE  DataInv'
<1> DEFINE gone == {}
<1>1. IsFiniteSet(gone) /\ Cardinality(gone) = 0
  BY FS_EmptySet
<1>2. /\ lost' \in Losses /\ lost'.envs = lost.envs \cup gone /\ lost'.unseen = lost.unseen
        /\ lost'.counted = lost.counted
  BY DEF DataInv
<1>3. GivenUp(store) \in Nat /\ GivenUp(store) + Cardinality(gone) <= GivenUp(store')
  BY <1>1 DEF DataInv, GivenUp, Store
<1> HIDE DEF gone
<1> QED BY <1>1, <1>2, <1>3, DataStep

\* A step that leaves the store alone.
LEMMA StoreUntouched ==
  ASSUME DataInv, UNCHANGED <<rows, store, lost>>, world' \in Worlds,
         world.confirmed \subseteq world'.confirmed,
         \A c \in Calls : pub'[c] = "durable" => pub[c] = "durable"
  PROVE  DataInv'
<1>1. Table(rows') /\ Cardinality(rows') <= MaxRows /\ RowEnvs(rows') = RowEnvs(rows)
  BY DEF DataInv
<1>2. store' \in Store /\ Exact(rows', store') /\ GivenUp(store') = GivenUp(store)
  BY DEF DataInv
<1> QED BY <1>1, <1>2, LosslessStep

\* A step that leaves the store, the world and the calls alone.
LEMMA OnlyTasks ==
  ASSUME DataInv, UNCHANGED <<rows, store, pub, world, lost>>
  PROVE  DataInv'
<1>1. world' \in Worlds /\ world.confirmed \subseteq world'.confirmed
  BY DEF DataInv
<1> QED BY <1>1, StoreUntouched

\* The connection is opened by a step that leaves the rows alone.
LEMMA ConnOpens ==
  ASSUME DataInv, rows' = rows, store' = EnsureConn(rows, store), UNCHANGED <<pub, world, lost>>
  PROVE  DataInv'
<1>1. Table(rows') /\ Cardinality(rows') <= MaxRows /\ RowEnvs(rows') = RowEnvs(rows)
  BY DEF DataInv
<1>2. store' \in Store /\ Exact(rows', store') /\ GivenUp(store') = GivenUp(store)
  BY EnsureConnExact DEF DataInv, Exact
<1>3. world' \in Worlds /\ world.confirmed \subseteq world'.confirmed
  BY DEF DataInv
<1> QED BY <1>1, <1>2, <1>3, LosslessStep

-----------------------------------------------------------------------------
(* publish().                                                              *)

\* A call moves on, and its task, when it starts, carries its envelope.
LEMMA CallStep ==
  ASSUME TaskInv, NEW c \in Calls, NEW js, NEW pb, NEW ca, NEW mem \in Memories,
         QueueOK(js, pub, carrier, relay.pc, life.at, world.confirmed), Absent(js, c),
         carrier[c].pc = "none",
         pb \in [Calls -> PubStates], \A d \in Calls : d # c => pb[d] = pub[d],
         ca \in [Takers -> Carriers], \A k \in Takers : k # c => ca[k] = carrier[k],
         ca[c].pc # "none" => ca[c].env = EnvOf[c] /\ pb[c] \in {"durable", "degraded"},
         mem.inflight \subseteq memory.inflight \cup (IF ca[c].pc = "none" THEN {} ELSE {EnvOf[c]})
  PROVE  TasksAt(js, pb, ca, relay, mem, life.at, world.confirmed)
<1>1. SendsOwn(pb, ca)
  BY DEF TaskInv, TasksAt, SendsOwn, Takers
<1>2. Carried(mem, ca, Takers)
  <2> SUFFICES ASSUME NEW e \in mem.inflight
               PROVE  \E k \in Takers : ca[k].pc # "none" /\ ca[k].env = e
    BY DEF Carried
  <2>1. CASE e \in memory.inflight
    <3>1. PICK k \in Takers : carrier[k].pc # "none" /\ carrier[k].env = e
      BY <2>1 DEF TaskInv, TasksAt, Carried
    <3> QED BY <3>1
  <2>2. CASE e \notin memory.inflight
    BY <2>2 DEF Takers
  <2> QED BY <2>1, <2>2
<1>3. QueueOK(js, pb, ca, relay.pc, life.at, world.confirmed)
  <2>1. /\ \A d \in Calls : Absent(js, d) \/ pb[d] = pub[d]
        /\ \A k \in Takers : Absent(js, k) \/ ca[k] = carrier[k]
    OBVIOUS
  <2> QED BY <2>1, FrameQueue
<1>4. ca[Relay] = carrier[Relay]
  BY Apart DEF Takers
<1> QED BY <1>1, <1>2, <1>3, <1>4 DEF TaskInv, TasksAt

LEMMA PublishClosedInv ==
  ASSUME Inv, NEW c \in Calls, PublishClosed(c)
  PROVE  Inv'
<1>1. /\ pub[c] = "new" /\ pub' = [pub EXCEPT ![c] = "closed"]
      /\ UNCHANGED <<rows, store, jobs, carrier, relay, memory, life, world, lost>>
  BY DEF PublishClosed
<1>2. pub' \in [Calls -> PubStates] /\ \A d \in Calls : d # c => pub'[d] = pub[d]
  BY <1>1 DEF Inv, TaskInv, PubStates
<1>3. pub'[c] = "closed"
  BY <1>1 DEF Inv, TaskInv
<1>4. DataInv'
  <2>1. world' \in Worlds /\ world.confirmed \subseteq world'.confirmed
    BY <1>1 DEF Inv, DataInv
  <2> QED BY <1>1, <1>2, <1>3, <2>1, StoreUntouched DEF Inv
<1>5. carrier[c].pc = "none"
  BY <1>1 DEF Inv, TaskInv, TasksAt, SendsOwn
<1>6. Absent(jobs, c)
  BY <1>1, <1>5, NobodyWaits, Apart DEF Inv, TaskInv, TasksAt, Takers
<1>7. TasksAt(jobs, pub', carrier, relay, memory, life.at, world.confirmed)
  BY <1>2, <1>5, <1>6, CallStep DEF Inv, TaskInv, TasksAt
<1> QED BY <1>1, <1>2, <1>4, <1>7 DEF Inv, TaskInv

\* The task of a call without durability.
LEMMA DegradedStep ==
  ASSUME TaskInv, NEW c \in Calls, NEW js, Degraded(c),
         QueueOK(js, pub, carrier, relay.pc, life.at, world.confirmed), Absent(js, c),
         carrier[c].pc = "none"
  PROVE  /\ pub' \in [Calls -> PubStates]
         /\ \A d \in Calls : pub'[d] = "durable" => pub[d] = "durable"
         /\ TasksAt(js, pub', carrier', relay, memory, life.at, world.confirmed)
<1>1. /\ pub' = [pub EXCEPT ![c] = "degraded"]
      /\ carrier' = [carrier EXCEPT ![c] = [pc |-> "publish", env |-> EnvOf[c]]]
  BY DEF Degraded
<1>2. /\ pub' \in [Calls -> PubStates] /\ \A d \in Calls : d # c => pub'[d] = pub[d]
      /\ pub'[c] = "degraded"
  BY <1>1 DEF TaskInv, PubStates
<1>3. /\ carrier' \in [Takers -> Carriers] /\ \A k \in Takers : k # c => carrier'[k] = carrier[k]
      /\ carrier'[c].pc = "publish" /\ carrier'[c].env = EnvOf[c]
  <2>1. [pc |-> "publish", env |-> EnvOf[c]] \in Carriers
    BY OutboxAssumption DEF Carriers
  <2> QED BY <1>1, <2>1 DEF TaskInv, TasksAt, Takers
<1>4. memory \in Memories
  BY DEF TaskInv, TasksAt
<1>5. TasksAt(js, pub', carrier', relay, memory, life.at, world.confirmed)
  BY <1>2, <1>3, <1>4, CallStep
<1> QED BY <1>2, <1>5

LEMMA PublishInv ==
  ASSUME Inv, NEW c \in Calls, Publish(c)
  PROVE  Inv'
<1>1. pub[c] = "new" /\ UNCHANGED <<rows, store, relay, memory, life, world, lost>>
  BY DEF Publish
<1>2. carrier[c].pc = "none"
  BY <1>1 DEF Inv, TaskInv, TasksAt, SendsOwn
<1>3. Absent(jobs, c) /\ QueueOK(jobs, pub, carrier, relay.pc, life.at, world.confirmed)
  BY <1>1, <1>2, NobodyWaits, Apart DEF Inv, TaskInv, TasksAt, Takers
<1>4. world' \in Worlds /\ world.confirmed \subseteq world'.confirmed
  BY <1>1 DEF Inv, DataInv
<1>5. CASE store.alive
  <2> DEFINE j == Job("append", c, EnvOf[c], 0)
  <2>1. /\ pub' = [pub EXCEPT ![c] = "appending"]
        /\ jobs' = Append(jobs, j)
        /\ carrier' = carrier
    BY <1>5 DEF Publish, Submitted
  <2>2. /\ pub' \in [Calls -> PubStates] /\ \A d \in Calls : d # c => pub'[d] = pub[d]
        /\ pub'[c] = "appending"
    BY <2>1 DEF Inv, TaskInv, PubStates
  <2>3. TasksAt(jobs, pub', carrier, relay, memory, life.at, world.confirmed)
    BY <1>2, <1>3, <2>2, CallStep DEF Inv, TaskInv, TasksAt
  <2>4. /\ j \in JobType /\ j.by = c
        /\ Fits(j, pub', carrier, relay.pc, life.at, world.confirmed)
    BY <2>2, Apart, OutboxAssumption, OutboxSizes DEF Job, JobType, Ops, Takers, Waits, Fits
  <2> HIDE DEF j
  <2>5. QueueOK(Append(jobs, j), pub', carrier, relay.pc, life.at, world.confirmed)
    BY <1>3, <2>3, <2>4, AppendQueue DEF TasksAt
  <2>6. TasksAt(jobs', pub', carrier, relay, memory, life.at, world.confirmed)
    BY <2>1, <2>3, <2>5 DEF TasksAt
  <2>7. DataInv'
    BY <1>1, <1>4, <2>2, StoreUntouched DEF Inv
  <2> QED BY <1>1, <2>1, <2>2, <2>6, <2>7 DEF Inv, TaskInv
<1>6. CASE ~store.alive
  <2>1. Degraded(c) /\ jobs' = jobs
    BY <1>6 DEF Publish
  <2>2. /\ pub' \in [Calls -> PubStates]
        /\ \A d \in Calls : pub'[d] = "durable" => pub[d] = "durable"
        /\ TasksAt(jobs, pub', carrier', relay, memory, life.at, world.confirmed)
    BY <1>2, <1>3, <2>1, DegradedStep DEF Inv
  <2>3. DataInv'
    BY <1>1, <1>4, <2>2, StoreUntouched DEF Inv
  <2> QED BY <1>1, <2>1, <2>2, <2>3 DEF Inv, TaskInv
<1> QED BY <1>5, <1>6

LEMMA PublishCancelledInv ==
  ASSUME Inv, NEW c \in Calls, PublishCancelled(c)
  PROVE  Inv'
<1>1. /\ pub[c] = "appending" /\ jobs' \in WithoutJobOf(c)
      /\ pub' = [pub EXCEPT ![c] = "cancelled"]
      /\ UNCHANGED <<rows, store, carrier, relay, memory, life, world, lost>>
  BY DEF PublishCancelled
<1>2. /\ pub' \in [Calls -> PubStates] /\ \A d \in Calls : d # c => pub'[d] = pub[d]
      /\ pub'[c] = "cancelled"
  BY <1>1 DEF Inv, TaskInv, PubStates
<1>3. carrier[c].pc = "none"
  BY <1>1 DEF Inv, TaskInv, TasksAt, SendsOwn
<1>4. QueueOK(jobs', pub, carrier, relay.pc, life.at, world.confirmed) /\ Absent(jobs', c)
  BY <1>1, VoidedQueue DEF Inv, TaskInv, TasksAt, Takers
<1>5. TasksAt(jobs', pub', carrier, relay, memory, life.at, world.confirmed)
  BY <1>2, <1>3, <1>4, CallStep DEF Inv, TaskInv, TasksAt
<1>6. world' \in Worlds /\ world.confirmed \subseteq world'.confirmed
  BY <1>1 DEF Inv, DataInv
<1>7. DataInv'
  BY <1>1, <1>2, <1>6, StoreUntouched DEF Inv
<1> QED BY <1>1, <1>2, <1>5, <1>7 DEF Inv, TaskInv

\* The job at the head of the queue, and what is left behind it.
LEMMA HeadJob ==
  ASSUME TaskInv, jobs # << >>
  PROVE  /\ QueueOK(Tail(jobs), pub, carrier, relay.pc, life.at, world.confirmed)
         /\ Head(jobs) \in JobType
         /\ Fits(Head(jobs), pub, carrier, relay.pc, life.at, world.confirmed)
         /\ Head(jobs).by # None => Absent(Tail(jobs), Head(jobs).by)
BY TailQueue DEF TaskInv, TasksAt

\* Nobody waits for the job: it is taken off the queue.
LEMMA OrphanStep ==
  ASSUME TaskInv, jobs # << >>
  PROVE  TasksAt(Tail(jobs), pub, carrier, relay, memory, life.at, world.confirmed)
BY HeadJob DEF TaskInv, TasksAt

LEMMA RunAppendRefusedInv ==
  ASSUME Inv, RunAppendRefused
  PROVE  Inv'
<1> DEFINE S == EnsureConn(rows, store)
           c == Head(jobs).by
<1>1. /\ jobs # << >> /\ Head(jobs).op = "append"
      /\ store' = [S EXCEPT !.rejected = @ + 1]
      /\ pub' = IF c = None THEN pub ELSE [pub EXCEPT ![c] = "rejected"]
      /\ jobs' = Tail(jobs)
      /\ UNCHANGED <<rows, carrier, relay, memory, life, world, lost>>
  BY DEF RunAppendRefused, Runs
<1>2. /\ QueueOK(Tail(jobs), pub, carrier, relay.pc, life.at, world.confirmed)
      /\ Fits(Head(jobs), pub, carrier, relay.pc, life.at, world.confirmed)
      /\ c # None => Absent(Tail(jobs), c)
  BY <1>1, HeadJob DEF Inv
<1>3. c \in Calls \cup {None} /\ (c # None => pub[c] = "appending")
  BY <1>1, <1>2 DEF Fits
<1> HIDE DEF c
<1>4. /\ pub' \in [Calls -> PubStates]
      /\ \A d \in Calls : d # c => pub'[d] = pub[d]
      /\ c # None => pub'[c] = "rejected"
  BY <1>1, <1>3 DEF Inv, TaskInv, PubStates
<1>5. TasksAt(jobs', pub', carrier, relay, memory, life.at, world.confirmed)
  <2>1. CASE c = None
    BY <1>1, <2>1, OrphanStep DEF Inv
  <2>2. CASE c # None
    <3>1. c \in Calls /\ carrier[c].pc = "none"
      BY <1>3, <2>2 DEF Inv, TaskInv, TasksAt, SendsOwn
    <3> QED BY <1>1, <1>2, <1>4, <2>2, <3>1, CallStep DEF Inv, TaskInv, TasksAt
  <2> QED BY <2>1, <2>2
<1>6. DataInv'
  <2>1. S \in Store /\ S.pending = Cardinality(rows) /\ GivenUp(S) = GivenUp(store)
    BY EnsureConnExact DEF Inv, DataInv
  <2> DEFINE n == S.rejected + 1
  <2>2. n \in Nat
    BY <2>1 DEF Store
  <2>3. store' = [S EXCEPT !.rejected = n]
    BY <1>1
  <2> HIDE DEF S, n
  <2>4. store' \in Store
    BY <2>1, <2>2, <2>3 DEF Store
  <2>5. /\ store'.pending = S.pending /\ store'.dropped = S.dropped
        /\ store'.expired = S.expired /\ store'.corrupt = S.corrupt
    BY <2>1, <2>3 DEF Store
  <2>6. GivenUp(store') = GivenUp(store) /\ Exact(rows', store')
    BY <1>1, <2>1, <2>5 DEF GivenUp, Exact
  <2>7. Table(rows') /\ Cardinality(rows') <= MaxRows /\ RowEnvs(rows') = RowEnvs(rows)
    BY <1>1 DEF Inv, DataInv
  <2>8. world' \in Worlds /\ world.confirmed \subseteq world'.confirmed
    BY <1>1 DEF Inv, DataInv
  <2>9. \A d \in Calls : pub'[d] = "durable" => pub[d] = "durable"
    BY <1>3, <1>4, Apart
  <2> QED BY <1>1, <2>4, <2>6, <2>7, <2>8, <2>9, LosslessStep DEF Inv
<1> QED BY <1>1, <1>4, <1>5, <1>6 DEF Inv, TaskInv

LEMMA RunAppendInv ==
  ASSUME Inv, RunAppend
  PROVE  Inv'
<1> DEFINE S == EnsureConn(rows, store)
           c == Head(jobs).by
           e == Head(jobs).env
           gone == RowEnvs(rows) \ RowEnvs(rows')
<1>1. /\ jobs # << >> /\ Head(jobs).op = "append" /\ ~Refuses(S)
      /\ rows' = Insert(AppendRoom(rows, S), e)
      /\ store' = AppendStore(rows, S, e)
      /\ lost' = [lost EXCEPT !.envs = @ \cup gone]
      /\ IF c = None
         THEN UNCHANGED <<pub, carrier, memory>>
         ELSE /\ pub' = [pub EXCEPT ![c] = "durable"]
              /\ memory' = [memory EXCEPT !.inflight = @ \cup {e}]
              /\ carrier' = [carrier EXCEPT ![c] = [pc |-> "publish", env |-> e]]
      /\ jobs' = Tail(jobs)
      /\ UNCHANGED <<relay, life, world>>
  BY DEF RunAppend, Runs
<1>2. /\ QueueOK(Tail(jobs), pub, carrier, relay.pc, life.at, world.confirmed)
      /\ Fits(Head(jobs), pub, carrier, relay.pc, life.at, world.confirmed)
      /\ c # None => Absent(Tail(jobs), c)
  BY <1>1, HeadJob DEF Inv
<1>3. /\ c \in Calls \cup {None} /\ e \in Envelopes
      /\ c # None => c \in Calls /\ pub[c] = "appending" /\ e = EnvOf[c]
  BY <1>1, <1>2 DEF Fits
<1> HIDE DEF c, e
<1>4. /\ pub' \in [Calls -> PubStates]
      /\ \A d \in Calls : d # c => pub'[d] = pub[d]
      /\ c # None => pub'[c] = "durable"
  BY <1>1, <1>3 DEF Inv, TaskInv, PubStates
<1>5. TasksAt(jobs', pub', carrier', relay, memory', life.at, world.confirmed)
  <2>1. CASE c = None
    BY <1>1, <2>1, OrphanStep DEF Inv
  <2>2. CASE c # None
    <3>1. c \in Calls /\ carrier[c].pc = "none"
      BY <1>3, <2>2 DEF Inv, TaskInv, TasksAt, SendsOwn
    <3>2. /\ carrier' \in [Takers -> Carriers]
          /\ \A k \in Takers : k # c => carrier'[k] = carrier[k]
          /\ carrier'[c].pc = "publish" /\ carrier'[c].env = EnvOf[c]
      <4>1. [pc |-> "publish", env |-> e] \in Carriers
        BY <1>3 DEF Carriers
      <4> QED BY <1>1, <1>3, <2>2, <4>1 DEF Inv, TaskInv, TasksAt, Takers
    <3>3. memory' \in Memories /\ memory'.inflight = memory.inflight \cup {EnvOf[c]}
      BY <1>1, <1>3, <2>2 DEF Inv, TaskInv, TasksAt, Memories
    <3>4. TasksAt(Tail(jobs), pub', carrier', relay, memory', life.at, world.confirmed)
      BY <1>2, <1>4, <2>2, <3>1, <3>2, <3>3, CallStep DEF Inv
    <3> QED BY <1>1, <3>4
  <2> QED BY <2>1, <2>2
<1>6. DataInv'
  <2>1. S \in Store /\ S.pending = Cardinality(rows) /\ GivenUp(S) = GivenUp(store)
    BY EnsureConnExact DEF Inv, DataInv
  <2> HIDE DEF S
  <2>2. Table(rows) /\ Cardinality(rows) <= MaxRows
    BY DEF Inv, DataInv
  <2>3. /\ Table(rows') /\ Cardinality(rows') <= MaxRows /\ e \in RowEnvs(rows')
        /\ store' \in Store /\ store'.pending = Cardinality(rows')
        /\ IsFiniteSet(gone)
        /\ GivenUp(store) + Cardinality(gone) <= GivenUp(store')
    BY <1>1, <1>3, <2>1, <2>2, AppendExact
  <2>4. gone \subseteq Envelopes
    BY <2>2 DEF Table, Row, RowEnvs
  <2>5. RowEnvs(rows) \subseteq RowEnvs(rows') \cup gone
    OBVIOUS
  <2> HIDE DEF gone
  <2>6. /\ lost' \in Losses /\ lost'.envs = lost.envs \cup gone /\ lost'.unseen = lost.unseen
        /\ lost'.counted = lost.counted
    BY <1>1, <2>4 DEF Inv, DataInv, Losses
  <2>7. world' \in Worlds /\ world.confirmed \subseteq world'.confirmed
    BY <1>1 DEF Inv, DataInv
  <2>8. \A d \in Calls : pub'[d] = "durable" => pub[d] = "durable" \/ EnvOf[d] \in RowEnvs(rows')
    BY <1>3, <1>4, <2>3, Apart
  <2> QED BY <2>3, <2>5, <2>6, <2>7, <2>8, DataStep DEF Inv, Exact
<1> QED BY <1>1, <1>4, <1>5, <1>6 DEF Inv, TaskInv

-----------------------------------------------------------------------------
(* _backend_publish.                                                       *)

LEMMA BackendOkInv ==
  ASSUME Inv, NEW k \in Takers, BackendOk(k)
  PROVE  Inv'
<1>1. /\ carrier[k].pc = "publish"
      /\ world' = [world EXCEPT !.confirmed = @ \cup {carrier[k].env}]
      /\ Record(k, "ack", TRUE, 0, memory)
      /\ UNCHANGED <<rows, store, pub, life, lost>>
  BY DEF BackendOk
<1>2. carrier[k].env \in Envelopes
  BY <1>1 DEF Inv, TaskInv, TasksAt, Carriers, NoCarrier
<1>3. /\ world' \in Worlds /\ world.confirmed \subseteq world'.confirmed
      /\ carrier[k].env \in world'.confirmed
  BY <1>1, <1>2 DEF Inv, DataInv, Worlds
<1>4. DataInv'
  BY <1>1, <1>3, StoreUntouched DEF Inv
<1>5. TasksAt(jobs, pub, carrier, relay, memory, life.at, world'.confirmed)
  BY <1>3, FrameQueue DEF Inv, TaskInv, TasksAt
<1>6. 0 \in Waits /\ memory \in Memories
  BY OutboxSizes DEF Waits, Inv, TaskInv, TasksAt
<1>7. TasksAt(jobs', pub, carrier', relay', memory', life.at, world'.confirmed)
  BY <1>1, <1>3, <1>5, <1>6, RecordStep
<1> QED BY <1>1, <1>4, <1>7 DEF Inv, TaskInv

LEMMA BackendFailsInv ==
  ASSUME Inv, NEW k \in Takers, BackendFails(k)
  PROVE  Inv'
<1> DEFINE e == carrier[k].env
           n == Attempts(memory.attempts[e])
           mem == IF e \in memory.inflight THEN [memory EXCEPT !.attempts[e] = n] ELSE memory
<1>1. /\ carrier[k].pc = "publish"
      /\ Record(k, "nack", FALSE, Backoff(n), mem)
      /\ UNCHANGED <<rows, store, pub, life, world, lost>>
  BY DEF BackendFails
<1>2. e \in Envelopes /\ memory \in Memories
  BY <1>1 DEF Inv, TaskInv, TasksAt, Carriers, NoCarrier
<1>3. n \in 0..MaxBackoff /\ n >= 1
  BY <1>2, OutboxSizes DEF Memories, Attempts
<1>4. mem \in Memories /\ mem.inflight = memory.inflight
  <2> HIDE DEF n, e
  <2> QED BY <1>2, <1>3 DEF Memories
<1>5. Backoff(n) \in Waits
  <2> HIDE DEF n
  <2>1. n - 1 \in Nat /\ 2^(n - 1) \in Int
    BY <1>3, OutboxSizes
  <2> QED BY <2>1, OutboxSizes DEF Backoff, Waits
<1> HIDE DEF mem, n, e
<1>6. TasksAt(jobs', pub, carrier', relay', memory', life.at, world.confirmed)
  BY <1>1, <1>4, <1>5, RecordStep DEF Inv, TaskInv
<1>7. DataInv'
  BY <1>1, OnlyTasks DEF Inv
<1> QED BY <1>1, <1>6, <1>7 DEF Inv, TaskInv

\* A task gets the answer to its ack or nack.
LEMMA AnswerStep ==
  ASSUME TaskInv, jobs # << >>, Head(jobs).op \in {"ack", "nack"}, Head(jobs).by # None,
         NEW ok, NEW mem \in Memories, mem.inflight = memory.inflight,
         Finish(Head(jobs).by, ok, Tail(jobs), mem)
  PROVE  TasksAt(jobs', pub, carrier', relay', memory', life.at, world.confirmed)
<1> DEFINE k == Head(jobs).by
<1>1. /\ QueueOK(Tail(jobs), pub, carrier, relay.pc, life.at, world.confirmed)
      /\ Fits(Head(jobs), pub, carrier, relay.pc, life.at, world.confirmed)
      /\ Absent(Tail(jobs), k)
  BY HeadJob
<1>2. k \in Takers /\ carrier[k].pc # "none"
  BY <1>1 DEF Fits
<1> QED BY <1>1, <1>2, FinishStep DEF TaskInv

LEMMA RunAckInv ==
  ASSUME Inv, RunAck
  PROVE  Inv'
<1> DEFINE k == Head(jobs).by
           e == Head(jobs).env
           S == EnsureConn(rows, store)
<1>1. /\ jobs # << >> /\ Head(jobs).op = "ack"
      /\ rows' = Delete(rows, e)
      /\ store' = AckStore(rows, S, e)
      /\ IF k = None
         THEN jobs' = Tail(jobs) /\ UNCHANGED <<carrier, relay, memory>>
         ELSE Finish(k, TRUE, Tail(jobs), [memory EXCEPT !.attempts[e] = 0])
      /\ UNCHANGED <<pub, life, world, lost>>
  BY DEF RunAck, Runs
<1>2. e \in Envelopes /\ e \in world.confirmed
  BY <1>1, HeadJob DEF Inv, Fits
<1>3. TasksAt(jobs', pub, carrier', relay', memory', life.at, world.confirmed)
  <2>1. CASE k = None
    BY <1>1, <2>1, OrphanStep DEF Inv
  <2>2. CASE k # None
    <3> DEFINE mem == [memory EXCEPT !.attempts[e] = 0]
    <3>1. mem \in Memories /\ mem.inflight = memory.inflight
      <4> HIDE DEF e
      <4> QED BY <1>2, OutboxSizes DEF Inv, TaskInv, TasksAt, Memories
    <3>2. Finish(k, TRUE, Tail(jobs), mem)
      BY <1>1, <2>2
    <3> HIDE DEF mem
    <3> QED BY <1>1, <2>2, <3>1, <3>2, AnswerStep DEF Inv
  <2> QED BY <2>1, <2>2
<1>4. DataInv'
  <2>1. S \in Store /\ S.pending = Cardinality(rows) /\ GivenUp(S) = GivenUp(store)
    BY EnsureConnExact DEF Inv, DataInv
  <2> HIDE DEF S, e
  <2>2. Table(rows) /\ Cardinality(rows) <= MaxRows
    BY DEF Inv, DataInv
  <2>3. /\ Table(rows') /\ Cardinality(rows') <= MaxRows
        /\ RowEnvs(rows) \ {e} \subseteq RowEnvs(rows')
        /\ store' \in Store /\ store'.pending = Cardinality(rows')
        /\ GivenUp(store') = GivenUp(store)
    BY <1>1, <2>1, <2>2, AckExact
  <2>4. world' \in Worlds /\ world'.confirmed = world.confirmed
    BY <1>1 DEF Inv, DataInv
  <2>5. RowEnvs(rows) \subseteq RowEnvs(rows') \cup world'.confirmed
    BY <1>2, <2>3, <2>4
  <2> QED BY <1>1, <2>3, <2>4, <2>5, LosslessStep DEF Inv, Exact
<1> QED BY <1>1, <1>3, <1>4 DEF Inv, TaskInv

LEMMA RunNackInv ==
  ASSUME Inv, RunNack
  PROVE  Inv'
<1> DEFINE k == Head(jobs).by
           e == Head(jobs).env
           n == Head(jobs).wait
           S == EnsureConn(rows, store)
<1>1. /\ jobs # << >> /\ Head(jobs).op = "nack"
      /\ rows' = Nack(rows, e, n)
      /\ store' = S
      /\ IF k = None
         THEN jobs' = Tail(jobs) /\ UNCHANGED <<carrier, relay, memory>>
         ELSE Finish(k, FALSE, Tail(jobs), memory)
      /\ UNCHANGED <<pub, life, world, lost>>
  BY DEF RunNack, Runs
<1>2. n \in Waits
  BY <1>1, HeadJob DEF Inv, JobType
<1>3. TasksAt(jobs', pub, carrier', relay', memory', life.at, world.confirmed)
  <2>1. CASE k = None
    BY <1>1, <2>1, OrphanStep DEF Inv
  <2>2. CASE k # None
    BY <1>1, <2>2, AnswerStep DEF Inv, TaskInv, TasksAt
  <2> QED BY <2>1, <2>2
<1>4. DataInv'
  <2>1. S \in Store /\ S.pending = Cardinality(rows) /\ GivenUp(S) = GivenUp(store)
    BY EnsureConnExact DEF Inv, DataInv
  <2> HIDE DEF S, e, n
  <2>2. Table(rows) /\ Cardinality(rows) <= MaxRows
    BY DEF Inv, DataInv
  <2>3. Table(rows') /\ RowEnvs(rows') = RowEnvs(rows) /\ Cardinality(rows') = Cardinality(rows)
    BY <1>1, <1>2, <2>2, NackTable
  <2>4. world' \in Worlds /\ world'.confirmed = world.confirmed
    BY <1>1 DEF Inv, DataInv
  <2> QED BY <1>1, <2>1, <2>2, <2>3, <2>4, LosslessStep DEF Inv, Exact
<1> QED BY <1>1, <1>3, <1>4 DEF Inv, TaskInv

-----------------------------------------------------------------------------
(* The relay.                                                              *)

LEMMA RelayBeginsInv ==
  ASSUME Inv, RelayBegins
  PROVE  Inv'
<1>1. relay.pc = "begin" /\ BeginPass(FALSE) /\ UNCHANGED <<rows, store, pub, life, world, lost>>
  BY DEF RelayBegins
<1>2. life.at \notin Quiet
  BY <1>1 DEF Inv, TaskInv, TasksAt
<1>3. TasksAt(jobs', pub, carrier', relay', memory', life.at, world.confirmed)
  BY <1>1, <1>2, BeginPassStep DEF Inv, TaskInv
<1>4. DataInv'
  BY <1>1, OnlyTasks DEF Inv
<1> QED BY <1>1, <1>3, <1>4 DEF Inv, TaskInv

\* A step that only changes rows in place.
LEMMA InPlaceStep ==
  ASSUME DataInv, Table(rows'), RowEnvs(rows') = RowEnvs(rows),
         Cardinality(rows') = Cardinality(rows), UNCHANGED <<store, pub, world, lost>>
  PROVE  DataInv'
<1>1. world' \in Worlds /\ world'.confirmed = world.confirmed
  BY DEF DataInv
<1>2. /\ Cardinality(rows') <= MaxRows /\ store' \in Store /\ Exact(rows', store')
      /\ GivenUp(store') = GivenUp(store)
  BY DEF DataInv, Exact
<1> QED BY <1>1, <1>2, LosslessStep

LEMMA RelayWakesInv ==
  ASSUME Inv, RelayWakes
  PROVE  Inv'
<1>1. /\ relay.pc = "sleep" /\ rows' = Later(rows) /\ BeginPass(FALSE)
      /\ UNCHANGED <<store, pub, life, world, lost>>
  BY DEF RelayWakes
<1>2. life.at \notin Quiet
  BY <1>1 DEF Inv, TaskInv, TasksAt
<1>3. TasksAt(jobs', pub, carrier', relay', memory', life.at, world.confirmed)
  BY <1>1, <1>2, BeginPassStep DEF Inv, TaskInv
<1>4. Table(rows') /\ RowEnvs(rows') = RowEnvs(rows) /\ Cardinality(rows') = Cardinality(rows)
  BY <1>1, LaterTable DEF Inv, DataInv
<1>5. DataInv'
  BY <1>1, <1>4, InPlaceStep DEF Inv
<1> QED BY <1>1, <1>3, <1>5 DEF Inv, TaskInv

\* The relay gets the answer to the job it waits for in the place pc.
LEMMA RelayAnswered ==
  ASSUME TaskInv, jobs # << >>, Head(jobs).op \in {"due", "stats"}, Head(jobs).by # None
  PROVE  /\ relay.pc = Head(jobs).op
         /\ relay.last \in BOOLEAN
         /\ life.at \notin Quiet
         /\ Absent(Tail(jobs), Relay)
         /\ Between(Tail(jobs), pub, carrier, relay.pc, memory, life.at, world.confirmed)
<1>1. /\ QueueOK(Tail(jobs), pub, carrier, relay.pc, life.at, world.confirmed)
      /\ Fits(Head(jobs), pub, carrier, relay.pc, life.at, world.confirmed)
      /\ Absent(Tail(jobs), Head(jobs).by)
  BY HeadJob
<1>2. Head(jobs).by = Relay /\ relay.pc = Head(jobs).op
  BY <1>1 DEF Fits
<1>3. relay.last \in BOOLEAN /\ life.at \notin Quiet /\ relay.pc # "carry"
  BY <1>2 DEF TaskInv, TasksAt, Relays
<1>4. Between(Tail(jobs), pub, carrier, relay.pc, memory, life.at, world.confirmed)
  BY <1>1, <1>2, <1>3, IdleIsBetween DEF TaskInv
<1> QED BY <1>1, <1>2, <1>3, <1>4

LEMMA RunDueInv ==
  ASSUME Inv, RunDue
  PROVE  Inv'
<1> DEFINE S == EnsureConn(rows, store)
           gone == RowEnvs(rows) \ RowEnvs(rows')
           batch == Batch(rows) \ Unreadable(rows)
<1>1. /\ jobs # << >> /\ Head(jobs).op = "due"
      /\ rows' = DueRows(rows)
      /\ store' = DueStore(rows, S)
      /\ lost' = [lost EXCEPT !.envs = @ \cup gone]
      /\ IF Head(jobs).by = None
         THEN jobs' = Tail(jobs) /\ UNCHANGED <<carrier, relay, memory>>
         ELSE NextRow(Tail(jobs), memory, batch, relay.last)
      /\ UNCHANGED <<pub, life, world>>
  BY DEF RunDue, Runs
<1>2. TasksAt(jobs', pub, carrier', relay', memory', life.at, world.confirmed)
  <2>1. CASE Head(jobs).by = None
    BY <1>1, <2>1, OrphanStep DEF Inv
  <2>2. CASE Head(jobs).by # None
    <3>1. batch \in SUBSET Row
      BY DEF Inv, DataInv, Table, Batch, Purged
    <3>2. /\ relay.last \in BOOLEAN
          /\ Between(Tail(jobs), pub, carrier, relay.pc, memory, life.at, world.confirmed)
      BY <1>1, <2>2, RelayAnswered DEF Inv
    <3> HIDE DEF batch
    <3> QED BY <1>1, <2>2, <3>1, <3>2, NextRowStep
  <2> QED BY <2>1, <2>2
<1>3. DataInv'
  <2>1. S \in Store /\ S.pending = Cardinality(rows) /\ GivenUp(S) = GivenUp(store)
    BY EnsureConnExact DEF Inv, DataInv
  <2> HIDE DEF S
  <2>2. Table(rows) /\ Cardinality(rows) <= MaxRows
    BY DEF Inv, DataInv
  <2>3. /\ Table(rows') /\ Cardinality(rows') <= MaxRows
        /\ store' \in Store /\ store'.pending = Cardinality(rows')
        /\ IsFiniteSet(gone)
        /\ GivenUp(store) + Cardinality(gone) <= GivenUp(store')
    BY <1>1, <2>1, <2>2, DueExact
  <2>4. gone \subseteq Envelopes
    BY <2>2 DEF Table, Row, RowEnvs
  <2>5. RowEnvs(rows) \subseteq RowEnvs(rows') \cup gone
    OBVIOUS
  <2> HIDE DEF gone
  <2>6. /\ lost' \in Losses /\ lost'.envs = lost.envs \cup gone /\ lost'.unseen = lost.unseen
        /\ lost'.counted = lost.counted
    BY <1>1, <2>4 DEF Inv, DataInv, Losses
  <2>7. world' \in Worlds /\ world.confirmed \subseteq world'.confirmed
    BY <1>1 DEF Inv, DataInv
  <2> QED BY <1>1, <2>3, <2>5, <2>6, <2>7, DataStep DEF Inv, Exact
<1> QED BY <1>1, <1>2, <1>3 DEF Inv, TaskInv

\* The relay leaves the stats behind.
LEMMA PassEnds ==
  ASSUME TaskInv, NEW js, NEW mem \in Memories, mem.inflight = memory.inflight,
         Between(js, pub, carrier, relay.pc, memory, life.at, world.confirmed),
         relay.pc # "carry", NEW last, relay' = AfterPass(last)
  PROVE  TasksAt(js, pub, carrier, relay', mem, life.at, world.confirmed)
<1>1. relay' \in Relays /\ relay'.pc # "carry"
  <2>1. NoRelay \in Relays /\ NoRelay.pc = "off" /\ Sleeping \in Relays /\ Sleeping.pc = "sleep"
    BY DEF NoRelay, Sleeping, Relays
  <2> QED BY <2>1 DEF AfterPass
<1>2. QueueOK(js, pub, carrier, relay'.pc, life.at, world.confirmed)
  BY FrameQueue DEF Between
<1>3. Carried(mem, carrier, Takers)
  BY DEF TaskInv, TasksAt, Carried
<1> QED BY <1>1, <1>2, <1>3 DEF TaskInv, TasksAt, Between

LEMMA RunStatsInv ==
  ASSUME Inv, RunStats
  PROVE  Inv'
<1> DEFINE S == EnsureConn(rows, store)
<1>1. /\ jobs # << >> /\ Head(jobs).op = "stats"
      /\ store' = S
      /\ IF Head(jobs).by = None
         THEN UNCHANGED <<relay, memory>>
         ELSE /\ relay' = AfterPass(relay.last)
              /\ memory' = IF S.pending = 0
                           THEN [memory EXCEPT !.attempts = Fresh.attempts]
                           ELSE memory
      /\ jobs' = Tail(jobs)
      /\ UNCHANGED <<rows, pub, carrier, life, world, lost>>
  BY DEF RunStats, Runs
<1>2. TasksAt(jobs', pub, carrier, relay', memory', life.at, world.confirmed)
  <2>1. CASE Head(jobs).by = None
    BY <1>1, <2>1, OrphanStep DEF Inv
  <2>2. CASE Head(jobs).by # None
    <3>1. memory' \in Memories /\ memory'.inflight = memory.inflight
      <4>1. memory \in Memories
        BY DEF Inv, TaskInv, TasksAt
      <4>2. Fresh.attempts \in [Envelopes -> 0..MaxBackoff]
        BY OutboxSizes DEF Fresh
      <4>3. memory' = [memory EXCEPT !.attempts = Fresh.attempts] \/ memory' = memory
        BY <1>1, <2>2
      <4> QED BY <4>1, <4>2, <4>3 DEF Memories
    <3>2. /\ relay.pc = "stats"
          /\ Between(Tail(jobs), pub, carrier, relay.pc, memory, life.at, world.confirmed)
      BY <1>1, <2>2, RelayAnswered DEF Inv
    <3>3. relay' = AfterPass(relay.last)
      BY <1>1, <2>2
    <3>4. TasksAt(Tail(jobs), pub, carrier, relay', memory', life.at, world.confirmed)
      BY <3>1, <3>2, <3>3, PassEnds DEF Inv
    <3> QED BY <1>1, <3>4
  <2> QED BY <2>1, <2>2
<1>3. DataInv'
  BY <1>1, ConnOpens DEF Inv
<1> QED BY <1>1, <1>2, <1>3 DEF Inv, TaskInv

LEMMA RunVoidInv ==
  ASSUME Inv, RunVoid
  PROVE  Inv'
<1>1. /\ jobs # << >> /\ jobs' = Tail(jobs)
      /\ UNCHANGED <<rows, store, pub, carrier, relay, memory, life, world, lost>>
  BY DEF RunVoid, Runs
<1>2. TasksAt(jobs', pub, carrier, relay, memory, life.at, world.confirmed)
  BY <1>1, OrphanStep DEF Inv
<1>3. DataInv'
  BY <1>1, OnlyTasks DEF Inv
<1> QED BY <1>1, <1>2, <1>3 DEF Inv, TaskInv

LEMMA JobFailsInv ==
  ASSUME Inv, JobFails
  PROVE  Inv'
<1> DEFINE j == Head(jobs)
<1>1. /\ jobs # << >>
      /\ world' = [world EXCEPT !.faults = @ + 1]
      /\ \E left \in Interrupted(j) : rows' = left.rows /\ store' = left.store
      /\ lost' = [lost EXCEPT !.envs = @ \cup (RowEnvs(rows) \ RowEnvs(rows'))]
      /\ UNCHANGED life
  BY DEF JobFails
<1>2. world' \in Worlds /\ world'.confirmed = world.confirmed
  BY <1>1 DEF Inv, DataInv, Worlds
<1>3. /\ Fits(j, pub, carrier, relay.pc, life.at, world.confirmed)
      /\ QueueOK(Tail(jobs), pub, carrier, relay.pc, life.at, world.confirmed)
      /\ j.by # None => Absent(Tail(jobs), j.by)
  BY <1>1, HeadJob DEF Inv
<1>4. /\ pub' \in [Calls -> PubStates]
      /\ \A d \in Calls : pub'[d] = "durable" => pub[d] = "durable"
      /\ TasksAt(jobs', pub', carrier', relay', memory', life.at, world.confirmed)
  <2>1. CASE j.by = None /\ jobs' = Tail(jobs) /\ UNCHANGED <<pub, carrier, relay, memory>>
    BY <1>1, <2>1, OrphanStep DEF Inv, TaskInv
  <2>2. CASE /\ j.by # None /\ j.op = "append" /\ Degraded(j.by)
             /\ jobs' = Tail(jobs) /\ UNCHANGED <<relay, memory>>
    <3>1. j.by \in Calls /\ pub[j.by] = "appending"
      BY <1>3, <2>2 DEF Fits
    <3>2. carrier[j.by].pc = "none"
      BY <3>1 DEF Inv, TaskInv, TasksAt, SendsOwn
    <3> QED BY <1>3, <2>2, <3>1, <3>2, DegradedStep DEF Inv
  <2>3. CASE /\ j.by # None /\ j.op \in {"ack", "nack"}
             /\ Finish(j.by, j.op = "ack", Tail(jobs), memory) /\ UNCHANGED pub
    <3>1. TasksAt(jobs', pub, carrier', relay', memory', life.at, world.confirmed)
      BY <1>1, <2>3, AnswerStep DEF Inv, TaskInv, TasksAt
    <3> QED BY <2>3, <3>1 DEF Inv, TaskInv
  <2>4. CASE /\ j.by # None /\ j.op = "due"
             /\ ToStats(Tail(jobs), memory, relay.last) /\ UNCHANGED pub
    <3>1. TasksAt(jobs', pub, carrier', relay', memory', life.at, world.confirmed)
      BY <1>1, <2>4, RelayAnswered, ToStatsStep DEF Inv
    <3> QED BY <2>4, <3>1 DEF Inv, TaskInv
  <2>5. CASE /\ j.by # None /\ j.op = "stats" /\ relay' = AfterPass(relay.last)
             /\ jobs' = Tail(jobs) /\ UNCHANGED <<pub, carrier, memory>>
    <3>1. /\ relay.pc = "stats"
          /\ Between(Tail(jobs), pub, carrier, relay.pc, memory, life.at, world.confirmed)
      BY <1>1, <2>5, RelayAnswered DEF Inv
    <3>2. TasksAt(Tail(jobs), pub, carrier, relay', memory, life.at, world.confirmed)
      BY <2>5, <3>1, PassEnds DEF Inv, TaskInv, TasksAt
    <3> QED BY <2>5, <3>2 DEF Inv, TaskInv
  <2> QED BY <2>1, <2>2, <2>3, <2>4, <2>5 DEF JobFails
<1>5. DataInv'
  <2> DEFINE gone == RowEnvs(rows) \ RowEnvs(rows')
  <2>1. Table(rows) /\ Cardinality(rows) <= MaxRows /\ store \in Store /\ Exact(rows, store)
    BY DEF Inv, DataInv
  <2>2. Accounted(rows, store, rows', store')
    BY <1>1, <2>1, InterruptedExact
  <2>3. /\ Table(rows') /\ Cardinality(rows') <= MaxRows /\ store' \in Store /\ Exact(rows', store')
        /\ IsFiniteSet(gone) /\ GivenUp(store) + Cardinality(gone) <= GivenUp(store')
    BY <2>1, <2>2, AccountedEnvs, OutboxSizes DEF Accounted
  <2>4. gone \subseteq Envelopes
    BY <2>1 DEF Table, Row, RowEnvs
  <2>5. RowEnvs(rows) \subseteq RowEnvs(rows') \cup gone
    OBVIOUS
  <2>6. lost' = [lost EXCEPT !.envs = @ \cup gone]
    BY <1>1
  <2> HIDE DEF gone
  <2>7. /\ lost' \in Losses /\ lost'.envs = lost.envs \cup gone /\ lost'.unseen = lost.unseen
        /\ lost'.counted = lost.counted
    BY <2>4, <2>6 DEF Inv, DataInv, Losses
  <2> QED BY <1>2, <1>4, <2>3, <2>5, <2>7, DataStep DEF Inv
<1> QED BY <1>1, <1>2, <1>4, <1>5 DEF Inv, TaskInv

-----------------------------------------------------------------------------
(* start() and close().                                                    *)

\* Only the place of the bus changes.
LEMMA LifeStep ==
  ASSUME Inv, life' \in Lives,
         UNCHANGED <<rows, store, jobs, pub, carrier, relay, memory, world, lost>>,
         life.at # "closing", life'.at \in Quiet => relay.pc = "off"
  PROVE  Inv'
<1>1. QueueOK(jobs, pub, carrier, relay.pc, life'.at, world.confirmed)
  BY FrameQueue DEF Inv, TaskInv, TasksAt
<1>2. TasksAt(jobs, pub, carrier, relay, memory, life'.at, world.confirmed)
  BY <1>1 DEF Inv, TaskInv, TasksAt
<1>3. DataInv'
  BY OnlyTasks DEF Inv
<1> QED BY <1>2, <1>3 DEF Inv, TaskInv

LEMMA StartInv ==
  ASSUME Inv, Start
  PROVE  Inv'
<1>1. /\ life.at \in {"new", "closed"}
      /\ life' = [at |-> "running", waited |-> {}]
      /\ relay' = [pc |-> "begin", batch |-> {}, last |-> FALSE]
      /\ UNCHANGED <<rows, store, jobs, pub, carrier, memory, world, lost>>
  BY DEF Start, Idle, NoRelay
<1>2. life' \in Lives /\ life'.at = "running" /\ relay' \in Relays /\ relay'.pc = "begin"
  BY <1>1 DEF Lives, Relays
<1>3. relay.pc = "off" /\ carrier[Relay].pc = "none"
  BY <1>1 DEF Inv, TaskInv, TasksAt, Quiet
<1>4. Absent(jobs, Relay)
  BY <1>3, Apart, NobodyWaits DEF Inv, TaskInv, TasksAt, Takers
<1>5. QueueOK(jobs, pub, carrier, relay'.pc, life'.at, world.confirmed)
  BY <1>1, <1>4, FrameQueue DEF Inv, TaskInv, TasksAt
<1>6. TasksAt(jobs, pub, carrier, relay', memory, life'.at, world.confirmed)
  BY <1>2, <1>3, <1>5 DEF Inv, TaskInv, TasksAt, Quiet
<1>7. DataInv'
  BY <1>1, OnlyTasks DEF Inv
<1> QED BY <1>1, <1>2, <1>6, <1>7 DEF Inv, TaskInv

LEMMA CloseStepsInv ==
  ASSUME Inv, CloseBegin \/ DrainEnds \/ Gather \/ GatherTimeout
  PROVE  Inv'
<1>1. life \in Lives
  BY DEF Inv, TaskInv
<1>2. /\ life' \in Lives /\ life.at # "closing" /\ (life'.at \in Quiet => relay.pc = "off")
      /\ UNCHANGED <<rows, store, jobs, pub, carrier, relay, memory, world, lost>>
  <2>1. CASE CloseBegin
    BY <1>1, <2>1 DEF CloseBegin, Lives, Quiet
  <2>2. CASE DrainEnds
    BY <1>1, <2>2 DEF DrainEnds, Lives, Quiet
  <2>3. CASE Gather
    BY <1>1, <2>3 DEF Gather, Lives
  <2>4. CASE GatherTimeout
    <3>1. relay.pc = "off"
      BY <2>4 DEF GatherTimeout, Inv, TaskInv, TasksAt, Quiet
    <3> QED BY <1>1, <2>4, <3>1 DEF GatherTimeout, Lives
  <2> QED BY <2>1, <2>2, <2>3, <2>4
<1> QED BY <1>2, LifeStep

LEMMA StopRelayInv ==
  ASSUME Inv, StopRelay \/ FinalTimeout
  PROVE  Inv'
<1>1. /\ life' \in Lives /\ life'.at \notin Quiet /\ life.at # "closing" /\ CancelPass
      /\ UNCHANGED <<rows, store, pub, world, lost>>
  <2>1. life \in Lives
    BY DEF Inv, TaskInv
  <2>2. CASE StopRelay
    BY <2>1, <2>2 DEF StopRelay, Lives, Quiet
  <2>3. CASE FinalTimeout
    BY <2>1, <2>3 DEF FinalTimeout, Lives, Quiet
  <2> QED BY <2>2, <2>3
<1>2. TasksAt(jobs', pub, carrier', relay', memory', life'.at, world.confirmed)
  BY <1>1, CancelPassStep DEF Inv, TaskInv
<1>3. DataInv'
  BY <1>1, OnlyTasks DEF Inv
<1> QED BY <1>1, <1>2, <1>3 DEF Inv, TaskInv

LEMMA CancelSendInv ==
  ASSUME Inv, NEW c \in Calls, CancelSend(c)
  PROVE  Inv'
<1>1. carrier[c].pc # "none" /\ UNCHANGED <<rows, store, pub, life, world, lost>>
  BY DEF CancelSend
<1>2. PICK js \in WithoutJobOf(c) : Finish(c, FALSE, js, memory)
  BY DEF CancelSend
<1>3. /\ QueueOK(js, pub, carrier, relay.pc, life.at, world.confirmed) /\ Absent(js, c)
      /\ c \in Takers
  BY VoidedQueue DEF Inv, TaskInv, TasksAt, Takers
<1>4. TasksAt(jobs', pub, carrier', relay', memory', life.at, world.confirmed)
  BY <1>1, <1>2, <1>3, FinishStep DEF Inv, TaskInv, TasksAt
<1>5. DataInv'
  BY <1>1, OnlyTasks DEF Inv
<1> QED BY <1>1, <1>4, <1>5 DEF Inv, TaskInv

LEMMA FinalPassInv ==
  ASSUME Inv, FinalPass
  PROVE  Inv'
<1>1. /\ life.at \in {"gather", "cancelling"}
      /\ life' = [at |-> "final", waited |-> {}]
      /\ BeginPass(TRUE)
      /\ UNCHANGED <<rows, store, pub, world, lost>>
  BY DEF FinalPass
<1>2. life' \in Lives /\ life'.at = "final"
  BY <1>1 DEF Lives
<1>3. relay.pc = "off"
  BY <1>1 DEF Inv, TaskInv, TasksAt, Quiet
<1>4. TasksAt(jobs', pub, carrier', relay', memory', life'.at, world.confirmed)
  BY <1>1, <1>2, <1>3, BeginPassStep DEF Inv, TaskInv, Quiet
<1>5. DataInv'
  BY <1>1, OnlyTasks DEF Inv
<1> QED BY <1>1, <1>2, <1>4, <1>5 DEF Inv, TaskInv

LEMMA CloseOutboxInv ==
  ASSUME Inv, CloseOutbox
  PROVE  Inv'
<1>1. /\ life.at \in {"final", "ending"} /\ relay.pc = "off" /\ life \in Lives
      /\ UNCHANGED <<rows, store, pub, carrier, relay, memory, world, lost>>
  BY DEF CloseOutbox, Inv, TaskInv
<1>2. CASE store.alive
  <2> DEFINE j == Job("close", Closer, None, 0)
  <2>1. life' = [life EXCEPT !.at = "closing"] /\ jobs' = Append(jobs, j)
    BY <1>2 DEF CloseOutbox, Submitted
  <2>2. life' \in Lives /\ life'.at = "closing"
    BY <1>1, <2>1 DEF Lives
  <2>3. Absent(jobs, Closer)
    <3> SUFFICES ASSUME NEW i \in 1..Len(jobs), jobs[i].by = Closer PROVE FALSE
      BY DEF Absent
    <3>1. jobs[i] \in JobType /\ Fits(jobs[i], pub, carrier, relay.pc, life.at, world.confirmed)
      BY DEF Inv, TaskInv, TasksAt, QueueOK
    <3> QED BY <1>1, <3>1, Apart DEF Fits, JobType, Ops, Takers
  <2>4. QueueOK(jobs, pub, carrier, relay.pc, life'.at, world.confirmed)
    BY <2>3, FrameQueue DEF Inv, TaskInv, TasksAt
  <2>5. /\ j \in JobType /\ j.by = Closer
        /\ Fits(j, pub, carrier, relay.pc, life'.at, world.confirmed)
    BY <2>2, OutboxSizes DEF Job, JobType, Ops, Waits, Fits
  <2> HIDE DEF j
  <2>6. QueueOK(jobs', pub, carrier, relay.pc, life'.at, world.confirmed)
    BY <2>1, <2>3, <2>4, <2>5, AppendQueue
  <2>7. TasksAt(jobs', pub, carrier, relay, memory, life'.at, world.confirmed)
    BY <1>1, <2>6 DEF Inv, TaskInv, TasksAt
  <2>8. DataInv'
    BY <1>1, OnlyTasks DEF Inv
  <2> QED BY <1>1, <2>2, <2>7, <2>8 DEF Inv, TaskInv
<1>3. CASE ~store.alive
  <2>1. life' = [life EXCEPT !.at = "closed"] /\ jobs' = jobs
    BY <1>3 DEF CloseOutbox
  <2>2. life' \in Lives
    BY <1>1, <2>1 DEF Lives
  <2> QED BY <1>1, <2>1, <2>2, LifeStep
<1> QED BY <1>2, <1>3

LEMMA RunCloseInv ==
  ASSUME Inv, RunClose
  PROVE  Inv'
<1>1. /\ jobs # << >> /\ Head(jobs).op = "close"
      /\ store' = [store EXCEPT !.alive = FALSE, !.open = FALSE]
      /\ life' = [life EXCEPT !.at = "closed"]
      /\ jobs' = Tail(jobs)
      /\ UNCHANGED <<rows, pub, carrier, relay, memory, world, lost>>
  BY DEF RunClose, Runs
<1>2. /\ QueueOK(Tail(jobs), pub, carrier, relay.pc, life.at, world.confirmed)
      /\ Fits(Head(jobs), pub, carrier, relay.pc, life.at, world.confirmed)
      /\ Head(jobs).by # None => Absent(Tail(jobs), Head(jobs).by)
  BY <1>1, HeadJob DEF Inv
<1>3. life.at = "closing" /\ Absent(Tail(jobs), Closer)
  BY <1>1, <1>2, Apart DEF Fits
<1>4. life' \in Lives /\ relay.pc = "off"
  BY <1>1, <1>3 DEF Inv, TaskInv, TasksAt, Lives, Quiet
<1>5. QueueOK(Tail(jobs), pub, carrier, relay.pc, life'.at, world.confirmed)
  BY <1>2, <1>3, FrameQueue
<1>6. TasksAt(jobs', pub, carrier, relay, memory, life'.at, world.confirmed)
  BY <1>1, <1>4, <1>5 DEF Inv, TaskInv, TasksAt
<1>7. DataInv'
  <2>0. store \in Store
    BY DEF Inv, DataInv
  <2>1. store' \in Store
    BY <1>1, <2>0 DEF Store
  <2>2. ~store'.open
    BY <1>1, <2>0 DEF Store
  <2>3. /\ store'.dropped = store.dropped
        /\ store'.expired = store.expired /\ store'.corrupt = store.corrupt
    BY <1>1, <2>0 DEF Store
  <2>4. Exact(rows', store') /\ GivenUp(store') = GivenUp(store)
    BY <2>2, <2>3 DEF Exact, GivenUp
  <2>5. Table(rows') /\ Cardinality(rows') <= MaxRows /\ RowEnvs(rows') = RowEnvs(rows)
    BY <1>1 DEF Inv, DataInv
  <2>6. world' \in Worlds /\ world'.confirmed = world.confirmed
    BY <1>1 DEF Inv, DataInv
  <2> QED BY <1>1, <2>1, <2>4, <2>5, <2>6, LosslessStep DEF Inv
<1> QED BY <1>1, <1>4, <1>6, <1>7 DEF Inv, TaskInv

-----------------------------------------------------------------------------
(* The environment.                                                        *)

\* The tasks of a fresh process.
LEMMA FreshTasks ==
  ASSUME NEW conf, NEW pb
  PROVE  TasksAt(<< >>, pb, [k \in Takers |-> NoCarrier], NoRelay, Fresh, "new", conf)
<1>1. [k \in Takers |-> NoCarrier] \in [Takers -> Carriers]
  BY DEF Carriers
<1>2. NoRelay \in Relays /\ NoRelay.pc = "off"
  BY DEF NoRelay, Relays
<1>3. Fresh \in Memories /\ Fresh.inflight = {}
  BY OutboxSizes DEF Fresh, Memories
<1>4. QueueOK(<< >>, pb, [k \in Takers |-> NoCarrier], NoRelay.pc, "new", conf)
  BY DEF QueueOK
<1>5. \A k \in Takers : [n \in Takers |-> NoCarrier][k].pc = "none"
  BY DEF NoCarrier
<1> QED BY <1>1, <1>2, <1>3, <1>4, <1>5 DEF TasksAt, SendsOwn, Carried, Takers

\* And its store.
LEMMA FreshStore ==
  ASSUME NEW overflow \in Overflows
  PROVE  /\ NewStore(overflow) \in Store
         /\ ~NewStore(overflow).open
         /\ GivenUp(NewStore(overflow)) = 0
BY DEF NewStore, Store, GivenUp

LEMMA CrashInv ==
  ASSUME Inv, Crash
  PROVE  Inv'
<1>1. /\ world' = [world EXCEPT !.crashes = @ + 1]
      /\ store' = NewStore(store.overflow)
      /\ jobs' = << >>
      /\ pub' = [c \in Calls |-> IF pub[c] = "appending" THEN "cancelled" ELSE pub[c]]
      /\ carrier' = [k \in DOMAIN carrier |-> NoCarrier]
      /\ relay' = NoRelay
      /\ memory' = Fresh
      /\ life' = Idle
  BY DEF Crash
<1>2. DOMAIN carrier = Takers
  BY DEF Inv, TaskInv, TasksAt
<1>3. pub' \in [Calls -> PubStates] /\ \A c \in Calls : pub'[c] = "durable" => pub[c] = "durable"
  BY <1>1 DEF Inv, TaskInv, PubStates
<1>4. life' \in Lives /\ life'.at = "new"
  BY <1>1 DEF Idle, Lives
<1>5. TasksAt(jobs', pub', carrier', relay', memory', life'.at, world'.confirmed)
  BY <1>1, <1>2, <1>4, FreshTasks
<1>6. world' \in Worlds /\ world'.confirmed = world.confirmed
  BY <1>1 DEF Inv, DataInv, Worlds
<1>7. store' \in Store /\ ~store'.open /\ GivenUp(store') = 0
  BY <1>1, FreshStore DEF Inv, DataInv, Store
<1>0. PICK left \in Interrupted(Running) : \E gone \in {{}, NextDelete(Running, left.rows)} :
        /\ rows' = left.rows \ gone
        /\ lost' = [envs    |-> lost.envs \cup (RowEnvs(rows) \ RowEnvs(rows')),
                    unseen  |-> lost.unseen \cup RowEnvs(gone),
                    counted |-> lost.counted + left.store.dropped + left.store.expired + left.store.corrupt]
  BY DEF Crash
<1>8. PICK gone \in SUBSET left.rows :
        /\ rows' = left.rows \ gone
        /\ lost' = [envs    |-> lost.envs \cup (RowEnvs(rows) \ RowEnvs(rows')),
                    unseen  |-> lost.unseen \cup RowEnvs(gone),
                    counted |-> lost.counted + left.store.dropped + left.store.expired + left.store.corrupt]
  <2>1. NextDelete(Running, left.rows) \subseteq left.rows
    BY DEF NextDelete
  <2> QED BY <1>0, <2>1
<1>9. Table(rows) /\ Cardinality(rows) <= MaxRows /\ store \in Store /\ Exact(rows, store) /\ lost \in Losses
  BY DEF Inv, DataInv
<1>10. Accounted(rows, store, left.rows, left.store)
  BY <1>9, InterruptedExact
<1>11. /\ Table(left.rows) /\ Cardinality(left.rows) \in Nat /\ Cardinality(left.rows) <= MaxRows
       /\ IsFiniteSet(RowEnvs(rows) \ RowEnvs(left.rows))
       /\ GivenUp(store) + Cardinality(RowEnvs(rows) \ RowEnvs(left.rows)) <= GivenUp(left.store)
       /\ left.store \in Store /\ left.rows \subseteq rows
  <2>1. left.store \in Store /\ left.rows \subseteq rows
    BY <1>10 DEF Accounted
  <2>2. /\ Table(left.rows) /\ Cardinality(left.rows) \in Nat /\ Cardinality(left.rows) <= Cardinality(rows)
        /\ Cardinality(rows) \in Nat
        /\ IsFiniteSet(RowEnvs(rows) \ RowEnvs(left.rows))
        /\ GivenUp(store) + Cardinality(RowEnvs(rows) \ RowEnvs(left.rows)) <= GivenUp(left.store)
    BY <1>9, <1>10, AccountedEnvs
  <2> QED BY <1>9, <2>1, <2>2, OutboxSizes
<1>12. Table(rows') /\ Cardinality(rows') <= MaxRows
  <2>1. rows' \subseteq left.rows
    BY <1>8
  <2>2. Cardinality(rows') \in Nat /\ Cardinality(rows') <= Cardinality(left.rows) /\ Table(rows')
    BY <1>11, <2>1, PartOfTable
  <2> QED BY <1>11, <2>2, OutboxSizes
<1>13. RowEnvs(rows) \subseteq Envelopes /\ RowEnvs(gone) \subseteq RowEnvs(rows)
  BY <1>9, <1>11 DEF Table, Row, RowEnvs
<1>14. /\ left.store.dropped \in Nat /\ left.store.expired \in Nat /\ left.store.corrupt \in Nat
       /\ lost.counted \in Nat /\ lost.envs \subseteq Envelopes /\ lost.unseen \subseteq Envelopes
  BY <1>9, <1>11 DEF Store, Losses
<1>15. lost'.counted = lost.counted + GivenUp(left.store) /\ lost'.counted \in Nat /\ GivenUp(left.store) \in Nat
  BY <1>8, <1>14 DEF GivenUp
<1>16. /\ lost'.envs = lost.envs \cup (RowEnvs(rows) \ RowEnvs(rows'))
       /\ lost'.unseen = lost.unseen \cup RowEnvs(gone)
  BY <1>8
<1>17. lost' \in Losses
  <2>1. lost' = [envs |-> lost'.envs, unseen |-> lost'.unseen, counted |-> lost'.counted]
    BY <1>8
  <2>2. lost'.envs \in SUBSET Envelopes /\ lost'.unseen \in SUBSET Envelopes
    BY <1>13, <1>14, <1>16
  <2> QED BY <1>15, <2>1, <2>2 DEF Losses
<1>18. Cardinality(lost'.envs \ lost'.unseen) <= lost'.counted + GivenUp(store')
  <2> DEFINE E == lost.envs \ lost.unseen
             F == lost'.envs \ lost'.unseen
             G == RowEnvs(rows) \ RowEnvs(left.rows)
  <2>1. RowEnvs(left.rows) \subseteq RowEnvs(rows') \cup RowEnvs(gone)
    BY <1>8 DEF RowEnvs
  <2>2. F \subseteq E \cup G
    BY <1>16, <2>1
  <2>3. IsFiniteSet(E) /\ IsFiniteSet(G)
    BY <1>11, <1>14, OutboxAssumption, FS_Subset
  <2>4. Cardinality(E) <= lost.counted + GivenUp(store)
    BY DEF Inv, DataInv
  <2>5. GivenUp(store) + Cardinality(G) <= GivenUp(left.store)
    BY <1>11
  <2>6. GivenUp(store) \in Nat
    BY <1>9 DEF GivenUp, Store
  <2> HIDE DEF E, F, G
  <2>7. /\ Cardinality(E) \in Nat /\ Cardinality(G) \in Nat /\ Cardinality(F) \in Nat
        /\ Cardinality(F) <= Cardinality(E) + Cardinality(G)
    BY <2>2, <2>3, GrowsByNoMore
  <2>8. Cardinality(F) <= lost'.counted + GivenUp(store')
    BY <1>7, <1>14, <1>15, <2>4, <2>5, <2>6, <2>7
  <2> QED BY <2>8 DEF F
<1>19. Durable'
  <2>1. RowEnvs(rows) \subseteq RowEnvs(rows') \cup lost'.envs /\ lost.envs \subseteq lost'.envs
    BY <1>16
  <2> QED BY <1>3, <1>6, <2>1 DEF Inv, DataInv, Durable
<1>20. DataInv'
  BY <1>6, <1>7, <1>12, <1>17, <1>18, <1>19 DEF DataInv, Exact
<1> QED BY <1>3, <1>4, <1>5, <1>20 DEF Inv, TaskInv

LEMMA RecoverInv ==
  ASSUME Inv, Recover
  PROVE  Inv'
<1>1. /\ world' = [world EXCEPT !.up = TRUE]
      /\ UNCHANGED <<rows, store, jobs, pub, carrier, relay, memory, life, lost>>
  BY DEF Recover
<1>2. world' \in Worlds /\ world'.confirmed = world.confirmed
  BY <1>1 DEF Inv, DataInv, Worlds
<1>3. DataInv'
  BY <1>1, <1>2, StoreUntouched DEF Inv
<1> QED BY <1>1, <1>2, <1>3 DEF Inv, TaskInv

\* Rows change in place and the tasks do not move.
LEMMA TimeStep ==
  ASSUME Inv, Table(rows'), RowEnvs(rows') = RowEnvs(rows),
         Cardinality(rows') = Cardinality(rows),
         UNCHANGED <<store, jobs, pub, carrier, relay, memory, life, world, lost>>
  PROVE  Inv'
<1>1. DataInv'
  BY InPlaceStep DEF Inv
<1> QED BY <1>1 DEF Inv, TaskInv

LEMMA AgeInv ==
  ASSUME Inv, Age
  PROVE  Inv'
<1> DEFINE o == Oldest(Purged(rows))
<1>1. /\ Purged(rows) # {}
      /\ rows' = (rows \ {o}) \cup {[o EXCEPT !.old = TRUE]}
      /\ UNCHANGED <<store, jobs, pub, carrier, relay, memory, life, world, lost>>
  BY DEF Age
<1>2. Purged(rows) \subseteq Row /\ Purged(rows) \subseteq rows /\ Table(rows)
  BY DEF Inv, DataInv, Table, Purged
<1>3. o \in rows
  BY <1>1, <1>2, OldestIsThere
<1> HIDE DEF o
<1>4. Table(rows') /\ RowEnvs(rows') = RowEnvs(rows) /\ Cardinality(rows') = Cardinality(rows)
  BY <1>1, <1>2, <1>3, AgeTable
<1> QED BY <1>1, <1>4, TimeStep

LEMMA ElapseInv ==
  ASSUME Inv, Elapse
  PROVE  Inv'
<1>1. /\ rows' = Later(rows)
      /\ UNCHANGED <<store, jobs, pub, carrier, relay, memory, life, world, lost>>
  BY DEF Elapse
<1>2. Table(rows') /\ RowEnvs(rows') = RowEnvs(rows) /\ Cardinality(rows') = Cardinality(rows)
  BY <1>1, LaterTable DEF Inv, DataInv
<1> QED BY <1>1, <1>2, TimeStep

-----------------------------------------------------------------------------
(* The theorems.                                                           *)

LEMMA InvInit == Init => Inv
<1> SUFFICES ASSUME Init PROVE Inv
  OBVIOUS
<1>1. PICK overflow \in Overflows : store = NewStore(overflow)
  BY DEF Init
<1>2. store \in Store /\ ~store.open /\ GivenUp(store) = 0
  BY <1>1, FreshStore
<1>3. Table(rows) /\ Cardinality(rows) = 0
  BY FS_EmptySet DEF Init, Table
<1>4. /\ world \in Worlds /\ lost \in Losses /\ lost.envs = {} /\ lost.unseen = {}
      /\ lost.counted = 0
  BY DEF Init, Worlds, Losses
<1>5. DataInv
  BY <1>2, <1>3, <1>4, FS_EmptySet, OutboxSizes DEF DataInv, Exact, Durable, Init
<1>6. /\ pub \in [Calls -> PubStates] /\ life \in Lives /\ life.at = "new"
  BY DEF Init, PubStates, Lives, Idle
<1>7. TasksAt(jobs, pub, carrier, relay, memory, life.at, world.confirmed)
  BY <1>6, FreshTasks DEF Init, Takers
<1> QED BY <1>5, <1>6, <1>7 DEF Inv, TaskInv

LEMMA InvNext == Inv /\ [Next]_vars => Inv'
<1> SUFFICES ASSUME Inv, [Next]_vars PROVE Inv'
  OBVIOUS
<1>1. CASE Start
  BY <1>1, StartInv
<1>2. CASE CloseBegin
  BY <1>2, CloseStepsInv
<1>3. CASE Closing
  BY <1>3, CloseStepsInv, StopRelayInv, FinalPassInv, CloseOutboxInv DEF Closing
<1>4. ASSUME NEW c \in Calls,
             PublishClosed(c) \/ Publish(c) \/ PublishCancelled(c) \/ CancelSend(c)
      PROVE  Inv'
  BY <1>4, PublishClosedInv, PublishInv, PublishCancelledInv, CancelSendInv
<1>5. ASSUME NEW k \in Takers, Carry(k) PROVE Inv'
  BY <1>5, BackendOkInv, BackendFailsInv DEF Carry
<1>6. CASE RelayBegins \/ RelayWakes
  BY <1>6, RelayBeginsInv, RelayWakesInv
<1>7. CASE Run
  BY <1>7, RunAppendRefusedInv, RunAppendInv, RunAckInv, RunNackInv, RunDueInv,
     RunStatsInv, RunVoidInv, RunCloseInv DEF Run
<1>8. CASE JobFails
  BY <1>8, JobFailsInv
<1>9. CASE Crash
  BY <1>9, CrashInv
<1>10. CASE Recover
  BY <1>10, RecoverInv
<1>11. CASE Age \/ Elapse
  BY <1>11, AgeInv, ElapseInv
<1>12. CASE UNCHANGED vars
  BY <1>12, OnlyTasks DEF vars, Inv, TaskInv
<1> QED BY <1>1, <1>2, <1>3, <1>4, <1>5, <1>6, <1>7, <1>8, <1>9, <1>10, <1>11, <1>12
     DEF Next, Takers

\* The executor's queue, the tasks, the table and the counters of the store fit
\* together at every step of publish(), the relay, close() and the executor.
THEOREM OutboxInvariant == Spec => []Inv
<1> QED BY InvInit, InvNext, PTL DEF Spec

\* The write-ahead rule of publish(): a call that has returned from its append
\* is on disk, confirmed by the backend or given up by the store, whatever
\* tasks, cancellations, failures, crashes and restarts come in between.
THEOREM OutboxIsDurable == Spec => []Durable
<1>1. Inv => Durable
  BY DEF Inv, DataInv
<1> QED BY <1>1, OutboxInvariant, PTL

\* "every drop or expiry is counted", by this process or one that crashed, but
\* for the rows of the one DELETE a process may die in before it counts them.
THEOREM OutboxCountsLosses == Spec => []LossesCounted
<1>1. Inv => LossesCounted
  <2> SUFFICES ASSUME Inv PROVE LossesCounted
    OBVIOUS
  <2>1. /\ store.dropped \in Nat /\ store.expired \in Nat /\ store.corrupt \in Nat
        /\ lost.counted \in Nat
    BY DEF Inv, DataInv, Store, Losses
  <2>2. Cardinality(lost.envs \ lost.unseen) \in Nat
    BY OutboxAssumption, FS_Subset, FS_CardinalityType DEF Inv, DataInv, Losses
  <2> QED BY <2>1, <2>2 DEF Inv, DataInv, GivenUp, LossesCounted
<1> QED BY <1>1, OutboxInvariant, PTL

\* _pending, kept by arithmetic on row counts, is exact while the connection is
\* open, and the table stays within max_rows.
THEOREM OutboxPendingIsExact == Spec => []PendingExact
<1>1. Inv => PendingExact
  BY DEF Inv, DataInv, Exact, PendingExact
<1> QED BY <1>1, OutboxInvariant, PTL

\* No envelope is left in _outbox_inflight by a task that has ended: the relay
\* would skip its row until the process is restarted.
THEOREM OutboxNoInflightLeak == Spec => []InflightIsCarried
<1>1. Inv => InflightIsCarried
  BY DEF Inv, TaskInv, TasksAt, Carried, Takers, InflightIsCarried
<1> QED BY <1>1, OutboxInvariant, PTL

\* When close() closes the store the relay has ended and has no job queued.
THEOREM OutboxQuietAfterClose == Spec => []QuietAfterClose
<1>1. Inv => QuietAfterClose
  <2> SUFFICES ASSUME Inv, life.at \in {"closing", "closed"}
               PROVE  relay.pc = "off" /\ \A i \in DOMAIN jobs : jobs[i].by # Relay
    BY DEF QuietAfterClose
  <2>1. relay.pc = "off" /\ carrier[Relay].pc = "none"
    BY DEF Inv, TaskInv, TasksAt, Quiet
  <2>2. Absent(jobs, Relay) /\ jobs \in Seq(JobType)
    BY <2>1, Apart, NobodyWaits DEF Inv, TaskInv, TasksAt, Takers, QueueOK
  <2> QED BY <2>1, <2>2 DEF Absent
<1> QED BY <1>1, OutboxInvariant, PTL

-----------------------------------------------------------------------------
(* One task for an envelope, where each call has an envelope of its own.   *)

\* No two calls publish the same envelope: each has one made for it.
OwnEnvelopes == \A c, d \in Calls : EnvOf[c] = EnvOf[d] => c = d

Appended == {"durable", "cancelled"}

\* The envelope of a call that has not appended it is not in the table, nor in
\* an append that nobody waits for.
StoreOne(R, js, pb) ==
  /\ \A c \in Calls : EnvOf[c] \in RowEnvs(R) => pb[c] \in Appended
  /\ \A i \in 1..Len(js) : js[i].op = "append" /\ js[i].by = None =>
       \A c \in Calls : js[i].env = EnvOf[c] => pb[c] = "cancelled"

\* Nor in what the relay has read or carries.  What a call has appended and
\* publishes is in flight, and the relay does not carry it.
TasksOne(pb, ca, batch, mem) ==
  /\ \A c \in Calls : EnvOf[c] \in RowEnvs(batch) => pb[c] \in Appended
  /\ ca[Relay].pc # "none" => \A c \in Calls : ca[Relay].env = EnvOf[c] =>
       pb[c] \in Appended /\ ~(ca[c].pc # "none" /\ pb[c] = "durable")
  /\ \A c \in Calls : ca[c].pc # "none" /\ pb[c] = "durable" => EnvOf[c] \in mem.inflight

OneInv == Inv /\ StoreOne(rows, jobs, pub) /\ TasksOne(pub, carrier, relay.batch, memory)

\* The appends that nobody waits for are among those of js.
OrphansIn(q, js) ==
  \A i \in 1..Len(q) : q[i].op = "append" /\ q[i].by = None =>
    \E n \in 1..Len(js) : js[n].op = "append" /\ js[n].by = None /\ js[n].env = q[i].env

LEMMA TailOrphans ==
  ASSUME NEW js \in Seq(JobType), js # << >>
  PROVE  Tail(js) \in Seq(JobType) /\ OrphansIn(Tail(js), js)
<1>1. /\ Len(js) \in Nat /\ Len(Tail(js)) = Len(js) - 1 /\ Tail(js) \in Seq(JobType)
      /\ \A i \in 1..Len(Tail(js)) : Tail(js)[i] = js[i + 1] /\ i + 1 \in 1..Len(js)
  OBVIOUS
<1> QED BY <1>1 DEF OrphansIn

LEMMA AppendOrphans ==
  ASSUME NEW js \in Seq(JobType), NEW j \in JobType, j.op # "append" \/ j.by # None
  PROVE  OrphansIn(Append(js, j), js)
<1> DEFINE q == Append(js, j)
<1>1. /\ Len(js) \in Nat /\ Len(q) = Len(js) + 1 /\ q[Len(js) + 1] = j
      /\ \A i \in 1..Len(js) : q[i] = js[i]
  OBVIOUS
<1>2. \A i \in 1..Len(q) : i \in 1..Len(js) \/ i = Len(js) + 1
  BY <1>1
<1> HIDE DEF q
<1>3. OrphansIn(q, js)
  BY <1>1, <1>2 DEF OrphansIn
<1> QED BY <1>3 DEF q

LEMMA OrphansChain ==
  ASSUME NEW q, NEW r, NEW s, OrphansIn(q, r), OrphansIn(r, s)
  PROVE  OrphansIn(q, s)
BY DEF OrphansIn

\* Cancelling a task that awaits no append orphans none.
LEMMA VoidedOrphans ==
  ASSUME TaskInv, NEW k \in Takers, k \in Calls => pub[k] # "appending", NEW js \in WithoutJobOf(k)
  PROVE  js \in Seq(JobType) /\ OrphansIn(js, jobs)
<1>1. QueueOK(jobs, pub, carrier, relay.pc, life.at, world.confirmed)
  BY DEF TaskInv, TasksAt
<1>2. js \in Seq(JobType)
  BY <1>1, VoidedQueue DEF QueueOK
<1>3. /\ jobs \in Seq(JobType) /\ Len(jobs) \in Nat /\ DOMAIN jobs = 1..Len(jobs)
      /\ \A i \in 1..Len(jobs) : jobs[i] \in JobType /\ Fits(jobs[i], pub, carrier, relay.pc, life.at, world.confirmed)
  BY <1>1 DEF QueueOK
<1>4. k # None
  BY Apart DEF Takers
<1>5. \A i \in 1..Len(jobs) : jobs[i].by = k => jobs[i].op # "append"
  BY <1>3, <1>4 DEF Fits
<1>6. CASE js = [i \in DOMAIN jobs |-> IF jobs[i].by = k THEN Job("void", None, None, 0) ELSE jobs[i]]
  <2>1. Len(js) = Len(jobs)
    BY <1>3, <1>6
  <2>2. ASSUME NEW i \in 1..Len(js), js[i].op = "append" PROVE js[i] = jobs[i]
    <3>1. i \in DOMAIN jobs
      BY <1>3, <2>1
    <3>2. Job("void", None, None, 0).op = "void"
      BY DEF Job
    <3> QED BY <1>6, <2>2, <3>1, <3>2
  <2> QED BY <1>2, <2>1, <2>2 DEF OrphansIn
<1>7. CASE jobs # << >> /\ Head(jobs).by = k /\ js = [jobs EXCEPT ![1].by = None]
  <2>1. 1 \in 1..Len(jobs) /\ jobs[1].by = k /\ Len(js) = Len(jobs)
    BY <1>3, <1>7
  <2>2. js[1].op = jobs[1].op /\ \A i \in 1..Len(jobs) : i # 1 => js[i] = jobs[i]
    <3>1. jobs[1] \in JobType
      BY <1>3, <2>1
    <3>2. [jobs[1] EXCEPT !.by = None].op = jobs[1].op
      BY <3>1 DEF JobType
    <3>3. js = [jobs EXCEPT ![1] = [jobs[1] EXCEPT !.by = None]]
      BY <1>7
    <3> QED BY <1>3, <2>1, <3>2, <3>3
  <2>3. js[1].op # "append"
    BY <1>5, <2>1, <2>2
  <2> QED BY <1>2, <2>1, <2>2, <2>3 DEF OrphansIn
<1> QED BY <1>6, <1>7 DEF WithoutJobOf

LEMMA StoreKept ==
  ASSUME StoreOne(rows, jobs, pub), pub' = pub, RowEnvs(rows') \subseteq RowEnvs(rows), OrphansIn(jobs', jobs)
  PROVE  StoreOne(rows', jobs', pub')
BY DEF StoreOne, OrphansIn

\* The relay goes to its stats or to a row that is not in flight.
LEMMA RelayGoesOn ==
  ASSUME TaskInv, NEW js \in Seq(JobType), NEW mem, NEW batch \in SUBSET Row, NEW last,
         \A c \in Calls : EnvOf[c] \in RowEnvs(batch) => pub[c] \in Appended,
         \A c \in Calls : carrier[c].pc # "none" /\ pub[c] = "durable" => EnvOf[c] \in mem.inflight,
         mem \in Memories,
         ToStats(js, mem, last) \/ NextRow(js, mem, batch, last)
  PROVE  TasksOne(pub, carrier', relay'.batch, memory') /\ OrphansIn(jobs', js)
<1> DEFINE free == {r \in batch : r.env \notin mem.inflight}
<1>0. carrier \in [Takers -> Carriers] /\ Relay \notin Calls
  BY Apart DEF TaskInv, TasksAt
<1>1. CASE ToStats(js, mem, last)
  <2>1. memory' = mem /\ carrier' = [carrier EXCEPT ![Relay] = NoCarrier]
    BY <1>1 DEF ToStats
  <2>2. carrier'[Relay].pc = "none" /\ \A c \in Calls : carrier'[c] = carrier[c]
    BY <1>0, <2>1 DEF Takers, NoCarrier
  <2>3. relay'.batch = {}
    BY <1>1 DEF ToStats, AfterPass, NoRelay, Sleeping
  <2>4. OrphansIn(jobs', js)
    <3> DEFINE j == Job("stats", Relay, None, 0)
    <3>1. j \in JobType /\ j.by # None
      BY Apart, OutboxSizes DEF Job, JobType, Ops, Waits, Takers
    <3>2. jobs' = Append(js, j) \/ jobs' = js
      BY <1>1 DEF ToStats
    <3> HIDE DEF j
    <3>3. OrphansIn(Append(js, j), js) /\ OrphansIn(js, js)
      BY <3>1, AppendOrphans DEF OrphansIn
    <3> QED BY <3>2, <3>3
  <2> QED BY <2>1, <2>2, <2>3, <2>4 DEF TasksOne, RowEnvs
<1>2. CASE free # {} /\ NextRow(js, mem, batch, last)
  <2> DEFINE row == Oldest(free)
  <2>1. row \in free
    <3>1. free \subseteq Row
      OBVIOUS
    <3> HIDE DEF free
    <3> QED BY <1>2, <3>1, OldestIsThere
  <2>2. /\ relay' = [pc |-> "carry", last |-> last, batch |-> {r \in batch : r.at > row.at}]
        /\ carrier' = [carrier EXCEPT ![Relay] = [pc |-> "publish", env |-> row.env]]
        /\ memory' = [mem EXCEPT !.inflight = @ \cup {row.env}]
        /\ jobs' = js
    BY <1>2 DEF NextRow
  <2>3. row \in batch /\ row.env \notin mem.inflight
    BY <2>1
  <2> HIDE DEF row, free
  <2>4. carrier'[Relay].env = row.env /\ \A c \in Calls : carrier'[c] = carrier[c]
    BY <1>0, <2>2 DEF Takers
  <2>5. relay'.batch \subseteq batch
    BY <2>2
  <2>6. memory'.inflight = mem.inflight \cup {row.env}
    BY <2>2 DEF Memories
  <2>7. row.env \in RowEnvs(batch) /\ RowEnvs(relay'.batch) \subseteq RowEnvs(batch)
    BY <2>3, <2>5 DEF RowEnvs
  <2>8. OrphansIn(jobs', js)
    BY <2>2 DEF OrphansIn
  <2> QED BY <2>3, <2>4, <2>6, <2>7, <2>8 DEF TasksOne
<1>3. CASE free = {} /\ NextRow(js, mem, batch, last)
  BY <1>1, <1>3 DEF NextRow
<1> QED BY <1>1, <1>2, <1>3

\* A task returns from _backend_publish: what it releases is nobody else's.
LEMMA FinishOne ==
  ASSUME OwnEnvelopes, OneInv, NEW k \in Takers, NEW ok, NEW js \in Seq(JobType), NEW mem \in Memories,
         carrier[k].pc # "none", mem.inflight = memory.inflight, Finish(k, ok, js, mem)
  PROVE  TasksOne(pub, carrier', relay'.batch, memory') /\ OrphansIn(jobs', js)
<1> DEFINE free == [mem EXCEPT !.inflight = @ \ {carrier[k].env}]
<1>0. /\ carrier \in [Takers -> Carriers] /\ Relay \notin Calls /\ relay.batch \in SUBSET Row
      /\ SendsOwn(pub, carrier) /\ TasksOne(pub, carrier, relay.batch, memory)
  BY Apart DEF OneInv, Inv, TaskInv, TasksAt, Relays
<1>1. free \in Memories /\ free.inflight = memory.inflight \ {carrier[k].env}
  BY DEF Memories
<1>2. ASSUME NEW c \in Calls, c # k, carrier[c].pc # "none", pub[c] = "durable"
      PROVE  EnvOf[c] \in free.inflight
  <2>1. EnvOf[c] \in memory.inflight
    BY <1>0, <1>2 DEF TasksOne
  <2>2. EnvOf[c] # carrier[k].env
    <3>1. CASE k = Relay
      BY <1>0, <1>2, <3>1 DEF TasksOne
    <3>2. CASE k \in Calls
      BY <1>0, <1>2, <3>2 DEF SendsOwn, OwnEnvelopes
    <3> QED BY <3>1, <3>2 DEF Takers
  <2> QED BY <1>1, <2>1, <2>2
<1>3. CASE k # Relay
  <2>1. /\ carrier' = [carrier EXCEPT ![k] = NoCarrier]
        /\ memory' = free /\ jobs' = js /\ relay' = relay
    BY <1>3 DEF Finish
  <2> HIDE DEF free
  <2>2. /\ carrier'[k].pc = "none" /\ carrier'[Relay] = carrier[Relay]
        /\ \A c \in Calls : c # k => carrier'[c] = carrier[c]
    BY <1>0, <1>3, <2>1 DEF Takers, NoCarrier
  <2>3. OrphansIn(jobs', js)
    BY <2>1 DEF OrphansIn
  <2>4. ASSUME NEW c \in Calls, carrier'[c].pc # "none", pub[c] = "durable" PROVE EnvOf[c] \in memory'.inflight
    BY <1>2, <2>1, <2>2, <2>4
  <2>5. ASSUME carrier'[Relay].pc # "none", NEW c \in Calls, carrier'[Relay].env = EnvOf[c]
        PROVE  pub[c] \in Appended /\ ~(carrier'[c].pc # "none" /\ pub[c] = "durable")
    BY <1>0, <2>2, <2>5 DEF TasksOne
  <2>6. \A c \in Calls : EnvOf[c] \in RowEnvs(relay'.batch) => pub[c] \in Appended
    BY <1>0, <2>1 DEF TasksOne
  <2> QED BY <2>3, <2>4, <2>5, <2>6 DEF TasksOne
<1>4. CASE k = Relay
  <2>1. NextRow(js, free, relay.batch, relay.last) \/ ToStats(js, free, relay.last)
    BY <1>4 DEF Finish
  <2>2. \A c \in Calls : carrier[c].pc # "none" /\ pub[c] = "durable" => EnvOf[c] \in free.inflight
    BY <1>0, <1>2, <1>4
  <2>3. TaskInv /\ \A c \in Calls : EnvOf[c] \in RowEnvs(relay.batch) => pub[c] \in Appended
    BY <1>0 DEF TasksOne, OneInv, Inv
  <2> HIDE DEF free
  <2> QED BY <1>0, <1>1, <2>1, <2>2, <2>3, RelayGoesOn
<1> QED BY <1>3, <1>4

OneAfter ==
  /\ StoreOne(rows', jobs', pub')
  /\ TasksOne(pub', carrier', relay'.batch, memory')

LEMMA TasksGoOn ==
  ASSUME OneInv, pub' = pub, RowEnvs(rows') \subseteq RowEnvs(rows),
         NEW js, OrphansIn(js, jobs), OrphansIn(jobs', js),
         TasksOne(pub, carrier', relay'.batch, memory')
  PROVE  OneAfter
<1>1. OrphansIn(jobs', jobs)
  BY OrphansChain
<1>2. StoreOne(rows', jobs', pub')
  BY <1>1, StoreKept DEF OneInv
<1> QED BY <1>2 DEF OneAfter

\* A step in which no task takes up or leaves an envelope.
LEMMA OneStays ==
  ASSUME OneInv, pub' = pub, RowEnvs(rows') \subseteq RowEnvs(rows), OrphansIn(jobs', jobs),
         relay'.batch \subseteq relay.batch,
         \A k \in Takers : /\ carrier'[k].env = carrier[k].env
                           /\ carrier'[k].pc = "none" <=> carrier[k].pc = "none",
         memory'.inflight = memory.inflight
  PROVE  OneAfter
<1>1. RowEnvs(relay'.batch) \subseteq RowEnvs(relay.batch)
  BY DEF RowEnvs
<1>2. TasksOne(pub', carrier', relay'.batch, memory')
  BY <1>1 DEF OneInv, TasksOne, Takers
<1>3. StoreOne(rows', jobs', pub')
  BY StoreKept DEF OneInv
<1> QED BY <1>2, <1>3 DEF OneAfter

\* The same, where the carriers and what is in flight do not change.
LEMMA OneIdles ==
  ASSUME OneInv, RowEnvs(rows') \subseteq RowEnvs(rows), OrphansIn(jobs', jobs),
         relay'.batch \subseteq relay.batch, UNCHANGED <<pub, carrier>>,
         memory'.inflight = memory.inflight
  PROVE  OneAfter
BY OneStays

LEMMA SameOrphans == \A js : OrphansIn(js, js)
BY DEF OrphansIn

\* A call that has not appended its envelope goes on, or gives up.
LEMMA CallMoves ==
  ASSUME OneInv, NEW c \in Calls, NEW s, s # "durable", pub[c] \notin Appended,
         pub' = [pub EXCEPT ![c] = s], RowEnvs(rows') \subseteq RowEnvs(rows),
         UNCHANGED <<carrier, relay, memory>>
  PROVE  /\ TasksOne(pub', carrier', relay'.batch, memory')
         /\ \A d \in Calls : EnvOf[d] \in RowEnvs(rows') => pub'[d] \in Appended
         /\ OrphansIn(jobs', jobs) => StoreOne(rows', jobs', pub')
<1>0. pub \in [Calls -> PubStates]
  BY DEF OneInv, Inv, TaskInv
<1>1. \A d \in Calls : pub[d] \in Appended => pub'[d] = pub[d]
  BY <1>0
<1>2. \A d \in Calls : pub'[d] = "durable" => pub[d] = "durable"
  BY <1>0
<1>3. TasksOne(pub', carrier', relay'.batch, memory')
  BY <1>1, <1>2 DEF OneInv, TasksOne
<1>4. \A d \in Calls : EnvOf[d] \in RowEnvs(rows') => pub'[d] \in Appended
  BY <1>1 DEF OneInv, StoreOne
<1>5. ASSUME OrphansIn(jobs', jobs) PROVE StoreOne(rows', jobs', pub')
  <2>1. \A d \in Calls : pub[d] = "cancelled" => pub'[d] = "cancelled"
    BY <1>1 DEF Appended
  <2> QED BY <1>4, <1>5, <2>1 DEF OneInv, StoreOne, OrphansIn
<1> QED BY <1>3, <1>4, <1>5

\* Its append failed.
LEMMA DegradedOne ==
  ASSUME OneInv, NEW c \in Calls, pub[c] \notin Appended, Degraded(c),
         OrphansIn(jobs', jobs), RowEnvs(rows') \subseteq RowEnvs(rows), UNCHANGED <<relay, memory>>
  PROVE  OneAfter
<1>0. pub \in [Calls -> PubStates] /\ carrier \in [Takers -> Carriers] /\ Relay \notin Calls
  BY Apart DEF OneInv, Inv, TaskInv, TasksAt
<1>1. /\ pub' = [pub EXCEPT ![c] = "degraded"]
      /\ carrier' = [carrier EXCEPT ![c] = [pc |-> "publish", env |-> EnvOf[c]]]
  BY DEF Degraded
<1>2. pub'[c] = "degraded" /\ \A d \in Calls : d # c => pub'[d] = pub[d] /\ carrier'[d] = carrier[d]
  BY <1>0, <1>1 DEF Takers
<1>3. carrier'[Relay] = carrier[Relay]
  BY <1>0, <1>1 DEF Takers
<1>4. \A d \in Calls : pub[d] \in Appended => d # c
  OBVIOUS
<1>5. TasksOne(pub', carrier', relay'.batch, memory')
  BY <1>2, <1>3, <1>4 DEF OneInv, TasksOne
<1>6. StoreOne(rows', jobs', pub')
  BY <1>2, <1>4 DEF OneInv, StoreOne, OrphansIn, Appended
<1> QED BY <1>5, <1>6 DEF OneAfter

LEMMA HeadGoes ==
  ASSUME OneInv, jobs # << >>
  PROVE  Tail(jobs) \in Seq(JobType) /\ OrphansIn(Tail(jobs), jobs)
<1>1. jobs \in Seq(JobType)
  BY DEF OneInv, Inv, TaskInv, TasksAt, QueueOK
<1> QED BY <1>1, TailOrphans

\* A job is added for a task.
LEMMA JobComes ==
  ASSUME OneInv, NEW op, NEW k, NEW e, NEW n, op # "append",
         jobs' = Append(jobs, Job(op, k, e, n)), Job(op, k, e, n) \in JobType
  PROVE  OrphansIn(jobs', jobs)
<1>1. jobs \in Seq(JobType)
  BY DEF OneInv, Inv, TaskInv, TasksAt, QueueOK
<1>2. Job(op, k, e, n).op # "append"
  BY DEF Job
<1> QED BY <1>1, <1>2, AppendOrphans

LEMMA PublishOne ==
  ASSUME OneInv, NEW c \in Calls, Publish(c)
  PROVE  OneAfter
<1>1. pub[c] = "new" /\ UNCHANGED <<rows, store, relay, memory, life, world, lost>>
  BY DEF Publish
<1>2. pub[c] \notin Appended
  BY <1>1 DEF Appended
<1>3. CASE store.alive
  <2> DEFINE j == Job("append", c, EnvOf[c], 0)
  <2>1. /\ pub' = [pub EXCEPT ![c] = "appending"]
        /\ jobs' = Append(jobs, j) /\ carrier' = carrier
    BY <1>3 DEF Publish, Submitted
  <2>2. j \in JobType /\ j.by # None
    BY Apart, OutboxAssumption, OutboxSizes DEF Job, JobType, Ops, Waits, Takers
  <2>3. jobs \in Seq(JobType)
    BY DEF OneInv, Inv, TaskInv, TasksAt, QueueOK
  <2> HIDE DEF j
  <2>4. OrphansIn(jobs', jobs)
    BY <2>1, <2>2, <2>3, AppendOrphans
  <2>5. RowEnvs(rows') \subseteq RowEnvs(rows)
    BY <1>1
  <2>6. TasksOne(pub', carrier', relay'.batch, memory') /\ StoreOne(rows', jobs', pub')
    BY <1>1, <1>2, <2>1, <2>4, <2>5, CallMoves
  <2> QED BY <2>6 DEF OneAfter
<1>4. CASE ~store.alive
  <2>1. Degraded(c) /\ jobs' = jobs
    BY <1>4 DEF Publish
  <2>2. OrphansIn(jobs', jobs)
    BY <2>1, SameOrphans
  <2> QED BY <1>1, <1>2, <2>1, <2>2, DegradedOne
<1> QED BY <1>3, <1>4

\* The append of a call that gives up is for an envelope of its own.
LEMMA PublishCancelledOne ==
  ASSUME OneInv, OwnEnvelopes, NEW c \in Calls, PublishCancelled(c)
  PROVE  OneAfter
<1>1. /\ pub[c] = "appending" /\ jobs' \in WithoutJobOf(c)
      /\ pub' = [pub EXCEPT ![c] = "cancelled"]
      /\ UNCHANGED <<rows, store, carrier, relay, memory, life, world, lost>>
  BY DEF PublishCancelled
<1>2. pub[c] \notin Appended /\ RowEnvs(rows') \subseteq RowEnvs(rows)
  BY <1>1 DEF Appended
<1>3. /\ TasksOne(pub', carrier', relay'.batch, memory')
      /\ \A d \in Calls : EnvOf[d] \in RowEnvs(rows') => pub'[d] \in Appended
  BY <1>1, <1>2, CallMoves
<1>4. pub'[c] = "cancelled" /\ \A d \in Calls : d # c => pub'[d] = pub[d]
  BY <1>1 DEF OneInv, Inv, TaskInv
<1>5. /\ jobs \in Seq(JobType) /\ Len(jobs) \in Nat /\ DOMAIN jobs = 1..Len(jobs)
      /\ \A i \in 1..Len(jobs) : jobs[i] \in JobType /\ Fits(jobs[i], pub, carrier, relay.pc, life.at, world.confirmed)
  BY DEF OneInv, Inv, TaskInv, TasksAt, QueueOK
<1>6. ASSUME NEW i \in 1..Len(jobs), jobs[i].op = "append", jobs[i].by = c
      PROVE  jobs[i].env = EnvOf[c]
  <2>1. Fits(jobs[i], pub, carrier, relay.pc, life.at, world.confirmed)
    BY <1>5
  <2>2. jobs[i].by # None
    BY <1>6, Apart
  <2> QED BY <1>6, <2>1, <2>2 DEF Fits
<1>7. ASSUME NEW i \in 1..Len(jobs'), jobs'[i].op = "append", jobs'[i].by = None,
             NEW d \in Calls, jobs'[i].env = EnvOf[d]
      PROVE  pub'[d] = "cancelled"
  <2>1. CASE jobs' = [n \in DOMAIN jobs |-> IF jobs[n].by = c THEN Job("void", None, None, 0) ELSE jobs[n]]
    <3>1. i \in 1..Len(jobs) /\ Len(jobs') = Len(jobs)
      BY <1>5, <2>1
    <3>2. Job("void", None, None, 0).op = "void"
      BY DEF Job
    <3>3. jobs'[i] = jobs[i]
      BY <1>5, <1>7, <2>1, <3>1, <3>2
    <3>4. pub[d] = "cancelled"
      BY <1>7, <3>1, <3>3 DEF OneInv, StoreOne
    <3> QED BY <1>1, <1>4, <3>4
  <2>2. CASE jobs # << >> /\ Head(jobs).by = c /\ jobs' = [jobs EXCEPT ![1].by = None]
    <3>1. 1 \in 1..Len(jobs) /\ jobs[1].by = c /\ Len(jobs') = Len(jobs)
      BY <1>5, <2>2
    <3>2. CASE i = 1
      <4>1. jobs[1] \in JobType
        BY <1>5, <3>1
      <4>2. jobs' = [jobs EXCEPT ![1] = [jobs[1] EXCEPT !.by = None]]
        BY <2>2
      <4>3. jobs'[1] = [jobs[1] EXCEPT !.by = None]
        BY <1>5, <3>1, <4>2
      <4>4. jobs'[1].op = jobs[1].op /\ jobs'[1].env = jobs[1].env
        BY <4>1, <4>3 DEF JobType
      <4>5. EnvOf[d] = EnvOf[c]
        BY <1>6, <1>7, <3>1, <3>2, <4>4
      <4> QED BY <1>4, <4>5 DEF OwnEnvelopes
    <3>3. CASE i # 1
      <4>1. i \in 1..Len(jobs) /\ jobs'[i] = jobs[i]
        BY <1>5, <2>2, <3>1, <3>3
      <4>2. pub[d] = "cancelled"
        BY <1>7, <4>1 DEF OneInv, StoreOne
      <4> QED BY <1>1, <1>4, <4>2
    <3> QED BY <3>2, <3>3
  <2> QED BY <1>1, <2>1, <2>2 DEF WithoutJobOf
<1>8. StoreOne(rows', jobs', pub')
  BY <1>3, <1>7 DEF StoreOne
<1> QED BY <1>3, <1>8 DEF OneAfter

LEMMA RunAppendRefusedOne ==
  ASSUME OneInv, RunAppendRefused
  PROVE  OneAfter
<1> DEFINE c == Head(jobs).by
<1>1. /\ jobs # << >> /\ Head(jobs).op = "append"
      /\ pub' = IF c = None THEN pub ELSE [pub EXCEPT ![c] = "rejected"]
      /\ jobs' = Tail(jobs)
      /\ UNCHANGED <<rows, carrier, relay, memory, life, world, lost>>
  BY DEF RunAppendRefused, Runs
<1>2. OrphansIn(jobs', jobs) /\ RowEnvs(rows') \subseteq RowEnvs(rows)
  BY <1>1, HeadGoes
<1>3. c # None => c \in Calls /\ pub[c] = "appending"
  BY <1>1, HeadJob DEF Fits, OneInv, Inv
<1> HIDE DEF c
<1>4. CASE c = None
  BY <1>1, <1>2, <1>4, OneIdles
<1>5. CASE c # None
  <2>1. c \in Calls /\ pub[c] \notin Appended
    BY <1>3, <1>5 DEF Appended
  <2>2. TasksOne(pub', carrier', relay'.batch, memory') /\ StoreOne(rows', jobs', pub')
    BY <1>1, <1>2, <1>5, <2>1, CallMoves
  <2> QED BY <2>2 DEF OneAfter
<1> QED BY <1>4, <1>5

\* The append of a call that still waits puts its own envelope in flight; the
\* relay has not seen it.
LEMMA RunAppendOne ==
  ASSUME OneInv, OwnEnvelopes, RunAppend
  PROVE  OneAfter
<1> DEFINE S == EnsureConn(rows, store)
           c == Head(jobs).by
           e == Head(jobs).env
<1>1. /\ jobs # << >> /\ Head(jobs).op = "append"
      /\ rows' = Insert(AppendRoom(rows, S), e)
      /\ IF c = None
         THEN UNCHANGED <<pub, carrier, memory>>
         ELSE /\ pub' = [pub EXCEPT ![c] = "durable"]
              /\ memory' = [memory EXCEPT !.inflight = @ \cup {e}]
              /\ carrier' = [carrier EXCEPT ![c] = [pc |-> "publish", env |-> e]]
      /\ jobs' = Tail(jobs)
      /\ relay' = relay
  BY DEF RunAppend, Runs
<1>2. OrphansIn(jobs', jobs)
  BY <1>1, HeadGoes
<1>3. e \in Envelopes /\ (c # None => c \in Calls /\ pub[c] = "appending" /\ e = EnvOf[c])
  BY <1>1, HeadJob DEF Fits, OneInv, Inv
<1>4. RowEnvs(rows') \subseteq RowEnvs(rows) \cup {e}
  <2> DEFINE room == AppendRoom(rows, S)
  <2>1. room \subseteq rows /\ Table(rows)
    BY DEF AppendRoom, OneInv, Inv, DataInv
  <2>2. rows' = Insert(room, e)
    BY <1>1
  <2> HIDE DEF room, e
  <2>3. Table(room)
    BY <2>1, PartOfTable
  <2>4. RowEnvs(rows') = RowEnvs(room) \cup {e}
    BY <1>3, <2>2, <2>3, InsertTable
  <2> QED BY <2>1, <2>4 DEF RowEnvs
<1>5. c = None => \A d \in Calls : e = EnvOf[d] => pub[d] = "cancelled"
  <2>1. jobs \in Seq(JobType)
    BY DEF OneInv, Inv, TaskInv, TasksAt, QueueOK
  <2>2. 1 \in 1..Len(jobs) /\ Head(jobs) = jobs[1]
    BY <1>1, <2>1
  <2> QED BY <1>1, <2>2 DEF OneInv, StoreOne
<1>0. /\ pub \in [Calls -> PubStates] /\ carrier \in [Takers -> Carriers] /\ memory \in Memories
      /\ Relay \notin Calls
      /\ StoreOne(rows, jobs, pub) /\ TasksOne(pub, carrier, relay.batch, memory)
  BY Apart DEF OneInv, Inv, TaskInv, TasksAt
<1> HIDE DEF c, e, S
<1>6. CASE c = None
  <2>1. pub' = pub /\ carrier' = carrier /\ memory' = memory /\ relay' = relay
    BY <1>1, <1>6
  <2>2. \A d \in Calls : EnvOf[d] \in RowEnvs(rows') => pub'[d] \in Appended
    BY <1>0, <1>4, <1>5, <1>6, <2>1 DEF StoreOne, Appended
  <2>3. StoreOne(rows', jobs', pub')
    BY <1>0, <1>2, <2>1, <2>2 DEF StoreOne, OrphansIn
  <2>4. TasksOne(pub', carrier', relay'.batch, memory')
    BY <1>0, <2>1
  <2> QED BY <2>3, <2>4 DEF OneAfter
<1>7. CASE c # None
  <2>1. c \in Calls /\ pub[c] = "appending" /\ e = EnvOf[c]
    BY <1>3, <1>7
  <2>2. /\ pub' = [pub EXCEPT ![c] = "durable"]
        /\ memory' = [memory EXCEPT !.inflight = @ \cup {e}]
        /\ carrier' = [carrier EXCEPT ![c] = [pc |-> "publish", env |-> e]]
    BY <1>1, <1>7
  <2>3. /\ pub'[c] = "durable" /\ carrier'[Relay] = carrier[Relay]
        /\ \A d \in Calls : d # c => pub'[d] = pub[d] /\ carrier'[d] = carrier[d]
    BY <1>0, <2>1, <2>2 DEF Takers
  <2>4. memory'.inflight = memory.inflight \cup {e}
    BY <1>0, <2>2 DEF Memories
  <2>5. \A d \in Calls : EnvOf[d] = e => d = c
    BY <2>1 DEF OwnEnvelopes
  <2>6. \A d \in Calls : pub[d] \in Appended => d # c
    BY <2>1 DEF Appended
  <2>7. \A d \in Calls : EnvOf[d] \in RowEnvs(rows') => pub'[d] \in Appended
    BY <1>0, <1>4, <2>3, <2>5 DEF StoreOne, Appended
  <2>8. \A d \in Calls : pub[d] = "cancelled" => pub'[d] = "cancelled"
    BY <2>1, <2>3
  <2>9. StoreOne(rows', jobs', pub')
    BY <1>0, <1>2, <2>7, <2>8 DEF StoreOne, OrphansIn
  <2>10. TasksOne(pub', carrier', relay'.batch, memory')
    <3>1. \A d \in Calls : EnvOf[d] \in RowEnvs(relay'.batch) => pub'[d] \in Appended
      BY <1>0, <1>1, <2>3, <2>6 DEF TasksOne
    <3>2. carrier'[Relay].pc # "none" => \A d \in Calls : carrier'[Relay].env = EnvOf[d] =>
            pub'[d] \in Appended /\ ~(carrier'[d].pc # "none" /\ pub'[d] = "durable")
      BY <1>0, <2>3, <2>6 DEF TasksOne
    <3>3. \A d \in Calls : carrier'[d].pc # "none" /\ pub'[d] = "durable" => EnvOf[d] \in memory'.inflight
      BY <1>0, <2>1, <2>3, <2>4 DEF TasksOne
    <3> QED BY <3>1, <3>2, <3>3 DEF TasksOne
  <2> QED BY <2>9, <2>10 DEF OneAfter
<1> QED BY <1>6, <1>7

\* The parts of the invariant that the steps use.
LEMMA OneParts ==
  ASSUME OneInv
  PROVE  /\ TaskInv /\ DataInv
         /\ StoreOne(rows, jobs, pub) /\ TasksOne(pub, carrier, relay.batch, memory)
         /\ jobs \in Seq(JobType) /\ relay.batch \in SUBSET Row /\ memory \in Memories
         /\ carrier \in [Takers -> Carriers] /\ Relay \notin Calls
BY Apart DEF OneInv, Inv, TaskInv, TasksAt, QueueOK, Relays

\* A task has what it did recorded.
LEMMA RecordOne ==
  ASSUME OneInv, OwnEnvelopes, NEW k \in Takers, NEW op \in {"ack", "nack"}, NEW ok, NEW n \in Waits,
         NEW mem \in Memories, mem.inflight = memory.inflight, carrier[k].pc = "publish",
         Record(k, op, ok, n, mem), rows' = rows, pub' = pub
  PROVE  OneAfter
<1>0. /\ carrier \in [Takers -> Carriers] /\ jobs \in Seq(JobType)
      /\ RowEnvs(rows') \subseteq RowEnvs(rows)
  BY OneParts
<1>1. carrier[k] \in Carriers /\ carrier[k].env \in Envelopes
  BY <1>0 DEF Carriers, NoCarrier
<1>2. CASE carrier[k].env \in mem.inflight /\ store.alive
  <2> DEFINE j == Job(op, k, carrier[k].env, n)
  <2>1. /\ carrier' = [carrier EXCEPT ![k].pc = op]
        /\ jobs' = Append(jobs, j)
        /\ memory' = mem /\ relay' = relay
    BY <1>2 DEF Record, Submitted
  <2>2. \A m \in Takers : /\ carrier'[m].env = carrier[m].env
                          /\ carrier'[m].pc = "none" <=> carrier[m].pc = "none"
    <3>1. [carrier[k] EXCEPT !.pc = op] = [pc |-> op, env |-> carrier[k].env]
      BY <1>1 DEF Carriers, NoCarrier
    <3>2. carrier' = [carrier EXCEPT ![k] = [pc |-> op, env |-> carrier[k].env]]
      BY <2>1, <3>1
    <3>3. op # "none"
      OBVIOUS
    <3> QED BY <1>0, <3>2, <3>3
  <2>3. j \in JobType
    BY <1>1 DEF Job, JobType, Ops, Takers
  <2>4. OrphansIn(jobs', jobs)
    BY <2>1, <2>3, JobComes
  <2>5. relay'.batch \subseteq relay.batch /\ memory'.inflight = memory.inflight
    BY <2>1
  <2> QED BY <1>0, <2>2, <2>4, <2>5, OneStays
<1>3. CASE ~(carrier[k].env \in mem.inflight /\ store.alive)
  <2>1. Finish(k, ok, jobs, mem)
    BY <1>3 DEF Record
  <2>2. carrier[k].pc # "none"
    OBVIOUS
  <2>3. TasksOne(pub, carrier', relay'.batch, memory') /\ OrphansIn(jobs', jobs)
    BY <1>0, <2>1, <2>2, FinishOne
  <2> QED BY <1>0, <2>3, SameOrphans, TasksGoOn
<1> QED BY <1>2, <1>3

LEMMA BackendOkOne ==
  ASSUME OneInv, OwnEnvelopes, NEW k \in Takers, BackendOk(k)
  PROVE  OneAfter
<1>1. /\ carrier[k].pc = "publish" /\ Record(k, "ack", TRUE, 0, memory)
      /\ UNCHANGED <<rows, pub>>
  BY DEF BackendOk
<1>2. 0 \in Waits /\ memory \in Memories
  BY OutboxSizes, OneParts DEF Waits
<1> QED BY <1>1, <1>2, RecordOne

LEMMA BackendFailsOne ==
  ASSUME OneInv, OwnEnvelopes, NEW k \in Takers, BackendFails(k)
  PROVE  OneAfter
<1> DEFINE e == carrier[k].env
           n == Attempts(memory.attempts[e])
           mem == IF e \in memory.inflight THEN [memory EXCEPT !.attempts[e] = n] ELSE memory
<1>1. /\ carrier[k].pc = "publish"
      /\ Record(k, "nack", FALSE, Backoff(n), mem)
      /\ UNCHANGED <<rows, pub>>
  BY DEF BackendFails
<1>2. e \in Envelopes /\ memory \in Memories
  BY <1>1, OneParts DEF Carriers, NoCarrier
<1>3. n \in 0..MaxBackoff /\ n >= 1
  BY <1>2, OutboxSizes DEF Memories, Attempts
<1>4. mem \in Memories /\ mem.inflight = memory.inflight
  <2> HIDE DEF n, e
  <2> QED BY <1>2, <1>3 DEF Memories
<1>5. Backoff(n) \in Waits
  <2> HIDE DEF n
  <2>1. n - 1 \in Nat /\ 2^(n - 1) \in Int
    BY <1>3, OutboxSizes
  <2> QED BY <2>1, OutboxSizes DEF Backoff, Waits
<1> HIDE DEF mem, n, e
<1> QED BY <1>1, <1>4, <1>5, RecordOne

\* The head of the queue is the answer a task waited for.
LEMMA AnsweredOne ==
  ASSUME OneInv, OwnEnvelopes, jobs # << >>, Head(jobs).op \in {"ack", "nack"}, Head(jobs).by # None,
         NEW ok, NEW mem \in Memories, mem.inflight = memory.inflight,
         Finish(Head(jobs).by, ok, Tail(jobs), mem),
         RowEnvs(rows') \subseteq RowEnvs(rows), pub' = pub
  PROVE  OneAfter
<1> DEFINE k == Head(jobs).by
<1>1. Fits(Head(jobs), pub, carrier, relay.pc, life.at, world.confirmed)
  BY HeadJob DEF OneInv, Inv
<1>2. k \in Takers /\ carrier[k].pc # "none"
  BY <1>1 DEF Fits
<1>3. Tail(jobs) \in Seq(JobType) /\ OrphansIn(Tail(jobs), jobs)
  BY HeadGoes
<1>4. TasksOne(pub, carrier', relay'.batch, memory') /\ OrphansIn(jobs', Tail(jobs))
  BY <1>2, <1>3, FinishOne
<1> QED BY <1>3, <1>4, TasksGoOn

LEMMA RunAckOne ==
  ASSUME OneInv, OwnEnvelopes, RunAck
  PROVE  OneAfter
<1> DEFINE e == Head(jobs).env
           mem == [memory EXCEPT !.attempts[e] = 0]
<1>1. /\ jobs # << >> /\ Head(jobs).op = "ack"
      /\ rows' = Delete(rows, e)
      /\ IF Head(jobs).by = None
         THEN jobs' = Tail(jobs) /\ UNCHANGED <<carrier, relay, memory>>
         ELSE Finish(Head(jobs).by, TRUE, Tail(jobs), mem)
      /\ pub' = pub
  BY DEF RunAck, Runs
<1>2. RowEnvs(rows') \subseteq RowEnvs(rows)
  BY <1>1 DEF RowEnvs, Delete
<1>3. OrphansIn(Tail(jobs), jobs)
  BY <1>1, HeadGoes
<1>4. CASE Head(jobs).by = None
  BY <1>1, <1>2, <1>3, <1>4, OneIdles
<1>5. CASE Head(jobs).by # None
  <2>1. memory \in Memories
    BY OneParts
  <2>2. mem \in Memories /\ mem.inflight = memory.inflight
    <3> HIDE DEF e
    <3> QED BY <2>1, OutboxSizes DEF Memories
  <2> HIDE DEF mem, e
  <2> QED BY <1>1, <1>2, <1>5, <2>2, AnsweredOne
<1> QED BY <1>4, <1>5

LEMMA RunNackOne ==
  ASSUME OneInv, OwnEnvelopes, RunNack
  PROVE  OneAfter
<1>1. /\ jobs # << >> /\ Head(jobs).op = "nack"
      /\ rows' = Nack(rows, Head(jobs).env, Head(jobs).wait)
      /\ IF Head(jobs).by = None
         THEN jobs' = Tail(jobs) /\ UNCHANGED <<carrier, relay, memory>>
         ELSE Finish(Head(jobs).by, FALSE, Tail(jobs), memory)
      /\ pub' = pub
  BY DEF RunNack, Runs
<1>2. RowEnvs(rows') \subseteq RowEnvs(rows)
  <2>1. Head(jobs).wait \in Waits /\ Table(rows)
    BY <1>1, HeadJob DEF OneInv, Inv, DataInv, JobType
  <2> QED BY <1>1, <2>1, NackTable
<1>3. OrphansIn(Tail(jobs), jobs)
  BY <1>1, HeadGoes
<1>4. CASE Head(jobs).by = None
  BY <1>1, <1>2, <1>3, <1>4, OneIdles
<1>5. CASE Head(jobs).by # None
  BY <1>1, <1>2, <1>5, OneParts, AnsweredOne
<1> QED BY <1>4, <1>5

\* The relay looks only at rows of the table.
LEMMA RunDueOne ==
  ASSUME OneInv, RunDue
  PROVE  OneAfter
<1> DEFINE batch == Batch(rows) \ Unreadable(rows)
<1>1. /\ jobs # << >> /\ rows' = DueRows(rows)
      /\ IF Head(jobs).by = None
         THEN jobs' = Tail(jobs) /\ UNCHANGED <<carrier, relay, memory>>
         ELSE NextRow(Tail(jobs), memory, batch, relay.last)
      /\ pub' = pub
  BY DEF RunDue, Runs
<1>2. rows' \subseteq rows /\ batch \subseteq rows
  BY <1>1 DEF DueRows, Purged, Batch
<1>3. Tail(jobs) \in Seq(JobType) /\ OrphansIn(Tail(jobs), jobs)
  BY <1>1, HeadGoes
<1> HIDE DEF batch
<1>4. RowEnvs(rows') \subseteq RowEnvs(rows) /\ RowEnvs(batch) \subseteq RowEnvs(rows)
  BY <1>2 DEF RowEnvs
<1>5. CASE Head(jobs).by = None
  BY <1>1, <1>3, <1>4, <1>5, OneIdles
<1>6. CASE Head(jobs).by # None
  <2>1. /\ TaskInv /\ memory \in Memories /\ batch \in SUBSET Row
        /\ \A c \in Calls : EnvOf[c] \in RowEnvs(batch) => pub[c] \in Appended
        /\ \A c \in Calls : carrier[c].pc # "none" /\ pub[c] = "durable" => EnvOf[c] \in memory.inflight
    BY <1>2, <1>4, OneParts DEF StoreOne, TasksOne, DataInv, Table
  <2>2. NextRow(Tail(jobs), memory, batch, relay.last)
    BY <1>1, <1>6
  <2>3. TasksOne(pub, carrier', relay'.batch, memory') /\ OrphansIn(jobs', Tail(jobs))
    BY <1>3, <2>1, <2>2, RelayGoesOn
  <2> QED BY <1>1, <1>3, <1>4, <2>3, TasksGoOn
<1> QED BY <1>5, <1>6

LEMMA PassOver == \A last : AfterPass(last).batch = {}
BY DEF AfterPass, NoRelay, Sleeping

LEMMA RunStatsOne ==
  ASSUME OneInv, RunStats
  PROVE  OneAfter
<1> DEFINE cleared == [memory EXCEPT !.attempts = Fresh.attempts]
<1>1. /\ jobs # << >> /\ jobs' = Tail(jobs)
      /\ \/ relay' = relay /\ memory' = memory
         \/ relay' = AfterPass(relay.last) /\ memory' \in {memory, cleared}
      /\ UNCHANGED <<rows, pub, carrier>>
  BY DEF RunStats, Runs
<1>2. cleared.inflight = memory.inflight
  BY OneParts DEF Memories
<1> HIDE DEF cleared
<1>3. memory'.inflight = memory.inflight
  BY <1>1, <1>2
<1>4. relay'.batch \subseteq relay.batch
  BY <1>1, PassOver
<1>5. OrphansIn(jobs', jobs)
  BY <1>1, HeadGoes
<1> QED BY <1>1, <1>3, <1>4, <1>5, OneIdles

LEMMA JobFailsOne ==
  ASSUME OneInv, OwnEnvelopes, JobFails
  PROVE  OneAfter
<1> DEFINE j == Head(jobs)
<1>1. jobs # << >> /\ RowEnvs(rows') \subseteq RowEnvs(rows)
  <2>1. PICK left \in Interrupted(j) : rows' = left.rows
    BY DEF JobFails
  <2>2. Table(rows) /\ store \in Store /\ Exact(rows, store)
    BY DEF OneInv, Inv, DataInv
  <2>3. rows' \subseteq rows
    BY <2>1, <2>2, InterruptedExact DEF Accounted
  <2> QED BY <2>3 DEF JobFails, RowEnvs
<1>2. Tail(jobs) \in Seq(JobType) /\ OrphansIn(Tail(jobs), jobs) /\ RowEnvs(rows') \subseteq RowEnvs(rows)
  BY <1>1, HeadGoes
<1>3. CASE jobs' = Tail(jobs) /\ UNCHANGED <<pub, carrier, relay, memory>>
  BY <1>2, <1>3, OneIdles
<1>4. CASE j.by # None /\ j.op = "append" /\ Degraded(j.by) /\ jobs' = Tail(jobs) /\ UNCHANGED <<relay, memory>>
  <2>1. j.by \in Calls /\ pub[j.by] = "appending"
    BY <1>1, <1>4, HeadJob DEF Fits, OneInv, Inv
  <2>2. pub[j.by] \notin Appended
    BY <2>1 DEF Appended
  <2> HIDE DEF j
  <2> QED BY <1>1, <1>2, <1>4, <2>1, <2>2, DegradedOne
<1>5. CASE j.by # None /\ j.op \in {"ack", "nack"} /\ Finish(j.by, j.op = "ack", Tail(jobs), memory) /\ pub' = pub
  BY <1>1, <1>2, <1>5, OneParts, AnsweredOne
<1>6. CASE ToStats(Tail(jobs), memory, relay.last) /\ pub' = pub
  <2>1. /\ TaskInv /\ memory \in Memories /\ {} \in SUBSET Row
        /\ \A c \in Calls : EnvOf[c] \in RowEnvs({}) => pub[c] \in Appended
        /\ \A c \in Calls : carrier[c].pc # "none" /\ pub[c] = "durable" => EnvOf[c] \in memory.inflight
    BY OneParts DEF TasksOne, RowEnvs
  <2>2. TasksOne(pub, carrier', relay'.batch, memory') /\ OrphansIn(jobs', Tail(jobs))
    BY <1>2, <1>6, <2>1, RelayGoesOn
  <2> QED BY <1>2, <1>6, <2>2, TasksGoOn
<1>7. CASE relay' = AfterPass(relay.last) /\ jobs' = Tail(jobs) /\ UNCHANGED <<pub, carrier, memory>>
  <2>1. relay'.batch \subseteq relay.batch
    BY <1>7, PassOver
  <2> QED BY <1>2, <1>7, <2>1, OneIdles
<1> QED BY <1>3, <1>4, <1>5, <1>6, <1>7 DEF JobFails

\* A pass begins with no rows.
LEMMA BeginPassOne ==
  ASSUME OneInv, NEW last, BeginPass(last), RowEnvs(rows') \subseteq RowEnvs(rows), pub' = pub
  PROVE  OneAfter
<1>1. CASE store.alive
  <2>1. /\ relay' = [pc |-> "due", batch |-> {}, last |-> last]
        /\ jobs' = Append(jobs, Job("due", Relay, None, 0))
        /\ carrier' = carrier /\ memory' = memory
    BY <1>1 DEF BeginPass, Submitted
  <2>2. Job("due", Relay, None, 0) \in JobType
    BY OutboxSizes DEF Job, JobType, Ops, Waits, Takers
  <2>3. OrphansIn(jobs', jobs)
    BY <2>1, <2>2, JobComes
  <2>4. relay'.batch \subseteq relay.batch
    BY <2>1
  <2> QED BY <2>1, <2>3, <2>4, OneIdles
<1>2. CASE ~store.alive
  <2>1. ToStats(jobs, memory, last)
    BY <1>2 DEF BeginPass
  <2>2. /\ TaskInv /\ memory \in Memories /\ jobs \in Seq(JobType) /\ {} \in SUBSET Row
        /\ \A c \in Calls : EnvOf[c] \in RowEnvs({}) => pub[c] \in Appended
        /\ \A c \in Calls : carrier[c].pc # "none" /\ pub[c] = "durable" => EnvOf[c] \in memory.inflight
    BY OneParts DEF TasksOne, RowEnvs
  <2>3. TasksOne(pub, carrier', relay'.batch, memory') /\ OrphansIn(jobs', jobs)
    BY <2>1, <2>2, RelayGoesOn
  <2> QED BY <2>3, SameOrphans, TasksGoOn
<1> QED BY <1>1, <1>2

\* What a cancelled pass takes out of flight is its own.
LEMMA CancelPassOne ==
  ASSUME OneInv, CancelPass, UNCHANGED <<rows, pub>>
  PROVE  OneAfter
<1> DEFINE free == [memory EXCEPT !.inflight = @ \ {carrier[Relay].env}]
<1>0. RowEnvs(rows') \subseteq RowEnvs(rows)
  OBVIOUS
<1>1. PICK js \in WithoutJobOf(Relay) :
        IF relay.pc \in {"off", "begin", "sleep", "stats"}
        THEN relay' = NoRelay /\ jobs' = js /\ UNCHANGED <<carrier, memory>>
        ELSE ToStats(js, free, TRUE)
  BY DEF CancelPass
<1>2. js \in Seq(JobType) /\ OrphansIn(js, jobs)
  BY OneParts, VoidedOrphans DEF Takers
<1>3. CASE relay.pc \in {"off", "begin", "sleep", "stats"}
  <2>1. relay' = NoRelay /\ jobs' = js /\ UNCHANGED <<carrier, memory>>
    BY <1>1, <1>3
  <2>2. relay'.batch \subseteq relay.batch
    BY <2>1 DEF NoRelay
  <2> QED BY <1>0, <1>2, <2>1, <2>2, OneIdles
<1>4. CASE relay.pc \notin {"off", "begin", "sleep", "stats"}
  <2>1. ToStats(js, free, TRUE)
    BY <1>1, <1>4
  <2>2. free \in Memories /\ free.inflight = memory.inflight \ {carrier[Relay].env}
    BY OneParts DEF Memories
  <2>3. ASSUME NEW c \in Calls, carrier[c].pc # "none", pub[c] = "durable"
        PROVE  EnvOf[c] \in free.inflight
    <3>1. EnvOf[c] \in memory.inflight
      BY <2>3, OneParts DEF TasksOne
    <3>2. CASE carrier[Relay].pc = "none"
      <4>1. carrier[Relay].env = None
        BY <3>2, OneParts DEF Carriers, NoCarrier, Takers
      <4>2. EnvOf[c] \in Envelopes
        BY OutboxAssumption
      <4> QED BY <2>2, <3>1, <4>1, <4>2, OutboxAssumption
    <3>3. CASE carrier[Relay].pc # "none"
      <4>1. EnvOf[c] # carrier[Relay].env
        BY <2>3, <3>3, OneParts DEF TasksOne
      <4> QED BY <2>2, <3>1, <4>1
    <3> QED BY <3>2, <3>3
  <2>4. {} \in SUBSET Row /\ \A c \in Calls : EnvOf[c] \in RowEnvs({}) => pub[c] \in Appended
    BY DEF RowEnvs
  <2> HIDE DEF free
  <2>5. TasksOne(pub, carrier', relay'.batch, memory') /\ OrphansIn(jobs', js)
    BY <1>2, <2>1, <2>2, <2>3, <2>4, OneParts, RelayGoesOn
  <2> QED BY <1>0, <1>2, <2>5, TasksGoOn
<1> QED BY <1>3, <1>4

LEMMA CancelSendOne ==
  ASSUME OneInv, OwnEnvelopes, NEW c \in Calls, CancelSend(c)
  PROVE  OneAfter
<1>1. /\ carrier[c].pc # "none"
      /\ \E js \in WithoutJobOf(c) : Finish(c, FALSE, js, memory)
      /\ UNCHANGED <<rows, store, pub, life, world, lost>>
  BY DEF CancelSend
<1>2. PICK js \in WithoutJobOf(c) : Finish(c, FALSE, js, memory)
  BY <1>1
<1>3. c \in Takers /\ pub[c] # "appending"
  BY <1>1 DEF OneInv, Inv, TaskInv, TasksAt, SendsOwn, Takers
<1>4. js \in Seq(JobType) /\ OrphansIn(js, jobs)
  BY <1>3, OneParts, VoidedOrphans
<1>5. TasksOne(pub, carrier', relay'.batch, memory') /\ OrphansIn(jobs', js)
  BY <1>1, <1>2, <1>3, <1>4, OneParts, FinishOne
<1>6. RowEnvs(rows') \subseteq RowEnvs(rows)
  BY <1>1
<1> QED BY <1>1, <1>4, <1>5, <1>6, TasksGoOn

\* The executor's queue and the tasks are gone with the process.
LEMMA CrashOne ==
  ASSUME OneInv, Crash
  PROVE  OneAfter
<1>1. /\ jobs' = << >> /\ relay' = NoRelay
      /\ pub' = [c \in Calls |-> IF pub[c] = "appending" THEN "cancelled" ELSE pub[c]]
      /\ carrier' = [k \in DOMAIN carrier |-> NoCarrier]
  BY DEF Crash
<1>2. \A k \in Takers : carrier'[k].pc = "none"
  BY <1>1, OneParts DEF NoCarrier
<1>3. RowEnvs(relay'.batch) = {}
  BY <1>1 DEF NoRelay, RowEnvs
<1>4. TasksOne(pub', carrier', relay'.batch, memory')
  BY <1>2, <1>3 DEF TasksOne, Takers
<1>5. \A c \in Calls : pub[c] \in Appended => pub'[c] \in Appended
  BY <1>1 DEF Appended
<1>6. StoreOne(rows', jobs', pub')
  <2>1. PICK left \in Interrupted(Running) : rows' \subseteq left.rows
    BY DEF Crash
  <2>2. Table(rows) /\ store \in Store /\ Exact(rows, store)
    BY DEF OneInv, Inv, DataInv
  <2>3. RowEnvs(rows') \subseteq RowEnvs(rows)
    BY <2>1, <2>2, InterruptedExact DEF Accounted, RowEnvs
  <2> QED BY <1>1, <1>5, <2>3, OneParts DEF StoreOne
<1> QED BY <1>4, <1>6 DEF OneAfter

LEMMA PublishClosedOne ==
  ASSUME OneInv, NEW c \in Calls, PublishClosed(c)
  PROVE  OneAfter
<1>1. /\ pub[c] = "new" /\ pub' = [pub EXCEPT ![c] = "closed"]
      /\ UNCHANGED <<rows, jobs, carrier, relay, memory>>
  BY DEF PublishClosed
<1>2. pub[c] \notin Appended /\ RowEnvs(rows') \subseteq RowEnvs(rows)
  BY <1>1 DEF Appended
<1>3. OrphansIn(jobs', jobs)
  BY <1>1, SameOrphans
<1>4. TasksOne(pub', carrier', relay'.batch, memory') /\ StoreOne(rows', jobs', pub')
  BY <1>1, <1>2, <1>3, CallMoves
<1> QED BY <1>4 DEF OneAfter

\* start(), close() and the environment move no envelope.
LEMMA LifeOne ==
  ASSUME OneInv,
         Start \/ CloseBegin \/ DrainEnds \/ Gather \/ GatherTimeout \/ Recover \/ UNCHANGED vars
  PROVE  OneAfter
<1>1. /\ UNCHANGED <<rows, jobs, pub, carrier, memory>>
      /\ relay' \in {relay, [NoRelay EXCEPT !.pc = "begin"]}
  BY DEF Start, CloseBegin, DrainEnds, Gather, GatherTimeout, Recover, vars
<1>2. relay'.batch \subseteq relay.batch
  BY <1>1 DEF NoRelay
<1>3. OrphansIn(jobs', jobs) /\ RowEnvs(rows') \subseteq RowEnvs(rows)
  BY <1>1, SameOrphans
<1> QED BY <1>1, <1>2, <1>3, OneIdles

LEMMA TimeOne ==
  ASSUME OneInv, Age \/ Elapse
  PROVE  OneAfter
<1>1. UNCHANGED <<jobs, pub, carrier, relay, memory>>
  BY DEF Age, Elapse
<1>2. Table(rows)
  BY OneParts DEF DataInv
<1>3. RowEnvs(rows') \subseteq RowEnvs(rows)
  <2>1. CASE Age
    <3> DEFINE o == Oldest(Purged(rows))
    <3>1. Purged(rows) # {} /\ rows' = (rows \ {o}) \cup {[o EXCEPT !.old = TRUE]}
      BY <2>1 DEF Age
    <3>2. Purged(rows) \subseteq Row /\ Purged(rows) \subseteq rows
      BY <1>2 DEF Table, Purged
    <3>3. o \in rows
      BY <3>1, <3>2, OldestIsThere
    <3> HIDE DEF o
    <3> QED BY <1>2, <3>1, <3>3, AgeTable
  <2>2. CASE Elapse
    BY <1>2, <2>2, LaterTable DEF Elapse
  <2> QED BY <2>1, <2>2
<1> QED BY <1>1, <1>3, SameOrphans, OneIdles

\* outbox.close() and its job, and a job that was cancelled in time.
LEMMA CloseOutboxOne ==
  ASSUME OneInv, CloseOutbox \/ RunClose \/ RunVoid
  PROVE  OneAfter
<1>1. UNCHANGED <<rows, pub, carrier, relay, memory>>
  BY DEF CloseOutbox, RunClose, RunVoid
<1>2. OrphansIn(jobs', jobs)
  <2>1. CASE CloseOutbox
    <3>1. jobs' = jobs \/ jobs' = Append(jobs, Job("close", Closer, None, 0))
      BY <2>1 DEF CloseOutbox, Submitted
    <3>2. Job("close", Closer, None, 0) \in JobType
      BY OutboxSizes DEF Job, JobType, Ops, Waits
    <3> QED BY <3>1, <3>2, SameOrphans, JobComes
  <2>2. CASE RunClose \/ RunVoid
    BY <2>2, HeadGoes DEF RunClose, RunVoid, Runs
  <2> QED BY <2>1, <2>2
<1> QED BY <1>1, <1>2, OneIdles

LEMMA PassOne ==
  ASSUME OneInv, RelayBegins \/ RelayWakes \/ FinalPass \/ StopRelay \/ FinalTimeout
  PROVE  OneAfter
<1>1. CASE StopRelay \/ FinalTimeout
  BY <1>1, CancelPassOne DEF StopRelay, FinalTimeout
<1>2. CASE RelayBegins \/ RelayWakes \/ FinalPass
  <2>1. Table(rows) /\ rows' \in {rows, Later(rows)}
    BY <1>2, OneParts DEF RelayBegins, RelayWakes, FinalPass, DataInv
  <2>2. RowEnvs(rows') \subseteq RowEnvs(rows)
    BY <2>1, LaterTable
  <2>3. pub' = pub /\ (BeginPass(TRUE) \/ BeginPass(FALSE))
    BY <1>2 DEF RelayBegins, RelayWakes, FinalPass
  <2> QED BY <2>2, <2>3, BeginPassOne
<1> QED BY <1>1, <1>2

LEMMA OneInvInit == Init => OneInv
<1> SUFFICES ASSUME Init PROVE OneInv
  OBVIOUS
<1>1. StoreOne(rows, jobs, pub)
  BY DEF Init, StoreOne, RowEnvs
<1>2. TasksOne(pub, carrier, relay.batch, memory)
  BY DEF Init, TasksOne, RowEnvs, NoCarrier, NoRelay
<1> QED BY <1>1, <1>2, InvInit DEF OneInv

LEMMA OneInvNext == OwnEnvelopes /\ OneInv /\ [Next]_vars => OneInv'
<1> SUFFICES ASSUME OwnEnvelopes, OneInv, [Next]_vars PROVE OneInv'
  OBVIOUS
<1>0. Inv'
  BY InvNext DEF OneInv
<1> SUFFICES OneAfter
  BY <1>0 DEF OneInv, OneAfter
<1>1. CASE Start \/ CloseBegin \/ Closing
  BY <1>1, LifeOne, PassOne, CloseOutboxOne DEF Closing
<1>2. ASSUME NEW c \in Calls,
             PublishClosed(c) \/ Publish(c) \/ PublishCancelled(c) \/ CancelSend(c)
      PROVE  OneAfter
  BY <1>2, PublishClosedOne, PublishOne, PublishCancelledOne, CancelSendOne
<1>3. ASSUME NEW k \in Takers, Carry(k) PROVE OneAfter
  BY <1>3, BackendOkOne, BackendFailsOne DEF Carry
<1>4. CASE RelayBegins \/ RelayWakes
  BY <1>4, PassOne
<1>5. CASE Run
  BY <1>5, RunAppendRefusedOne, RunAppendOne, RunAckOne, RunNackOne, RunDueOne,
     RunStatsOne, CloseOutboxOne DEF Run
<1>6. CASE JobFails
  BY <1>6, JobFailsOne
<1>7. CASE Crash \/ Recover \/ Age \/ Elapse \/ UNCHANGED vars
  BY <1>7, CrashOne, LifeOne, TimeOne
<1> QED BY <1>1, <1>2, <1>3, <1>4, <1>5, <1>6, <1>7 DEF Next, Takers

\* No envelope is published by two tasks at a time, where no two calls publish
\* the same: not by the task of a call and the relay, which reads its row while
\* it is in flight, and not by a pass and one that was cancelled.
THEOREM OutboxOneCarrier == OwnEnvelopes /\ Spec => []OneCarrier
<1>1. OwnEnvelopes /\ OneInv => OneCarrier
  <2> SUFFICES ASSUME OwnEnvelopes, OneInv, NEW j \in Takers, NEW k \in Takers, j # k,
                      carrier[j].pc # "none", carrier[j].env = carrier[k].env
               PROVE  FALSE
    BY DEF OneCarrier, Takers
  <2>1. carrier[j].env \in Envelopes
    BY OneParts DEF Carriers, NoCarrier
  <2>2. carrier[k].pc # "none"
    <3> SUFFICES ASSUME carrier[k].pc = "none" PROVE FALSE
      OBVIOUS
    <3>1. carrier[k].env = None
      BY OneParts DEF Carriers, NoCarrier
    <3> QED BY <2>1, <3>1, OutboxAssumption
  <2>3. SendsOwn(pub, carrier) /\ TasksOne(pub, carrier, relay.batch, memory)
    BY OneParts DEF TaskInv, TasksAt
  <2>4. ASSUME NEW c \in Calls, carrier[c].pc # "none", carrier[Relay].pc # "none"
        PROVE  carrier[c].env # carrier[Relay].env
    BY <2>3, <2>4 DEF SendsOwn, TasksOne, Appended
  <2>5. CASE j \in Calls /\ k \in Calls
    BY <2>2, <2>3, <2>5 DEF SendsOwn, OwnEnvelopes
  <2> QED BY <2>2, <2>4, <2>5 DEF Takers
<1>2. ASSUME OwnEnvelopes PROVE Spec => []OneCarrier
  <2>1. OneInv => OneCarrier
    BY <1>1, <1>2
  <2>2. OneInv /\ [Next]_vars => OneInv'
    BY <1>2, OneInvNext
  <2> QED BY <2>1, <2>2, OneInvInit, PTL DEF Spec
<1> QED BY <1>2
=============================================================================
