---------------------------- MODULE AroundProofs ----------------------------
(***************************************************************************)
(* Machine-checked proofs about the parts that MCAround checks one at a    *)
(* time: the audit trail, for any sizes of its batches and its buffer, and *)
(* any number of envelopes and of failed inserts.                          *)
(***************************************************************************)
EXTENDS MCAround, SequenceTheorems, TLAPS

-----------------------------------------------------------------------------
(* Sequences of numbers.                                                    *)

Rising(s) == \A i, j \in 1..Len(s) : i < j => s[i] < s[j]

\* Every number of the one set is below every number of the other.
Below(S, T) == \A m \in S, n \in T : m < n

\* s is f and then r.
LEMMA InTwoParts ==
  ASSUME NEW s \in Seq(Nat), NEW f \in Seq(Nat), NEW r \in Seq(Nat),
         Len(s) = Len(f) + Len(r),
         \A i \in 1..Len(f) : f[i] = s[i],
         \A i \in 1..Len(r) : r[i] = s[Len(f) + i]
  PROVE  /\ ToSet(s) = ToSet(f) \cup ToSet(r)
         /\ Rising(s) <=> Rising(f) /\ Rising(r) /\ Below(ToSet(f), ToSet(r))
<1> DEFINE a == Len(f)
           b == Len(r)
<1>1. /\ a \in Nat /\ b \in Nat /\ Len(s) = a + b
      /\ DOMAIN s = 1..(a + b) /\ DOMAIN f = 1..a /\ DOMAIN r = 1..b
      /\ \A i \in 1..(a + b) : s[i] \in Nat
  <2>1. a \in Nat /\ b \in Nat /\ Len(s) = a + b
    BY LenProperties
  <2>2. DOMAIN f = 1..a /\ DOMAIN r = 1..b
    BY LenProperties
  <2>3. DOMAIN s = 1..Len(s)
    BY LenProperties
  <2>4. \A i \in 1..Len(s) : s[i] \in Nat
    BY ElementOfSeq
  <2> HIDE DEF a, b
  <2> QED BY <2>1, <2>2, <2>3, <2>4
<1>2. (\A i \in 1..a : f[i] = s[i]) /\ \A i \in 1..b : r[i] = s[a + i]
  OBVIOUS
<1> HIDE DEF a, b
<1>3. ToSet(s) = {s[i] : i \in 1..(a + b)} /\ ToSet(f) = {f[i] : i \in 1..a}
        /\ ToSet(r) = {r[i] : i \in 1..b}
  BY <1>1 DEF ToSet
<1>4. \A i \in 1..(a + b) : i \in 1..a \/ \E j \in 1..b : i = a + j
  <2> SUFFICES ASSUME NEW i \in 1..(a + b), i \notin 1..a PROVE \E j \in 1..b : i = a + j
    OBVIOUS
  <2>1. i - a \in 1..b /\ i = a + (i - a)
    BY <1>1
  <2> QED BY <2>1
<1>5. (\A i \in 1..a : i \in 1..(a + b)) /\ \A j \in 1..b : a + j \in 1..(a + b)
  BY <1>1
<1>6. ToSet(s) = ToSet(f) \cup ToSet(r)
  <2>1. ASSUME NEW i \in 1..(a + b) PROVE s[i] \in ToSet(f) \cup ToSet(r)
    <3>1. CASE i \in 1..a
      BY <1>2, <1>3, <3>1
    <3>2. CASE i \notin 1..a
      <4>1. PICK j \in 1..b : i = a + j
        BY <1>4, <3>2
      <4> QED BY <1>2, <1>3, <4>1
    <3> QED BY <3>1, <3>2
  <2>2. ASSUME NEW i \in 1..a PROVE f[i] \in ToSet(s)
    BY <1>2, <1>3, <1>5
  <2>3. ASSUME NEW j \in 1..b PROVE r[j] \in ToSet(s)
    <3>1. r[j] = s[a + j] /\ a + j \in 1..(a + b)
      BY <1>2, <1>5
    <3> QED BY <1>3, <3>1
  <2>4. ToSet(s) \subseteq ToSet(f) \cup ToSet(r)
    BY <1>3, <2>1
  <2>5. ToSet(f) \subseteq ToSet(s)
    BY <1>3, <2>2
  <2>6. ToSet(r) \subseteq ToSet(s)
    BY <1>3, <2>3
  <2> QED BY <2>4, <2>5, <2>6
<1>7. ASSUME Rising(s) PROVE Rising(f) /\ Rising(r) /\ Below(ToSet(f), ToSet(r))
  <2>1. \A i, j \in 1..(a + b) : i < j => s[i] < s[j]
    BY <1>1, <1>7 DEF Rising
  <2>2. Rising(f)
    BY <1>2, <1>5, <2>1 DEF Rising, a
  <2>3. Rising(r)
    <3> SUFFICES ASSUME NEW i \in 1..b, NEW j \in 1..b, i < j PROVE r[i] < r[j]
      BY DEF Rising, b
    <3>1. a + i < a + j
      BY <1>1
    <3>2. s[a + i] < s[a + j]
      BY <1>5, <2>1, <3>1
    <3> QED BY <1>2, <3>2
  <2>4. Below(ToSet(f), ToSet(r))
    <3> SUFFICES ASSUME NEW i \in 1..a, NEW j \in 1..b PROVE f[i] < r[j]
      BY <1>3 DEF Below
    <3>1. i < a + j
      BY <1>1
    <3>2. s[i] < s[a + j]
      BY <1>5, <2>1, <3>1
    <3> QED BY <1>2, <3>2
  <2> QED BY <2>2, <2>3, <2>4
<1>8. ASSUME Rising(f), Rising(r), Below(ToSet(f), ToSet(r)) PROVE Rising(s)
  <2> SUFFICES ASSUME NEW i \in 1..(a + b), NEW j \in 1..(a + b), i < j PROVE s[i] < s[j]
    BY <1>1 DEF Rising
  <2>1. CASE j \in 1..a
    <3>1. i \in 1..a
      BY <1>1, <2>1
    <3> QED BY <1>2, <1>8, <2>1, <3>1 DEF Rising, a
  <2>2. CASE j \notin 1..a
    <3>1. PICK y \in 1..b : j = a + y
      BY <1>4, <2>2
    <3>2. CASE i \in 1..a
      <4>1. f[i] \in ToSet(f) /\ r[y] \in ToSet(r)
        BY <1>3, <3>2
      <4> QED BY <1>2, <1>8, <3>1, <3>2, <4>1 DEF Below
    <3>3. CASE i \notin 1..a
      <4>1. PICK x \in 1..b : i = a + x
        BY <1>4, <3>3
      <4>2. x < y
        BY <1>1, <3>1, <4>1
      <4>3. r[x] < r[y]
        BY <1>8, <4>2 DEF Rising, b
      <4> QED BY <1>2, <3>1, <4>1, <4>3
    <3> QED BY <3>2, <3>3
  <2> QED BY <2>1, <2>2
<1> QED BY <1>6, <1>7, <1>8

\* A sequence of one number.
LEMMA OneNumber ==
  ASSUME NEW n \in Nat
  PROVE  <<n>> \in Seq(Nat) /\ Len(<<n>>) = 1 /\ <<n>>[1] = n /\ ToSet(<<n>>) = {n} /\ Rising(<<n>>)
<1>1. <<n>> \in Seq(Nat) /\ Len(<<n>>) = 1 /\ <<n>>[1] = n /\ DOMAIN <<n>> = {1}
  OBVIOUS
<1> QED BY <1>1 DEF ToSet, Rising

LEMMA AppendedNumbers ==
  ASSUME NEW s \in Seq(Nat), NEW n \in Nat
  PROVE  /\ Append(s, n) \in Seq(Nat)
         /\ ToSet(Append(s, n)) = ToSet(s) \cup {n}
         /\ Rising(Append(s, n)) <=> Rising(s) /\ Below(ToSet(s), {n})
<1> DEFINE a == Append(s, n)
<1>1. /\ a \in Seq(Nat) /\ Len(a) = Len(s) + 1 /\ Len(s) \in Nat
      /\ (\A i \in 1..Len(s) : s[i] = a[i]) /\ a[Len(s) + 1] = n
  BY AppendProperties
<1> HIDE DEF a
<1>2. \A i \in 1..Len(<<n>>) : <<n>>[i] = a[Len(s) + i]
  BY <1>1, OneNumber
<1>3. <<n>> \in Seq(Nat) /\ Len(<<n>>) = 1 /\ ToSet(<<n>>) = {n} /\ Rising(<<n>>)
  BY OneNumber
<1>4. Len(a) = Len(s) + Len(<<n>>)
  BY <1>1, <1>3
<1>5. /\ ToSet(a) = ToSet(s) \cup ToSet(<<n>>)
      /\ Rising(a) <=> Rising(s) /\ Rising(<<n>>) /\ Below(ToSet(s), ToSet(<<n>>))
  BY <1>1, <1>2, <1>3, <1>4, InTwoParts
<1>6. a \in Seq(Nat) /\ ToSet(a) = ToSet(s) \cup {n} /\ (Rising(a) <=> Rising(s) /\ Below(ToSet(s), {n}))
  BY <1>1, <1>3, <1>5
<1> QED BY <1>6 DEF a

LEMMA TakenNumbers ==
  ASSUME NEW s \in Seq(Nat), NEW k \in 0..Len(s)
  PROVE  LET f == SubSeq(s, 1, k)
             r == SubSeq(s, k + 1, Len(s)) IN
         /\ f \in Seq(Nat) /\ r \in Seq(Nat)
         /\ ToSet(s) = ToSet(f) \cup ToSet(r)
         /\ Rising(s) <=> Rising(f) /\ Rising(r) /\ Below(ToSet(f), ToSet(r))
<1> DEFINE f == SubSeq(s, 1, k)
           r == SubSeq(s, k + 1, Len(s))
<1>1. Len(s) \in Nat /\ \A i \in 1..Len(s) : s[i] \in Nat
  OBVIOUS
<1>2. f \in Seq(Nat) /\ Len(f) = k /\ \A i \in 1..k : f[i] = s[i]
  <2>1. \A i \in 1..k : s[i] \in Nat
    BY <1>1
  <2>2. /\ f \in Seq(Nat) /\ Len(f) = IF 1 <= k THEN k - 1 + 1 ELSE 0
        /\ \A i \in 1..(k - 1 + 1) : f[i] = s[1 + i - 1]
    BY <1>1, <2>1, SubSeqProperties
  <2> HIDE DEF f
  <2>3. k - 1 + 1 = k /\ \A i \in 1..k : 1 + i - 1 = i
    BY <1>1
  <2> QED BY <2>2, <2>3
<1>3. r \in Seq(Nat) /\ Len(r) = Len(s) - k /\ \A i \in 1..(Len(s) - k) : r[i] = s[k + i]
  <2>1. \A i \in (k + 1)..Len(s) : s[i] \in Nat
    BY <1>1
  <2>2. /\ r \in Seq(Nat)
        /\ Len(r) = IF k + 1 <= Len(s) THEN Len(s) - (k + 1) + 1 ELSE 0
        /\ \A i \in 1..(Len(s) - (k + 1) + 1) : r[i] = s[(k + 1) + i - 1]
    BY <1>1, <2>1, SubSeqProperties
  <2> HIDE DEF r
  <2>3. Len(s) - (k + 1) + 1 = Len(s) - k /\ \A i \in 1..(Len(s) - k) : (k + 1) + i - 1 = k + i
    BY <1>1
  <2>4. Len(r) = Len(s) - k
    <3>1. CASE k + 1 <= Len(s)
      BY <2>2, <2>3, <3>1
    <3>2. CASE ~(k + 1 <= Len(s))
      <4>1. Len(s) - k = 0
        BY <1>1, <3>2
      <4> QED BY <2>2, <3>2, <4>1
    <3> QED BY <3>1, <3>2
  <2>5. ASSUME NEW i \in 1..(Len(s) - k) PROVE r[i] = s[k + i]
    BY <2>2, <2>3
  <2> QED BY <2>2, <2>4, <2>5
<1> HIDE DEF f, r
<1>4. Len(s) = Len(f) + Len(r) /\ Len(f) = k /\ Len(r) = Len(s) - k
  BY <1>1, <1>2, <1>3
<1>5. /\ \A i \in 1..Len(f) : f[i] = s[i]
      /\ \A i \in 1..Len(r) : r[i] = s[Len(f) + i]
  BY <1>2, <1>3, <1>4
<1>6. /\ ToSet(s) = ToSet(f) \cup ToSet(r)
      /\ Rising(s) <=> Rising(f) /\ Rising(r) /\ Below(ToSet(f), ToSet(r))
  BY <1>2, <1>3, <1>4, <1>5, InTwoParts
<1> QED BY <1>2, <1>3, <1>6 DEF f, r

LEMMA TailNumbers ==
  ASSUME NEW s \in Seq(Nat), s # << >>
  PROVE  /\ Tail(s) \in Seq(Nat) /\ Head(s) \in Nat
         /\ ToSet(s) = {Head(s)} \cup ToSet(Tail(s))
         /\ Rising(s) <=> Rising(Tail(s)) /\ Below({Head(s)}, ToSet(Tail(s)))
<1> DEFINE h == Head(s)
           u == Tail(s)
<1>1. h \in Nat /\ u \in Seq(Nat) /\ Len(u) = Len(s) - 1 /\ \A i \in 1..Len(u) : u[i] = s[i + 1]
  BY HeadTailProperties
<1>2. h = s[1] /\ Len(s) \in Nat
  OBVIOUS
<1> HIDE DEF h, u
<1>3. /\ <<h>> \in Seq(Nat) /\ Len(<<h>>) = 1 /\ <<h>>[1] = h
      /\ ToSet(<<h>>) = {h} /\ Rising(<<h>>)
  BY <1>1, OneNumber
<1>4. Len(s) = Len(<<h>>) + Len(u)
  BY <1>1, <1>2, <1>3
<1>5. \A i \in 1..Len(<<h>>) : <<h>>[i] = s[i]
  BY <1>2, <1>3
<1>6. \A i \in 1..Len(u) : u[i] = s[Len(<<h>>) + i]
  BY <1>1, <1>3
<1>7. /\ ToSet(s) = ToSet(<<h>>) \cup ToSet(u)
      /\ Rising(s) <=> Rising(<<h>>) /\ Rising(u) /\ Below(ToSet(<<h>>), ToSet(u))
  BY <1>1, <1>3, <1>4, <1>5, <1>6, InTwoParts
<1>8. ToSet(s) = {h} \cup ToSet(u) /\ (Rising(s) <=> Rising(u) /\ Below({h}, ToSet(u)))
  BY <1>3, <1>7
<1> QED BY <1>1, <1>8 DEF h, u

-----------------------------------------------------------------------------
(* The audit trail.                                                         *)

Once(s) == \A i, j \in 1..Len(s) : i # j => s[i] # s[j]

\* Two sets with nothing in common.
Apart(S, T) == \A m \in S : m \notin T

\* A number that is not in the sequence yet.
LEMMA AppendedOnce ==
  ASSUME NEW s \in Seq(Nat), NEW n \in Nat, n \notin ToSet(s), Once(s)
  PROVE  Once(Append(s, n))
<1> DEFINE a == Append(s, n)
<1>1. /\ Len(a) = Len(s) + 1 /\ Len(s) \in Nat
      /\ (\A i \in 1..Len(s) : a[i] = s[i]) /\ a[Len(s) + 1] = n
  BY AppendProperties
<1> HIDE DEF a
<1>2. \A i \in 1..Len(s) : s[i] # n
  BY DEF ToSet
<1>3. \A i \in 1..Len(a) : i \in 1..Len(s) \/ i = Len(s) + 1
  BY <1>1
<1>4. \A i, j \in 1..Len(a) : i # j => a[i] # a[j]
  BY <1>1, <1>2, <1>3 DEF Once
<1> QED BY <1>4 DEF a, Once

\* Numbers that rise are different.
LEMMA RisingOnce ==
  ASSUME NEW s \in Seq(Nat), Rising(s)
  PROVE  Once(s)
<1> SUFFICES ASSUME NEW i \in 1..Len(s), NEW j \in 1..Len(s), i # j PROVE s[i] # s[j]
  BY DEF Once
<1>1. s[i] \in Nat /\ s[j] \in Nat /\ i \in Nat /\ j \in Nat
  BY ElementOfSeq
<1>2. i < j \/ j < i
  BY <1>1
<1> QED BY <1>1, <1>2 DEF Rising

AuditTypes ==
  /\ audited \in Nat
  /\ rows \in Seq(Nat) /\ table \in Seq(Nat)
  /\ batch \in [AuditActor -> Seq(Nat)]
  /\ overlapped \in BOOLEAN

\* Buffer and batches are each in the order of the events, the buffer behind all
\* that was taken from it, and no row is in two places.
InLine ==
  /\ Rising(rows) /\ Once(table)
  /\ \A a \in AuditActor : Rising(batch[a])
  /\ Below(ToSet(table), ToSet(rows))
  /\ \A a \in AuditActor : Below(ToSet(batch[a]), ToSet(rows)) /\ Apart(ToSet(batch[a]), ToSet(table))
  /\ \A a, b \in AuditActor : a # b => Apart(ToSet(batch[a]), ToSet(batch[b]))

\* With one flush at a time, the table is in order and before the batch.
InTurn ==
  /\ Rising(table)
  /\ \A a \in AuditActor : Below(ToSet(table), ToSet(batch[a]))
  /\ \A a, b \in AuditActor : a # b => batch[a] = << >> \/ batch[b] = << >>

\* Every call of _on_envelope has its row somewhere, or lost it.
Everywhere == 1..audited = ToSet(table) \cup Carried \cup ToSet(rows) \cup lost

TrailInv == AuditTypes /\ InLine /\ (overlapped \/ InTurn) /\ Everywhere

\* The empty sequence.
LEMMA NoNumbers ==
  << >> \in Seq(Nat) /\ ToSet(<< >>) = {} /\ Rising(<< >>) /\ Once(<< >>)
BY DEF ToSet, Rising, Once

LEMMA TrailInit == AuditInit => TrailInv
<1> SUFFICES ASSUME AuditInit PROVE TrailInv
  OBVIOUS
<1>1. /\ audited = 0 /\ rows = << >> /\ table = << >> /\ lost = {} /\ overlapped = FALSE
      /\ batch = [a \in AuditActor |-> << >>]
  BY DEF AuditInit
<1>2. \A a \in AuditActor : batch[a] = << >>
  BY <1>1
<1>3. AuditTypes
  BY <1>1, NoNumbers DEF AuditTypes
<1>4. Carried = {}
  BY <1>2, NoNumbers DEF Carried
<1>5. InLine
  BY <1>1, <1>2, NoNumbers DEF InLine, Below, Apart
<1>6. InTurn
  BY <1>1, <1>2, NoNumbers DEF InTurn, Below
<1>7. Everywhere
  BY <1>1, <1>4, NoNumbers DEF Everywhere
<1> QED BY <1>3, <1>5, <1>6, <1>7 DEF TrailInv

\* A new envelope comes last, unless it cannot be written; with a full buffer the
\* oldest row gives way, either way.
LEMMA EnvelopeKeepsOrder ==
  ASSUME TrailInv, AuditEnvelope
  PROVE  TrailInv'
<1> DEFINE full == Len(rows) >= BufferSize
           kept == IF full THEN Tail(rows) ELSE rows
           dropped == IF full THEN {Head(rows)} ELSE {}
           n == audited + 1
           refused == n \in Unwritable
           gone == IF refused THEN {n} ELSE {}
<1>1. /\ n \in Nat /\ audited' = n /\ UNCHANGED <<batch, table, overlapped>>
      /\ rows' = IF refused THEN kept ELSE Append(kept, n)
      /\ lost' = lost \cup dropped \cup gone
  BY DEF AuditEnvelope, TrailInv, AuditTypes
<1>3. kept \in Seq(Nat) /\ ToSet(rows) = dropped \cup ToSet(kept) /\ Rising(kept)
  <2>1. CASE full
    <3>1. rows # << >>
      BY <2>1, AuditAssumption
    <3> QED BY <2>1, <3>1, TailNumbers DEF TrailInv, AuditTypes, InLine
  <2>2. CASE ~full
    BY <2>2 DEF TrailInv, AuditTypes, InLine
  <2> QED BY <2>1, <2>2
<1> HIDE DEF full, kept, dropped
<1>4. \A m \in 1..audited : m < n
  BY DEF TrailInv, AuditTypes
<1>5. \A a \in AuditActor : ToSet(batch[a]) \subseteq Carried
  BY DEF Carried
<1>6. /\ Below(ToSet(table), {n}) /\ Below(ToSet(kept), {n})
      /\ \A a \in AuditActor : Below(ToSet(batch[a]), {n})
  BY <1>3, <1>4, <1>5 DEF TrailInv, Everywhere, Below
<1> HIDE DEF n
<1>7. /\ rows' \in Seq(Nat) /\ Rising(rows')
      /\ ToSet(rows') \cup gone = ToSet(kept) \cup {n}
  <2>1. CASE refused
    BY <1>1, <1>3, <2>1
  <2>2. CASE ~refused
    BY <1>1, <1>3, <1>6, <2>2, AppendedNumbers
  <2> QED BY <2>1, <2>2
<1>8. InLine'
  BY <1>1, <1>3, <1>6, <1>7 DEF TrailInv, InLine, Below
<1>9. (overlapped \/ InTurn)'
  BY <1>1 DEF TrailInv, InTurn
<1>10. Everywhere'
  <2>1. 1..n = 1..audited \cup {n}
    BY DEF TrailInv, AuditTypes, n
  <2>2. Carried' = Carried
    BY <1>1 DEF Carried
  <2> QED BY <1>1, <1>3, <1>7, <2>1, <2>2 DEF TrailInv, Everywhere
<1>11. AuditTypes'
  BY <1>1, <1>7 DEF TrailInv, AuditTypes
<1> QED BY <1>8, <1>9, <1>10, <1>11 DEF TrailInv

\* What the batches carry, when one of them changes.
LEMMA CarriedBut ==
  ASSUME NEW a \in AuditActor, batch \in [AuditActor -> Seq(Nat)],
         NEW s \in Seq(Nat), batch' = [batch EXCEPT ![a] = s]
  PROVE  /\ batch' \in [AuditActor -> Seq(Nat)] /\ batch'[a] = s
         /\ \A b \in AuditActor \ {a} : batch'[b] = batch[b]
         /\ Carried' = ToSet(s) \cup UNION {ToSet(batch[b]) : b \in AuditActor \ {a}}
         /\ Carried = ToSet(batch[a]) \cup UNION {ToSet(batch[b]) : b \in AuditActor \ {a}}
<1>1. /\ batch' \in [AuditActor -> Seq(Nat)] /\ batch'[a] = s
      /\ \A b \in AuditActor \ {a} : batch'[b] = batch[b]
  OBVIOUS
<1>2. Carried' = ToSet(s) \cup UNION {ToSet(batch[b]) : b \in AuditActor \ {a}}
  <2>1. Carried' = UNION {ToSet(batch'[b]) : b \in AuditActor}
    BY DEF Carried
  <2> QED BY <1>1, <2>1
<1>3. Carried = ToSet(batch[a]) \cup UNION {ToSet(batch[b]) : b \in AuditActor \ {a}}
  BY DEF Carried
<1> QED BY <1>1, <1>2, <1>3

\* A flush that begins takes the oldest rows of the buffer together.
LEMMA BatchKeepsOrder ==
  ASSUME TrailInv, NEW a \in AuditActor, batch[a] = << >>, TakeBatch(a),
         UNCHANGED <<audited, table, lost>>
  PROVE  TrailInv'
<1> DEFINE k == IF Len(rows) < BatchSize THEN Len(rows) ELSE BatchSize
           f == SubSeq(rows, 1, k)
           others == UNION {ToSet(batch[b]) : b \in AuditActor \ {a}}
<1>1. k \in 0..Len(rows) /\ rows \in Seq(Nat) /\ batch \in [AuditActor -> Seq(Nat)]
  BY AuditAssumption DEF TrailInv, AuditTypes
<1>2. /\ batch' = [batch EXCEPT ![a] = f] /\ rows' = SubSeq(rows, k + 1, Len(rows))
      /\ overlapped' = (overlapped \/ (rows # << >> /\ \E b \in AuditActor \ {a} : batch[b] # << >>))
  BY DEF TakeBatch
<1> HIDE DEF k
<1>3. /\ f \in Seq(Nat) /\ rows' \in Seq(Nat)
      /\ ToSet(rows) = ToSet(f) \cup ToSet(rows')
      /\ Rising(rows) => Rising(f) /\ Rising(rows') /\ Below(ToSet(f), ToSet(rows'))
  BY <1>1, <1>2, TakenNumbers
<1>4. rows = << >> => f = << >>
  BY <1>1
<1> HIDE DEF f
<1>5. /\ batch' \in [AuditActor -> Seq(Nat)] /\ batch'[a] = f
      /\ \A b \in AuditActor \ {a} : batch'[b] = batch[b]
      /\ Carried' = ToSet(f) \cup others /\ Carried = ToSet(batch[a]) \cup others
  BY <1>1, <1>2, <1>3, CarriedBut
<1> HIDE DEF others
<1>6. ToSet(batch[a]) = {}
  BY NoNumbers
<1>7. \A S : Below(S, ToSet(rows)) => Below(S, ToSet(f)) /\ Below(S, ToSet(rows'))
  BY <1>3 DEF Below
<1>8. ASSUME NEW S, S \subseteq Nat, Below(S, ToSet(rows)) PROVE Apart(S, ToSet(f)) /\ Apart(ToSet(f), S)
  <2>1. ASSUME NEW m \in S, NEW x \in ToSet(f) PROVE m # x
    <3>1. m < x /\ m \in Nat
      BY <1>3, <1>8 DEF Below
    <3> QED BY <3>1
  <2> QED BY <2>1 DEF Apart
<1>9. ToSet(table) \subseteq Nat /\ \A b \in AuditActor : ToSet(batch[b]) \subseteq Nat
  BY DEF TrailInv, AuditTypes, ToSet
<1>10. Apart(ToSet(f), ToSet(table))
  BY <1>8, <1>9 DEF TrailInv, InLine
<1>11. \A b \in AuditActor \ {a} : Apart(ToSet(f), ToSet(batch[b])) /\ Apart(ToSet(batch[b]), ToSet(f))
  BY <1>8, <1>9 DEF TrailInv, InLine
<1>12. InLine'
  <2>1. Rising(rows') /\ Once(table') /\ Below(ToSet(table'), ToSet(rows'))
    BY <1>3, <1>7 DEF TrailInv, InLine
  <2>2. ASSUME NEW b \in AuditActor
        PROVE  Rising(batch'[b]) /\ Below(ToSet(batch'[b]), ToSet(rows')) /\ Apart(ToSet(batch'[b]), ToSet(table'))
    <3>1. CASE b = a
      BY <1>3, <1>5, <1>10, <3>1 DEF TrailInv, InLine
    <3>2. CASE b # a
      BY <1>5, <1>7, <3>2 DEF TrailInv, InLine
    <3> QED BY <3>1, <3>2
  <2>3. ASSUME NEW b \in AuditActor, NEW c \in AuditActor, b # c
        PROVE  Apart(ToSet(batch'[b]), ToSet(batch'[c]))
    BY <1>5, <1>11, <2>3 DEF TrailInv, InLine
  <2> QED BY <2>1, <2>2, <2>3 DEF InLine
<1>13. ASSUME ~overlapped' PROVE InTurn'
  <2>1. InTurn /\ (rows = << >> \/ \A b \in AuditActor \ {a} : batch[b] = << >>)
    BY <1>2, <1>13 DEF TrailInv
  <2>2. ASSUME NEW b \in AuditActor PROVE Below(ToSet(table'), ToSet(batch'[b]))
    BY <1>5, <1>7, <2>1 DEF TrailInv, InLine, InTurn
  <2>3. ASSUME NEW b \in AuditActor, NEW c \in AuditActor, b # c PROVE batch'[b] = << >> \/ batch'[c] = << >>
    BY <1>4, <1>5, <2>1, <2>3 DEF InTurn
  <2> QED BY <2>1, <2>2, <2>3 DEF InTurn
<1>14. Everywhere'
  BY <1>3, <1>5, <1>6 DEF TrailInv, Everywhere
<1>15. AuditTypes'
  BY <1>2, <1>3, <1>5 DEF TrailInv, AuditTypes
<1> QED BY <1>12, <1>13, <1>14, <1>15 DEF TrailInv

\* The next row of a batch goes into the table.
LEMMA RowKeepsOrder ==
  ASSUME TrailInv, NEW a \in AuditActor, batch[a] # << >>,
         table' = Append(table, Head(batch[a])), batch' = [batch EXCEPT ![a] = Tail(@)],
         UNCHANGED <<audited, rows, lost, overlapped>>
  PROVE  TrailInv'
<1> DEFINE h == Head(batch[a])
           u == Tail(batch[a])
           others == UNION {ToSet(batch[b]) : b \in AuditActor \ {a}}
<1>1. batch \in [AuditActor -> Seq(Nat)] /\ batch[a] \in Seq(Nat) /\ table \in Seq(Nat)
  BY DEF TrailInv, AuditTypes
<1>2. /\ u \in Seq(Nat) /\ h \in Nat /\ ToSet(batch[a]) = {h} \cup ToSet(u)
      /\ Rising(u) /\ Below({h}, ToSet(u))
  BY <1>1, TailNumbers DEF TrailInv, InLine
<1>3. table' = Append(table, h) /\ batch' = [batch EXCEPT ![a] = u]
  OBVIOUS
<1> HIDE DEF h, u
<1>4. /\ batch' \in [AuditActor -> Seq(Nat)] /\ batch'[a] = u
      /\ \A b \in AuditActor \ {a} : batch'[b] = batch[b]
      /\ Carried' = ToSet(u) \cup others /\ Carried = ToSet(batch[a]) \cup others
  BY <1>1, <1>2, <1>3, CarriedBut
<1> HIDE DEF others
<1>5. h \notin ToSet(table) /\ \A b \in AuditActor \ {a} : h \notin ToSet(batch[b])
  BY <1>2 DEF TrailInv, InLine, Apart
<1>6. h \notin ToSet(u)
  BY <1>2 DEF Below
<1>7. /\ table' \in Seq(Nat) /\ ToSet(table') = ToSet(table) \cup {h}
      /\ Rising(table') <=> Rising(table) /\ Below(ToSet(table), {h})
  BY <1>1, <1>2, <1>3, AppendedNumbers
<1>8. Once(table')
  BY <1>1, <1>2, <1>3, <1>5, AppendedOnce DEF TrailInv, InLine
<1>9. InLine'
  <2>1. Rising(rows') /\ Below(ToSet(table'), ToSet(rows'))
    BY <1>2, <1>7 DEF TrailInv, InLine, Below
  <2>2. ASSUME NEW b \in AuditActor
        PROVE  Rising(batch'[b]) /\ Below(ToSet(batch'[b]), ToSet(rows')) /\ Apart(ToSet(batch'[b]), ToSet(table'))
    <3>1. CASE b = a
      BY <1>2, <1>4, <1>6, <1>7, <3>1 DEF TrailInv, InLine, Below, Apart
    <3>2. CASE b # a
      BY <1>4, <1>5, <1>7, <3>2 DEF TrailInv, InLine, Apart
    <3> QED BY <3>1, <3>2
  <2>3. ASSUME NEW b \in AuditActor, NEW c \in AuditActor, b # c
        PROVE  Apart(ToSet(batch'[b]), ToSet(batch'[c]))
    BY <1>2, <1>4, <2>3 DEF TrailInv, InLine, Apart
  <2> QED BY <1>8, <2>1, <2>2, <2>3 DEF InLine
<1>10. ASSUME InTurn PROVE InTurn'
  <2>1. \A b \in AuditActor \ {a} : batch[b] = << >>
    BY <1>10 DEF InTurn
  <2>2. Rising(table')
    BY <1>2, <1>7, <1>10 DEF InTurn, Below
  <2>3. \A b \in AuditActor \ {a} : ToSet(batch'[b]) = {}
    BY <1>4, <2>1, NoNumbers
  <2>4. ASSUME NEW b \in AuditActor PROVE Below(ToSet(table'), ToSet(batch'[b]))
    <3>1. CASE b = a
      BY <1>2, <1>4, <1>7, <1>10, <3>1 DEF InTurn, Below
    <3>2. CASE b # a
      BY <2>3, <3>2 DEF Below
    <3> QED BY <3>1, <3>2
  <2>5. ASSUME NEW b \in AuditActor, NEW c \in AuditActor, b # c PROVE batch'[b] = << >> \/ batch'[c] = << >>
    BY <1>4, <2>1, <2>5
  <2> QED BY <2>2, <2>4, <2>5 DEF InTurn
<1>11. Everywhere'
  BY <1>2, <1>4, <1>7 DEF TrailInv, Everywhere
<1>12. AuditTypes'
  BY <1>4, <1>7 DEF TrailInv, AuditTypes
<1> QED BY <1>9, <1>10, <1>11, <1>12 DEF TrailInv

\* A failure or a cancellation loses the rest of a batch.
LEMMA LossKeepsOrder ==
  ASSUME TrailInv, NEW a \in AuditActor,
         lost' = lost \cup ToSet(batch[a]), batch' = [batch EXCEPT ![a] = << >>],
         UNCHANGED <<audited, rows, table, overlapped>>
  PROVE  TrailInv'
<1> DEFINE others == UNION {ToSet(batch[b]) : b \in AuditActor \ {a}}
           none == << >>
<1>1. batch \in [AuditActor -> Seq(Nat)] /\ none \in Seq(Nat) /\ ToSet(none) = {} /\ Rising(none)
  BY NoNumbers DEF TrailInv, AuditTypes
<1>2. /\ batch' \in [AuditActor -> Seq(Nat)] /\ batch'[a] = none
      /\ \A b \in AuditActor \ {a} : batch'[b] = batch[b]
      /\ Carried' = ToSet(none) \cup others /\ Carried = ToSet(batch[a]) \cup others
  BY <1>1, CarriedBut
<1> HIDE DEF others, none
<1>3. InLine'
  <2>1. ASSUME NEW b \in AuditActor
        PROVE  Rising(batch'[b]) /\ Below(ToSet(batch'[b]), ToSet(rows')) /\ Apart(ToSet(batch'[b]), ToSet(table'))
    BY <1>1, <1>2 DEF TrailInv, InLine, Below, Apart
  <2>2. ASSUME NEW b \in AuditActor, NEW c \in AuditActor, b # c
        PROVE  Apart(ToSet(batch'[b]), ToSet(batch'[c]))
    BY <1>1, <1>2, <2>2 DEF TrailInv, InLine, Apart
  <2> QED BY <2>1, <2>2 DEF TrailInv, InLine
<1>4. ASSUME InTurn PROVE InTurn'
  <2>1. ASSUME NEW b \in AuditActor PROVE Below(ToSet(table'), ToSet(batch'[b]))
    BY <1>1, <1>2, <1>4 DEF InTurn, Below
  <2>2. ASSUME NEW b \in AuditActor, NEW c \in AuditActor, b # c PROVE batch'[b] = << >> \/ batch'[c] = << >>
    BY <1>2, <1>4, <2>2 DEF InTurn, none
  <2> QED BY <1>4, <2>1, <2>2 DEF InTurn
<1>5. Everywhere'
  BY <1>1, <1>2 DEF TrailInv, Everywhere
<1>6. AuditTypes'
  BY <1>2 DEF TrailInv, AuditTypes
<1> QED BY <1>3, <1>4, <1>5, <1>6 DEF TrailInv

\* Steps that touch no row.
LEMMA RowsUntouched ==
  ASSUME TrailInv, UNCHANGED <<audited, rows, batch, table, lost, overlapped>>
  PROVE  TrailInv'
BY DEF TrailInv, AuditTypes, InLine, InTurn, Everywhere, Carried

\* A flush that has not begun carries nothing.
Empty == \A a \in AuditActor : stage[a] # "flush" => batch[a] = << >>

Stages == stage \in [AuditActor -> {"idle", "loop", "wait", "join", "flush", "done"}]

\* Who joins joins a flusher.
Joining ==
  /\ joins \in [Closers -> Flushers \cup {NoTask}]
  /\ current \in Flushers \cup {NoTask}
  /\ \A c \in Closers : stage[c] = "join" => joins[c] \in Flushers

WaitingInv == TrailInv /\ Empty /\ Stages /\ Joining

LEMMA WaitingInit == AuditInit => WaitingInv
BY TrailInit DEF AuditInit, WaitingInv, Empty, Stages, Joining, AuditActor

\* Every step keeps the order.
LEMMA TrailStep ==
  ASSUME WaitingInv, [AuditNext]_auditVars
  PROVE  WaitingInv'
<1> USE DEF AuditActor
<1>0. TrailInv /\ Empty /\ Stages /\ batch \in [AuditActor -> Seq(Nat)]
  BY DEF WaitingInv, TrailInv, AuditTypes
<1>1. CASE UNCHANGED auditVars
  BY <1>0, <1>1, RowsUntouched DEF auditVars, WaitingInv, Empty, Stages, Joining
<1>2. CASE AuditEnvelope
  <2>1. TrailInv'
    BY <1>0, <1>2, EnvelopeKeepsOrder
  <2> QED BY <1>0, <1>2, <2>1 DEF AuditEnvelope, WaitingInv, Empty, Stages, Joining
<1>3. ASSUME NEW f \in Flushers, AttachAudit(f) PROVE WaitingInv'
  <2>1. TrailInv'
    BY <1>0, <1>3, RowsUntouched DEF AttachAudit
  <2> QED BY <1>0, <1>3, <2>1 DEF AttachAudit, WaitingInv, Empty, Stages, Joining
<1>4. ASSUME NEW f \in Flushers, FlusherBegins(f) PROVE WaitingInv'
  <2>1. TrailInv'
    BY <1>0, <1>4, RowsUntouched DEF FlusherBegins
  <2> QED BY <1>0, <1>4, <2>1 DEF FlusherBegins, Looped, WaitingInv, Empty, Stages, Joining
<1>5. ASSUME NEW a \in AuditActor, TakeBatch(a), stage[a] # "flush",
             UNCHANGED <<audited, table, lost>>
      PROVE  /\ TrailInv' /\ Empty' /\ Stages'
             /\ \A c \in Closers : stage'[c] = "join" => stage[c] = "join"
  <2>1. batch[a] = << >>
    BY <1>0, <1>5 DEF Empty
  <2>2. TrailInv'
    BY <1>0, <1>5, <2>1, BatchKeepsOrder
  <2>3. \A b \in AuditActor \ {a} : batch'[b] = batch[b] /\ stage'[b] = stage[b]
    BY <1>0, <1>5 DEF TakeBatch, Stages
  <2>4. stage'[a] = "flush" /\ Stages'
    BY <1>0, <1>5 DEF TakeBatch, Stages
  <2> QED BY <1>0, <2>2, <2>3, <2>4 DEF Empty
<1>6. ASSUME NEW f \in Flushers, FlusherWakes(f) PROVE WaitingInv'
  BY <1>5, <1>6 DEF FlusherWakes, WaitingInv, Joining
<1>7. ASSUME NEW c \in Closers, FinalFlush(c) PROVE WaitingInv'
  BY <1>5, <1>7 DEF FinalFlush, WaitingInv, Joining
<1>8. ASSUME NEW c \in Closers, CloseAudit(c) PROVE WaitingInv'
  <2>1. CASE current = NoTask
    BY <1>5, <1>8, <2>1 DEF CloseAudit, WaitingInv, Joining
  <2>2. CASE current # NoTask
    <3>1. TrailInv'
      BY <1>0, <1>8, <2>2, RowsUntouched DEF CloseAudit
    <3>2. Empty' /\ Stages'
      BY <1>0, <1>8, <2>2 DEF CloseAudit, Empty, Stages
    <3>3. Joining'
      BY <1>0, <1>8, <2>2 DEF CloseAudit, WaitingInv, Joining, Stages
    <3> QED BY <3>1, <3>2, <3>3 DEF WaitingInv
  <2> QED BY <2>1, <2>2
<1>9. ASSUME NEW a \in AuditActor, FlushRow(a) PROVE WaitingInv'
  <2>1. /\ Insert(a) /\ batch[a] # << >> /\ stage[a] = "flush"
        /\ UNCHANGED <<audited, overlapped, stage, joins>>
    BY <1>9 DEF FlushRow
  <2>2. TrailInv'
    BY <1>0, <2>1, RowKeepsOrder, LossKeepsOrder DEF Insert
  <2>3. \A b \in AuditActor \ {a} : batch'[b] = batch[b]
    BY <1>0, <2>1 DEF Insert
  <2> QED BY <1>0, <2>1, <2>2, <2>3, <1>9 DEF WaitingInv, Empty, Stages, Joining, FlushRow
<1>10. ASSUME NEW a \in AuditActor, FlushEnds(a) PROVE WaitingInv'
  <2>1. TrailInv'
    BY <1>0, <1>10, RowsUntouched DEF FlushEnds
  <2> QED BY <1>0, <1>10, <2>1 DEF FlushEnds, Looped, WaitingInv, Empty, Stages, Joining
<1>11. ASSUME NEW c \in Closers, CancelClose(c) PROVE WaitingInv'
  <2>1. PICK a : /\ a = (IF stage[c] = "join" THEN joins[c] ELSE c)
                 /\ stage[c] \in {"join", "flush"} /\ stage[a] \in {"loop", "wait", "flush"}
                 /\ stage' = [stage EXCEPT ![a] = "done"]
                 /\ lost' = lost \cup ToSet(batch[a])
                 /\ batch' = [batch EXCEPT ![a] = << >>]
                 /\ UNCHANGED <<audited, rows, joins, table, overlapped>>
    BY <1>11 DEF CancelClose
  <2>2. a \in AuditActor
    BY <2>1 DEF WaitingInv, Joining
  <2>3. TrailInv'
    BY <1>0, <2>1, <2>2, LossKeepsOrder
  <2>4. Stages' /\ batch'[a] = << >> /\ stage'[a] = "done"
          /\ \A b \in AuditActor \ {a} : batch'[b] = batch[b] /\ stage'[b] = stage[b]
    BY <1>0, <2>1, <2>2 DEF Stages
  <2>5. Joining'
    BY <2>1, <2>4, <1>11 DEF WaitingInv, Joining, CancelClose
  <2> QED BY <1>0, <2>3, <2>4, <2>5 DEF WaitingInv, Empty
<1> QED
  BY <1>1, <1>2, <1>3, <1>4, <1>6, <1>7, <1>8, <1>9, <1>10, <1>11 DEF AuditNext

\* The audit trail has each row at most once, in the order of the events unless two
\* flushes had rows at once, and what is not in it was lost to overload, to
\* json.dumps, to the database or to a cancellation, or is still on its way: for any
\* number of calls of attach() and close(), at any time.
THEOREM TrailIsInOrder == AuditSpec => []TrailInOrder
<1>1. WaitingInv => TrailInOrder
  BY DEF WaitingInv, TrailInv, InLine, InTurn, Everywhere, Rising, Once, TrailInOrder
<1> QED BY <1>1, WaitingInit, TrailStep, PTL DEF AuditSpec

\* The instance that is checked has the audit trail's behaviours.
THEOREM AroundHasAudit == Spec => AuditSpec
<1>1. Init => AuditInit
  BY DEF Init
<1>2. ASSUME [Next]_vars PROVE [AuditNext]_auditVars
  BY <1>2 DEF Next, vars, Delivery, Alert, Audit, Signals, AuditNext
<1> QED BY <1>1, <1>2, PTL DEF Spec, AuditSpec
=============================================================================
