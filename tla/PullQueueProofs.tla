-------------------------- MODULE PullQueueProofs --------------------------
(***************************************************************************)
(* Proofs about PullQueue, for any groups, replicas, leases, caps, numbers *)
(* of messages and of faults: a lease is not broken before its handle      *)
(* expires, and the holder of the current lease is not refused.            *)
(*                                                                         *)
(* Redis knows of a lease only as the idle clock of a pending entry, the   *)
(* handle only as an expiry.  Leased ties the two together: the clock of   *)
(* an entry and what is left of any valid handle for it add up to no more  *)
(* than the threshold, so that the entry cannot be reclaimed first.  That  *)
(* holds of handles that are not late: the clock of what a receive has in  *)
(* hand stands at zero as long as it has not waited (Fresh), and no two    *)
(* receives or handles stand for one delivery (Unique), so that an XCLAIM  *)
(* by the receive of the current delivery breaks no lease of another.      *)
(***************************************************************************)
EXTENDS PullQueue, FiniteSetTheorems, WellFoundedInduction, TLAPS

-----------------------------------------------------------------------------
(* Numbers.                                                                 *)

(* A set of numbers that is not empty has a smallest one.                   *)
LEMMA LeastNumber ==
  ASSUME NEW T, T \subseteq Nat, T # {}
  PROVE  \E x \in T : \A y \in T : x <= y
<1>1. PICK x \in T : \A y \in T : ~ (<<y, x>> \in OpToRel(<, Nat))
  BY NatLessThanWellFounded, WFMin
<1>2. \A y \in T : ~ (y < x)
  BY <1>1 DEF OpToRel
<1> QED BY <1>2

(* Max of a bounded set of numbers.                                         *)
LEMMA BoundedMax ==
  ASSUME NEW k \in Nat, NEW S, S \subseteq 0..k, S # {}
  PROVE  Max(S) \in S /\ \A y \in S : Max(S) >= y
<1>1. PICK T : T = {k - n : n \in S}
  OBVIOUS
<1>2. T \subseteq Nat /\ T # {}
  <2>1. PICK n : n \in S
    OBVIOUS
  <2>2. k - n \in T
    BY <1>1, <2>1
  <2>3. \A t \in T : t \in Nat
    BY <1>1
  <2> QED  BY <2>2, <2>3
<1>3. PICK t \in T : \A y \in T : t <= y
  BY <1>2, LeastNumber
<1>4. PICK m \in S : t = k - m
  BY <1>1
<1>5. \A y \in S : m >= y
  <2> SUFFICES ASSUME NEW y \in S PROVE m >= y
    OBVIOUS
  <2>1. k - y \in T
    BY <1>1
  <2>2. k - m <= k - y /\ m \in 0..k /\ y \in 0..k
    BY <1>3, <1>4, <2>1
  <2> QED  BY <2>2
<1> QED  BY <1>5 DEF Max

(* The smaller of two numbers.                                              *)
LEMMA MinOfTwo ==
  ASSUME NEW a \in Int, NEW b \in Int
  PROVE  Min({a, b}) \in {a, b} /\ Min({a, b}) <= a /\ Min({a, b}) <= b
<1>1. \E x \in {a, b} : \A y \in {a, b} : x <= y
  BY DEF Min
<1> QED  BY <1>1 DEF Min

-----------------------------------------------------------------------------
(* The inductive invariant.                                                 *)

Entry == [owner : Replicas, count : Int, idle : 0..Threshold, gen : Int, moved : BOOLEAN]

Handle == [group : Groups, msg : Nat, owner : Replicas, left : 0..Threshold,
           count : Int, gen : Int, raced : BOOLEAN, late : BOOLEAN]

IsRequest(q) ==
  /\ q = [pc |-> q.pc, group |-> q.group, lease |-> q.lease, counts |-> q.counts,
          got |-> q.got, parking |-> q.parking, raced |-> q.raced, waited |-> q.waited]
  /\ q.pc \in {"claim", "park", "read", "apply"} /\ q.group \in Groups /\ q.lease \in 0..Threshold
  /\ q.raced \in BOOLEAN /\ q.waited \in BOOLEAN /\ \A n \in DOMAIN q.counts : q.counts[n] \in Int
  /\ q.pc = "claim" => DOMAIN q.got = {}

(* The receive of replica r has message n of group g in hand.               *)
Has(r, g, n) == req[r] # Idle /\ req[r].group = g /\ n \in DOMAIN req[r].got

QueueTypes ==
  /\ sent \in Nat /\ cursor \in [Groups -> 0..sent]
  /\ pel = [g \in Groups |-> pel[g]] /\ req = [r \in Replicas |-> req[r]]
  /\ \A g \in Groups : Pending(g) \subseteq 1..cursor[g] /\ \A n \in Pending(g) : pel[g][n] \in Entry
  /\ \A r \in Replicas : req[r] = Idle \/ IsRequest(req[r])
  /\ \A n : \A r \in Replicas, g \in Groups : Has(r, g, n) =>
       n \in 1..cursor[g] /\ req[r].got[n] \in [count : Int, gen : Int]
  /\ handles \subseteq Handle /\ \A h \in handles : h.msg <= cursor[h.group]

(* times_delivered counts the deliveries, and a handle minted without a     *)
(* race says what it counted.                                               *)
Counted ==
  /\ \A g \in Groups : \A n \in Pending(g) : pel[g][n].count = pel[g][n].gen
  /\ \A n : \A r \in Replicas, g \in Groups : Has(r, g, n) =>
       req[r].raced \/ req[r].got[n].count = req[r].got[n].gen
  /\ \A h \in handles : h.raced \/ h.count = h.gen

(* Message n of group g is pending, its lease never changed by a holder.    *)
Steady(g, n) == n \in Pending(g) /\ ~pel[g][n].moved

(* What a receive has in hand is a delivery of its own, not a later one     *)
(* than the entry's last.                                                   *)
Unique ==
  /\ \A n : \A r \in Replicas, g \in Groups : Has(r, g, n) =>
       /\ n \in Pending(g) => req[r].got[n].gen <= pel[g][n].gen
       /\ \A s \in Replicas : Has(s, g, n) /\ req[s].got[n].gen = req[r].got[n].gen => s = r
       /\ \A h \in handles : h.group = g /\ h.msg = n => h.gen # req[r].got[n].gen
  /\ \A h \in handles : h.msg \in Pending(h.group) => h.gen <= pel[h.group][h.msg].gen

(* The clock of what a receive has in hand has not run before a wait.       *)
Fresh ==
  \A n : \A r \in Replicas, g \in Groups :
    Has(r, g, n) /\ Steady(g, n) /\ ~req[r].waited =>
      pel[g][n].idle = 0 /\ req[r].got[n].gen = pel[g][n].gen

(* A valid handle expires before its entry can be reclaimed.                *)
Leased ==
  \A h \in handles : h.left > 0 /\ ~h.late /\ Steady(h.group, h.msg) =>
    /\ pel[h.group][h.msg].idle + h.left <= Threshold
    /\ h.gen = pel[h.group][h.msg].gen

QueueInv == QueueTypes /\ Counted
LeaseInv == Unique /\ Fresh /\ Leased

-----------------------------------------------------------------------------
(* Steps that hand nothing out.                                             *)

LEMMA InitQueue == Init => QueueInv /\ LeaseInv
<1> SUFFICES ASSUME Init PROVE QueueInv /\ LeaseInv
  OBVIOUS
<1>1. /\ sent = 0 /\ cursor = [g \in Groups |-> 0] /\ pel = [g \in Groups |-> <<>>]
      /\ req = [r \in Replicas |-> Idle] /\ handles = {}
  BY DEF Init
<1>2. \A g \in Groups : Pending(g) = {}
  BY <1>1 DEF Pending
<1>3. \A r \in Replicas : req[r] = Idle
  BY <1>1
<1>4. QueueTypes
  BY <1>1, <1>2, <1>3 DEF QueueTypes, Has
<1> QED  BY <1>1, <1>2, <1>3, <1>4 DEF QueueInv, LeaseInv, Counted, Unique, Fresh, Leased, Has, Steady

(* Entries may go, requests end and handles be forgotten.                   *)
SameHand(r) == req'[r].got = req[r].got /\ req'[r].raced = req[r].raced /\ req'[r].waited = req[r].waited

LEMMA Shrinking ==
  ASSUME QueueInv, QueueTypes',
         \A g \in Groups : \A n \in Pending(g)' : n \in Pending(g) /\ pel'[g][n] = pel[g][n],
         \A n : \A r \in Replicas, g \in Groups : Has(r, g, n)' => Has(r, g, n) /\ SameHand(r),
         \A h \in handles' : h \in handles
  PROVE  QueueInv' /\ (LeaseInv => LeaseInv')
<1>1. Counted'
  BY DEF QueueInv, Counted, SameHand
<1>2. \A n : \A g \in Groups : Steady(g, n)' => Steady(g, n) /\ pel'[g][n] = pel[g][n]
  BY DEF Steady
<1>3. \A h \in handles : h.group \in Groups
  BY DEF QueueInv, QueueTypes, Handle
<1>4. ASSUME Unique PROVE Unique'
  <2>1. \A h \in handles' : h.msg \in Pending(h.group)' => h.gen <= pel'[h.group][h.msg].gen
    BY <1>3, <1>4 DEF Unique
  <2>2. ASSUME NEW n, NEW r \in Replicas, NEW g \in Groups, Has(r, g, n)'
        PROVE  /\ n \in Pending(g)' => req'[r].got[n].gen <= pel'[g][n].gen
               /\ \A s \in Replicas : Has(s, g, n)' /\ req'[s].got[n].gen = req'[r].got[n].gen => s = r
               /\ \A h \in handles' : h.group = g /\ h.msg = n => h.gen # req'[r].got[n].gen
    <3>1. Has(r, g, n) /\ SameHand(r)
      BY <2>2
    <3>2. /\ n \in Pending(g) => req[r].got[n].gen <= pel[g][n].gen
          /\ \A s \in Replicas : Has(s, g, n) /\ req[s].got[n].gen = req[r].got[n].gen => s = r
          /\ \A h \in handles : h.group = g /\ h.msg = n => h.gen # req[r].got[n].gen
      BY <1>4, <3>1 DEF Unique
    <3>3. \A s \in Replicas : Has(s, g, n)' => Has(s, g, n) /\ req'[s].got = req[s].got
      BY DEF SameHand
    <3> QED  BY <3>1, <3>2, <3>3 DEF SameHand
  <2> QED  BY <2>1, <2>2 DEF Unique
<1>5. Fresh => Fresh'
  BY <1>2 DEF Fresh, SameHand
<1>6. Leased => Leased'
  BY <1>2, <1>3 DEF Leased
<1> QED  BY <1>1, <1>4, <1>5, <1>6 DEF QueueInv, LeaseInv

LEMMA QuietQueue ==
  ASSUME QueueInv, UNCHANGED <<pel, req, cursor, handles>>, sent' \in Nat, sent <= sent'
  PROVE  QueueInv' /\ (LeaseInv => LeaseInv')
<1>1. cursor' \in [Groups -> 0..sent']
  BY DEF QueueInv, QueueTypes
<1>2. \A g \in Groups : Pending(g)' = Pending(g)
  BY DEF Pending
<1>3. \A n : \A r \in Replicas, g \in Groups : Has(r, g, n)' <=> Has(r, g, n)
  BY DEF Has
<1>4. QueueTypes'
  BY <1>1, <1>2, <1>3 DEF QueueInv, QueueTypes
<1> QED  BY <1>2, <1>3, <1>4, Shrinking DEF SameHand

(* A request begins or its replica dies.                                    *)
LEMMA ReceiveQueue ==
  ASSUME QueueInv, NEW r \in Replicas, NEW q, req' = [req EXCEPT ![r] = q],
         q = Idle \/ (IsRequest(q) /\ DOMAIN q.got = {}),
         UNCHANGED <<pel, sent, cursor, handles>>
  PROVE  QueueInv' /\ (LeaseInv => LeaseInv')
<1>1. \A s \in Replicas : req'[s] = IF s = r THEN q ELSE req[s]
  BY DEF QueueInv, QueueTypes
<1>2. \A g \in Groups : Pending(g)' = Pending(g)
  BY DEF Pending
<1>3. \A n : \A s \in Replicas, g \in Groups : Has(s, g, n)' => Has(s, g, n) /\ SameHand(s)
  BY <1>1 DEF Has, SameHand
<1>4. req' = [s \in Replicas |-> req'[s]]
  BY DEF QueueInv, QueueTypes
<1>5. QueueTypes'
  BY <1>1, <1>2, <1>3, <1>4 DEF QueueInv, QueueTypes, SameHand
<1> QED  BY <1>2, <1>3, <1>5, Shrinking

(* Entries of one group are acknowledged or dropped.                        *)
LEMMA DropsQueue ==
  ASSUME QueueInv, NEW g \in Groups, NEW kept \in SUBSET Pending(g),
         NEW p, p = [n \in kept |-> pel[g][n]], pel' = [pel EXCEPT ![g] = p],
         NEW c \in Nat, cursor[g] <= c, c <= sent, cursor' = [cursor EXCEPT ![g] = c],
         req' = [s \in Replicas |-> req'[s]], \A s \in Replicas : req'[s] = Idle \/ IsRequest(req'[s]),
         \A n : \A s \in Replicas, f \in Groups : Has(s, f, n)' => Has(s, f, n) /\ SameHand(s),
         sent' = sent, \A h \in handles' : h \in handles
  PROVE  QueueInv' /\ (LeaseInv => LeaseInv')
<1>1. \A f \in Groups : pel'[f] = IF f = g THEN p ELSE pel[f]
  BY DEF QueueInv, QueueTypes
<1>2. \A f \in Groups : \A n \in Pending(f)' : n \in Pending(f) /\ pel'[f][n] = pel[f][n]
  BY <1>1 DEF Pending
<1>3. \A n : \A s \in Replicas, f \in Groups : Has(s, f, n)' => Has(s, f, n) /\ SameHand(s)
  OBVIOUS
<1>4. /\ pel' = [f \in Groups |-> pel'[f]] /\ cursor' \in [Groups -> 0..sent]
      /\ \A f \in Groups : cursor'[f] \in Nat /\ cursor[f] \in Nat /\ cursor[f] <= cursor'[f]
  <2>1. cursor \in [Groups -> 0..sent] /\ sent \in Nat /\ c \in 0..sent
    BY DEF QueueInv, QueueTypes
  <2>2. cursor' \in [Groups -> 0..sent]
    BY <2>1
  <2>3. \A f \in Groups : cursor'[f] = IF f = g THEN c ELSE cursor[f]
    BY <2>1
  <2>4. \A f \in Groups : cursor[f] \in Nat
    BY <2>1
  <2>5. pel' = [f \in Groups |-> pel'[f]]
    BY DEF QueueInv, QueueTypes
  <2> QED  BY <2>2, <2>3, <2>4, <2>5
<1>5. \A f \in Groups : Pending(f)' \subseteq 1..cursor'[f] /\ \A n \in Pending(f)' : pel'[f][n] \in Entry
  <2> SUFFICES ASSUME NEW f \in Groups, NEW n \in Pending(f)'
               PROVE  n \in 1..cursor'[f] /\ pel'[f][n] \in Entry
    OBVIOUS
  <2>1. n \in Pending(f) /\ pel'[f][n] = pel[f][n]
    BY <1>2
  <2>2. n \in 1..cursor[f] /\ pel[f][n] \in Entry
    BY <2>1 DEF QueueInv, QueueTypes
  <2> QED  BY <1>4, <2>1, <2>2
<1>6. \A n : \A s \in Replicas, f \in Groups : Has(s, f, n)' =>
        n \in 1..cursor'[f] /\ req'[s].got[n] \in [count : Int, gen : Int]
  <2> SUFFICES ASSUME NEW s \in Replicas, NEW f \in Groups, NEW n, Has(s, f, n)'
               PROVE  n \in 1..cursor'[f] /\ req'[s].got[n] \in [count : Int, gen : Int]
    OBVIOUS
  <2>1. n \in 1..cursor[f] /\ req[s].got[n] \in [count : Int, gen : Int]
    BY <1>3 DEF QueueInv, QueueTypes
  <2> QED  BY <1>3, <1>4, <2>1 DEF SameHand
<1>7. handles' \subseteq Handle /\ \A h \in handles' : h.msg <= cursor'[h.group]
  <2> SUFFICES ASSUME NEW h \in handles' PROVE h \in Handle /\ h.msg <= cursor'[h.group]
    OBVIOUS
  <2>1. h \in Handle /\ h.msg <= cursor[h.group]
    BY DEF QueueInv, QueueTypes
  <2>2. h.msg \in Nat /\ h.group \in Groups
    BY <2>1 DEF Handle
  <2> QED  BY <1>4, <2>1, <2>2
<1>8. QueueTypes'
  BY <1>4, <1>5, <1>6, <1>7 DEF QueueInv, QueueTypes
<1> QED  BY <1>2, <1>3, <1>8, Shrinking

(* The requests go on as they are.                                          *)
LEMMA SameRequests ==
  ASSUME QueueInv, req' = req
  PROVE  /\ req' = [s \in Replicas |-> req'[s]] /\ \A s \in Replicas : req'[s] = Idle \/ IsRequest(req'[s])
         /\ \A n : \A s \in Replicas, f \in Groups : Has(s, f, n)' => Has(s, f, n) /\ SameHand(s)
BY DEF QueueInv, QueueTypes, Has, SameHand

-----------------------------------------------------------------------------
(* The reclaim.                                                             *)

LEMMA RedeliveredFacts ==
  ASSUME NEW e \in Entry, NEW r \in Replicas, NEW x, x = Redelivered(e, r)
  PROVE  /\ x \in Entry /\ x.idle = 0 /\ x.moved = e.moved
         /\ x.count = e.count + 1 /\ x.gen = e.gen + 1
<1>1. PICK c \in Int : c = e.count + 1
  BY DEF Entry
<1>2. PICK d \in Int : d = e.gen + 1
  BY DEF Entry
<1>3. x = [[[[e EXCEPT !.owner = r] EXCEPT !.count = c] EXCEPT !.idle = 0] EXCEPT !.gen = d]
  BY <1>1, <1>2 DEF Redelivered, Entry
<1>4. x.idle = 0 /\ x.moved = e.moved /\ x.count = c /\ x.gen = d /\ 0 \in 0..Threshold
  BY <1>3, LimitsAssumption DEF Entry
<1>5. x \in Entry
  BY <1>3, <1>4 DEF Entry
<1> QED  BY <1>1, <1>2, <1>4, <1>5

(* The request of replica r becomes k, which has the usable entries in hand *)
(* of those it claimed.                                                     *)
Reclaims(r, g, claimed, usable, kept, p, k) ==
  /\ req[r] # Idle /\ req[r].group = g /\ DOMAIN req[r].got = {}
  /\ usable \in SUBSET claimed /\ claimed \in SUBSET Expired(g) /\ kept \in SUBSET Pending(g)
  /\ DOMAIN p = kept /\ pel' = [pel EXCEPT ![g] = p]
  /\ \A n \in kept : p[n] = IF n \in claimed THEN Redelivered(pel[g][n], r) ELSE pel[g][n]
  /\ IsRequest(k) /\ k.group = g /\ DOMAIN k.got = usable
  /\ \A n \in usable : /\ k.got[n] \in [count : Int, gen : Int]
                       /\ k.got[n].gen = pel[g][n].gen + 1
                       /\ k.raced \/ k.got[n].count = pel[g][n].count + 1
  /\ req' = [req EXCEPT ![r] = k] /\ UNCHANGED <<sent, cursor, handles>>

(* What the reclaim does to each entry and to each hand.                    *)
LEMMA ReclaimedCells ==
  ASSUME QueueTypes, NEW r \in Replicas, NEW g \in Groups,
         NEW claimed, NEW usable, NEW kept, NEW p, NEW k, Reclaims(r, g, claimed, usable, kept, p, k)
  PROVE  /\ \A f \in Groups : pel'[f] = IF f = g THEN p ELSE pel[f]
         /\ \A s \in Replicas : req'[s] = IF s = r THEN k ELSE req[s]
         /\ \A n : \A s \in Replicas, f \in Groups : Has(s, f, n)' =>
              \/ s = r /\ f = g /\ n \in usable /\ req'[s] = k
              \/ s # r /\ Has(s, f, n) /\ req'[s] = req[s]
         /\ \A f \in Groups : \A n \in Pending(f)' : n \in Pending(f) /\ pel[f][n] \in Entry
         /\ \A f \in Groups : \A n \in Pending(f)' : ~(f = g /\ n \in claimed) => pel'[f][n] = pel[f][n]
         /\ \A n \in Pending(g)' : n \in claimed =>
              /\ pel'[g][n] \in Entry /\ pel'[g][n].idle = 0 /\ pel'[g][n].moved = pel[g][n].moved
              /\ pel'[g][n].count = pel[g][n].count + 1 /\ pel'[g][n].gen = pel[g][n].gen + 1
         /\ \A n \in claimed : n \in Pending(g) /\ pel[g][n] \in Entry /\ pel[g][n].idle >= Threshold
         /\ \A n \in usable : n \in claimed
<1> USE DEF Reclaims
<1>1. \A f \in Groups : pel'[f] = IF f = g THEN p ELSE pel[f]
  BY DEF QueueTypes
<1>2. \A s \in Replicas : req'[s] = IF s = r THEN k ELSE req[s]
  BY DEF QueueTypes
<1>3. \A n : \A s \in Replicas, f \in Groups : Has(s, f, n)' =>
        \/ s = r /\ f = g /\ n \in usable /\ req'[s] = k
        \/ s # r /\ Has(s, f, n) /\ req'[s] = req[s]
  BY <1>2 DEF Has
<1>4. \A f \in Groups : \A n \in Pending(f)' : n \in Pending(f) /\ pel[f][n] \in Entry
  BY <1>1 DEF Pending, QueueTypes
<1>5. \A f \in Groups : \A n \in Pending(f)' : ~(f = g /\ n \in claimed) => pel'[f][n] = pel[f][n]
  BY <1>1 DEF Pending
<1>6. ASSUME NEW n \in Pending(g)', n \in claimed
      PROVE  /\ pel'[g][n] \in Entry /\ pel'[g][n].idle = 0 /\ pel'[g][n].moved = pel[g][n].moved
             /\ pel'[g][n].count = pel[g][n].count + 1 /\ pel'[g][n].gen = pel[g][n].gen + 1
  <2>1. PICK e \in Entry : e = pel[g][n]
    BY <1>4, <1>6
  <2>2. PICK x : x = Redelivered(e, r)
    OBVIOUS
  <2>3. pel'[g][n] = x
    BY <1>1, <1>6, <2>1, <2>2 DEF Pending
  <2> HIDE DEF Reclaims
  <2>4. x \in Entry /\ x.idle = 0 /\ x.moved = e.moved /\ x.count = e.count + 1 /\ x.gen = e.gen + 1
    BY <2>1, <2>2, RedeliveredFacts
  <2> QED  BY <2>1, <2>3, <2>4
<1>7. \A n \in claimed : n \in Pending(g) /\ pel[g][n] \in Entry /\ pel[g][n].idle >= Threshold
  BY DEF Expired, QueueTypes
<1> QED  BY <1>1, <1>2, <1>3, <1>4, <1>5, <1>6, <1>7

LEMMA ReclaimedTypes ==
  ASSUME QueueInv, NEW r \in Replicas, NEW g \in Groups,
         NEW claimed, NEW usable, NEW kept, NEW p, NEW k, Reclaims(r, g, claimed, usable, kept, p, k)
  PROVE  QueueTypes' /\ Counted'
<1>0. QueueTypes
  BY DEF QueueInv
<1>1. /\ \A s \in Replicas : req'[s] = IF s = r THEN k ELSE req[s]
      /\ \A n : \A s \in Replicas, f \in Groups : Has(s, f, n)' =>
           \/ s = r /\ f = g /\ n \in usable /\ req'[s] = k
           \/ s # r /\ Has(s, f, n) /\ req'[s] = req[s]
      /\ \A f \in Groups : \A n \in Pending(f)' : n \in Pending(f) /\ pel[f][n] \in Entry
      /\ \A f \in Groups : \A n \in Pending(f)' : ~(f = g /\ n \in claimed) => pel'[f][n] = pel[f][n]
      /\ \A n \in Pending(g)' : n \in claimed =>
           /\ pel'[g][n] \in Entry
           /\ pel'[g][n].count = pel[g][n].count + 1 /\ pel'[g][n].gen = pel[g][n].gen + 1
      /\ \A n \in usable : n \in Pending(g)
  BY <1>0, ReclaimedCells
<1>2. pel' = [f \in Groups |-> pel'[f]] /\ req' = [s \in Replicas |-> req'[s]]
      /\ UNCHANGED <<sent, cursor, handles>> /\ IsRequest(k)
  BY <1>0 DEF QueueTypes, Reclaims
<1>3. ASSUME NEW f \in Groups, NEW n \in Pending(f)'
      PROVE  n \in 1..cursor[f] /\ pel'[f][n] \in Entry /\ pel'[f][n].count = pel'[f][n].gen
  <2>1. n \in 1..cursor[f] /\ pel[f][n] \in Entry /\ pel[f][n].count = pel[f][n].gen
    BY <1>1 DEF QueueInv, QueueTypes, Counted
  <2>2. CASE f = g /\ n \in claimed
    BY <1>1, <2>1, <2>2
  <2>3. CASE ~(f = g /\ n \in claimed)
    BY <1>1, <2>1, <2>3
  <2> QED  BY <2>2, <2>3
<1>4. ASSUME NEW n, NEW s \in Replicas, NEW f \in Groups, Has(s, f, n)'
      PROVE  /\ n \in 1..cursor[f] /\ req'[s].got[n] \in [count : Int, gen : Int]
             /\ req'[s].raced \/ req'[s].got[n].count = req'[s].got[n].gen
  <2>1. CASE s = r /\ f = g /\ n \in usable /\ req'[s] = k
    <3>1. n \in 1..cursor[g] /\ pel[g][n].count = pel[g][n].gen
      BY <1>1, <2>1 DEF QueueInv, QueueTypes, Counted
    <3>2. /\ k.got[n] \in [count : Int, gen : Int] /\ k.got[n].gen = pel[g][n].gen + 1
          /\ k.raced \/ k.got[n].count = pel[g][n].count + 1
      BY <2>1 DEF Reclaims
    <3> QED  BY <2>1, <3>1, <3>2
  <2>2. CASE Has(s, f, n) /\ req'[s] = req[s]
    BY <2>2 DEF QueueInv, QueueTypes, Counted
  <2> QED  BY <1>1, <1>4, <2>1, <2>2
<1>5. QueueTypes'
  BY <1>0, <1>1, <1>2, <1>3, <1>4 DEF QueueTypes
<1>6. Counted'
  BY <1>2, <1>3, <1>4 DEF QueueInv, Counted
<1> QED  BY <1>5, <1>6

(* The next delivery of an expired entry is nobody's yet, and no valid      *)
(* handle is for the last one, unless it is late.                           *)
LEMMA ExpiredIsFree ==
  ASSUME QueueInv, LeaseInv, NEW g \in Groups, NEW n \in Expired(g)
  PROVE  /\ \A s \in Replicas : Has(s, g, n) => req[s].got[n].gen # pel[g][n].gen + 1
         /\ \A s \in Replicas : Has(s, g, n) => req[s].waited \/ pel[g][n].moved
         /\ \A h \in handles : h.group = g /\ h.msg = n => h.gen # pel[g][n].gen + 1
         /\ \A h \in handles : h.group = g /\ h.msg = n => h.left = 0 \/ h.late \/ pel[g][n].moved
<1>1. n \in Pending(g) /\ pel[g][n] \in Entry /\ pel[g][n].idle >= Threshold
  BY DEF Expired, QueueInv, QueueTypes
<1>2. pel[g][n].idle # 0 /\ pel[g][n].idle \in Int /\ pel[g][n].gen \in Int
  BY <1>1, LimitsAssumption DEF Entry
<1>3. ASSUME NEW s \in Replicas, Has(s, g, n)
      PROVE  req[s].got[n].gen # pel[g][n].gen + 1 /\ (req[s].waited \/ pel[g][n].moved)
  <2>1. req[s].got[n].gen <= pel[g][n].gen /\ req[s].got[n].gen \in Int
    BY <1>1, <1>3 DEF LeaseInv, Unique, QueueInv, QueueTypes
  <2>2. Steady(g, n) /\ ~req[s].waited => pel[g][n].idle = 0
    BY <1>3 DEF LeaseInv, Fresh
  <2> QED  BY <1>1, <1>2, <2>1, <2>2 DEF Steady
<1>4. ASSUME NEW h \in handles, h.group = g, h.msg = n
      PROVE  h.gen # pel[g][n].gen + 1 /\ (h.left = 0 \/ h.late \/ pel[g][n].moved)
  <2>1. h.left \in 0..Threshold /\ h.gen \in Int
    BY DEF QueueInv, QueueTypes, Handle
  <2>2. h.gen <= pel[g][n].gen
    BY <1>1, <1>4 DEF LeaseInv, Unique
  <2>3. h.left > 0 /\ ~h.late /\ ~pel[g][n].moved => pel[g][n].idle + h.left <= Threshold
    BY <1>1, <1>4 DEF LeaseInv, Leased, Steady
  <2> QED  BY <1>1, <1>2, <2>1, <2>2, <2>3, LimitsAssumption
<1> QED  BY <1>3, <1>4

LEMMA ReclaimedLeases ==
  ASSUME QueueInv, LeaseInv, NEW r \in Replicas, NEW g \in Groups,
         NEW claimed, NEW usable, NEW kept, NEW p, NEW k, Reclaims(r, g, claimed, usable, kept, p, k)
  PROVE  LeaseInv'
<1>0. QueueTypes /\ handles' = handles
  BY DEF QueueInv, Reclaims
<1>1. /\ \A n : \A s \in Replicas, f \in Groups : Has(s, f, n)' =>
           \/ s = r /\ f = g /\ n \in usable /\ req'[s] = k
           \/ s # r /\ Has(s, f, n) /\ req'[s] = req[s]
      /\ \A f \in Groups : \A n \in Pending(f)' : n \in Pending(f) /\ pel[f][n] \in Entry
      /\ \A f \in Groups : \A n \in Pending(f)' : ~(f = g /\ n \in claimed) => pel'[f][n] = pel[f][n]
      /\ \A n \in Pending(g)' : n \in claimed =>
           /\ pel'[g][n].idle = 0 /\ pel'[g][n].moved = pel[g][n].moved
           /\ pel'[g][n].gen = pel[g][n].gen + 1
      /\ \A n \in usable : n \in claimed
  BY <1>0, ReclaimedCells
<1>2. \A n \in claimed : n \in Expired(g)
  BY DEF Reclaims
<1>3. \A n \in usable : k.got[n].gen = pel[g][n].gen + 1
  BY DEF Reclaims
<1>4. \A f \in Groups : \A n \in Pending(f)' : pel[f][n].gen \in Int /\ pel[f][n].gen <= pel'[f][n].gen
  <2> SUFFICES ASSUME NEW f \in Groups, NEW n \in Pending(f)'
               PROVE  pel[f][n].gen \in Int /\ pel[f][n].gen <= pel'[f][n].gen
    OBVIOUS
  <2>1. pel[f][n].gen \in Int
    BY <1>1 DEF Entry
  <2>2. CASE f = g /\ n \in claimed
    BY <1>1, <2>1, <2>2
  <2>3. CASE ~(f = g /\ n \in claimed)
    BY <1>1, <2>1, <2>3
  <2> QED  BY <2>1, <2>2, <2>3
<1>5. ASSUME NEW n \in usable
      PROVE  /\ \A s \in Replicas : Has(s, g, n) => req[s].got[n].gen # k.got[n].gen
             /\ \A h \in handles : h.group = g /\ h.msg = n => h.gen # k.got[n].gen
  BY <1>1, <1>2, <1>3, ExpiredIsFree
<1>6. Unique'
  <2>1. ASSUME NEW n, NEW s \in Replicas, NEW f \in Groups, Has(s, f, n)'
        PROVE  /\ n \in Pending(f)' => req'[s].got[n].gen <= pel'[f][n].gen
               /\ \A t \in Replicas : Has(t, f, n)' /\ req'[t].got[n].gen = req'[s].got[n].gen => t = s
               /\ \A h \in handles : h.group = f /\ h.msg = n => h.gen # req'[s].got[n].gen
    <3>1. CASE s = r /\ f = g /\ n \in usable /\ req'[s] = k
      <4>1. n \in Pending(g)' => req'[s].got[n].gen <= pel'[g][n].gen
        BY <1>1, <1>3, <1>4, <3>1
      <4>2. \A t \in Replicas : Has(t, f, n)' /\ req'[t].got[n].gen = req'[s].got[n].gen => t = s
        BY <1>1, <1>5, <3>1
      <4> QED  BY <1>5, <3>1, <4>1, <4>2
    <3>2. CASE s # r /\ Has(s, f, n) /\ req'[s] = req[s]
      <4>1. /\ n \in Pending(f) => req[s].got[n].gen <= pel[f][n].gen
            /\ \A t \in Replicas : Has(t, f, n) /\ req[t].got[n].gen = req[s].got[n].gen => t = s
            /\ \A h \in handles : h.group = f /\ h.msg = n => h.gen # req[s].got[n].gen
        BY <3>2 DEF LeaseInv, Unique
      <4>2. req[s].got[n].gen \in Int
        BY <3>2 DEF QueueInv, QueueTypes
      <4>3. n \in Pending(f)' => req[s].got[n].gen <= pel'[f][n].gen
        <5> SUFFICES ASSUME n \in Pending(f)' PROVE req[s].got[n].gen <= pel'[f][n].gen
          OBVIOUS
        <5>1. n \in Pending(f) /\ pel[f][n].gen \in Int /\ pel[f][n].gen <= pel'[f][n].gen
          BY <1>1, <1>4
        <5>2. pel'[f][n].gen \in Int
          <6>1. CASE f = g /\ n \in claimed
            BY <1>1, <5>1, <6>1
          <6>2. CASE ~(f = g /\ n \in claimed)
            BY <1>1, <5>1, <6>2
          <6> QED  BY <6>1, <6>2
        <5> QED  BY <4>1, <4>2, <5>1, <5>2
      <4>4. ASSUME NEW t \in Replicas, Has(t, f, n)', req'[t].got[n].gen = req'[s].got[n].gen PROVE t = s
        <5>1. CASE t = r /\ f = g /\ n \in usable /\ req'[t] = k
          BY <1>5, <3>2, <4>4, <5>1
        <5>2. CASE Has(t, f, n) /\ req'[t] = req[t]
          BY <3>2, <4>1, <4>4, <5>2
        <5> QED  BY <1>1, <4>4, <5>1, <5>2
      <4> QED  BY <3>2, <4>1, <4>3, <4>4
    <3> QED  BY <1>1, <2>1, <3>1, <3>2
  <2>2. ASSUME NEW h \in handles, h.msg \in Pending(h.group)' PROVE h.gen <= pel'[h.group][h.msg].gen
    <3>1. h.group \in Groups /\ h.gen \in Int
      BY DEF QueueInv, QueueTypes, Handle
    <3>2. h.msg \in Pending(h.group)
      BY <1>1, <2>2, <3>1
    <3>3. h.gen <= pel[h.group][h.msg].gen
      BY <3>2 DEF LeaseInv, Unique
    <3>4. CASE h.group = g /\ h.msg \in claimed
      BY <1>1, <1>4, <2>2, <3>1, <3>3, <3>4
    <3>5. CASE ~(h.group = g /\ h.msg \in claimed)
      BY <1>1, <2>2, <3>1, <3>3, <3>5
    <3> QED  BY <3>4, <3>5
  <2> QED  BY <1>0, <2>1, <2>2 DEF Unique
<1>7. Fresh'
  <2> SUFFICES ASSUME NEW n, NEW s \in Replicas, NEW f \in Groups,
                      Has(s, f, n)', Steady(f, n)', ~req'[s].waited
               PROVE  pel'[f][n].idle = 0 /\ req'[s].got[n].gen = pel'[f][n].gen
    BY DEF Fresh
  <2>0. n \in Pending(f)' /\ ~pel'[f][n].moved
    BY DEF Steady
  <2>1. CASE s = r /\ f = g /\ n \in usable /\ req'[s] = k
    BY <1>1, <1>3, <2>0, <2>1
  <2>2. CASE s # r /\ Has(s, f, n) /\ req'[s] = req[s]
    <3>1. ~(f = g /\ n \in claimed)
      <4>1. f = g /\ n \in claimed => req[s].waited \/ pel[g][n].moved
        BY <1>2, <2>2, ExpiredIsFree
      <4>2. f = g /\ n \in claimed => pel'[g][n].moved = pel[g][n].moved
        BY <1>1, <2>0
      <4> QED  BY <2>0, <2>2, <4>1, <4>2
    <3>2. pel'[f][n] = pel[f][n] /\ n \in Pending(f)
      BY <1>1, <2>0, <3>1
    <3>3. Steady(f, n) /\ ~req[s].waited
      BY <2>0, <2>2, <3>2 DEF Steady
    <3> QED  BY <2>2, <3>2, <3>3 DEF LeaseInv, Fresh
  <2> QED  BY <1>1, <2>1, <2>2
<1>8. Leased'
  <2> SUFFICES ASSUME NEW h \in handles, h.left > 0, ~h.late, Steady(h.group, h.msg)'
               PROVE  /\ pel'[h.group][h.msg].idle + h.left <= Threshold
                      /\ h.gen = pel'[h.group][h.msg].gen
    BY <1>0 DEF Leased
  <2>0. h.group \in Groups /\ h.left \in 0..Threshold
    BY DEF QueueInv, QueueTypes, Handle
  <2>1. h.msg \in Pending(h.group)' /\ ~pel'[h.group][h.msg].moved
    BY DEF Steady
  <2>2. ~(h.group = g /\ h.msg \in claimed)
    <3>1. h.group = g /\ h.msg \in claimed => h.left = 0 \/ h.late \/ pel[g][h.msg].moved
      BY <1>2, ExpiredIsFree
    <3>2. h.group = g /\ h.msg \in claimed => pel'[g][h.msg].moved = pel[g][h.msg].moved
      BY <1>1, <2>1
    <3> QED  BY <2>1, <3>1, <3>2
  <2>3. pel'[h.group][h.msg] = pel[h.group][h.msg] /\ h.msg \in Pending(h.group)
    BY <1>1, <2>0, <2>1, <2>2
  <2>4. Steady(h.group, h.msg)
    BY <2>1, <2>3 DEF Steady
  <2> QED  BY <2>3, <2>4 DEF LeaseInv, Leased
<1> QED  BY <1>6, <1>7, <1>8 DEF LeaseInv

LEMMA ReclaimQueue ==
  ASSUME QueueInv, NEW r \in Replicas, Reclaim(r)
  PROVE  QueueInv' /\ (LeaseInv => LeaseInv')
<1> DEFINE q == req[r]
           g == q.group
           claimed == Claimable(q)
           parked == Parked(q, claimed)
           usable == claimed \ parked
           kept == Pending(g) \ (gone \cap Expired(g))
           p == [n \in kept |-> IF n \in claimed THEN Redelivered(pel[g][n], r) ELSE pel[g][n]]
           got == [n \in usable |->
                     [count |-> IF n \in DOMAIN q.counts THEN q.counts[n] + 1 ELSE 1,
                      gen   |-> pel[g][n].gen + 1]]
           raced == \E n \in usable : \/ n \notin DOMAIN q.counts
                                      \/ q.counts[n] /= pel[g][n].count
           k == [q EXCEPT !.pc = After(parked), !.parking = parked, !.got = got, !.raced = raced]
<1>1. \/ pel' = [pel EXCEPT ![g] = p] /\ req' = [req EXCEPT ![r] = k]
      \/ pel' = pel /\ req' = [req EXCEPT ![r].pc = "read"]
  BY Zenon DEF Reclaim
<1>2. IsRequest(q) /\ q.pc = "claim" /\ g \in Groups /\ q # Idle
  BY DEF Reclaim, InReceive, QueueInv, QueueTypes, Idle, IsRequest
<1>3. UNCHANGED <<sent, cursor, handles>>
  BY DEF Reclaim, stream
<1>4. CASE pel' = [pel EXCEPT ![g] = p] /\ req' = [req EXCEPT ![r] = k]
  <2>1. usable \in SUBSET claimed /\ claimed \in SUBSET Expired(g) /\ kept \in SUBSET Pending(g)
    BY DEF First, Claimable
  <2>2. PICK u : u = usable
    OBVIOUS
  <2>3. PICK v : v = kept
    OBVIOUS
  <2>4. PICK x : x = k
    OBVIOUS
  <2>5. PICK y : y = p
    OBVIOUS
  <2>0. PICK c : c = claimed
    OBVIOUS
  <2>6. /\ x = [q EXCEPT !.pc = After(parked), !.parking = parked, !.got = got, !.raced = raced]
        /\ x.pc = After(parked) /\ x.group = g /\ x.got = got /\ x.raced = raced
        /\ x.counts = q.counts /\ x.lease = q.lease /\ x.waited = q.waited
    <3> HIDE DEF got, raced, parked
    <3> QED  BY <1>2, <2>4 DEF IsRequest
  <2>7. IsRequest(x) /\ DOMAIN x.got = u
    <3>1. raced \in BOOLEAN /\ DOMAIN got = u /\ After(parked) \in {"read", "park"}
      BY <2>2 DEF After
    <3> HIDE DEF got, raced, parked
    <3> QED  BY <1>2, <2>6, <3>1 DEF IsRequest
  <2>8. ASSUME NEW n \in u
        PROVE  /\ x.got[n] \in [count : Int, gen : Int]
               /\ x.got[n].gen = pel[g][n].gen + 1
               /\ x.raced \/ x.got[n].count = pel[g][n].count + 1
    <3>1. pel[g][n] \in Entry
      BY <1>2, <2>1, <2>2 DEF Expired, QueueInv, QueueTypes
    <3>2. x.got[n] = [count |-> IF n \in DOMAIN q.counts THEN q.counts[n] + 1 ELSE 1,
                      gen   |-> pel[g][n].gen + 1]
      BY <2>2, <2>6
    <3>3. pel[g][n].gen + 1 \in Int /\ (n \in DOMAIN q.counts => q.counts[n] + 1 \in Int)
      BY <1>2, <3>1 DEF Entry, IsRequest
    <3>4. x.raced \/ (n \in DOMAIN q.counts /\ q.counts[n] = pel[g][n].count)
      BY <2>2, <2>6
    <3> HIDE DEF g, q, got, raced, k, p
    <3> QED  BY <3>2, <3>3, <3>4
  <2>9. /\ DOMAIN y = v
        /\ \A n \in v : y[n] = IF n \in c THEN Redelivered(pel[g][n], r) ELSE pel[g][n]
    BY <2>0, <2>3, <2>5
  <2>10. pel' = [pel EXCEPT ![g] = y] /\ req' = [req EXCEPT ![r] = x]
    BY <1>4, <2>4, <2>5
  <2>11. u \in SUBSET c /\ c \in SUBSET Expired(g) /\ v \in SUBSET Pending(g)
    BY <2>0, <2>1, <2>2, <2>3
  <2>12. PICK f \in Groups : f = g
    BY <1>2
  <2>13. /\ req[r] # Idle /\ req[r].group = f /\ DOMAIN req[r].got = {}
         /\ IsRequest(x) /\ x.group = f /\ DOMAIN x.got = u
    BY <1>2, <2>6, <2>7, <2>12 DEF IsRequest
  <2>14. u \in SUBSET c /\ c \in SUBSET Expired(f) /\ v \in SUBSET Pending(f) /\ DOMAIN y = v
    BY <2>9, <2>11, <2>12
  <2>15. pel' = [pel EXCEPT ![f] = y] /\ req' = [req EXCEPT ![r] = x]
    BY <2>10, <2>12
  <2>16. \A n \in v : y[n] = IF n \in c THEN Redelivered(pel[f][n], r) ELSE pel[f][n]
    BY <2>9, <2>12
  <2>17. \A n \in u : /\ x.got[n] \in [count : Int, gen : Int]
                      /\ x.got[n].gen = pel[f][n].gen + 1
                      /\ x.raced \/ x.got[n].count = pel[f][n].count + 1
    BY <2>8, <2>12
  <2> HIDE DEF p, k, got, raced, usable, kept, claimed, parked, q, g
  <2>18. Reclaims(r, f, c, u, v, y, x)
    BY <1>3, <2>13, <2>14, <2>15, <2>16, <2>17 DEF Reclaims
  <2>19. QueueTypes' /\ Counted'
    BY <2>18, ReclaimedTypes
  <2>20. LeaseInv => LeaseInv'
    BY <2>18, ReclaimedLeases
  <2> QED  BY <2>19, <2>20 DEF QueueInv
<1>5. CASE pel' = pel /\ req' = [req EXCEPT ![r].pc = "read"]
  <2>1. PICK x : x = [q EXCEPT !.pc = "read"]
    OBVIOUS
  <2>2. IsRequest(x) /\ DOMAIN x.got = {}
    BY <1>2, <2>1 DEF IsRequest
  <2>3. req' = [req EXCEPT ![r] = x]
    BY <1>5, <2>1
  <2> QED  BY <1>3, <1>5, <2>2, <2>3, ReceiveQueue
<1> QED  BY <1>1, <1>4, <1>5

(* A parked entry is acknowledged, or stays when the XACK fails.            *)
LEMMA ParkQueue ==
  ASSUME QueueInv, NEW r \in Replicas, Park(r)
  PROVE  QueueInv' /\ (LeaseInv => LeaseInv')
<1> DEFINE q == req[r]
           left == q.parking \ {Min(q.parking)}
<1>1. IsRequest(q) /\ q.group \in Groups /\ q # Idle
  BY DEF Park, InReceive, QueueInv, QueueTypes, Idle, IsRequest
<1>2. PICK g \in Groups : g = q.group
  BY <1>1
<1>3. PICK k : k = [q EXCEPT !.pc = After(left), !.parking = left]
  OBVIOUS
<1>4. /\ req' = [req EXCEPT ![r] = k]
      /\ pel' = [pel EXCEPT ![g] = [m \in Pending(g) \ {Min(q.parking)} |-> pel[g][m]]] \/ pel' = pel
      /\ UNCHANGED <<sent, cursor, handles>>
  BY <1>2, <1>3, Zenon DEF Park, stream
<1>5. /\ IsRequest(k) /\ k.group = q.group /\ k.got = q.got /\ k.raced = q.raced /\ k.waited = q.waited
  <2>1. After(left) \in {"read", "park"}
    BY DEF After
  <2> HIDE DEF left
  <2> QED  BY <1>1, <1>3, <2>1 DEF IsRequest
<1>6. req' = [s \in Replicas |-> req'[s]] /\ \A s \in Replicas : req'[s] = IF s = r THEN k ELSE req[s]
  BY <1>4 DEF QueueInv, QueueTypes
<1>7. \A n : \A s \in Replicas, f \in Groups : Has(s, f, n)' => Has(s, f, n) /\ SameHand(s)
  BY <1>1, <1>5, <1>6 DEF Has, SameHand
<1>8. \A s \in Replicas : req'[s] = Idle \/ IsRequest(req'[s])
  BY <1>5, <1>6 DEF QueueInv, QueueTypes
<1>9. CASE pel' = pel
  <2>1. \A f \in Groups : Pending(f)' = Pending(f)
    BY <1>9 DEF Pending
  <2>2. \A f \in Groups : \A n \in Pending(f)' : n \in Pending(f) /\ pel'[f][n] = pel[f][n]
    BY <1>9, <2>1
  <2>3. QueueTypes'
    BY <1>4, <1>6, <1>7, <1>8, <1>9, <2>1 DEF QueueInv, QueueTypes, SameHand
  <2> HIDE DEF q, left
  <2> QED  BY <1>4, <1>7, <2>2, <2>3, Shrinking
<1>10. CASE pel' = [pel EXCEPT ![g] = [m \in Pending(g) \ {Min(q.parking)} |-> pel[g][m]]]
  <2>1. PICK kept \in SUBSET Pending(g) : kept = Pending(g) \ {Min(q.parking)}
    OBVIOUS
  <2>2. PICK p : p = [m \in kept |-> pel[g][m]]
    OBVIOUS
  <2>3. PICK c \in Nat : c = cursor[g]
    BY DEF QueueInv, QueueTypes
  <2>4. cursor' = [cursor EXCEPT ![g] = c] /\ cursor[g] <= c /\ c <= sent
    BY <1>4, <2>3 DEF QueueInv, QueueTypes
  <2>5. pel' = [pel EXCEPT ![g] = p] /\ sent' = sent /\ \A h \in handles' : h \in handles
    BY <1>4, <1>10, <2>1, <2>2
  <2> HIDE DEF q, left
  <2> QED  BY <1>6, <1>7, <1>8, <2>2, <2>4, <2>5, DropsQueue
<1> QED  BY <1>4, <1>9, <1>10

-----------------------------------------------------------------------------
(* The read.                                                                *)

(* The request of replica r becomes k, which has the new messages in hand   *)
(* as well.                                                                 *)
Reads(r, g, new, p, c, k) ==
  /\ req[r] # Idle /\ req[r].group = g
  /\ c \in Nat /\ cursor[g] <= c /\ c <= sent /\ \A n \in new : n \in Nat /\ cursor[g] < n /\ n <= c
  /\ DOMAIN p = Pending(g) \cup new /\ \A n \in Pending(g) : p[n] = pel[g][n]
  /\ \A n \in new : p[n] = [owner |-> r, count |-> 1, idle |-> 0, gen |-> 1, moved |-> FALSE]
  /\ IsRequest(k) /\ k.group = g /\ k.raced = req[r].raced /\ k.waited = req[r].waited
  /\ DOMAIN k.got = DOMAIN req[r].got \cup new
  /\ \A n \in DOMAIN req[r].got : k.got[n] = req[r].got[n]
  /\ \A n \in new : k.got[n] = [count |-> 1, gen |-> 1]
  /\ pel' = [pel EXCEPT ![g] = p] /\ cursor' = [cursor EXCEPT ![g] = c]
  /\ req' = [req EXCEPT ![r] = k] /\ UNCHANGED <<sent, handles>>

LEMMA ReadsCells ==
  ASSUME QueueTypes, NEW r \in Replicas, NEW g \in Groups, NEW new, NEW p, NEW c, NEW k,
         Reads(r, g, new, p, c, k)
  PROVE  /\ \A f \in Groups : /\ pel'[f] = IF f = g THEN p ELSE pel[f]
                              /\ cursor'[f] = IF f = g THEN c ELSE cursor[f]
                              /\ cursor[f] \in Nat /\ cursor[f] <= cursor'[f] /\ cursor'[f] \in 0..sent
         /\ \A s \in Replicas : req'[s] = IF s = r THEN k ELSE req[s]
         /\ \A n : \A s \in Replicas, f \in Groups : Has(s, f, n)' =>
              Has(s, f, n) \/ (s = r /\ f = g /\ n \in new)
         /\ \A f \in Groups : \A n \in Pending(f)' : n \in Pending(f) \/ (f = g /\ n \in new)
         /\ \A n : \A s \in Replicas : Has(s, g, n) => n \notin new
<1>1. \A f \in Groups : pel'[f] = IF f = g THEN p ELSE pel[f]
  BY DEF QueueTypes, Reads
<1>2. \A f \in Groups : /\ cursor'[f] = IF f = g THEN c ELSE cursor[f]
                        /\ cursor[f] \in Nat /\ cursor[f] <= cursor'[f] /\ cursor'[f] \in 0..sent
  <2>1. \A f \in Groups : cursor'[f] = IF f = g THEN c ELSE cursor[f]
    BY DEF QueueTypes, Reads
  <2>2. \A f \in Groups : cursor[f] \in 0..sent /\ sent \in Nat
    BY DEF QueueTypes
  <2> QED  BY <2>1, <2>2 DEF Reads
<1>3. \A s \in Replicas : req'[s] = IF s = r THEN k ELSE req[s]
  BY DEF QueueTypes, Reads
<1>4. \A n : \A s \in Replicas, f \in Groups : Has(s, f, n)' =>
        Has(s, f, n) \/ (s = r /\ f = g /\ n \in new)
  BY <1>3 DEF Has, Reads
<1>5. \A f \in Groups : \A n \in Pending(f)' : n \in Pending(f) \/ (f = g /\ n \in new)
  BY <1>1 DEF Pending, Reads
<1>6. ASSUME NEW s \in Replicas, NEW n, Has(s, g, n), n \in new PROVE FALSE
  <2>1. n \in 1..cursor[g]
    BY <1>6 DEF QueueTypes
  <2> QED  BY <1>2, <1>6, <2>1 DEF Reads
<1> QED  BY <1>1, <1>2, <1>3, <1>4, <1>5, <1>6

LEMMA ReadsTypes ==
  ASSUME QueueTypes, NEW r \in Replicas, NEW g \in Groups, NEW new, NEW p, NEW c, NEW k,
         Reads(r, g, new, p, c, k)
  PROVE  QueueTypes'
<1>1. pel' = [f \in Groups |-> pel'[f]] /\ req' = [s \in Replicas |-> req'[s]]
  BY DEF QueueTypes, Reads
<1>2. sent' = sent /\ sent \in Nat /\ cursor' \in [Groups -> 0..sent] /\ handles' = handles
  <2>1. DOMAIN cursor' = Groups /\ cursor' = [f \in Groups |-> cursor'[f]]
    BY DEF QueueTypes, Reads
  <2> QED  BY <2>1, ReadsCells DEF QueueTypes, Reads
<1>3. \A f \in Groups : Pending(f)' \subseteq 1..cursor'[f] /\ \A n \in Pending(f)' : pel'[f][n] \in Entry
  <2> SUFFICES ASSUME NEW f \in Groups, NEW n \in Pending(f)'
               PROVE  n \in 1..cursor'[f] /\ pel'[f][n] \in Entry
    OBVIOUS
  <2>0. /\ pel'[f] = IF f = g THEN p ELSE pel[f]
        /\ cursor'[f] = IF f = g THEN c ELSE cursor[f]
        /\ cursor[f] \in Nat /\ cursor[f] <= cursor'[f] /\ cursor'[f] \in 0..sent
    BY ReadsCells
  <2>1. CASE n \in Pending(f)
    <3>1. n \in 1..cursor[f] /\ pel[f][n] \in Entry
      BY <2>1 DEF QueueTypes
    <3>2. pel'[f][n] = pel[f][n]
      BY <2>0, <2>1 DEF Reads
    <3> QED  BY <1>2, <2>0, <3>1, <3>2
  <2>2. CASE f = g /\ n \in new
    <3>1. pel'[f][n] = [owner |-> r, count |-> 1, idle |-> 0, gen |-> 1, moved |-> FALSE]
      BY <2>0, <2>2, ZenonT(30) DEF Reads
    <3>2. pel'[f][n] \in Entry
      BY <3>1, LimitsAssumption DEF Entry
    <3>3. n \in Nat /\ cursor[g] < n /\ n <= c
      BY <2>2 DEF Reads
    <3> QED  BY <1>2, <2>0, <2>2, <3>2, <3>3
  <2> QED  BY <2>1, <2>2, ReadsCells
<1>4. \A n : \A s \in Replicas, f \in Groups : Has(s, f, n)' =>
        n \in 1..cursor'[f] /\ req'[s].got[n] \in [count : Int, gen : Int]
  <2> SUFFICES ASSUME NEW s \in Replicas, NEW f \in Groups, NEW n, Has(s, f, n)'
               PROVE  n \in 1..cursor'[f] /\ req'[s].got[n] \in [count : Int, gen : Int]
    OBVIOUS
  <2>0. /\ req'[s] = IF s = r THEN k ELSE req[s]
        /\ cursor'[f] = IF f = g THEN c ELSE cursor[f]
        /\ cursor[f] \in Nat /\ cursor[f] <= cursor'[f] /\ cursor'[f] \in 0..sent
    BY ReadsCells
  <2>1. CASE Has(s, f, n)
    <3>1. n \in 1..cursor[f] /\ req[s].got[n] \in [count : Int, gen : Int]
      BY <2>1 DEF QueueTypes
    <3>2. req'[s].got[n] = req[s].got[n]
      BY <2>0, <2>1 DEF Reads, Has
    <3> QED  BY <1>2, <2>0, <3>1, <3>2
  <2>2. CASE s = r /\ f = g /\ n \in new
    <3>1. req'[s].got[n] = [count |-> 1, gen |-> 1]
      BY <2>0, <2>2 DEF Reads
    <3>2. n \in Nat /\ cursor[g] < n /\ n <= c
      BY <2>2 DEF Reads
    <3> QED  BY <1>2, <2>0, <2>2, <3>1, <3>2
  <2> QED  BY <2>1, <2>2, ReadsCells
<1>5. \A s \in Replicas : req'[s] = Idle \/ IsRequest(req'[s])
  BY ReadsCells DEF QueueTypes, Reads
<1>6. \A h \in handles : h \in Handle /\ h.msg <= cursor'[h.group]
  <2> SUFFICES ASSUME NEW h \in handles PROVE h \in Handle /\ h.msg <= cursor'[h.group]
    OBVIOUS
  <2>1. h \in Handle /\ h.msg <= cursor[h.group]
    BY DEF QueueTypes
  <2>2. h.msg \in Nat /\ h.group \in Groups
    BY <2>1 DEF Handle
  <2>3. cursor[h.group] \in Nat /\ cursor[h.group] <= cursor'[h.group] /\ cursor'[h.group] \in Int
    BY <2>2, ReadsCells
  <2> QED  BY <2>1, <2>2, <2>3
<1> QED  BY <1>1, <1>2, <1>3, <1>4, <1>5, <1>6 DEF QueueTypes

LEMMA ReadsQueue ==
  ASSUME QueueInv, NEW r \in Replicas, NEW g \in Groups, NEW new, NEW p, NEW c, NEW k,
         Reads(r, g, new, p, c, k)
  PROVE  QueueInv' /\ (LeaseInv => LeaseInv')
<1>0. QueueTypes
  BY DEF QueueInv
<1>1. /\ \A f \in Groups : pel'[f] = IF f = g THEN p ELSE pel[f]
      /\ \A s \in Replicas : req'[s] = IF s = r THEN k ELSE req[s]
      /\ \A n : \A s \in Replicas, f \in Groups : Has(s, f, n)' =>
           Has(s, f, n) \/ (s = r /\ f = g /\ n \in new)
      /\ \A f \in Groups : \A n \in Pending(f)' : n \in Pending(f) \/ (f = g /\ n \in new)
      /\ \A n : \A s \in Replicas : Has(s, g, n) => n \notin new
  BY <1>0, ReadsCells
<1>2. \A f \in Groups : \A n \in Pending(f) : pel'[f][n] = pel[f][n]
  BY <1>1 DEF Reads
<1>3. \A n : \A s \in Replicas, f \in Groups : Has(s, f, n) =>
        /\ req'[s].raced = req[s].raced /\ req'[s].waited = req[s].waited
        /\ req'[s].got[n] = req[s].got[n]
  BY <1>1 DEF Reads, Has
<1>4. \A n \in new : /\ pel'[g][n] = [owner |-> r, count |-> 1, idle |-> 0, gen |-> 1, moved |-> FALSE]
                     /\ req'[r].got[n] = [count |-> 1, gen |-> 1]
  <2>1. pel'[g] = p /\ req'[r] = k
    BY <1>1
  <2>2. \A n \in new : p[n] = [owner |-> r, count |-> 1, idle |-> 0, gen |-> 1, moved |-> FALSE]
    BY DEF Reads
  <2>3. \A n \in new : k.got[n] = [count |-> 1, gen |-> 1]
    BY DEF Reads
  <2> QED  BY <2>1, <2>2, <2>3
<1>5. \A h \in handles : h.group = g => h.msg \notin new
  <2> SUFFICES ASSUME NEW h \in handles, h.group = g, h.msg \in new PROVE FALSE
    OBVIOUS
  <2>1. h.msg <= cursor[g] /\ cursor[g] \in Int
    BY DEF QueueInv, QueueTypes
  <2> QED  BY <2>1 DEF Reads
<1>6. QueueTypes'
  BY <1>0, ReadsTypes
<1>7. handles' = handles /\ \A h \in handles : h.group \in Groups
  BY DEF Reads, QueueInv, QueueTypes, Handle
<1>8. Counted'
  <2>1. \A f \in Groups : \A n \in Pending(f)' : pel'[f][n].count = pel'[f][n].gen
    BY <1>1, <1>2, <1>4 DEF QueueInv, Counted
  <2>2. \A n : \A s \in Replicas, f \in Groups : Has(s, f, n)' =>
          req'[s].raced \/ req'[s].got[n].count = req'[s].got[n].gen
    <3> SUFFICES ASSUME NEW n, NEW s \in Replicas, NEW f \in Groups, Has(s, f, n)'
                 PROVE  req'[s].raced \/ req'[s].got[n].count = req'[s].got[n].gen
      OBVIOUS
    <3>1. CASE Has(s, f, n)
      BY <1>3, <3>1 DEF QueueInv, Counted
    <3>2. CASE s = r /\ f = g /\ n \in new
      BY <1>4, <3>2
    <3> QED  BY <1>1, <3>1, <3>2
  <2> QED  BY <1>7, <2>1, <2>2 DEF QueueInv, Counted
<1>9. \A n : \A f \in Groups : Steady(f, n)' =>
        (Steady(f, n) /\ pel'[f][n] = pel[f][n]) \/ (f = g /\ n \in new)
  BY <1>1, <1>2 DEF Steady
<1>10. ASSUME Unique PROVE Unique'
  <2>1. ASSUME NEW n, NEW s \in Replicas, NEW f \in Groups, Has(s, f, n)'
        PROVE  /\ n \in Pending(f)' => req'[s].got[n].gen <= pel'[f][n].gen
               /\ \A t \in Replicas : Has(t, f, n)' /\ req'[t].got[n].gen = req'[s].got[n].gen => t = s
               /\ \A h \in handles : h.group = f /\ h.msg = n => h.gen # req'[s].got[n].gen
    <3>1. CASE f = g /\ n \in new
      <4>1. s = r /\ \A t \in Replicas : Has(t, f, n)' => t = r
        BY <1>1, <2>1, <3>1
      <4>2. req'[s].got[n].gen = 1 /\ pel'[f][n].gen = 1
        BY <1>4, <3>1, <4>1
      <4> QED  BY <1>5, <3>1, <4>1, <4>2
    <3>2. CASE ~(f = g /\ n \in new)
      <4>1. Has(s, f, n) /\ req'[s].got[n] = req[s].got[n]
        BY <1>1, <1>3, <2>1, <3>2
      <4>2. \A t \in Replicas : Has(t, f, n)' => Has(t, f, n) /\ req'[t].got[n] = req[t].got[n]
        BY <1>1, <1>3, <3>2
      <4>3. n \in Pending(f)' => n \in Pending(f) /\ pel'[f][n] = pel[f][n]
        BY <1>1, <1>2, <3>2
      <4> QED  BY <1>10, <4>1, <4>2, <4>3 DEF Unique
    <3> QED  BY <3>1, <3>2
  <2>2. ASSUME NEW h \in handles, h.msg \in Pending(h.group)' PROVE h.gen <= pel'[h.group][h.msg].gen
    <3>1. h.msg \in Pending(h.group) /\ pel'[h.group][h.msg] = pel[h.group][h.msg]
      BY <1>1, <1>2, <1>5, <1>7, <2>2
    <3> QED  BY <1>10, <3>1 DEF Unique
  <2> QED  BY <1>7, <2>1, <2>2 DEF Unique
<1>11. ASSUME Fresh PROVE Fresh'
  <2> SUFFICES ASSUME NEW n, NEW s \in Replicas, NEW f \in Groups,
                      Has(s, f, n)', Steady(f, n)', ~req'[s].waited
               PROVE  pel'[f][n].idle = 0 /\ req'[s].got[n].gen = pel'[f][n].gen
    BY DEF Fresh
  <2>1. CASE f = g /\ n \in new
    <3>1. s = r
      BY <1>1, <2>1
    <3> QED  BY <1>4, <2>1, <3>1
  <2>2. CASE ~(f = g /\ n \in new)
    <3>1. Has(s, f, n) /\ Steady(f, n) /\ pel'[f][n] = pel[f][n]
      BY <1>1, <1>9, <2>2
    <3>2. req'[s].got[n] = req[s].got[n] /\ ~req[s].waited
      BY <1>3, <3>1
    <3> QED  BY <1>11, <3>1, <3>2 DEF Fresh
  <2> QED  BY <2>1, <2>2
<1>12. ASSUME Leased PROVE Leased'
  <2> SUFFICES ASSUME NEW h \in handles, h.left > 0, ~h.late, Steady(h.group, h.msg)'
               PROVE  /\ pel'[h.group][h.msg].idle + h.left <= Threshold
                      /\ h.gen = pel'[h.group][h.msg].gen
    BY <1>7 DEF Leased
  <2>1. Steady(h.group, h.msg) /\ pel'[h.group][h.msg] = pel[h.group][h.msg]
    BY <1>5, <1>7, <1>9
  <2> QED  BY <1>12, <2>1 DEF Leased
<1> QED  BY <1>6, <1>8, <1>10, <1>11, <1>12 DEF QueueInv, LeaseInv

LEMMA ReadNewQueue ==
  ASSUME QueueInv, NEW r \in Replicas, ReadNew(r)
  PROVE  QueueInv' /\ (LeaseInv => LeaseInv')
<1> DEFINE q == req[r]
           g == q.group
           new == First(MaxMessages - Cardinality(DOMAIN q.got), (cursor[g] + 1 .. sent) \ gone)
           p == [n \in Pending(g) \cup new |->
                   IF n \in new THEN [owner |-> r, count |-> 1, idle |-> 0, gen |-> 1, moved |-> FALSE]
                   ELSE pel[g][n]]
           c == IF new = {} THEN cursor[g] ELSE Max(new)
           got == [n \in DOMAIN q.got \cup new |-> IF n \in new THEN [count |-> 1, gen |-> 1] ELSE q.got[n]]
           k == [q EXCEPT !.pc = "apply", !.got = got]
<1>1. IsRequest(q) /\ q.pc = "read" /\ g \in Groups /\ q # Idle
  <2>1. InReceive(r, "read")
    BY DEF ReadNew
  <2> QED  BY <2>1 DEF InReceive, QueueInv, QueueTypes, Idle, IsRequest
<1>2. /\ pel' = [pel EXCEPT ![g] = p] /\ cursor' = [cursor EXCEPT ![g] = c]
      /\ req' = [req EXCEPT ![r].pc = "apply", ![r].got = got] /\ UNCHANGED <<sent, handles>>
  BY Zenon DEF ReadNew, stream
<1>3. req' = [req EXCEPT ![r] = k]
  <2> HIDE DEF got
  <2> QED  BY <1>2 DEF QueueInv, QueueTypes
<1>4. cursor[g] \in 0..sent /\ sent \in Nat
  BY <1>1 DEF QueueInv, QueueTypes
<1>5. \A n \in new : n \in Nat /\ cursor[g] < n /\ n <= sent
  BY <1>4 DEF First
<1>6. c \in Nat /\ cursor[g] <= c /\ c <= sent /\ \A n \in new : n <= c
  <2> HIDE DEF new, p, k, got, g
  <2>1. CASE new = {}
    BY <1>4, <2>1
  <2>2. CASE new # {}
    <3>1. PICK u : u = new
      OBVIOUS
    <3>2. u \subseteq 0..sent /\ u # {}
      BY <1>4, <1>5, <2>2, <3>1
    <3>3. Max(u) \in u /\ \A n \in u : Max(u) >= n
      BY <1>4, <3>2, BoundedMax
    <3>4. c = Max(u)
      BY <2>2, <3>1
    <3>5. c \in Nat /\ cursor[g] < c /\ c <= sent
      BY <1>5, <3>1, <3>3, <3>4
    <3>6. \A n \in new : n <= c
      BY <1>5, <3>1, <3>3, <3>4, <3>5
    <3> QED  BY <1>4, <3>5, <3>6
  <2> QED  BY <2>1, <2>2
<1>7. PICK x : x = k
  OBVIOUS
<1>8. /\ x.pc = "apply" /\ x.group = g /\ x.raced = q.raced /\ x.waited = q.waited
      /\ x.got = got /\ IsRequest(x)
  <2> HIDE DEF got
  <2> QED  BY <1>1, <1>7 DEF IsRequest
<1>9. \A n \in DOMAIN q.got : n \notin new
  <2> SUFFICES ASSUME NEW n \in DOMAIN q.got, n \in new PROVE FALSE
    OBVIOUS
  <2> HIDE DEF new, p, k, got, c
  <2>1. n \in 1..cursor[g]
    BY <1>1 DEF Has, QueueInv, QueueTypes
  <2> QED  BY <1>4, <1>5, <2>1
<1>10. \A n \in Pending(g) : n \notin new
  <2> SUFFICES ASSUME NEW n \in Pending(g), n \in new PROVE FALSE
    OBVIOUS
  <2> HIDE DEF new, p, k, got, c
  <2>1. n \in 1..cursor[g]
    BY <1>1 DEF QueueInv, QueueTypes
  <2> QED  BY <1>4, <1>5, <2>1
<1>11. PICK u : u = new
  OBVIOUS
<1>12. PICK y : y = p
  OBVIOUS
<1>13. PICK d : d = c
  OBVIOUS
<1>14. PICK f \in Groups : f = g
  BY <1>1
<1>15. /\ DOMAIN y = Pending(f) \cup u /\ \A n \in Pending(f) : y[n] = pel[f][n]
       /\ \A n \in u : y[n] = [owner |-> r, count |-> 1, idle |-> 0, gen |-> 1, moved |-> FALSE]
  BY <1>10, <1>11, <1>12, <1>14
<1>16. /\ DOMAIN x.got = DOMAIN req[r].got \cup u
       /\ \A n \in DOMAIN req[r].got : x.got[n] = req[r].got[n]
       /\ \A n \in u : x.got[n] = [count |-> 1, gen |-> 1]
  BY <1>8, <1>9, <1>11
<1>17. d \in Nat /\ cursor[f] <= d /\ d <= sent /\ \A n \in u : n \in Nat /\ cursor[f] < n /\ n <= d
  BY <1>5, <1>6, <1>11, <1>13, <1>14
<1>18. /\ pel' = [pel EXCEPT ![f] = y] /\ cursor' = [cursor EXCEPT ![f] = d]
       /\ req' = [req EXCEPT ![r] = x] /\ UNCHANGED <<sent, handles>>
  BY <1>2, <1>3, <1>7, <1>12, <1>13, <1>14
<1>19. /\ req[r] # Idle /\ req[r].group = f /\ IsRequest(x) /\ x.group = f
       /\ x.raced = req[r].raced /\ x.waited = req[r].waited
  BY <1>1, <1>8, <1>14
<1> HIDE DEF p, c, k, got, new, q, g
<1>20. Reads(r, f, u, y, d, x)
  BY <1>15, <1>16, <1>17, <1>18, <1>19 DEF Reads
<1> QED  BY <1>20, ReadsQueue

-----------------------------------------------------------------------------
(* The lease.                                                               *)

LEMMA ClaimedFacts ==
  ASSUME NEW e \in Entry, NEW r \in Replicas, NEW lease \in 0..Threshold, NEW x, x = Claimed(e, r, lease)
  PROVE  /\ x \in Entry /\ x.idle = Threshold - lease /\ x.moved = e.moved
         /\ x.count = e.count /\ x.gen = e.gen
<1>1. PICK i : i = Threshold - lease
  OBVIOUS
<1>2. i \in 0..Threshold
  BY <1>1, LimitsAssumption
<1>3. x = [[e EXCEPT !.owner = r] EXCEPT !.idle = i]
  BY <1>1 DEF Claimed, Entry
<1> QED  BY <1>1, <1>2, <1>3 DEF Entry

(* The XCLAIM of a receive marks an entry that has become another's.        *)
LEMMA TimedFacts ==
  ASSUME QueueTypes, NEW r \in Replicas, NEW g \in Groups, NEW n \in Pending(g), Has(r, g, n),
         NEW x, x = Timed(req[r], r, n)
  PROVE  /\ x \in Entry /\ x.idle = Threshold - req[r].lease
         /\ x.count = pel[g][n].count /\ x.gen = pel[g][n].gen
         /\ ~x.moved => ~pel[g][n].moved /\ req[r].got[n].gen = pel[g][n].gen
<1>1. IsRequest(req[r]) /\ req[r].group = g
  BY DEF Has, QueueTypes
<1>2. PICK e \in Entry : e = pel[g][n]
  BY DEF QueueTypes
<1>3. PICK lease \in 0..Threshold : lease = req[r].lease
  BY <1>1 DEF IsRequest
<1>4. PICK y : y = Claimed(e, r, lease)
  OBVIOUS
<1>5. /\ y \in Entry /\ y.idle = Threshold - lease /\ y.moved = e.moved
      /\ y.count = e.count /\ y.gen = e.gen
  BY <1>2, <1>3, <1>4, ClaimedFacts
<1>6. PICK over \in BOOLEAN : over = (e.moved \/ Overtaken(req[r], n))
  OBVIOUS
<1>7. x = [y EXCEPT !.moved = over]
  <2>1. x = [y EXCEPT !.moved = y.moved \/ Overtaken(req[r], n)]
    BY <1>1, <1>2, <1>3, <1>4, <1>5 DEF Timed, Entry
  <2>2. (y.moved \/ Overtaken(req[r], n)) = over
    BY <1>5, <1>6
  <2> QED  BY <2>1, <2>2
<1>8. x \in Entry /\ x.moved = over /\ x.idle = y.idle /\ x.count = y.count /\ x.gen = y.gen
  BY <1>5, <1>6, <1>7 DEF Entry
<1>9. ~Overtaken(req[r], n) => req[r].got[n].gen = pel[g][n].gen
  BY <1>1 DEF Overtaken
<1> QED  BY <1>2, <1>3, <1>5, <1>6, <1>8, <1>9

(* Replica r hands out what it has in hand of group g: the entries kept are *)
(* claimed, all of them or none, and have a handle.                         *)
Applies(r, g, timed, kept, p) ==
  /\ req[r] # Idle /\ req[r].group = g /\ timed \in BOOLEAN
  /\ kept \in SUBSET Pending(g) /\ DOMAIN p = kept
  /\ \A n \in kept : p[n] = IF timed /\ n \in DOMAIN req[r].got THEN Timed(req[r], r, n) ELSE pel[g][n]
  /\ pel' = [pel EXCEPT ![g] = p] /\ req' = [req EXCEPT ![r] = Idle]
  /\ handles' = handles \cup {Receipt(req[r], r, n, timed) : n \in DOMAIN req[r].got \ Undecodable}
  /\ UNCHANGED <<sent, cursor>>

LEMMA AppliesCells ==
  ASSUME QueueTypes, NEW r \in Replicas, NEW g \in Groups, NEW timed, NEW kept, NEW p,
         Applies(r, g, timed, kept, p)
  PROVE  /\ \A n : \A s \in Replicas, f \in Groups :
              Has(s, f, n)' => Has(s, f, n) /\ req'[s] = req[s] /\ s # r
         /\ \A f \in Groups : \A n \in Pending(f)' :
              /\ n \in Pending(f) /\ pel[f][n] \in Entry /\ pel'[f][n] \in Entry
              /\ pel'[f][n].count = pel[f][n].count /\ pel'[f][n].gen = pel[f][n].gen
         /\ \A f \in Groups : \A n \in Pending(f)' :
              ~(timed /\ f = g /\ Has(r, g, n)) => pel'[f][n] = pel[f][n]
         /\ \A n \in Pending(g)' : timed /\ Has(r, g, n) =>
              /\ pel'[g][n].idle = Threshold - req[r].lease
              /\ ~pel'[g][n].moved => ~pel[g][n].moved /\ req[r].got[n].gen = pel[g][n].gen
         /\ req[r].lease \in 0..Threshold
<1>1. \A f \in Groups : pel'[f] = IF f = g THEN p ELSE pel[f]
  BY DEF QueueTypes, Applies
<1>2. \A s \in Replicas : req'[s] = IF s = r THEN Idle ELSE req[s]
  BY DEF QueueTypes, Applies
<1>3. req[r].lease \in 0..Threshold
  BY DEF QueueTypes, Applies, IsRequest
<1>4. \A f \in Groups : \A n \in Pending(f)' : n \in Pending(f) /\ pel[f][n] \in Entry
  BY <1>1 DEF Pending, Applies, QueueTypes
<1>5. \A f \in Groups : \A n \in Pending(f)' :
        ~(timed /\ f = g /\ Has(r, g, n)) => pel'[f][n] = pel[f][n]
  BY <1>1 DEF Pending, Applies, Has
<1>6. ASSUME NEW n \in Pending(g)', timed, Has(r, g, n)
      PROVE  /\ pel'[g][n] \in Entry /\ pel'[g][n].idle = Threshold - req[r].lease
             /\ pel'[g][n].count = pel[g][n].count /\ pel'[g][n].gen = pel[g][n].gen
             /\ ~pel'[g][n].moved => ~pel[g][n].moved /\ req[r].got[n].gen = pel[g][n].gen
  <2>1. PICK x : x = Timed(req[r], r, n)
    OBVIOUS
  <2>2. pel'[g][n] = x
    BY <1>1, <1>6, <2>1 DEF Applies, Has, Pending
  <2>3. n \in Pending(g)
    BY <1>4
  <2>4. /\ x \in Entry /\ x.idle = Threshold - req[r].lease
        /\ x.count = pel[g][n].count /\ x.gen = pel[g][n].gen
        /\ ~x.moved => ~pel[g][n].moved /\ req[r].got[n].gen = pel[g][n].gen
    BY <1>6, <2>1, <2>3, TimedFacts
  <2> QED  BY <2>2, <2>4
<1>7. \A f \in Groups : \A n \in Pending(f)' :
        /\ pel'[f][n] \in Entry
        /\ pel'[f][n].count = pel[f][n].count /\ pel'[f][n].gen = pel[f][n].gen
  BY <1>4, <1>5, <1>6
<1>8. \A n : \A s \in Replicas, f \in Groups :
        Has(s, f, n)' => Has(s, f, n) /\ req'[s] = req[s] /\ s # r
  BY <1>2 DEF Has
<1> QED  BY <1>3, <1>4, <1>5, <1>6, <1>7, <1>8

(* A handle carries what its request has in hand.                           *)
LEMMA ReceiptFacts ==
  ASSUME QueueTypes, NEW r \in Replicas, NEW g \in Groups, NEW n, Has(r, g, n),
         NEW timed \in BOOLEAN, NEW h, h = Receipt(req[r], r, n, timed)
  PROVE  /\ h \in Handle /\ h.group = g /\ h.msg = n /\ h.left = req[r].lease /\ n <= cursor[g]
         /\ h.count = req[r].got[n].count /\ h.gen = req[r].got[n].gen /\ h.raced = req[r].raced
         /\ ~h.late => ~req[r].waited \/ timed
<1>1. IsRequest(req[r]) /\ req[r].group = g
  BY DEF Has, QueueTypes
<1>2. n \in 1..cursor[g] /\ req[r].got[n] \in [count : Int, gen : Int] /\ cursor[g] \in Nat
  BY DEF QueueTypes
<1>3. PICK q : q = req[r]
  OBVIOUS
<1>4. PICK c \in Int : c = q.got[n].count
  BY <1>2, <1>3
<1>5. PICK d \in Int : d = q.got[n].gen
  BY <1>2, <1>3
<1>6. PICK late \in BOOLEAN : late = Late(q, n, timed)
  BY <1>1, <1>3 DEF Late, IsRequest
<1>7. h = [group |-> g, msg |-> n, owner |-> r, left |-> q.lease, count |-> c, gen |-> d,
           raced |-> q.raced, late |-> late]
  BY <1>1, <1>3, <1>4, <1>5, <1>6 DEF Receipt
<1>8. q.lease \in 0..Threshold /\ q.raced \in BOOLEAN /\ n \in Nat
  BY <1>1, <1>2, <1>3 DEF IsRequest
<1>9. ~late => ~q.waited \/ timed
  BY <1>6 DEF Late
<1> QED  BY <1>2, <1>3, <1>4, <1>5, <1>7, <1>8, <1>9 DEF Handle

LEMMA AppliesTypes ==
  ASSUME QueueInv, NEW r \in Replicas, NEW g \in Groups, NEW timed, NEW kept, NEW p,
         Applies(r, g, timed, kept, p)
  PROVE  QueueInv'
<1>0. QueueTypes /\ timed \in BOOLEAN
  BY DEF QueueInv, Applies
<1>1. /\ \A n : \A s \in Replicas, f \in Groups :
           Has(s, f, n)' => Has(s, f, n) /\ req'[s] = req[s] /\ s # r
      /\ \A f \in Groups : \A n \in Pending(f)' :
           /\ n \in Pending(f) /\ pel[f][n] \in Entry /\ pel'[f][n] \in Entry
           /\ pel'[f][n].count = pel[f][n].count /\ pel'[f][n].gen = pel[f][n].gen
  BY <1>0, AppliesCells
<1>2. \A h \in handles' : h \in handles \/ \E n : Has(r, g, n) /\ h = Receipt(req[r], r, n, timed)
  BY DEF Applies, Has
<1>3. sent' = sent /\ cursor' = cursor /\ pel' = [f \in Groups |-> pel'[f]] /\ req' = [s \in Replicas |-> req'[s]]
  BY <1>0 DEF QueueTypes, Applies
<1>4. \A f \in Groups : Pending(f)' \subseteq 1..cursor[f] /\ \A n \in Pending(f)' : pel'[f][n] \in Entry
  BY <1>0, <1>1 DEF QueueTypes
<1>5. \A n : \A s \in Replicas, f \in Groups : Has(s, f, n)' =>
        n \in 1..cursor[f] /\ req'[s].got[n] \in [count : Int, gen : Int]
  BY <1>0, <1>1 DEF QueueTypes
<1>6. \A s \in Replicas : req'[s] = Idle \/ IsRequest(req'[s])
  BY <1>0 DEF QueueTypes, Applies
<1>7. \A h \in handles' : h \in Handle /\ h.msg <= cursor[h.group] /\ (h.raced \/ h.count = h.gen)
  <2> SUFFICES ASSUME NEW h \in handles'
               PROVE  h \in Handle /\ h.msg <= cursor[h.group] /\ (h.raced \/ h.count = h.gen)
    OBVIOUS
  <2>1. CASE h \in handles
    BY <2>1 DEF QueueInv, QueueTypes, Counted
  <2>2. CASE \E n : Has(r, g, n) /\ h = Receipt(req[r], r, n, timed)
    <3>1. PICK n : Has(r, g, n) /\ h = Receipt(req[r], r, n, timed)
      BY <2>2
    <3>2. /\ h \in Handle /\ h.group = g /\ h.msg = n /\ n <= cursor[g]
          /\ h.count = req[r].got[n].count /\ h.gen = req[r].got[n].gen /\ h.raced = req[r].raced
      BY <1>0, <3>1, ReceiptFacts
    <3> QED  BY <3>1, <3>2 DEF QueueInv, Counted
  <2> QED  BY <1>2, <2>1, <2>2
<1>8. QueueTypes'
  BY <1>0, <1>3, <1>4, <1>5, <1>6, <1>7 DEF QueueTypes
<1>9. Counted'
  BY <1>1, <1>7 DEF QueueInv, Counted
<1> QED  BY <1>8, <1>9 DEF QueueInv

LEMMA AppliesLeases ==
  ASSUME QueueInv, LeaseInv, NEW r \in Replicas, NEW g \in Groups, NEW timed, NEW kept, NEW p,
         Applies(r, g, timed, kept, p)
  PROVE  LeaseInv'
<1>0. QueueTypes /\ timed \in BOOLEAN
  BY DEF QueueInv, Applies
<1>1. /\ \A n : \A s \in Replicas, f \in Groups :
           Has(s, f, n)' => Has(s, f, n) /\ req'[s] = req[s] /\ s # r
      /\ \A f \in Groups : \A n \in Pending(f)' :
           /\ n \in Pending(f) /\ pel[f][n] \in Entry
           /\ pel'[f][n].count = pel[f][n].count /\ pel'[f][n].gen = pel[f][n].gen
      /\ \A f \in Groups : \A n \in Pending(f)' :
           ~(timed /\ f = g /\ Has(r, g, n)) => pel'[f][n] = pel[f][n]
      /\ \A n \in Pending(g)' : timed /\ Has(r, g, n) =>
           /\ pel'[g][n].idle = Threshold - req[r].lease
           /\ ~pel'[g][n].moved => ~pel[g][n].moved /\ req[r].got[n].gen = pel[g][n].gen
      /\ req[r].lease \in 0..Threshold
  BY <1>0, AppliesCells
<1>2. \A h \in handles' : h \in handles \/ \E n : Has(r, g, n) /\ h = Receipt(req[r], r, n, timed)
  BY DEF Applies, Has
<1>3. \A h \in handles : h \in Handle /\ h.group \in Groups
  BY DEF QueueInv, QueueTypes, Handle
(* An entry that is steady afterwards was so before; if the XCLAIM set its  *)
(* clock, the receive has the last delivery in hand.                        *)
<1>4. ASSUME NEW f \in Groups, NEW n, Steady(f, n)'
      PROVE  /\ n \in Pending(f) /\ pel'[f][n].gen = pel[f][n].gen /\ Steady(f, n)
             /\ \/ pel'[f][n] = pel[f][n] /\ ~(timed /\ f = g /\ Has(r, g, n))
                \/ /\ timed /\ f = g /\ Has(r, g, n) /\ req[r].got[n].gen = pel[f][n].gen
                   /\ pel'[f][n].idle = Threshold - req[r].lease
  <2>1. n \in Pending(f)' /\ ~pel'[f][n].moved
    BY <1>4 DEF Steady
  <2>2. n \in Pending(f) /\ pel'[f][n].gen = pel[f][n].gen
    BY <1>1, <2>1
  <2>3. CASE timed /\ f = g /\ Has(r, g, n)
    BY <1>1, <2>1, <2>2, <2>3 DEF Steady
  <2>4. CASE ~(timed /\ f = g /\ Has(r, g, n))
    <3>1. pel'[f][n] = pel[f][n]
      BY <1>1, <2>1, <2>4
    <3> QED  BY <2>1, <2>2, <2>4, <3>1 DEF Steady
  <2> QED  BY <2>3, <2>4
<1>5. Unique'
  <2>1. ASSUME NEW n, NEW s \in Replicas, NEW f \in Groups, Has(s, f, n)'
        PROVE  /\ n \in Pending(f)' => req'[s].got[n].gen <= pel'[f][n].gen
               /\ \A t \in Replicas : Has(t, f, n)' /\ req'[t].got[n].gen = req'[s].got[n].gen => t = s
               /\ \A h \in handles' : h.group = f /\ h.msg = n => h.gen # req'[s].got[n].gen
    <3>1. Has(s, f, n) /\ req'[s] = req[s] /\ s # r
      BY <1>1, <2>1
    <3>2. /\ n \in Pending(f) => req[s].got[n].gen <= pel[f][n].gen
          /\ \A t \in Replicas : Has(t, f, n) /\ req[t].got[n].gen = req[s].got[n].gen => t = s
          /\ \A h \in handles : h.group = f /\ h.msg = n => h.gen # req[s].got[n].gen
      BY <3>1 DEF LeaseInv, Unique
    <3>3. n \in Pending(f)' => n \in Pending(f) /\ pel'[f][n].gen = pel[f][n].gen
      BY <1>1
    <3>4. \A t \in Replicas : Has(t, f, n)' => Has(t, f, n) /\ req'[t] = req[t]
      BY <1>1
    <3>5. ASSUME NEW h \in handles', h.group = f, h.msg = n PROVE h.gen # req[s].got[n].gen
      <4>1. CASE h \in handles
        BY <3>2, <3>5, <4>1
      <4>2. CASE \E m : Has(r, g, m) /\ h = Receipt(req[r], r, m, timed)
        <5>1. PICK m : Has(r, g, m) /\ h = Receipt(req[r], r, m, timed)
          BY <4>2
        <5>2. h.group = g /\ h.msg = m /\ h.gen = req[r].got[m].gen
          BY <1>0, <5>1, ReceiptFacts
        <5>3. Has(r, f, n) /\ h.gen = req[r].got[n].gen
          BY <3>5, <5>1, <5>2
        <5> QED  BY <3>1, <3>2, <5>3
      <4> QED  BY <1>2, <4>1, <4>2
    <3> QED  BY <3>1, <3>2, <3>3, <3>4, <3>5
  <2>2. ASSUME NEW h \in handles', h.msg \in Pending(h.group)' PROVE h.gen <= pel'[h.group][h.msg].gen
    <3>1. CASE h \in handles
      BY <1>1, <1>3, <2>2, <3>1 DEF LeaseInv, Unique
    <3>2. CASE \E m : Has(r, g, m) /\ h = Receipt(req[r], r, m, timed)
      <4>1. PICK m : Has(r, g, m) /\ h = Receipt(req[r], r, m, timed)
        BY <3>2
      <4>2. h.group = g /\ h.msg = m /\ h.gen = req[r].got[m].gen
        BY <1>0, <4>1, ReceiptFacts
      <4>3. m \in Pending(g) /\ pel'[g][m].gen = pel[g][m].gen
        BY <1>1, <2>2, <4>2
      <4>4. req[r].got[m].gen <= pel[g][m].gen
        BY <4>1, <4>3 DEF LeaseInv, Unique
      <4> QED  BY <4>2, <4>3, <4>4
    <3> QED  BY <1>2, <3>1, <3>2
  <2> QED  BY <2>1, <2>2 DEF Unique
<1>6. Fresh'
  <2> SUFFICES ASSUME NEW n, NEW s \in Replicas, NEW f \in Groups,
                      Has(s, f, n)', Steady(f, n)', ~req'[s].waited
               PROVE  pel'[f][n].idle = 0 /\ req'[s].got[n].gen = pel'[f][n].gen
    BY DEF Fresh
  <2>1. Has(s, f, n) /\ req'[s] = req[s] /\ s # r
    BY <1>1
  <2>2. Steady(f, n)
    BY <1>4
  <2>3. pel[f][n].idle = 0 /\ req[s].got[n].gen = pel[f][n].gen
    BY <2>1, <2>2 DEF LeaseInv, Fresh
  <2>4. CASE pel'[f][n] = pel[f][n]
    BY <2>1, <2>3, <2>4
  <2>5. CASE f = g /\ Has(r, g, n) /\ req[r].got[n].gen = pel[f][n].gen
    <3>1. r = s
      BY <2>1, <2>3, <2>5 DEF LeaseInv, Unique
    <3> QED  BY <2>1, <3>1
  <2> QED  BY <1>4, <2>4, <2>5
<1>7. Leased'
  <2> SUFFICES ASSUME NEW h \in handles', h.left > 0, ~h.late, Steady(h.group, h.msg)', h.group \in Groups
               PROVE  /\ pel'[h.group][h.msg].idle + h.left <= Threshold
                      /\ h.gen = pel'[h.group][h.msg].gen
    <3>1. \A h \in handles' : h.group \in Groups
      <4> SUFFICES ASSUME NEW h \in handles' PROVE h.group \in Groups
        OBVIOUS
      <4>1. CASE \E m : Has(r, g, m) /\ h = Receipt(req[r], r, m, timed)
        BY <1>0, <4>1, ReceiptFacts
      <4> QED  BY <1>2, <1>3, <4>1
    <3> QED  BY <3>1 DEF Leased
  <2>1. /\ Steady(h.group, h.msg) /\ pel'[h.group][h.msg].gen = pel[h.group][h.msg].gen
        /\ \/ /\ pel'[h.group][h.msg] = pel[h.group][h.msg]
              /\ ~(timed /\ h.group = g /\ Has(r, g, h.msg))
           \/ /\ timed /\ h.group = g /\ Has(r, g, h.msg)
              /\ req[r].got[h.msg].gen = pel[h.group][h.msg].gen
              /\ pel'[h.group][h.msg].idle = Threshold - req[r].lease
    BY <1>4
  <2>2. CASE h \in handles
    <3>1. /\ pel[h.group][h.msg].idle + h.left <= Threshold
          /\ h.gen = pel[h.group][h.msg].gen
      BY <2>1, <2>2 DEF LeaseInv, Leased
    <3>2. ~(h.group = g /\ Has(r, g, h.msg) /\ req[r].got[h.msg].gen = pel[h.group][h.msg].gen)
      BY <2>2, <3>1 DEF LeaseInv, Unique
    <3> QED  BY <2>1, <3>1, <3>2
  <2>3. CASE \E n : Has(r, g, n) /\ h = Receipt(req[r], r, n, timed)
    <3>1. PICK n : Has(r, g, n) /\ h = Receipt(req[r], r, n, timed)
      BY <2>3
    <3>2. /\ h.group = g /\ h.msg = n /\ h.left = req[r].lease /\ h.gen = req[r].got[n].gen
          /\ ~req[r].waited \/ timed
      BY <1>0, <3>1, ReceiptFacts
    <3>3. CASE timed
      BY <1>1, <2>1, <3>1, <3>2, <3>3, LimitsAssumption
    <3>4. CASE ~timed
      <4>1. pel[g][n].idle = 0 /\ req[r].got[n].gen = pel[g][n].gen
        BY <2>1, <3>1, <3>2, <3>4 DEF LeaseInv, Fresh
      <4> QED  BY <1>1, <2>1, <3>2, <3>4, <4>1, LimitsAssumption
    <3> QED  BY <1>0, <3>3, <3>4
  <2> QED  BY <1>2, <2>2, <2>3
<1> QED  BY <1>5, <1>6, <1>7 DEF LeaseInv

LEMMA ApplyVisibilityQueue ==
  ASSUME QueueInv, NEW r \in Replicas, ApplyVisibility(r)
  PROVE  QueueInv' /\ (LeaseInv => LeaseInv')
<1> DEFINE q == req[r]
           g == q.group
           got == DOMAIN q.got
           kept == Pending(g) \ (got \cap Undecodable)
           claims(timed) == [n \in kept |-> IF timed /\ n \in got THEN Timed(q, r, n) ELSE pel[g][n]]
<1>1. /\ InReceive(r, "apply") /\ req' = [req EXCEPT ![r] = Idle] /\ UNCHANGED <<sent, cursor>>
      /\ \E timed \in BOOLEAN :
           /\ pel' = [pel EXCEPT ![g] = claims(timed)]
           /\ handles' = handles \cup {Receipt(q, r, n, timed) : n \in got \ Undecodable}
  BY Zenon DEF ApplyVisibility, stream
<1>2. g \in Groups /\ q # Idle
  BY <1>1 DEF InReceive, QueueInv, QueueTypes, Idle, IsRequest
<1>3. PICK timed \in BOOLEAN :
        /\ pel' = [pel EXCEPT ![g] = claims(timed)]
        /\ handles' = handles \cup {Receipt(q, r, n, timed) : n \in got \ Undecodable}
  BY <1>1
<1>4. PICK u : u = kept
  OBVIOUS
<1>5. PICK p : p = claims(timed)
  OBVIOUS
<1>6. PICK f \in Groups : f = g
  BY <1>2
<1>7. /\ u \in SUBSET Pending(f) /\ DOMAIN p = u
      /\ \A n \in u : p[n] = IF timed /\ n \in DOMAIN req[r].got THEN Timed(req[r], r, n) ELSE pel[f][n]
  BY <1>4, <1>5, <1>6
<1>8. /\ req[r] # Idle /\ req[r].group = f /\ pel' = [pel EXCEPT ![f] = p]
      /\ handles' = handles \cup {Receipt(req[r], r, n, timed) : n \in DOMAIN req[r].got \ Undecodable}
  BY <1>2, <1>3, <1>5, <1>6
<1> HIDE DEF q, g, got, kept, claims
<1>9. Applies(r, f, timed, u, p)
  BY <1>1, <1>7, <1>8 DEF Applies
<1> QED  BY <1>9, AppliesTypes, AppliesLeases

(* A holder changes the lease: its entry is no longer anybody's promise.    *)
LEMMA ChangeQueue ==
  ASSUME QueueInv, NEW h \in handles, NEW lease \in Changes, HandleVisibility(h, lease)
  PROVE  QueueInv' /\ (LeaseInv => LeaseInv')
<1>1. PICK g \in Groups : g = h.group
  BY DEF QueueInv, QueueTypes, Handle
<1>2. PICK m : m = h.msg
  OBVIOUS
<1>3. /\ m \in Pending(g) /\ lease \in 0..Threshold /\ UNCHANGED <<sent, cursor, req, handles>>
      /\ pel' = [pel EXCEPT ![g][m] = [Claimed(@, h.owner, lease) EXCEPT !.moved = TRUE]]
  BY <1>1, <1>2, LimitsAssumption DEF HandleVisibility, ChangeVisibility, stream
<1>4. PICK e \in Entry : e = pel[g][m]
  BY <1>3 DEF QueueInv, QueueTypes
<1>5. PICK x \in Entry : x = Claimed(e, h.owner, lease)
  BY <1>3, <1>4, ClaimedFacts DEF QueueInv, QueueTypes, Handle
<1>6. x.count = e.count /\ x.gen = e.gen
  BY <1>3, <1>4, <1>5, ClaimedFacts DEF QueueInv, QueueTypes, Handle
<1>7. PICK y : y = [x EXCEPT !.moved = TRUE]
  OBVIOUS
<1>8. y \in Entry /\ y.moved /\ y.count = e.count /\ y.gen = e.gen
  BY <1>6, <1>7 DEF Entry
<1>9. pel' = [pel EXCEPT ![g][m] = y]
  BY <1>3, <1>4, <1>5, <1>7
<1>10. /\ pel' = [f \in Groups |-> pel'[f]]
       /\ \A f \in Groups : Pending(f)' = Pending(f)
       /\ \A f \in Groups : \A n \in Pending(f) : pel'[f][n] = IF f = g /\ n = m THEN y ELSE pel[f][n]
  <2>1. PICK p : p = [pel[g] EXCEPT ![m] = y]
    OBVIOUS
  <2>2. DOMAIN p = Pending(g) /\ \A n \in Pending(g) : p[n] = IF n = m THEN y ELSE pel[g][n]
    BY <2>1 DEF Pending
  <2>3. pel' = [pel EXCEPT ![g] = p]
    BY <1>9, <2>1
  <2>4. pel = [f \in Groups |-> pel[f]]
    BY DEF QueueInv, QueueTypes
  <2>5. pel' = [f \in Groups |-> pel'[f]] /\ \A f \in Groups : pel'[f] = IF f = g THEN p ELSE pel[f]
    BY <2>3, <2>4
  <2> QED  BY <2>2, <2>5 DEF Pending
<1>11. \A n : \A s \in Replicas, f \in Groups : Has(s, f, n)' <=> Has(s, f, n)
  BY <1>3 DEF Has
<1>12. \A f \in Groups : \A n \in Pending(f)' : pel'[f][n] \in Entry
  BY <1>8, <1>10 DEF QueueInv, QueueTypes
<1>13. QueueTypes'
  BY <1>3, <1>10, <1>11, <1>12 DEF QueueInv, QueueTypes
<1>14. \A f \in Groups : \A n \in Pending(f)' : pel'[f][n].count = pel'[f][n].gen
  <2>1. e.count = e.gen
    BY <1>3, <1>4 DEF QueueInv, Counted
  <2> QED  BY <1>8, <1>10, <2>1 DEF QueueInv, Counted
<1>15. Counted'
  BY <1>3, <1>11, <1>14 DEF QueueInv, Counted
<1>16. \A n : \A f \in Groups : Steady(f, n)' => Steady(f, n) /\ pel'[f][n] = pel[f][n]
  BY <1>8, <1>10 DEF Steady
<1>17. handles' = handles /\ req' = req /\ \A k \in handles : k.group \in Groups
  BY <1>3 DEF QueueInv, QueueTypes, Handle
<1>18. ASSUME Unique PROVE Unique'
  <2>1. \A f \in Groups : \A n \in Pending(f)' : n \in Pending(f) /\ pel'[f][n].gen = pel[f][n].gen
    BY <1>4, <1>8, <1>10
  <2>2. \A k \in handles : k.msg \in Pending(k.group)' => k.gen <= pel'[k.group][k.msg].gen
    BY <1>17, <1>18, <2>1 DEF Unique
  <2>3. ASSUME NEW n, NEW s \in Replicas, NEW f \in Groups, Has(s, f, n), n \in Pending(f)'
        PROVE  req[s].got[n].gen <= pel'[f][n].gen
    BY <1>18, <2>1, <2>3 DEF Unique
  <2> QED  BY <1>11, <1>17, <1>18, <2>2, <2>3 DEF Unique
<1>19. Fresh => Fresh'
  BY <1>11, <1>16, <1>17 DEF Fresh
<1>20. Leased => Leased'
  BY <1>16, <1>17 DEF Leased
<1> QED  BY <1>13, <1>15, <1>18, <1>19, <1>20 DEF QueueInv, LeaseInv

-----------------------------------------------------------------------------
(* Time.                                                                    *)

LEMMA AgedFacts ==
  ASSUME NEW e \in Entry, NEW x, x = [e EXCEPT !.idle = Min({@ + 1, Threshold})]
  PROVE  /\ x \in Entry /\ x.idle <= e.idle + 1 /\ x.count = e.count /\ x.gen = e.gen
         /\ x.moved = e.moved
<1>1. PICK a \in Int : a = e.idle + 1
  BY DEF Entry
<1>2. PICK b \in Int : b = Threshold
  BY LimitsAssumption
<1>3. PICK i : i = Min({a, b})
  OBVIOUS
<1>4. i \in {a, b} /\ i <= a /\ i <= b
  BY <1>1, <1>2, <1>3, MinOfTwo
<1>5. i \in 0..Threshold /\ i <= e.idle + 1
  BY <1>1, <1>2, <1>4, LimitsAssumption DEF Entry
<1>6. x = [e EXCEPT !.idle = i]
  BY <1>1, <1>2, <1>3 DEF Entry
<1> QED  BY <1>5, <1>6 DEF Entry

LEMMA TickQueue ==
  ASSUME QueueInv, Tick
  PROVE  QueueInv' /\ (LeaseInv => LeaseInv')
<1>1. /\ UNCHANGED <<sent, cursor>> /\ req' = [r \in Replicas |-> Waited(req[r])]
      /\ pel' = [g \in Groups |-> [n \in Pending(g) |->
                  [pel[g][n] EXCEPT !.idle = Min({@ + 1, Threshold})]]]
      /\ handles' = {[h EXCEPT !.left = @ - 1] : h \in {k \in handles : k.left > 0}}
  BY DEF Tick, stream
<1>2. \A g \in Groups : Pending(g)' = Pending(g)
  BY <1>1 DEF Pending
<1>3. ASSUME NEW g \in Groups, NEW n \in Pending(g)
      PROVE  /\ pel[g][n] \in Entry /\ pel'[g][n] \in Entry
             /\ pel'[g][n].idle <= pel[g][n].idle + 1
             /\ pel'[g][n].count = pel[g][n].count /\ pel'[g][n].gen = pel[g][n].gen
             /\ pel'[g][n].moved = pel[g][n].moved
  <2>1. PICK e \in Entry : e = pel[g][n]
    BY DEF QueueInv, QueueTypes
  <2>2. PICK x : x = [e EXCEPT !.idle = Min({@ + 1, Threshold})]
    OBVIOUS
  <2>3. pel'[g][n] = x
    BY <1>1, <2>1, <2>2
  <2> QED  BY <2>1, <2>2, <2>3, AgedFacts, ZenonT(30)
<1>4. ASSUME NEW h \in handles'
      PROVE  \E k \in handles :
               /\ k \in Handle /\ h \in Handle /\ k.left = h.left + 1
               /\ h.group = k.group /\ h.msg = k.msg /\ h.count = k.count /\ h.gen = k.gen
               /\ h.raced = k.raced /\ h.late = k.late
  <2>1. PICK k \in handles : k.left > 0 /\ h = [k EXCEPT !.left = @ - 1]
    BY <1>1
  <2>2. k \in Handle
    BY DEF QueueInv, QueueTypes
  <2>3. k.left - 1 \in 0..Threshold /\ k.left \in Int
    BY <2>1, <2>2, LimitsAssumption DEF Handle
  <2>4. PICK i \in 0..Threshold : i = k.left - 1
    BY <2>3
  <2>5. h = [k EXCEPT !.left = i]
    BY <2>1, <2>2, <2>4 DEF Handle
  <2>6. h \in Handle /\ h.left = i
    BY <2>2, <2>5 DEF Handle
  <2>7. /\ h.group = k.group /\ h.msg = k.msg /\ h.count = k.count /\ h.gen = k.gen
        /\ h.raced = k.raced /\ h.late = k.late
    BY <2>2, <2>5 DEF Handle
  <2>8. k.left = h.left + 1
    BY <2>3, <2>4, <2>6
  <2> QED  BY <2>2, <2>6, <2>7, <2>8
<1>5. ASSUME NEW r \in Replicas
      PROVE  /\ req'[r] = Idle <=> req[r] = Idle
             /\ req[r] # Idle => /\ IsRequest(req'[r]) /\ req'[r].group = req[r].group
                                 /\ req'[r].got = req[r].got /\ req'[r].raced = req[r].raced
                                 /\ DOMAIN req[r].got # {} => req'[r].waited
  <2>1. PICK q : q = req[r] /\ req'[r] = Waited(q)
    BY <1>1
  <2>2. CASE q = Idle
    BY <2>1, <2>2 DEF Waited
  <2>3. CASE q # Idle /\ DOMAIN q.got = {}
    BY <2>1, <2>3 DEF Waited, QueueInv, QueueTypes
  <2>4. CASE q # Idle /\ DOMAIN q.got # {}
    <3>1. IsRequest(q) /\ req'[r] = [q EXCEPT !.waited = TRUE]
      BY <2>1, <2>4 DEF Waited, QueueInv, QueueTypes
    <3>2. PICK x : x = [q EXCEPT !.waited = TRUE]
      OBVIOUS
    <3>3. /\ IsRequest(x) /\ x.group = q.group /\ x.got = q.got /\ x.raced = q.raced /\ x.waited
      BY <3>1, <3>2 DEF IsRequest
    <3>4. x # Idle
      BY <3>3 DEF IsRequest, Idle
    <3> QED  BY <2>1, <2>4, <3>1, <3>2, <3>3, <3>4
  <2> QED  BY <2>2, <2>3, <2>4
<1>6. \A n : \A r \in Replicas, g \in Groups : Has(r, g, n)' =>
         /\ Has(r, g, n) /\ req'[r].waited
         /\ req'[r].got = req[r].got /\ req'[r].raced = req[r].raced
  <2> SUFFICES ASSUME NEW n, NEW r \in Replicas, NEW g \in Groups, Has(r, g, n)'
               PROVE  /\ Has(r, g, n) /\ req'[r].waited
                      /\ req'[r].got = req[r].got /\ req'[r].raced = req[r].raced
    OBVIOUS
  <2>1. req[r] # Idle /\ req'[r].group = g /\ n \in DOMAIN req'[r].got
    BY <1>5 DEF Has
  <2> QED  BY <1>5, <2>1 DEF Has
<1>7. QueueTypes'
  <2>1. pel' = [g \in Groups |-> pel'[g]]
    BY <1>1
  <2>2. \A g \in Groups : Pending(g)' \subseteq 1..cursor[g] /\ \A n \in Pending(g)' : pel'[g][n] \in Entry
    BY <1>2, <1>3 DEF QueueInv, QueueTypes
  <2>3. handles' \subseteq Handle /\ \A h \in handles' : h.msg <= cursor[h.group]
    BY <1>4 DEF QueueInv, QueueTypes
  <2>4. req' = [r \in Replicas |-> req'[r]] /\ \A r \in Replicas : req'[r] = Idle \/ IsRequest(req'[r])
    BY <1>1, <1>5
  <2>5. \A n : \A r \in Replicas, g \in Groups : Has(r, g, n)' =>
          n \in 1..cursor[g] /\ req'[r].got[n] \in [count : Int, gen : Int]
    BY <1>6 DEF QueueInv, QueueTypes
  <2> QED  BY <1>1, <2>1, <2>2, <2>3, <2>4, <2>5 DEF QueueInv, QueueTypes
<1>8. Counted'
  <2>1. \A g \in Groups : \A n \in Pending(g)' : pel'[g][n].count = pel'[g][n].gen
    BY <1>2, <1>3 DEF QueueInv, Counted
  <2>2. \A h \in handles' : h.raced \/ h.count = h.gen
    BY <1>4 DEF QueueInv, Counted
  <2> QED  BY <1>6, <2>1, <2>2 DEF QueueInv, Counted
<1>9. ASSUME Unique PROVE Unique'
  <2>1. \A g \in Groups : \A n \in Pending(g)' : n \in Pending(g) /\ pel'[g][n].gen = pel[g][n].gen
    BY <1>2, <1>3
  <2>2. ASSUME NEW h \in handles', h.msg \in Pending(h.group)' PROVE h.gen <= pel'[h.group][h.msg].gen
    <3>1. PICK k \in handles : k \in Handle /\ h.group = k.group /\ h.msg = k.msg /\ h.gen = k.gen
      BY <1>4
    <3>2. k.group \in Groups /\ k.msg \in Pending(k.group)
      BY <2>1, <2>2, <3>1 DEF Handle
    <3>3. k.gen <= pel[k.group][k.msg].gen
      BY <1>9, <3>2 DEF Unique
    <3> QED  BY <2>1, <2>2, <3>1, <3>2, <3>3
  <2>3. ASSUME NEW n, NEW r \in Replicas, NEW g \in Groups, Has(r, g, n)'
        PROVE  /\ n \in Pending(g)' => req'[r].got[n].gen <= pel'[g][n].gen
               /\ \A s \in Replicas : Has(s, g, n)' /\ req'[s].got[n].gen = req'[r].got[n].gen => s = r
               /\ \A h \in handles' : h.group = g /\ h.msg = n => h.gen # req'[r].got[n].gen
    <3>1. Has(r, g, n) /\ req'[r].got = req[r].got
      BY <1>6, <2>3
    <3>2. \A s \in Replicas : Has(s, g, n)' => Has(s, g, n) /\ req'[s].got = req[s].got
      BY <1>6
    <3>3. \A h \in handles' : \E k \in handles : h.group = k.group /\ h.msg = k.msg /\ h.gen = k.gen
      BY <1>4
    <3>4. \A h \in handles' : h.group = g /\ h.msg = n => h.gen # req[r].got[n].gen
      BY <1>9, <3>1, <3>3 DEF Unique
    <3>5. n \in Pending(g)' => req[r].got[n].gen <= pel'[g][n].gen
      BY <1>9, <2>1, <3>1 DEF Unique
    <3>6. \A s \in Replicas : Has(s, g, n)' /\ req'[s].got[n].gen = req'[r].got[n].gen => s = r
      BY <1>9, <3>1, <3>2 DEF Unique
    <3> QED  BY <3>1, <3>4, <3>5, <3>6
  <2> QED  BY <2>2, <2>3 DEF Unique
<1>10. Fresh'
  BY <1>6 DEF Fresh
<1>11. ASSUME Leased PROVE Leased'
  <2> SUFFICES ASSUME NEW h \in handles', h.left > 0, ~h.late, Steady(h.group, h.msg)'
               PROVE  /\ pel'[h.group][h.msg].idle + h.left <= Threshold
                      /\ h.gen = pel'[h.group][h.msg].gen
    BY DEF Leased
  <2>1. PICK k \in handles :
               /\ k \in Handle /\ h \in Handle /\ k.left = h.left + 1
               /\ h.group = k.group /\ h.msg = k.msg /\ h.count = k.count /\ h.gen = k.gen
               /\ h.late = k.late
    BY <1>4
  <2>2. PICK g \in Groups : g = h.group
    BY <2>1 DEF Handle
  <2>3. PICK n \in Pending(g) : n = h.msg
    BY <1>2, <2>2 DEF Steady
  <2>4. Steady(g, n)
    BY <1>2, <1>3, <2>2, <2>3 DEF Steady
  <2>5. h.left \in Int /\ k.left > 0
    BY <2>1 DEF Handle
  <2>6. pel[g][n].idle + k.left <= Threshold /\ k.gen = pel[g][n].gen
    BY <1>11, <2>1, <2>2, <2>3, <2>4, <2>5 DEF Leased
  <2>7. pel[g][n].idle \in Int /\ pel'[g][n].idle \in Int /\ pel'[g][n].idle <= pel[g][n].idle + 1
    BY <1>3 DEF Entry
  <2>8. pel'[g][n].idle + h.left <= Threshold
    BY <2>1, <2>5, <2>6, <2>7, LimitsAssumption
  <2> QED  BY <1>3, <2>1, <2>2, <2>3, <2>6, <2>8
<1> QED  BY <1>7, <1>8, <1>9, <1>11, <1>10 DEF QueueInv, LeaseInv

-----------------------------------------------------------------------------
(* Theorems.                                                                *)

LEMMA QueueStep ==
  QueueInv /\ [Next]_vars => QueueInv' /\ (LeaseInv => LeaseInv')
<1> SUFFICES ASSUME QueueInv, [Next]_vars
             PROVE  QueueInv' /\ (LeaseInv => LeaseInv')
  OBVIOUS
<1>0. sent \in Nat
  BY DEF QueueInv, QueueTypes
<1>1. CASE HandleSend \/ Feed
  BY <1>0, <1>1, QuietQueue DEF HandleSend, Feed, Append
<1>2. CASE Purge
  BY <1>0, <1>2, QuietQueue DEF Purge
<1>3. CASE Tick
  BY <1>3, TickQueue
<1>4. ASSUME NEW r \in Replicas, NEW g \in Groups, NEW lease \in Leases, Receive(r, g, lease)
      PROVE  QueueInv' /\ (LeaseInv => LeaseInv')
  <2> DEFINE counts == [n \in First(MaxMessages, Expired(g)) |-> pel[g][n].count]
             request == [pc |-> "claim", group |-> g, lease |-> lease, counts |-> counts,
                         got |-> <<>>, parking |-> {}, raced |-> FALSE, waited |-> FALSE]
  <2>1. /\ req' = [req EXCEPT ![r] = request] \/ req' = [req EXCEPT ![r] = [request EXCEPT !.pc = "read"]]
        /\ UNCHANGED <<pel, sent, cursor, handles>>
    BY <1>4, Zenon DEF Receive, stream
  <2>2. PICK q \in {request, [request EXCEPT !.pc = "read"]} : req' = [req EXCEPT ![r] = q]
    BY <2>1
  <2>3. \A n \in DOMAIN counts : counts[n] \in Int
    <3> SUFFICES ASSUME NEW n \in First(MaxMessages, Expired(g)) PROVE pel[g][n].count \in Int
      OBVIOUS
    <3>1. n \in Pending(g)
      BY DEF First, Expired
    <3> QED  BY <3>1 DEF QueueInv, QueueTypes, Entry
  <2>4. IsRequest(q) /\ DOMAIN q.got = {}
    <3>1. lease \in 0..Threshold
      BY LimitsAssumption
    <3>2. PICK c : c = counts /\ \A n \in DOMAIN c : c[n] \in Int
      BY <2>3
    <3>3. PICK x : x = request
      OBVIOUS
    <3>4. /\ x = [pc |-> "claim", group |-> g, lease |-> lease, counts |-> c, got |-> <<>>,
                   parking |-> {}, raced |-> FALSE, waited |-> FALSE]
          /\ q = x \/ q = [x EXCEPT !.pc = "read"]
      BY <2>2, <3>2, <3>3
    <3> HIDE DEF counts, request
    <3>5. /\ q = [pc |-> q.pc, group |-> g, lease |-> lease, counts |-> c, got |-> <<>>,
                   parking |-> {}, raced |-> FALSE, waited |-> FALSE]
          /\ q.pc \in {"claim", "read"}
      BY <3>4
    <3>6. /\ q.group = g /\ q.lease = lease /\ q.counts = c /\ q.got = <<>>
          /\ q.parking = {} /\ q.raced = FALSE /\ q.waited = FALSE
          /\ DOMAIN <<>> = {}
      BY <3>5
    <3> QED  BY <3>1, <3>2, <3>5, <3>6 DEF IsRequest
  <2> HIDE DEF counts, request
  <2> QED  BY <2>1, <2>2, <2>4, ReceiveQueue
<1>5. ASSUME NEW r \in Replicas, Reclaim(r) \/ Park(r) \/ ReadNew(r) \/ ApplyVisibility(r)
      PROVE  QueueInv' /\ (LeaseInv => LeaseInv')
  BY <1>5, ReclaimQueue, ParkQueue, ReadNewQueue, ApplyVisibilityQueue
<1>6. ASSUME NEW r \in Replicas, Crash(r) PROVE QueueInv' /\ (LeaseInv => LeaseInv')
  <2>1. req' = [req EXCEPT ![r] = Idle] /\ UNCHANGED <<pel, sent, cursor, handles>>
    BY <1>6 DEF Crash, stream
  <2> QED  BY <2>1, ReceiveQueue
<1>7. ASSUME NEW h \in handles, Delete(h) PROVE QueueInv' /\ (LeaseInv => LeaseInv')
  <2>1. UNCHANGED <<pel, req, cursor, handles, sent>>
    BY <1>7 DEF Delete, stream
  <2> QED  BY <1>0, <2>1, QuietQueue
<1>8. ASSUME NEW h \in handles, NEW lease \in Changes, HandleVisibility(h, lease)
      PROVE  QueueInv' /\ (LeaseInv => LeaseInv')
  BY <1>8, ChangeQueue
<1>9. ASSUME NEW h \in checked, DeleteAck(h) PROVE QueueInv' /\ (LeaseInv => LeaseInv')
  <2>1. /\ pel' = Acked(h) \/ pel' = pel
        /\ \A k \in handles' : k \in handles
        /\ UNCHANGED <<req, cursor, sent>>
    BY <1>9 DEF DeleteAck
  <2>2. CASE pel' = Acked(h) /\ h.group \in Groups
    <3>1. PICK g \in Groups : g = h.group
      BY <2>2
    <3>2. PICK kept \in SUBSET Pending(g) : kept = Pending(g) \ {h.msg}
      OBVIOUS
    <3>3. PICK p : p = [n \in kept |-> pel[g][n]]
      OBVIOUS
    <3>4. pel' = [pel EXCEPT ![g] = p]
      BY <2>2, <3>1, <3>2, <3>3 DEF Acked, Pending
    <3>5. PICK c \in Nat : c = cursor[g]
      BY <1>0 DEF QueueInv, QueueTypes
    <3>6. cursor' = [cursor EXCEPT ![g] = c] /\ cursor[g] <= c /\ c <= sent
      BY <1>0, <2>1, <3>5 DEF QueueInv, QueueTypes
    <3> QED  BY <2>1, <3>3, <3>4, <3>6, DropsQueue, SameRequests
  <2>3. CASE pel' = pel \/ h.group \notin Groups
    <3>1. pel' = pel
      BY <2>1, <2>3 DEF Acked, QueueInv, QueueTypes
    <3>2. \A g \in Groups : \A n \in Pending(g)' : n \in Pending(g) /\ pel'[g][n] = pel[g][n]
      BY <3>1 DEF Pending
    <3>3. \A n : \A r \in Replicas, g \in Groups : Has(r, g, n)' =>
            Has(r, g, n) /\ SameHand(r)
      BY <2>1 DEF Has, SameHand
    <3>4. QueueTypes'
      <4>1. \A g \in Groups : Pending(g)' = Pending(g)
        BY <3>1 DEF Pending
      <4> QED  BY <2>1, <3>1, <3>3, <4>1 DEF QueueInv, QueueTypes
    <3> QED  BY <2>1, <3>2, <3>3, <3>4, Shrinking
  <2> QED  BY <2>1, <2>2, <2>3
<1>10. ASSUME NEW g \in Groups, PurgeGroup(g) PROVE QueueInv' /\ (LeaseInv => LeaseInv')
  <2>1. /\ pel' = [pel EXCEPT ![g] = <<>>] /\ cursor' = [cursor EXCEPT ![g] = sent]
        /\ UNCHANGED <<req, sent, handles>>
    BY <1>10 DEF PurgeGroup, stream
  <2>2. PICK kept \in SUBSET Pending(g) : kept = {}
    OBVIOUS
  <2>3. PICK p : p = [n \in kept |-> pel[g][n]]
    OBVIOUS
  <2>4. PICK c \in Nat : c = sent
    BY <1>0
  <2>5. pel' = [pel EXCEPT ![g] = p]
    BY <2>1, <2>2, <2>3
  <2>6. cursor' = [cursor EXCEPT ![g] = c] /\ cursor[g] <= c /\ c <= sent
    BY <2>1, <2>4 DEF QueueInv, QueueTypes
  <2>7. \A h \in handles' : h \in handles
    BY <2>1
  <2> QED  BY <2>1, <2>3, <2>5, <2>6, <2>7, DropsQueue, SameRequests
<1>11. ASSUME NEW g \in Groups, NEW r \in Replicas, PruneCheck(g, r) \/ PruneDelete(g, r)
       PROVE  QueueInv' /\ (LeaseInv => LeaseInv')
  <2>1. CASE PruneCheck(g, r)
    <3>1. UNCHANGED <<pel, req, cursor, handles, sent>>
      BY <2>1 DEF PruneCheck, stream
    <3> QED  BY <1>0, <3>1, QuietQueue
  <2>2. CASE PruneDelete(g, r)
    <3>1. PICK kept \in SUBSET Pending(g) : kept = Pending(g) \ Owned(g, r)
      OBVIOUS
    <3>2. PICK p : p = [n \in kept |-> pel[g][n]]
      OBVIOUS
    <3>3. pel' = [pel EXCEPT ![g] = p] /\ UNCHANGED <<req, sent, cursor, handles>>
      BY <2>2, <3>1, <3>2 DEF PruneDelete, stream
    <3>4. PICK c \in Nat : c = cursor[g]
      BY <1>0 DEF QueueInv, QueueTypes
    <3>5. cursor' = [cursor EXCEPT ![g] = c] /\ cursor[g] <= c /\ c <= sent
      BY <1>0, <3>3, <3>4 DEF QueueInv, QueueTypes
    <3>6. \A h \in handles' : h \in handles
      BY <3>3
    <3> QED  BY <3>2, <3>3, <3>5, <3>6, DropsQueue, SameRequests
  <2> QED  BY <1>11, <2>1, <2>2
<1>12. CASE UNCHANGED vars
  <2>1. UNCHANGED <<pel, req, cursor, handles, sent>>
    BY <1>12 DEF vars
  <2> QED  BY <1>0, <2>1, QuietQueue
<1> QED  BY <1>1, <1>2, <1>3, <1>4, <1>5, <1>6, <1>7, <1>8, <1>9, <1>10, <1>11, <1>12 DEF Next

(* Every pending entry, request in progress and handle is well formed, and  *)
(* the deliveries are counted the same in Redis and in the handles.         *)
THEOREM QueueInvariant == Spec => []QueueInv
<1>1. Init => QueueInv
  BY InitQueue
<1>2. QueueInv /\ [Next]_vars => QueueInv'
  BY QueueStep
<1> QED  BY <1>1, <1>2, PTL DEF Spec

(* The idle clock of a leased entry and what is left of its handle add up   *)
(* to the threshold at most, unless the handle is late.                     *)
THEOREM LeaseInvariant == Spec => []LeaseInv
<1>1. Init => QueueInv /\ LeaseInv
  BY InitQueue
<1>2. (QueueInv /\ LeaseInv) /\ [Next]_vars => (QueueInv /\ LeaseInv)'
  BY QueueStep
<1> QED  BY <1>1, <1>2, PTL DEF Spec

(* The holder of a message's current lease is never refused as stale by     *)
(* _assert_lease_current, whatever crashes, purges and failed commands came *)
(* before, unless the message was released between the two commands of the  *)
(* reclaim.                                                                 *)
THEOREM CurrentHolderIsAccepted == Spec => []CurrentHolderCanDelete
<1>1. QueueInv => CurrentHolderCanDelete
  <2> SUFFICES ASSUME QueueInv, NEW h \in handles, h.msg \in Pending(h.group),
                      h.gen = pel[h.group][h.msg].gen, ~h.raced
               PROVE  ~Stale(h)
    BY DEF CurrentHolderCanDelete
  <2>1. h \in Handle /\ h.count = h.gen
    BY DEF QueueInv, QueueTypes, Counted
  <2>2. pel[h.group][h.msg] \in Entry /\ pel[h.group][h.msg].count = pel[h.group][h.msg].gen
    BY <2>1 DEF QueueInv, QueueTypes, Counted, Handle
  <2>3. pel[h.group][h.msg].count = h.count /\ h.count \in Int
    BY <2>1, <2>2 DEF Handle
  <2> QED  BY <2>3 DEF Stale
<1> QED  BY <1>1, QueueInvariant, PTL

(* While a handle is valid its message is not delivered to anybody else     *)
(* ("Late redelivery, never early double-delivery", store.py:417), unless   *)
(* its lease was set by somebody else than its receive, the message was     *)
(* released between the two commands of the reclaim, or the receive waited  *)
(* with it in hand and minted the handle without setting the clock back.    *)
THEOREM LeasesAreKept == Spec => []NoEarlyRedelivery
<1>1. QueueInv /\ LeaseInv => NoEarlyRedelivery
  <2> SUFFICES ASSUME QueueInv, LeaseInv, NEW h \in handles, h.left > 0, Stale(h),
                      ~pel[h.group][h.msg].moved, ~h.raced, ~h.late
               PROVE  FALSE
    BY DEF NoEarlyRedelivery
  <2>1. h \in Handle /\ h.count = h.gen
    BY DEF QueueInv, QueueTypes, Counted
  <2>2. Steady(h.group, h.msg) /\ pel[h.group][h.msg].count > h.count
    BY DEF Stale, Steady
  <2>3. h.gen = pel[h.group][h.msg].gen
    BY <2>2 DEF LeaseInv, Leased
  <2>4. pel[h.group][h.msg].count = pel[h.group][h.msg].gen
    BY <2>1, <2>2 DEF QueueInv, Counted, Handle, Steady
  <2> QED  BY <2>1, <2>2, <2>3, <2>4 DEF Handle
<1> QED  BY <1>1, QueueInvariant, LeaseInvariant, PTL
=============================================================================
