----------------------------- MODULE PullQueue ------------------------------
(***************************************************************************)
(* A pull queue (queues/store.py behind queues/api.py): messages in one    *)
(* Redis stream, one consumer group per declared group, leases expressed   *)
(* by the idle clock of the pending entries, signed receipt handles as the *)
(* right to delete a message or to change its lease, and the feeder that   *)
(* copies bus events into the queue.                                       *)
(*                                                                         *)
(* Every Redis command is a step.  Time is relative: `idle` is an entry's  *)
(* idle clock, up to the reclaim threshold, and `left` what remains of a   *)
(* handle's validity; an expired handle is refused and therefore           *)
(* forgotten.  Commands take no time; the DLQ callback and a long poll may *)
(* take some, while the receive holds what it has claimed.                 *)
(***************************************************************************)
EXTENDS Integers, FiniteSets, FiniteSetsExt

CONSTANTS
  Groups,       \* the declared consumer groups
  Replicas,     \* the API processes, which are also the consumer names
  Threshold,    \* max_visibility_timeout_ms, in ticks
  Leases,       \* the visibility timeouts a receive asks for, in ticks
  Changes,      \* the ones change_visibility asks for; 0 is a nack
  Cap,          \* max_receives
  MaxMessages,  \* max_messages of a receive
  Undecodable,  \* messages the codec cannot decode
  Configs,      \* [strict, xdel, polls, leases, long, sends, faults]: strict_ack,
                \* delete_entries, where the consumers of a group poll, as pairs
                \* <<group, replica>>, the leases they ask for, may they poll long,
                \* and the bounds on messages sent and on failed commands, crashes,
                \* purges and prunings
  MaxSent,      \* bound: messages sent in any configuration
  MaxLen        \* maxlen

Messages == 1..MaxSent
Coherent(c) == c.xdel => Cardinality(Groups) = 1
ASSUME QueueConfigAssumption ==
  \A c \in Configs : Coherent(c) /\ c.leases \subseteq Leases /\ c.sends <= MaxSent
ASSUME LimitsAssumption ==
  /\ Threshold \in Nat \ {0} /\ Leases \subseteq 0..Threshold /\ Changes \subseteq Nat
  /\ Cap \in Nat /\ MaxMessages \in Nat

VARIABLES
  conf,
  sent,      \* messages are numbered in the order of the stream
  gone,      \* messages trimmed or deleted from the stream
  cursor,    \* group -> last message delivered for the first time
  pel,       \* group -> message -> [owner, count, idle, gen, moved]: gen numbers
             \* the deliveries apart from times_delivered, moved remembers that
             \* somebody else than the receive of this delivery set its lease
  req,       \* replica -> its receive request
  polled,    \* replicas that have served a receive since the last tick
  handles,   \* unexpired receipt handles
  checked,   \* handles whose delete has passed _assert_lease_current
  purging,   \* groups a purge has still to reset
  pruning,   \* <<group, consumer>> pairs found idle and empty
  faults,
  given,     \* group -> messages handed to a consumer
  excused    \* group -> messages parked, purged, pruned or undecodable

vars == <<conf, sent, gone, cursor, pel, req, polled, handles, checked, purging, pruning,
          faults, given, excused>>
stream == <<sent, gone>>
admin == <<purging, pruning>>

Idle == [pc |-> "none"]
Pending(g) == DOMAIN pel[g]
Fault == faults < conf.faults /\ faults' = faults + 1
Excuse(g, ns) == excused' = [excused EXCEPT ![g] = @ \cup ns]

Init ==
  /\ conf \in Configs
  /\ sent = 0 /\ gone = {}
  /\ cursor = [g \in Groups |-> 0]
  /\ pel = [g \in Groups |-> <<>>]
  /\ req = [r \in Replicas |-> Idle]
  /\ polled = {} /\ handles = {} /\ checked = {} /\ purging = {} /\ pruning = {} /\ faults = 0
  /\ given = [g \in Groups |-> {}]
  /\ excused = [g \in Groups |-> {}]

-----------------------------------------------------------------------------
(* Producers: POST messages, the batch route and QueueFeeder.handle.        *)

(* XADD with MAXLEN ~: the oldest messages may be trimmed.                  *)
Append ==
  /\ sent < conf.sends
  /\ sent' = sent + 1
  /\ gone' \in {gone, gone \cup 1..(sent + 1 - MaxLen)}
  /\ UNCHANGED <<conf, polled, cursor, pel, req, handles, checked, admin, faults, given, excused>>

(* An accepted POST; the batch route repeats it for each entry and a        *)
(* refused or failed one changes nothing.  The copy that mirror_to_bus puts *)
(* on the bus may come back through the feeder.                             *)
HandleSend == Append

(* The feeder appends a bus event it accepts; a failure is the bus's to     *)
(* retry.                                                                   *)
Feed == Append

-----------------------------------------------------------------------------
(* receive: XPENDING, XAUTOCLAIM, the DLQ, XREADGROUP, XCLAIM               *)

Expired(g) == {n \in Pending(g) : pel[g][n].idle >= Threshold}

(* The first k of a set of messages, in stream order: COUNT k.              *)
First(k, ns) == {n \in ns : Cardinality({j \in ns : j < n}) < k}

InReceive(r, pc) == req[r].pc = pc

(* XPENDING IDLE gives the delivery counts; a failed one skips the reclaim. *)
(* Bound: one request per replica and tick.                                 *)
Receive(r, g, lease) ==
  /\ req[r] = Idle /\ r \notin polled /\ <<g, r>> \in conf.polls /\ lease \in conf.leases
  /\ polled' = polled \cup {r}
  /\ LET counts == [n \in First(MaxMessages, Expired(g)) |-> pel[g][n].count]
         request == [pc |-> "claim", group |-> g, lease |-> lease, counts |-> counts,
                     got |-> <<>>, parking |-> {}, raced |-> FALSE, waited |-> FALSE]
     IN \/ req' = [req EXCEPT ![r] = request] /\ UNCHANGED faults
        \/ req' = [req EXCEPT ![r] = [request EXCEPT !.pc = "read"]] /\ Fault
  /\ UNCHANGED <<conf, stream, cursor, pel, handles, checked, admin, given, excused>>

(* Entries past max_receives, by the counts XPENDING gave.                  *)
OverCap(counts) == {n \in DOMAIN counts : counts[n] > Cap}

(* Mutant of Claimable: what is over the cap is left where it is.           *)
ClaimableUnderCap(q) == First(MaxMessages, Expired(q.group) \ gone) \ OverCap(q.counts)

(* What XAUTOCLAIM takes: expired now, and not trimmed.                     *)
Claimable(q) == First(MaxMessages, Expired(q.group) \ gone)

(* Entries over the cap go to the DLQ.                                      *)
Parked(q, claimed) == claimed \cap OverCap(q.counts)

Redelivered(e, r) == [e EXCEPT !.owner = r, !.count = @ + 1, !.idle = 0, !.gen = @ + 1]

(* Where a receive goes on when these are still to be parked.               *)
After(parking) == IF parking = {} THEN "read" ELSE "park"

(* XAUTOCLAIM: what is expired now becomes this replica's, a trimmed entry  *)
(* leaves the PEL.  The count handed out is XPENDING's plus one, or one for *)
(* an entry XPENDING did not list.                                          *)
Reclaim(r) ==
  /\ InReceive(r, "claim")
  /\ LET q == req[r]
         g == q.group
         claimed == Claimable(q)
         parked == Parked(q, claimed)
         usable == claimed \ parked
     IN \/ /\ pel' = [pel EXCEPT ![g] = [n \in Pending(g) \ (gone \cap Expired(g)) |->
                        IF n \in claimed THEN Redelivered(@[n], r) ELSE @[n]]]
           /\ req' = [req EXCEPT ![r] = [q EXCEPT
                        !.pc = After(parked),
                        !.parking = parked,
                        !.got = [n \in usable |->
                                   [count |-> IF n \in DOMAIN q.counts THEN q.counts[n] + 1 ELSE 1,
                                    gen   |-> pel[g][n].gen + 1]],
                        !.raced = \E n \in usable :
                                    \/ n \notin DOMAIN q.counts
                                    \/ q.counts[n] /= pel[g][n].count]]
           /\ UNCHANGED faults
        \/ /\ Fault
           /\ req' = [req EXCEPT ![r].pc = "read"]
           /\ UNCHANGED pel
  /\ UNCHANGED <<conf, polled, stream, cursor, handles, checked, admin, given, excused>>

(* _park_to_dlq, one message after the other: on_dlq, which may take its    *)
(* time and whose failure is isolated, then XACK, best effort.              *)
Park(r) ==
  /\ InReceive(r, "park")
  /\ LET q == req[r]
         n == Min(q.parking)
         left == q.parking \ {n}
     IN /\ req' = [req EXCEPT ![r] = [q EXCEPT !.pc = After(left), !.parking = left]]
        /\ \/ pel' = [pel EXCEPT ![q.group] = [m \in Pending(q.group) \ {n} |-> @[m]]]
              /\ UNCHANGED faults
           \/ Fault /\ UNCHANGED pel
        /\ Excuse(q.group, {n})
  /\ UNCHANGED <<conf, polled, stream, cursor, handles, checked, admin, given>>

(* XREADGROUP ">" for however many are still wanted; while there are none   *)
(* it may block.                                                            *)
ReadNew(r) ==
  /\ InReceive(r, "read")
  /\ LET q == req[r]
         g == q.group
         new == First(MaxMessages - Cardinality(DOMAIN q.got), (cursor[g] + 1 .. sent) \ gone)
     IN /\ pel' = [pel EXCEPT ![g] = [n \in Pending(g) \cup new |->
                     IF n \in new THEN [owner |-> r, count |-> 1, idle |-> 0, gen |-> 1, moved |-> FALSE] ELSE @[n]]]
        /\ cursor' = [cursor EXCEPT ![g] = IF new = {} THEN @ ELSE Max(new)]
        /\ req' = [req EXCEPT ![r].pc = "apply",
                              ![r].got = [n \in DOMAIN @ \cup new |-> IF n \in new THEN [count |-> 1, gen |-> 1] ELSE @[n]]]
  /\ UNCHANGED <<conf, polled, stream, handles, checked, admin, faults, given, excused>>

(* Mutant of Claimed: XCLAIM without JUSTID counts a delivery.              *)
ClaimedCounting(e, r, lease) ==
  [e EXCEPT !.owner = r, !.count = @ + 1, !.idle = Threshold - lease]

(* Mutant of Claimed: the clock is set to the lease, not to what precedes it. *)
ClaimedSwapped(e, r, lease) ==
  [e EXCEPT !.owner = r, !.idle = lease]

(* XCLAIM IDLE JUSTID: the entry crosses the threshold `lease` from now.    *)
Claimed(e, r, lease) ==
  [e EXCEPT !.owner = r, !.idle = Threshold - lease]

(* Message n was delivered again while this receive had it in hand.         *)
Overtaken(q, n) == n \in Pending(q.group) /\ pel[q.group][n].gen /= q.got[n].gen

(* The clock of n ran while the receive waited, and was not set back in     *)
(* time: what the handle promises is not what Redis knows.                  *)
Late(q, n, timed) == q.waited /\ (~timed \/ Overtaken(q, n))

Receipt(q, r, n, timed) ==
  [group |-> q.group, msg |-> n, owner |-> r, left |-> q.lease,
   count |-> q.got[n].count, gen |-> q.got[n].gen, raced |-> q.raced,
   late |-> Late(q, n, timed)]

(* The entry of n under the XCLAIM of the receive q: that of an entry that  *)
(* has become another's changes a lease which is not its own.               *)
Timed(q, r, n) ==
  [Claimed(pel[q.group][n], r, q.lease) EXCEPT !.moved = @ \/ Overtaken(q, n)]

(* XCLAIM of what was read, skipped for a lease of the whole threshold, and *)
(* nothing when it fails; it takes every entry still pending, whoever owns  *)
(* it.  An undecodable entry is acknowledged.  The handles are minted with  *)
(* the clock as it is now.                                                  *)
ApplyVisibility(r) ==
  /\ InReceive(r, "apply")
  /\ LET q == req[r]
         g == q.group
         got == DOMAIN q.got
     IN \E timed \in BOOLEAN :
          /\ timed => q.lease < Threshold
          /\ IF ~timed /\ q.lease < Threshold /\ got /= {} THEN Fault ELSE UNCHANGED faults
          /\ pel' = [pel EXCEPT ![g] = [n \in Pending(g) \ (got \cap Undecodable) |->
                        IF timed /\ n \in got THEN Timed(q, r, n) ELSE @[n]]]
          /\ handles' = handles \cup {Receipt(q, r, n, timed) : n \in got \ Undecodable}
          /\ given' = [given EXCEPT ![g] = @ \cup (got \ Undecodable)]
          /\ Excuse(g, got \cap Undecodable)
  /\ req' = [req EXCEPT ![r] = Idle]
  /\ UNCHANGED <<conf, polled, stream, cursor, checked, admin>>

(* The replica dies during a receive: what it took stays pending.           *)
Crash(r) ==
  /\ req[r] /= Idle /\ Fault
  /\ req' = [req EXCEPT ![r] = Idle]
  /\ UNCHANGED <<conf, polled, stream, cursor, pel, handles, checked, admin, given, excused>>

-----------------------------------------------------------------------------
(* delete and change_visibility, with an accepted handle *)

(* A genuine handle, presented for its own queue and group, not expired.    *)
Decoded(h) == h \in handles /\ h.left >= 0

(* Has the message been delivered again since the handle was minted?        *)
Stale(h) == h.msg \in Pending(h.group) /\ pel[h.group][h.msg].count > h.count

(* delete up to the XPENDING of _assert_lease_current; a stale handle is    *)
(* refused, a failed XPENDING lets the delete pass.  Bound: one delete at a *)
(* time.                                                                    *)
Delete(h) ==
  /\ Decoded(h) /\ checked = {}
  /\ \/ (conf.strict => ~Stale(h)) /\ UNCHANGED faults
     \/ conf.strict /\ Stale(h) /\ Fault
  /\ checked' = checked \cup {h}
  /\ UNCHANGED <<conf, polled, stream, cursor, pel, req, handles, admin, given, excused>>

(* Mutant of Acked: the message is acknowledged in every group.             *)
AckedEverywhere(h) == [g \in Groups |-> [n \in Pending(g) \ {h.msg} |-> pel[g][n]]]

Acked(h) == [pel EXCEPT ![h.group] = [n \in DOMAIN @ \ {h.msg} |-> @[n]]]

(* XACK, best effort, and XDEL when the queue asks for it.  The handles of  *)
(* a message that is no longer pending do nothing and are forgotten.        *)
DeleteAck(h) ==
  /\ h \in checked
  /\ checked' = checked \ {h}
  /\ \/ /\ pel' = Acked(h)
        /\ handles' = {k \in handles : k.msg /= h.msg \/ k.group /= h.group}
        /\ UNCHANGED faults
     \/ Fault /\ UNCHANGED <<pel, handles>>
  /\ gone' = IF conf.xdel THEN gone \cup {h.msg} ELSE gone
  /\ UNCHANGED <<conf, polled, sent, cursor, req, admin, given, excused>>

(* change_visibility: XCLAIM for the handle's consumer; 0 is a nack.  The   *)
(* handle itself keeps its expiry.  Bound: once per message and group.      *)
ChangeVisibility(h, lease) ==
  /\ Decoded(h)
  /\ h.msg \in Pending(h.group) /\ ~pel[h.group][h.msg].moved
  /\ pel' = [pel EXCEPT ![h.group][h.msg] = [Claimed(@, h.owner, lease) EXCEPT !.moved = TRUE]]
  /\ UNCHANGED <<conf, polled, stream, cursor, req, handles, checked, admin, faults, given, excused>>

(* The visibility route: a lease beyond the queue's maximum and a handle    *)
(* that does not decode are refused, entry by entry.                        *)
HandleVisibility(h, lease) == lease <= Threshold /\ ChangeVisibility(h, lease)

-----------------------------------------------------------------------------
(* Administration and time *)

(* purge: XTRIM MAXLEN 0, then every group destroyed and created at "$".    *)
Purge ==
  /\ purging = {} /\ sent > 0 /\ Fault
  /\ gone' = 1..sent
  /\ purging' = Groups
  /\ UNCHANGED <<conf, polled, sent, cursor, pel, req, handles, checked, pruning, given, excused>>

PurgeGroup(g) ==
  /\ g \in purging
  /\ purging' = purging \ {g}
  /\ Excuse(g, 1..sent)
  /\ cursor' = [cursor EXCEPT ![g] = sent]
  /\ pel' = [pel EXCEPT ![g] = <<>>]
  /\ UNCHANGED <<conf, polled, stream, req, handles, checked, pruning, faults, given>>

Owned(g, r) == {n \in Pending(g) : pel[g][n].owner = r}

(* prune_consumers: XINFO CONSUMERS finds an idle, empty consumer ...       *)
PruneCheck(g, r) ==
  /\ <<g, r>> \in conf.polls /\ Owned(g, r) = {} /\ <<g, r>> \notin pruning /\ Fault
  /\ pruning' = pruning \cup {<<g, r>>}
  /\ UNCHANGED <<conf, polled, stream, cursor, pel, req, handles, checked, purging, given, excused>>

(* ... and XGROUP DELCONSUMER removes it with whatever it has by then.      *)
PruneDelete(g, r) ==
  /\ <<g, r>> \in pruning
  /\ pruning' = pruning \ {<<g, r>>}
  /\ Excuse(g, Owned(g, r))
  /\ pel' = [pel EXCEPT ![g] = [n \in Pending(g) \ Owned(g, r) |-> @[n]]]
  /\ UNCHANGED <<conf, polled, stream, cursor, req, handles, checked, purging, faults, given>>

(* In the await of on_dlq, or in a long poll: fewer messages than asked     *)
(* for, and no new ones.                                                    *)
Waiting(r) ==
  \/ InReceive(r, "park")
  \/ /\ conf.long /\ InReceive(r, "read")
     /\ Cardinality(DOMAIN req[r].got) < MaxMessages
     /\ (cursor[req[r].group] + 1 .. sent) \subseteq gone

(* The receive of r after a tick: what it has in hand has waited.           *)
Waited(q) == IF q = Idle \/ DOMAIN q.got = {} THEN q ELSE [q EXCEPT !.waited = TRUE]

(* Time passes between requests, and during the waits of a receive.         *)
Tick ==
  /\ \A r \in Replicas : req[r] = Idle \/ Waiting(r)
  /\ checked = {} /\ pruning = {} /\ purging = {}
  /\ polled' = {}
  /\ pel' = [g \in Groups |-> [n \in Pending(g) |->
               [pel[g][n] EXCEPT !.idle = Min({@ + 1, Threshold})]]]
  /\ handles' = {[h EXCEPT !.left = @ - 1] : h \in {k \in handles : k.left > 0}}
  /\ req' = [r \in Replicas |-> Waited(req[r])]
  /\ UNCHANGED <<conf, stream, cursor, checked, admin, faults, given, excused>>

Next ==
  \/ HandleSend \/ Feed \/ Purge \/ Tick
  \/ \E r \in Replicas :
       \/ \E g \in Groups, lease \in Leases : Receive(r, g, lease)
       \/ Reclaim(r) \/ Park(r) \/ ReadNew(r) \/ ApplyVisibility(r) \/ Crash(r)
  \/ \E h \in handles : Delete(h) \/ \E lease \in Changes : HandleVisibility(h, lease)
  \/ \E h \in checked : DeleteAck(h)
  \/ \E g \in Groups : PurgeGroup(g) \/ \E r \in Replicas : PruneCheck(g, r) \/ PruneDelete(g, r)

(* The consumers of every group keep polling, whatever the others do,       *)
(* requests run to their end and time passes.  No consumer has to delete    *)
(* anything.                                                                *)
Fairness ==
  /\ \A r \in Replicas : WF_vars(Reclaim(r) \/ Park(r) \/ ReadNew(r) \/ ApplyVisibility(r))
  /\ \A g \in Groups : SF_vars(\E r \in Replicas, lease \in Leases : Receive(r, g, lease))
  /\ WF_vars(\E h \in checked : DeleteAck(h))
  /\ WF_vars(\E g \in Groups : PurgeGroup(g) \/ \E r \in Replicas : PruneDelete(g, r))
  /\ WF_vars(Tick)

Spec == Init /\ [][Next]_vars
FairSpec == Spec /\ Fairness

-----------------------------------------------------------------------------
(* Properties *)

TypeOK ==
  /\ conf \in Configs /\ sent \in 0..MaxSent /\ gone \subseteq 1..sent
  /\ cursor \in [Groups -> 0..sent]
  /\ \A g \in Groups :
       /\ Pending(g) \subseteq 1..cursor[g]
       /\ \A n \in Pending(g) : pel[g][n].count \in Nat \ {0} /\ pel[g][n].idle \in 0..Threshold
       /\ given[g] \subseteq 1..cursor[g] /\ excused[g] \subseteq 1..sent

Out(g, n) == n <= cursor[g] /\ n \notin Pending(g)

(* Every group gets every message: one that a group is done with was handed *)
(* to a consumer of that very group, or parked, purged, pruned or           *)
(* undecodable; deleting it in another group does not count.                *)
FanOut ==
  \A g \in Groups : \A n \in 1..sent :
    Out(g, n) => n \in given[g] \cup excused[g] \cup gone

(* "Late redelivery, never early double-delivery": while a handle is valid  *)
(* its message is not delivered to anybody else, unless its lease was set   *)
(* by somebody else, it was released between the two commands of the        *)
(* reclaim, or its receive waited with it in hand and then let the clock it *)
(* had been claimed with stand, or came too late to set it.                 *)
NoEarlyRedelivery ==
  \A h \in handles :
    h.left > 0 /\ Stale(h) => pel[h.group][h.msg].moved \/ h.raced \/ h.late

(* The same without the wait: false, a receive whose lease is the whole     *)
(* threshold mints its handles after the waits and sets no clock.           *)
NoEarlyRedeliveryAfterWait ==
  \A h \in handles :
    h.left > 0 /\ Stale(h) => pel[h.group][h.msg].moved \/ h.raced

(* The holder of a message's current lease is not refused as stale: the     *)
(* generation in its handle is the one Redis counts, unless the message was *)
(* released between the two commands of the reclaim.                        *)
CurrentHolderCanDelete ==
  \A h \in handles :
    h.msg \in Pending(h.group) /\ h.gen = pel[h.group][h.msg].gen => h.raced \/ ~Stale(h)

(* A message is handed out at most one time more than max_receives.         *)
CapRespected == \A h \in handles : h.raced \/ h.count <= Cap + 1

(* While a consumer holds the lease on a message the handle it was given is *)
(* accepted ("expires_at_ms: ... when the lease ends").                     *)
LeaseHasHandle ==
  \A g \in Groups : \A n \in Pending(g) :
    \/ pel[g][n].idle >= Threshold
    \/ \E r \in Replicas : req[r] /= Idle /\ n \in DOMAIN req[r].got
    \/ \E h \in handles : h.group = g /\ h.msg = n

Served(g) == \E r \in Replicas : <<g, r>> \in conf.polls

(* Every message leaves every group that is polled, deleted or parked,      *)
(* even if no consumer ever deletes it.                                     *)
MessagesLeave ==
  \A g \in Groups : \A n \in Messages : (n <= sent /\ Served(g)) ~> (Out(g, n) \/ n \in gone)
=============================================================================
