--------------------------- MODULE PolledConsumer ---------------------------
(***************************************************************************)
(* The consumers that poll (brokers/redis/connection.py, consumer.py and   *)
(* brokers/sqs/connection.py, consumer.py): a task reads a batch, runs the *)
(* callback message by message and confirms a message after its callback.  *)
(* What is left unconfirmed comes back by itself from SQS, and from a      *)
(* Redis group only through reclaim_pending_messages.  A Redis consumer    *)
(* that starts trims what is older than seven days from the stream.        *)
(***************************************************************************)
EXTENDS Naturals, Sequences, FiniteSets

CONSTANTS
  Entries,     \* messages sent to the queue or stream
  Failing,     \* entries whose callback raises
  BatchSize,   \* count, max_messages
  MaxFaults    \* bound: calls of the callback that raise

ASSUME PolledAssumption ==
  /\ Failing \subseteq Entries
  /\ BatchSize \in Nat \ {0} /\ MaxFaults \in Nat

(* Who has read entries and is going through them.                          *)
Calls == {"loop", "reclaim"}

VARIABLES
  broker,      \* "redis", "redis-wrapped" (through event_subscribe) or "sqs"
  entry,       \* entry -> "unsent", "ready", "out" (read, not confirmed),
               \* "gone" (confirmed) or "trimmed" (cut off the stream)
  old,         \* entries sent more than seven days ago
  batch,       \* call -> entries not yet gone through, the first one in hand
  called,      \* call -> how the callback of the first one ended, or "no"
  task,        \* the consumer task: "none", "running", "failed" or "cancelled"
  succeeded,   \* entries a callback has returned for
  swallowed,   \* entries whose error the wrapped callback swallowed
  faults

polledVars == <<broker, entry, old, batch, called, task, succeeded, swallowed, faults>>

PolledInit ==
  /\ broker \in {"redis", "redis-wrapped", "sqs"}
  /\ entry = [e \in Entries |-> "unsent"] /\ old = {}
  /\ batch = [c \in Calls |-> <<>>] /\ called = [c \in Calls |-> "no"]
  /\ task = "none" /\ succeeded = {} /\ swallowed = {} /\ faults = 0

(* publish_message.                                                         *)
Send(e) ==
  /\ entry[e] = "unsent" /\ entry' = [entry EXCEPT ![e] = "ready"]
  /\ UNCHANGED <<broker, old, batch, called, task, succeeded, swallowed, faults>>

(* Seven days go by.                                                        *)
GrowsOld(e) ==
  /\ entry[e] # "unsent" /\ e \notin old /\ old' = old \cup {e}
  /\ UNCHANGED <<broker, entry, batch, called, task, succeeded, swallowed, faults>>

(* XTRIM by the age of the entries: one not read and one that is pending    *)
(* are cut off like those the group is through with.                        *)
Trimmed == [e \in Entries |->
  IF e \in old /\ entry[e] \in {"ready", "out"} THEN "trimmed" ELSE entry[e]]

(* subscribe_to_events, of this consumer and of another one of the group.   *)
(* cleanup_old_messages logs its errors.                                    *)
StartConsumer ==
  /\ task # "running" /\ task' = "running"
  /\ entry' = entry \/ (broker # "sqs" /\ entry' = Trimmed)
  /\ UNCHANGED <<broker, old, batch, called, succeeded, swallowed, faults>>

AnotherStarts ==
  /\ broker # "sqs" /\ entry' = Trimmed
  /\ UNCHANGED <<broker, old, batch, called, task, succeeded, swallowed, faults>>

(* Up to BatchSize entries are handed over, in any order.                   *)
Batches(S) == {s \in UNION {[1..n -> S] : n \in 1..BatchSize} :
                 \A i, j \in 1..Len(s) : i # j => s[i] # s[j]}

Reads(c, from) ==
  /\ batch[c] = <<>>
  /\ \E s \in Batches({e \in Entries : entry[e] = from}) :
       /\ batch' = [batch EXCEPT ![c] = s]
       /\ entry' = [e \in Entries |-> IF \E i \in 1..Len(s) : s[i] = e THEN "out" ELSE entry[e]]
  /\ UNCHANGED <<broker, old, called, task, succeeded, swallowed, faults>>

(* xreadgroup or receive_messages.                                          *)
ReadBatch == task = "running" /\ Reads("loop", "ready")

(* The read itself raises, and the task ends with it.                       *)
ReadFails ==
  /\ task = "running" /\ batch["loop"] = <<>> /\ faults < MaxFaults
  /\ task' = "failed" /\ faults' = faults + 1
  /\ UNCHANGED <<broker, entry, old, batch, called, succeeded, swallowed>>

(* reclaim_pending_messages, which the application calls: what has been     *)
(* out for long, the consumer's own entries included.                       *)
ReclaimPending == broker # "sqs" /\ Reads("reclaim", "out")

Raises(c) == called' = [called EXCEPT ![c] = "raised"] /\ UNCHANGED swallowed
Swallows(c) ==
  /\ called' = [called EXCEPT ![c] = "ok"]
  /\ swallowed' = swallowed \cup {Head(batch[c])}

CallbackEnds(c) ==
  /\ batch[c] # <<>> /\ called[c] = "no"
  /\ \/ /\ called' = [called EXCEPT ![c] = "ok"]
        /\ succeeded' = succeeded \cup {Head(batch[c])}
        /\ UNCHANGED <<swallowed, faults>>
     \/ /\ Head(batch[c]) \in Failing /\ faults < MaxFaults
        /\ faults' = faults + 1
        /\ IF broker = "redis-wrapped" /\ c = "loop" THEN Swallows(c) ELSE Raises(c)
        /\ UNCHANGED succeeded
  /\ UNCHANGED <<broker, entry, old, batch, task>>

(* Mutant of Confirms: what was read is confirmed, whatever the callback did. *)
ConfirmsAll(c) == c = "loop"

(* xack or delete follows a callback that returned, in the loop only.       *)
Confirms(c) == c = "loop" /\ called[c] = "ok"

(* On to the next message; in a reclaim an error ends the call.             *)
NextMessage(c) ==
  /\ batch[c] # <<>> /\ called[c] # "no"
  /\ entry' = IF Confirms(c) THEN [entry EXCEPT ![Head(batch[c])] = "gone"] ELSE entry
  /\ batch' = [batch EXCEPT ![c] = IF c = "reclaim" /\ called[c] = "raised" THEN <<>> ELSE Tail(@)]
  /\ called' = [called EXCEPT ![c] = "no"]
  /\ UNCHANGED <<broker, old, task, succeeded, swallowed, faults>>

(* A message that is out becomes visible again, also while it is handled.   *)
VisibilityTimeout(e) ==
  /\ broker = "sqs" /\ entry[e] = "out" /\ entry' = [entry EXCEPT ![e] = "ready"]
  /\ UNCHANGED <<broker, old, batch, called, task, succeeded, swallowed, faults>>

(* stop_consumer cancels the task, in the middle of a callback if need be.  *)
StopConsumer ==
  /\ task \in {"running", "failed"} /\ task' = "cancelled"
  /\ batch' = [batch EXCEPT !["loop"] = <<>>] /\ called' = [called EXCEPT !["loop"] = "no"]
  /\ UNCHANGED <<broker, entry, old, succeeded, swallowed, faults>>

PolledStep ==
  \/ ReadBatch
  \/ \E c \in Calls : CallbackEnds(c) \/ NextMessage(c)
  \/ \E e \in Entries : VisibilityTimeout(e)

PolledNext ==
  \/ \E e \in Entries : Send(e)
  \/ \E e \in Entries : GrowsOld(e)
  \/ StartConsumer
  \/ AnotherStarts
  \/ ReadBatch
  \/ ReadFails
  \/ ReclaimPending
  \/ \E c \in Calls : CallbackEnds(c)
  \/ \E c \in Calls : NextMessage(c)
  \/ \E e \in Entries : VisibilityTimeout(e)
  \/ StopConsumer

PolledSpec == PolledInit /\ [][PolledNext]_polledVars

-----------------------------------------------------------------------------
(* Properties *)

(* A message has left the queue only if a callback returned for it, or if   *)
(* event_subscribe swallowed its error, or if it is more than seven days    *)
(* old: stopping in the middle of a batch, errors, restarts and redelivery  *)
(* lose nothing else (consume_messages, cleanup_old_messages).              *)
GoneIsHandled ==
  \A e \in Entries :
    /\ entry[e] = "gone" => e \in succeeded \cup swallowed
    /\ entry[e] = "trimmed" => e \in old /\ broker # "sqs"

(* Expected to fail for Redis: an entry whose callback raised once is       *)
(* confirmed in the end. It stays pending, and reclaim_pending_messages     *)
(* never confirms what it hands over.                                       *)
EntriesLeave == \A e \in Entries : entry[e] = "ready" ~> (entry[e] = "gone" \/ task \in {"failed", "cancelled"})
=============================================================================
