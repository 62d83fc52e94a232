----------------------------- MODULE AuditTrail -----------------------------
(***************************************************************************)
(* The audit subscriber (subscribers/audit.py): a bounded buffer of rows,  *)
(* a flusher task woken by a full batch or by its interval, and a close    *)
(* that stops the flusher and flushes once more.  A flush inserts row by   *)
(* row.  attach() and close() may be called again at any time, so several  *)
(* flushes may run at once; each has a batch of its own.  The wake-up      *)
(* event is left out: it only hastens what the interval does anyway.       *)
(***************************************************************************)
EXTENDS Naturals, Sequences, SequencesExt

CONSTANTS
  BatchSize,   \* batch_size
  BufferSize,  \* queue_size
  Flushers,    \* bound: the flusher tasks attach() starts
  Closers,     \* bound: the calls of close()
  NoTask,      \* None in _flush_task
  Unwritable,  \* the calls whose envelope json.dumps refuses
  MaxRows,     \* bound: calls of _on_envelope
  MaxFailures  \* bound: failed or cancelled flushes

(* max(1, batch_size); a buffer that holds nothing audits nothing.          *)
ASSUME AuditAssumption == BatchSize \in Nat \ {0} /\ BufferSize \in Nat \ {0}
ASSUME AuditActors == NoTask \notin Flushers /\ Flushers \cap Closers = {}

VARIABLES
  audited,    \* calls of _on_envelope; rows are numbered in that order
  rows,       \* the buffer
  running,
  current,    \* _flush_task
  stage,      \* a flusher: "idle", "loop", "wait", "flush", "done"; a close(): "join" for "loop" and "wait"
  joins,      \* the task a close() awaits
  batch,      \* what a flush has still to insert
  table,      \* the rows of navigator.evb_audit, in order
  lost,       \* dropped on overload, refused by json.dumps, or lost with a flush
  overlapped, \* history: two flushes had rows to insert at once
  failures

auditVars == <<audited, rows, running, current, stage, joins, batch, table, lost, overlapped, failures>>

AuditActor == Flushers \cup Closers

AuditInit ==
  /\ audited = 0 /\ rows = <<>> /\ running = FALSE /\ current = NoTask
  /\ stage = [a \in AuditActor |-> "idle"] /\ joins = [c \in Closers |-> NoTask]
  /\ batch = [a \in AuditActor |-> <<>>]
  /\ table = <<>> /\ lost = {} /\ overlapped = FALSE /\ failures = 0

(* A flusher is started unless there is one, running or not.                *)
AttachAudit(f) ==
  /\ stage[f] = "idle"
  /\ running' = TRUE
  /\ IF current = NoTask
       THEN current' = f /\ stage' = [stage EXCEPT ![f] = "loop"]
       ELSE UNCHANGED <<current, stage>>
  /\ UNCHANGED <<audited, rows, joins, batch, table, lost, overlapped, failures>>

(* The oldest row gives way when the buffer is full, before the new one is  *)
(* built: when that raises, the old one is gone and the new one not there.  *)
(* close() leaves the subscription in place.                                *)
AuditEnvelope ==
  /\ audited < MaxRows
  /\ audited' = audited + 1
  /\ LET full == Len(rows) >= BufferSize
         kept == IF full THEN Tail(rows) ELSE rows
         dropped == IF full THEN {Head(rows)} ELSE {}
         refused == audited + 1 \in Unwritable
     IN /\ rows' = IF refused THEN kept ELSE Append(kept, audited + 1)
        /\ lost' = lost \cup dropped \cup (IF refused THEN {audited + 1} ELSE {})
  /\ UNCHANGED <<running, current, stage, joins, batch, table, overlapped, failures>>

(* A flush begins: one batch leaves the buffer.                             *)
TakeBatch(a) ==
  LET k == IF Len(rows) < BatchSize THEN Len(rows) ELSE BatchSize
  IN /\ batch' = [batch EXCEPT ![a] = SubSeq(rows, 1, k)]
     /\ rows' = SubSeq(rows, k + 1, Len(rows))
     /\ overlapped' = (overlapped \/ (rows /= <<>> /\ \E b \in AuditActor \ {a} : batch[b] /= <<>>))
     /\ stage' = [stage EXCEPT ![a] = "flush"]

(* while self._running                                                      *)
Looped == IF running THEN "wait" ELSE "done"

FlusherBegins(f) ==
  /\ stage[f] = "loop"
  /\ stage' = [stage EXCEPT ![f] = Looped]
  /\ UNCHANGED <<audited, rows, running, current, joins, batch, table, lost, overlapped, failures>>

(* The wake-up event, of close() too, or the interval.                      *)
FlusherWakes(f) ==
  /\ stage[f] = "wait"
  /\ TakeBatch(f)
  /\ UNCHANGED <<audited, running, current, joins, table, lost, failures>>

(* Mutant of Insert: a row that fails goes back to the buffer.              *)
InsertRequeueing(a) ==
  \/ /\ table' = Append(table, Head(batch[a])) /\ batch' = [batch EXCEPT ![a] = Tail(@)]
     /\ UNCHANGED <<rows, lost, failures>>
  \/ /\ failures < MaxFailures /\ failures' = failures + 1
     /\ rows' = rows \o batch[a]
     /\ batch' = [batch EXCEPT ![a] = <<>>]
     /\ UNCHANGED <<table, lost>>

(* The next row of the batch; a failure loses the rest of it.               *)
Insert(a) ==
  \/ /\ table' = Append(table, Head(batch[a])) /\ batch' = [batch EXCEPT ![a] = Tail(@)]
     /\ UNCHANGED <<rows, lost, failures>>
  \/ /\ failures < MaxFailures /\ failures' = failures + 1
     /\ lost' = lost \cup ToSet(batch[a])
     /\ batch' = [batch EXCEPT ![a] = <<>>]
     /\ UNCHANGED <<rows, table>>

FlushRow(a) ==
  /\ stage[a] = "flush" /\ batch[a] /= <<>>
  /\ Insert(a)
  /\ UNCHANGED <<audited, running, current, stage, joins, overlapped>>

(* The flusher loops or is over; close() returns.                           *)
FlushEnds(a) ==
  /\ stage[a] = "flush" /\ batch[a] = <<>>
  /\ stage' = [stage EXCEPT ![a] = IF a \in Flushers THEN Looped ELSE "done"]
  /\ UNCHANGED <<audited, rows, running, current, joins, batch, table, lost, overlapped, failures>>

(* close() awaits the flusher it finds, or flushes at once.                 *)
CloseAudit(c) ==
  /\ stage[c] = "idle"
  /\ running' = FALSE
  /\ IF current = NoTask
       THEN TakeBatch(c) /\ UNCHANGED joins
       ELSE /\ joins' = [joins EXCEPT ![c] = current]
            /\ stage' = [stage EXCEPT ![c] = "join"]
            /\ UNCHANGED <<rows, batch, overlapped>>
  /\ UNCHANGED <<audited, current, table, lost, failures>>

(* The flusher is over; close() forgets _flush_task, whichever it is by     *)
(* now, and flushes itself.                                                 *)
FinalFlush(c) ==
  /\ stage[c] = "join" /\ stage[joins[c]] = "done"
  /\ current' = NoTask
  /\ TakeBatch(c)
  /\ UNCHANGED <<audited, running, joins, table, lost, failures>>

(* Whoever awaits close() gives up: a flusher that is joined is cancelled   *)
(* with it and close() goes on, a final flush ends.  The batch is lost, and *)
(* not counted.                                                             *)
CancelClose(c) ==
  LET a == IF stage[c] = "join" THEN joins[c] ELSE c
  IN /\ stage[c] \in {"join", "flush"} /\ stage[a] \in {"loop", "wait", "flush"}
     /\ failures < MaxFailures /\ failures' = failures + 1
     /\ stage' = [stage EXCEPT ![a] = "done"]
     /\ lost' = lost \cup ToSet(batch[a])
     /\ batch' = [batch EXCEPT ![a] = <<>>]
     /\ UNCHANGED <<audited, rows, running, current, joins, table, overlapped>>

AuditNext ==
  \/ AuditEnvelope
  \/ \E f \in Flushers : AttachAudit(f) \/ FlusherBegins(f) \/ FlusherWakes(f)
  \/ \E a \in AuditActor : FlushRow(a) \/ FlushEnds(a)
  \/ \E c \in Closers : CloseAudit(c) \/ FinalFlush(c) \/ CancelClose(c)

AuditSpec == AuditInit /\ [][AuditNext]_auditVars

-----------------------------------------------------------------------------
(* Properties *)

Carried == UNION {ToSet(batch[a]) : a \in AuditActor}

(* The trail is append-only, each row in it at most once, and in the order  *)
(* of the events as long as no two flushes had rows to insert at once; a    *)
(* row that was not lost to overload, to json.dumps, to the database or to  *)
(* a cancellation is in it, in a running flush or still in the buffer,      *)
(* whatever attach(), close() and failures there are.                       *)
TrailInOrder ==
  /\ \A i, j \in 1..Len(table) : i /= j => table[i] /= table[j]
  /\ overlapped \/ \A i, j \in 1..Len(table) : i < j => table[i] < table[j]
  /\ 1..audited = ToSet(table) \cup Carried \cup ToSet(rows) \cup lost

(* Expected of a trail, and false: it is in the order of the events.  A     *)
(* second close() during the final flush of the first, or attach() then,    *)
(* runs two flushes at once.                                                *)
TrailAlwaysInOrder == \A i, j \in 1..Len(table) : i < j => table[i] < table[j]
=============================================================================
