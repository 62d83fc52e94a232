---------------------------- MODULE DeadLetters -----------------------------
(***************************************************************************)
(* The dead-letter handler (dlq.py): an envelope whose retries are used up *)
(* is announced on bus.dlq and stored in a table by a task of its own,     *)
(* unless there is no DSN, the worker or the task is cancelled, the        *)
(* process ends or the database fails; replay publishes stored envelopes   *)
(* again and marks their rows.                                             *)
(***************************************************************************)
EXTENDS Naturals, FiniteSets

CONSTANTS
  Letters,      \* envelopes
  Unreadable,   \* letters whose stored row cannot be read back
  Replays,      \* concurrent calls of replay
  MaxFailures,  \* bound: times a letter's dispatch fails for good
  MaxErrors     \* bound: errors of the database and of publish,
                \* cancellations and crashes

VARIABLES
  dsn,          \* a DSN is configured
  onBus,        \* letters the bus has accepted and not finished with
  failures,     \* letter -> times on_dlq was called for it
  announcing,   \* letters on_dlq is announcing
  inserting,    \* letter -> tasks that are to insert its row
  tableReady,   \* _table_ready
  row,          \* letter -> "none", "stored" or "replayed"
  replay,       \* call -> [todo, at, step]
  again,        \* letter -> times replay has published it
  unstored,     \* letters whose last failure did not get into the table
  dbErrors

deadVars == <<dsn, onBus, failures, announcing, inserting, tableReady, row, replay, again, unstored, dbErrors>>

NoReplay == [todo |-> {}, at |-> "none", step |-> "idle"]

DeadInit ==
  /\ dsn \in BOOLEAN /\ onBus = Letters /\ failures = [d \in Letters |-> 0] /\ announcing = {}
  /\ inserting = [d \in Letters |-> 0] /\ tableReady = FALSE
  /\ row = [d \in Letters |-> "none"] /\ replay = [r \in Replays |-> NoReplay]
  /\ again = [d \in Letters |-> 0] /\ unstored = {} /\ dbErrors = 0

(* The handlers of a letter succeed, or on_dlq is called. It builds an      *)
(* envelope for bus.dlq and waits for its publish.                          *)
Handled(d) ==
  /\ d \in onBus /\ onBus' = onBus \ {d}
  /\ UNCHANGED <<dsn, failures, announcing, inserting, tableReady, row, replay, again, unstored, dbErrors>>

OnDlq(d) ==
  /\ d \in onBus /\ failures[d] < MaxFailures /\ d \notin announcing
  /\ onBus' = onBus \ {d}
  /\ failures' = [failures EXCEPT ![d] = @ + 1]
  /\ announcing' = announcing \cup {d}
  /\ unstored' = unstored \ {d}
  /\ UNCHANGED <<dsn, inserting, tableReady, row, replay, again, dbErrors>>

(* Announced, or the error was logged: with a DSN the row is left to a      *)
(* task, without one nothing is stored.                                     *)
Announced(d) ==
  /\ d \in announcing /\ announcing' = announcing \ {d}
  /\ IF dsn
       THEN inserting' = [inserting EXCEPT ![d] = @ + 1] /\ UNCHANGED unstored
       ELSE unstored' = unstored \cup {d} /\ UNCHANGED inserting
  /\ UNCHANGED <<dsn, onBus, failures, tableReady, row, replay, again, dbErrors>>

(* The bus closes and cancels a worker that waits in that publish: no task  *)
(* is made.                                                                 *)
AnnounceCancelled(d) ==
  /\ d \in announcing /\ dbErrors < MaxErrors
  /\ announcing' = announcing \ {d} /\ unstored' = unstored \cup {d}
  /\ dbErrors' = dbErrors + 1
  /\ UNCHANGED <<dsn, onBus, failures, inserting, tableReady, row, replay, again>>

(* ensure_table, then the insert, which leaves a row that is there alone.   *)
Persist(d) ==
  /\ inserting[d] > 0 /\ inserting' = [inserting EXCEPT ![d] = @ - 1]
  /\ tableReady' = TRUE
  /\ row' = [row EXCEPT ![d] = IF @ = "none" THEN "stored" ELSE @]
  /\ UNCHANGED <<dsn, onBus, failures, announcing, replay, again, unstored, dbErrors>>

(* The table or the insert fails, or the task is cancelled. bus.dlq_error   *)
(* is tried for an error, and may not get through.                          *)
PersistFails(d) ==
  /\ inserting[d] > 0 /\ dbErrors < MaxErrors
  /\ inserting' = [inserting EXCEPT ![d] = @ - 1]
  /\ tableReady' \in {tableReady, TRUE}
  /\ unstored' = unstored \cup {d} /\ dbErrors' = dbErrors + 1
  /\ UNCHANGED <<dsn, onBus, failures, announcing, row, replay, again>>

(* The process ends, with what was on the bus in memory, and starts again.  *)
DeadCrash ==
  /\ dbErrors < MaxErrors /\ dbErrors' = dbErrors + 1
  /\ unstored' = unstored \cup announcing \cup {d \in Letters : inserting[d] > 0}
  /\ onBus' = {} /\ announcing' = {} /\ inserting' = [d \in Letters |-> 0]
  /\ tableReady' = FALSE /\ replay' = [r \in Replays |-> NoReplay]
  /\ UNCHANGED <<dsn, failures, row, again>>

(* replay(since) takes the rows that are not marked.                        *)
ReplaySelect(r) ==
  /\ dsn /\ replay[r] = NoReplay
  /\ \E d \in Letters : row[d] = "stored"
  /\ tableReady' = TRUE
  /\ replay' = [replay EXCEPT ![r] = [todo |-> {d \in Letters : row[d] = "stored"}, at |-> "none", step |-> "next"]]
  /\ UNCHANGED <<dsn, onBus, failures, announcing, inserting, row, again, unstored, dbErrors>>

NextRow(r) == [replay[r] EXCEPT !.at = "none", !.step = IF replay[r].todo = {} THEN "idle" ELSE "next"]

(* A row that cannot be read back is skipped and stays as it is.            *)
ReplayTake(r) ==
  /\ replay[r].step = "next"
  /\ \E d \in replay[r].todo :
       LET rest == replay[r].todo \ {d} IN
       replay' = [replay EXCEPT ![r] =
         IF d \in Unreadable
           THEN [todo |-> rest, at |-> "none", step |-> IF rest = {} THEN "idle" ELSE "next"]
           ELSE [todo |-> rest, at |-> d, step |-> "publish"]]
  /\ UNCHANGED <<dsn, onBus, failures, announcing, inserting, tableReady, row, again, unstored, dbErrors>>

(* Mutant of MarksAt: the row is marked before its letter is published.     *)
MarksAtOnce == "publish"

(* The step at which a row is marked as replayed.                           *)
MarksAt == "mark"

Marked(r) == IF replay[r].step = MarksAt THEN [row EXCEPT ![replay[r].at] = "replayed"] ELSE row

ReplayPublish(r) ==
  /\ replay[r].step = "publish"
  /\ onBus' = onBus \cup {replay[r].at}
  /\ again' = [again EXCEPT ![replay[r].at] = @ + 1]
  /\ replay' = [replay EXCEPT ![r].step = "mark"]
  /\ row' = Marked(r)
  /\ UNCHANGED <<dsn, failures, announcing, inserting, tableReady, unstored, dbErrors>>

(* publish or the update raises: the row is skipped.                        *)
ReplayFails(r) ==
  /\ replay[r].step \in {"publish", "mark"} /\ dbErrors < MaxErrors
  /\ dbErrors' = dbErrors + 1
  /\ row' = IF replay[r].step = "publish" THEN Marked(r) ELSE row
  /\ replay' = [replay EXCEPT ![r] = NextRow(r)]
  /\ UNCHANGED <<dsn, onBus, failures, announcing, inserting, tableReady, again, unstored>>

ReplayMark(r) ==
  /\ replay[r].step = "mark"
  /\ row' = Marked(r)
  /\ replay' = [replay EXCEPT ![r] = NextRow(r)]
  /\ UNCHANGED <<dsn, onBus, failures, announcing, inserting, tableReady, again, unstored, dbErrors>>

DeadNext ==
  \/ \E d \in Letters : Handled(d)
  \/ \E d \in Letters : OnDlq(d)
  \/ \E d \in Letters : Announced(d)
  \/ \E d \in Letters : AnnounceCancelled(d)
  \/ \E d \in Letters : Persist(d)
  \/ \E d \in Letters : PersistFails(d)
  \/ DeadCrash
  \/ \E r \in Replays : ReplaySelect(r)
  \/ \E r \in Replays : ReplayTake(r)
  \/ \E r \in Replays : ReplayPublish(r)
  \/ \E r \in Replays : ReplayFails(r)
  \/ \E r \in Replays : ReplayMark(r)

DeadSpec == DeadInit /\ [][DeadNext]_deadVars

-----------------------------------------------------------------------------
(* Properties *)

(* A letter is in the table's unmarked rows until a replay has published it *)
(* and not merely tried to: what failed and is neither stored nor on its    *)
(* way to the table, and was not kept out of it by a missing DSN, an error, *)
(* a cancellation or a crash, has been published again. Once its row is     *)
(* stored no error, crash or second replay takes it back (_persist, replay). *)
FailedIsStored ==
  \A d \in Letters :
    failures[d] > 0 => \/ row[d] = "stored" \/ inserting[d] > 0
                       \/ d \in announcing \/ d \in unstored \/ again[d] > 0

(* Expected to fail: a letter whose last dispatch failed, and whose row was *)
(* inserted without an error, can be replayed. A letter that fails again    *)
(* after its replay meets the row of its first failure, which is marked.    *)
FailedIsReplayable ==
  \A d \in Letters :
    failures[d] > again[d] /\ inserting[d] = 0 /\ d \notin announcing \cup unstored
      => row[d] = "stored"
=============================================================================
