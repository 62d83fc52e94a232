----------------------------- MODULE TaskClose ------------------------------
(***************************************************************************)
(* Closing one task (scripts/sdd/finalize_task.py with close_task.sh): the *)
(* completion note is written into the task's file, the file moves from    *)
(* active/ to completed/, the per-spec index says "done", the three        *)
(* entries are staged in the real git index, and a journal outside the     *)
(* worktree records how far it got.  Workers call it again after a crash   *)
(* or an error; a lock file serialises the calls for one task.             *)
(*                                                                         *)
(* A copy of the task's file is its body and the note in it; a note is     *)
(* named by the evidence it renders and the closing time in it.            *)
(***************************************************************************)
EXTENDS Naturals, FiniteSets

CONSTANTS Workers,     \* processes that call finalize_task for this task
          Evidence,    \* the evidence they hold
          Sha,         \* the commit each piece of evidence is about
          NoWorker, NoFile, NoNote, NoEvidence,
          MaxCrashes,  \* bound on the processes that die
          MaxEdits,    \* bound on concurrent changes of the real index
          MaxMoves     \* bound on commits that move the worktree's HEAD

ASSUME TaskCloseAssumption ==
  /\ MaxCrashes \in Nat /\ MaxEdits \in Nat /\ MaxMoves \in Nat
  /\ NoEvidence \notin Evidence /\ NoWorker \notin Workers /\ Sha \in [Evidence -> Nat]

Paths == {"active", "completed", "index"}

VARIABLES
  active, completed,   \* the copies of the task's file
  status,              \* the task's status in the per-spec index
  head,                \* the worktree's HEAD
  staged,              \* real index: "old", "current" (as in the worktree) or "other"
  journal,             \* phase, evidence and note
  holder,              \* who holds the lock
  at,                  \* where each worker is
  with,                \* the evidence of each worker's call
  snapshot,            \* the real index as a worker saw it before close_task.sh
  stamps,              \* closing times taken so far
  reported,            \* the notes of the results returned
  crashes, edits

closeVars == <<head, active, completed, status, staged, journal, holder, at, with, snapshot,
               stamps, reported, crashes, edits>>

Copy(body, note) == [body |-> body, note |-> note]
NoJournal == [phase |-> "none", evidence |-> NoEvidence, note |-> NoNote]

(* The task is open: its file is in active/, and a paraphrased move may have *)
(* left a second copy in completed/, the same or edited since.               *)
CloseInit ==
  /\ active = Copy(1, NoNote)
  /\ completed \in {NoFile, Copy(1, NoNote), Copy(2, NoNote)}
  /\ status = "open"
  /\ staged = [p \in Paths |-> "old"]
  /\ journal = NoJournal
  /\ holder = NoWorker
  /\ at = [w \in Workers |-> "idle"]
  /\ with = [w \in Workers |-> NoEvidence]
  /\ snapshot = [p \in Paths |-> "old"]
  /\ head = 0 /\ stamps = 0 /\ reported = {} /\ crashes = 0 /\ edits = 0

Move(w, from, to) == at[w] = from /\ at' = [at EXCEPT ![w] = to]
(* The call ends: the lock is released, and so is what the process held. *)
Leave(w) ==
  /\ at' = [at EXCEPT ![w] = "idle"]
  /\ with' = [with EXCEPT ![w] = NoEvidence]
  /\ holder' = NoWorker
  /\ snapshot' = [p \in Paths |-> "old"]

(* The evidence must be about the worktree's HEAD, which is looked up before *)
(* the lock is taken.                                                        *)
_validate_expected_head(e) == Sha[e] = head

Call(w, e) ==
  /\ _validate_expected_head(e)
  /\ Move(w, "idle", "lock")
  /\ with' = [with EXCEPT ![w] = e]
  /\ UNCHANGED <<head, active, completed, status, staged, journal, holder, snapshot, stamps,
                 reported, crashes, edits>>

(* Mutant: no lock, as where fcntl is missing. *)
Unserialized(w) ==
  /\ Move(w, "lock", "load")
  /\ holder' = w
  /\ UNCHANGED <<head, active, completed, status, staged, journal, with, snapshot, stamps,
                 reported, crashes, edits>>

_serialized(w) ==
  /\ Move(w, "lock", "load")
  /\ holder = NoWorker /\ holder' = w
  /\ UNCHANGED <<head, active, completed, status, staged, journal, with, snapshot, stamps,
                 reported, crashes, edits>>

(* What close_task.sh must have left behind. *)
_verify_postconditions(note) ==
  active = NoFile /\ completed # NoFile /\ completed.note = note /\ status = "done"

(* Two copies whose bodies differ are refused. *)
_resolve_task_md ==
  /\ active # NoFile \/ completed # NoFile
  /\ active # NoFile /\ completed # NoFile => active.body = completed.body

(* The journal says the task is closed: the same evidence gets the same    *)
(* result again, other evidence is refused.                                *)
Replay(w) ==
  /\ at[w] = "load" /\ journal.phase = "done"
  /\ reported' = IF journal.evidence = with[w] /\ _verify_postconditions(journal.note)
                   THEN reported \cup {journal.note} ELSE reported
  /\ Leave(w)
  /\ UNCHANGED <<head, active, completed, status, staged, journal, stamps, crashes, edits>>

(* The note is rendered with the closing time of an earlier attempt with the *)
(* same evidence, and with a new one otherwise.                              *)
_render_completion_note(w) ==
  [evidence |-> with[w],
   closed_at |-> IF journal.evidence = with[w] THEN journal.note.closed_at ELSE stamps + 1]

Validate(w) ==
  /\ at[w] = "load" /\ journal.phase # "done"
  /\ \/ /\ _resolve_task_md
        /\ journal' = [phase |-> "validated", evidence |-> with[w],
                       note |-> _render_completion_note(w)]
        /\ stamps' = IF journal.evidence = with[w] THEN stamps ELSE stamps + 1
        /\ Move(w, "load", "note")
        /\ UNCHANGED <<holder, with, snapshot>>
     \/ ~_resolve_task_md /\ Leave(w) /\ UNCHANGED <<journal, stamps>>
  /\ UNCHANGED <<head, active, completed, status, staged, reported, crashes, edits>>

(* The evidence does not check out: a reference, the index or the fidelity. *)
RefuseClose(w) ==
  /\ at[w] = "load" /\ journal.phase # "done" /\ Leave(w)
  /\ UNCHANGED <<head, active, completed, status, staged, journal, stamps, reported, crashes, edits>>

(* The file in the worktree has changed since this entry was staged. *)
Outdated(entry) == IF entry = "current" THEN "old" ELSE entry

(* The note replaces the one in the copy in active/, or else in completed/. *)
_ensure_note_applied(w) ==
  /\ Move(w, "note", "snapshot")
  /\ IF active # NoFile
       THEN active' = [active EXCEPT !.note = journal.note] /\ UNCHANGED completed
       ELSE completed' = [completed EXCEPT !.note = journal.note] /\ UNCHANGED active
  /\ staged' = IF active # NoFile THEN staged ELSE [staged EXCEPT !["completed"] = Outdated(@)]
  /\ UNCHANGED <<head, status, journal, holder, with, snapshot, stamps, reported, crashes, edits>>

_stage_snapshot(w) ==
  /\ Move(w, "snapshot", "move")
  /\ snapshot' = staged
  /\ UNCHANGED <<head, active, completed, status, staged, journal, holder, with, stamps, reported,
                 crashes, edits>>

(* close_task.sh moves the file; a copy that is already in completed/ stays *)
(* and the active one is removed.  Its own staging goes to a private index. *)
CloseMoves(w) ==
  /\ Move(w, "move", "mark")
  /\ active' = NoFile
  /\ completed' = IF completed = NoFile THEN active ELSE completed
  /\ UNCHANGED <<head, status, staged, journal, holder, with, snapshot, stamps, reported, crashes, edits>>

(* close_task.sh writes the per-spec index, with the time, in the worktree. *)
CloseMarks(w) ==
  /\ Move(w, "mark", "compare")
  /\ status' = "done"
  /\ staged' = [staged EXCEPT !["index"] = Outdated(@)]
  /\ snapshot' = [snapshot EXCEPT !["index"] = Outdated(@)]
  /\ UNCHANGED <<head, active, completed, journal, holder, with, stamps, reported, crashes, edits>>

(* Compare-and-swap: somebody staged one of the task's paths meanwhile. *)
Compare(w) ==
  /\ at[w] = "compare"
  /\ \/ staged = snapshot /\ Move(w, "compare", "stage") /\ UNCHANGED <<holder, with, snapshot>>
     \/ staged # snapshot /\ Leave(w)
  /\ UNCHANGED <<head, active, completed, status, staged, journal, stamps, reported, crashes, edits>>

(* The entries close_task.sh changed go into the real index, one git       *)
(* update-index each; the snapshot marks the ones still to do.             *)
Stage(w, p) ==
  /\ at[w] = "stage" /\ snapshot[p] # "current"
  /\ staged' = [staged EXCEPT ![p] = "current"]
  /\ snapshot' = [snapshot EXCEPT ![p] = "current"]
  /\ UNCHANGED <<head, active, completed, status, journal, holder, at, with, stamps,
                 reported, crashes, edits>>

Verify(w) ==
  /\ at[w] = "stage" /\ \A p \in Paths : snapshot[p] = "current"
  /\ \/ _verify_postconditions(journal.note) /\ Move(w, "stage", "record")
        /\ UNCHANGED <<holder, with, snapshot>>
     \/ ~_verify_postconditions(journal.note) /\ Leave(w)
  /\ UNCHANGED <<head, active, completed, status, staged, journal, stamps, reported, crashes, edits>>

_write_journal(w) ==
  /\ at[w] = "record"
  /\ journal' = [journal EXCEPT !.phase = "done"]
  /\ reported' = reported \cup {journal.note}
  /\ Leave(w)
  /\ UNCHANGED <<head, active, completed, status, staged, stamps, crashes, edits>>

(* The process dies; the kernel drops its lock (external). *)
Crash(w) ==
  /\ at[w] \notin {"idle", "lock"} /\ crashes < MaxCrashes
  /\ crashes' = crashes + 1
  /\ Leave(w)
  /\ UNCHANGED <<head, active, completed, status, staged, journal, stamps, reported, edits>>

(* Somebody stages a version of their own of one of the task's paths (external). *)
Edit(p) ==
  /\ edits < MaxEdits
  /\ edits' = edits + 1
  /\ staged' = [staged EXCEPT ![p] = "other"]
  /\ UNCHANGED <<head, active, completed, status, journal, holder, at, with, snapshot, stamps, reported, crashes>>

(* Work is committed in the worktree while a call is under way (external). *)
HeadMoves ==
  /\ head < MaxMoves
  /\ head' = head + 1
  /\ UNCHANGED <<active, completed, status, staged, journal, holder, at, with, snapshot, stamps,
                 reported, crashes, edits>>

CloseNext ==
  \/ \E w \in Workers, e \in Evidence : Call(w, e)
  \/ \E w \in Workers :
       \/ _serialized(w) \/ Replay(w) \/ Validate(w) \/ RefuseClose(w)
       \/ _ensure_note_applied(w) \/ _stage_snapshot(w) \/ CloseMoves(w) \/ CloseMarks(w)
       \/ Compare(w) \/ (\E p \in Paths : Stage(w, p)) \/ Verify(w) \/ _write_journal(w)
       \/ Crash(w)
  \/ \E p \in Paths : Edit(p)
  \/ HeadMoves

CloseSpec == CloseInit /\ [][CloseNext]_closeVars

-----------------------------------------------------------------------------
(* Whatever crashes, retries and competing calls went before, a journal that  *)
(* says "done" is true: no active copy, the completed one carries the note of *)
(* the evidence that closed the task, the index says done, and the entries    *)
(* are staged unless somebody else staged theirs; and every call that         *)
(* reported success reported that one closure (finalize_task.py:498-501).     *)
DoneIsClosed ==
  /\ journal.phase = "done" =>
       /\ _verify_postconditions(journal.note)
       /\ edits = 0 => \A p \in Paths : staged[p] = "current"
  /\ reported \subseteq {journal.note}
  /\ reported # {} => journal.phase = "done"

(* "never mutates on a stale or incomplete input" (finalize_task.py:7).  HEAD *)
(* is read before the wait for the lock, and may have moved since.            *)
StaleNeverCloses ==
  [][active' # active => Sha[journal.evidence] = head]_closeVars

(* A call that found one task, two copies with the same body and good evidence *)
(* succeeds.  It does not: the note goes into the active copy, which           *)
(* close_task.sh then removes in favour of its twin; the next call succeeds.   *)
VerifiesAtOnce ==
  \A w \in Workers : at[w] = "stage" => _verify_postconditions(journal.note)
=============================================================================
