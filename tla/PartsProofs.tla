---------------------------- MODULE PartsProofs -----------------------------
(***************************************************************************)
(* Machine-checked proofs about the parts that MCParts checks one at a     *)
(* time.  Each part has an inductive invariant, a step lemma for it and a  *)
(* theorem about the part's own specification; the last section shows that *)
(* the specification the run checks is each of them, as far as that part's *)
(* variables are concerned.                                                *)
(***************************************************************************)
EXTENDS MCParts, FiniteSetTheorems, SequenceTheorems, WellFoundedInduction, TLAPS

-----------------------------------------------------------------------------
(* Closing a task.                                                          *)

Entry == {"old", "current", "other"}
AtWork == {"note", "snapshot", "move", "mark", "compare", "stage", "record"}

CloseTypes ==
  /\ at \in [Workers -> {"idle", "lock", "load"} \cup AtWork]
  /\ staged \in [Paths -> Entry] /\ snapshot \in [Paths -> Entry]
  /\ edits \in Nat
  /\ journal = [phase |-> journal.phase, evidence |-> journal.evidence, note |-> journal.note]

(* The one worker inside the lock has a validated journal from its note on, *)
(* and what it has staged stays staged unless somebody else stages.         *)
CloseInv ==
  /\ CloseTypes
  /\ \A w \in Workers : at[w] \notin {"idle", "lock"} => holder = w
  /\ \A w \in Workers : at[w] \in AtWork => journal.phase = "validated"
  /\ \A w \in Workers : at[w] = "stage" /\ edits = 0 =>
       \A p \in Paths : snapshot[p] = "current" => staged[p] = "current"
  /\ \A w \in Workers : at[w] = "record" =>
       _verify_postconditions(journal.note) /\ (edits = 0 => \A p \in Paths : staged[p] = "current")
  /\ DoneIsClosed

(* A call that ends leaves the others as they were.                         *)
LEMMA LeaveKeeps ==
  ASSUME CloseInv, NEW w \in Workers, at[w] \notin {"idle", "lock"}, Leave(w),
         UNCHANGED <<active, completed, status, staged, journal, edits>>
  PROVE  /\ CloseTypes'
         /\ \A v \in Workers : at'[v] \in {"idle", "lock"}
BY DEF CloseInv, CloseTypes, Leave, Entry, AtWork

LEMMA CloseStep == ASSUME CloseInv, [CloseNext]_closeVars PROVE CloseInv'
<1> USE DEF CloseInv, DoneIsClosed, _verify_postconditions
<1>1. ASSUME NEW w \in Workers, NEW e \in Evidence, Call(w, e) PROVE CloseInv'
  BY <1>1 DEF Call, Move, CloseTypes, AtWork
<1>2. ASSUME NEW w \in Workers, _serialized(w) PROVE CloseInv'
  BY <1>2, TaskCloseAssumption DEF _serialized, Move, CloseTypes, AtWork
<1>3. ASSUME NEW w \in Workers, Replay(w) PROVE CloseInv'
  BY <1>3, LeaveKeeps DEF Replay, AtWork
<1>4. ASSUME NEW w \in Workers, Validate(w) PROVE CloseInv'
  <2>1. CASE Leave(w) /\ UNCHANGED <<journal, stamps>>
    BY <1>4, <2>1, LeaveKeeps DEF Validate, AtWork
  <2>2. CASE Move(w, "load", "note") /\ UNCHANGED <<holder, with, snapshot>>
    <3>1. at[w] = "load" /\ at' = [at EXCEPT ![w] = "note"] /\ at'[w] = "note"
      BY <2>2 DEF Move, CloseTypes
    <3>2. journal' = [phase |-> "validated", evidence |-> with[w], note |-> _render_completion_note(w)]
      BY <1>4, <3>1 DEF Validate, Leave, CloseTypes
    <3>3. journal.phase # "done" /\ reported = {} /\ UNCHANGED <<staged, snapshot, holder, reported, edits>>
      BY <1>4, <2>2 DEF Validate
    <3>4. \A v \in Workers : v # w => at[v] \in {"idle", "lock"} /\ at'[v] = at[v]
      BY <3>1
    <3> HIDE DEF _verify_postconditions
    <3> QED  BY <3>1, <3>2, <3>3, <3>4 DEF CloseTypes, AtWork
  <2> QED  BY <1>4, <2>1, <2>2 DEF Validate
<1>5. ASSUME NEW w \in Workers, RefuseClose(w) PROVE CloseInv'
  BY <1>5, LeaveKeeps DEF RefuseClose, AtWork
<1>6. ASSUME NEW w \in Workers, _ensure_note_applied(w) PROVE CloseInv'
  <2>1. staged' \in [Paths -> Entry]
    BY <1>6 DEF _ensure_note_applied, CloseTypes, Entry, Outdated, Paths
  <2>2. at[w] = "note" /\ at' = [at EXCEPT ![w] = "snapshot"]
        /\ UNCHANGED <<journal, holder, snapshot, reported, edits>>
    BY <1>6 DEF _ensure_note_applied, Move
  <2> HIDE DEF DoneIsClosed, _verify_postconditions
  <2>3. reported = {} /\ journal.phase = "validated"
    BY <2>2 DEF AtWork, DoneIsClosed
  <2>4. DoneIsClosed'
    BY <2>2, <2>3 DEF DoneIsClosed
  <2> QED  BY <2>1, <2>2, <2>4 DEF CloseTypes, AtWork
<1>7. ASSUME NEW w \in Workers, _stage_snapshot(w) PROVE CloseInv'
  BY <1>7 DEF _stage_snapshot, Move, CloseTypes, AtWork
<1>8. ASSUME NEW w \in Workers, CloseMoves(w) PROVE CloseInv'
  BY <1>8 DEF CloseMoves, Move, CloseTypes, AtWork
<1>9. ASSUME NEW w \in Workers, CloseMarks(w) PROVE CloseInv'
  <2>1. staged' \in [Paths -> Entry] /\ snapshot' \in [Paths -> Entry]
    BY <1>9 DEF CloseMarks, CloseTypes, Entry, Outdated, Paths
  <2>2. at[w] = "mark" /\ at' = [at EXCEPT ![w] = "compare"]
        /\ UNCHANGED <<journal, holder, reported, edits>>
    BY <1>9 DEF CloseMarks, Move
  <2> HIDE DEF DoneIsClosed, _verify_postconditions
  <2>3. reported = {} /\ journal.phase = "validated"
    BY <2>2 DEF AtWork, DoneIsClosed
  <2>4. DoneIsClosed'
    BY <2>2, <2>3 DEF DoneIsClosed
  <2> QED  BY <2>1, <2>2, <2>4 DEF CloseTypes, AtWork
<1>10. ASSUME NEW w \in Workers, Compare(w) PROVE CloseInv'
  <2>1. CASE Leave(w)
    BY <1>10, <2>1, LeaveKeeps DEF Compare, AtWork
  <2>2. CASE staged = snapshot /\ Move(w, "compare", "stage") /\ UNCHANGED <<holder, with, snapshot>>
    BY <1>10, <2>2 DEF Compare, Move, CloseTypes, AtWork
  <2> QED  BY <1>10, <2>1, <2>2 DEF Compare
<1>11. ASSUME NEW w \in Workers, NEW p \in Paths, Stage(w, p) PROVE CloseInv'
  BY <1>11 DEF Stage, CloseTypes, Entry, AtWork
<1>12. ASSUME NEW w \in Workers, Verify(w) PROVE CloseInv'
  <2>1. CASE Leave(w)
    BY <1>12, <2>1, LeaveKeeps DEF Verify, AtWork
  <2>2. CASE _verify_postconditions(journal.note) /\ Move(w, "stage", "record")
             /\ UNCHANGED <<holder, with, snapshot>>
    BY <1>12, <2>2 DEF Verify, Move, CloseTypes, AtWork
  <2> QED  BY <1>12, <2>1, <2>2 DEF Verify
<1>13. ASSUME NEW w \in Workers, _write_journal(w) PROVE CloseInv'
  <2>1. journal' = [phase |-> "done", evidence |-> journal.evidence, note |-> journal.note]
    BY <1>13 DEF _write_journal, CloseTypes
  <2>2. reported' = {journal.note}
    BY <1>13 DEF _write_journal, AtWork
  <2>3. \A v \in Workers : at'[v] \in {"idle", "lock"}
    BY <1>13 DEF _write_journal, Leave, CloseTypes, AtWork
  <2> QED  BY <1>13, <2>1, <2>2, <2>3 DEF _write_journal, Leave, CloseTypes, AtWork, Entry
<1>14. ASSUME NEW w \in Workers, Crash(w) PROVE CloseInv'
  BY <1>14, LeaveKeeps DEF Crash, AtWork
<1>15. ASSUME NEW p \in Paths, Edit(p) PROVE CloseInv'
  BY <1>15 DEF Edit, CloseTypes, Entry
<1>16. CASE HeadMoves
  BY <1>16 DEF HeadMoves, CloseTypes
<1>17. CASE UNCHANGED closeVars
  BY <1>17 DEF closeVars, CloseTypes
<1> QED
  BY <1>1, <1>2, <1>3, <1>4, <1>5, <1>6, <1>7, <1>8, <1>9, <1>10, <1>11, <1>12, <1>13, <1>14,
     <1>15, <1>16, <1>17 DEF CloseNext

(* For any number of workers and pieces of evidence, whatever crashes,      *)
(* retries, edits and commits come between: a journal that says the task is *)
(* closed is true, and every success that was reported is that closure.     *)
THEOREM ClosedTasksAreClosed == CloseSpec => []DoneIsClosed
<1>1. CloseInit => CloseInv
  BY DEF CloseInit, CloseInv, CloseTypes, DoneIsClosed, NoJournal, Entry, AtWork, Copy
<1>2. QED
  BY <1>1, CloseStep, PTL DEF CloseSpec, CloseInv

-----------------------------------------------------------------------------
(* Provisioning worktrees.                                                  *)

WorktreeTypes ==
  /\ where \in [Agents -> {"idle", "find", "fetch", "branch", "create"} \cup Checking]
  /\ dir \in BOOLEAN /\ listed \in BOOLEAN /\ upstream \in BOOLEAN /\ unchecked \in BOOLEAN

(* Calls do not overlap.  A worktree that is being checked was given to     *)
(* nobody; one that nobody checks has lost its upstream, unless the call    *)
(* that made it ended before that.                                          *)
WorktreeInv ==
  /\ WorktreeTypes
  /\ \A a, b \in Agents : where[a] # "idle" /\ where[b] # "idle" => a = b
  /\ \A a \in Agents : where[a] \in {"fetch", "branch", "create"} => ~listed
  /\ \A a \in Agents : where[a] \in Checking => listed /\ dir /\ given = {}
  /\ \A a \in Agents : where[a] = "verify" => ~upstream
  /\ unchecked => listed
  /\ listed /\ (\A a \in Agents : where[a] \notin Checking) => unchecked \/ (dir /\ ~upstream)
  /\ HandedOutIsUsable

LEMMA WorktreeStep ==
  ASSUME ~Concurrent, WorktreeInv, [WorktreeNext]_worktreeVars
  PROVE  WorktreeInv'
<1> USE DEF WorktreeInv, WorktreeTypes, HandedOutIsUsable, Checking
<1>1. ASSUME NEW a \in Agents, Ensure(a) PROVE WorktreeInv'
  BY <1>1 DEF Ensure, Step, _missing_paths, laid
<1>2. ASSUME NEW a \in Agents, _find_reusable_worktree(a) PROVE WorktreeInv'
  <2>1. \A b \in Agents : where[b] \notin Checking
    BY <1>2 DEF _find_reusable_worktree
  <2>2. CASE listed /\ Step(a, "find", "idle")
    BY <1>2, <2>1, <2>2 DEF _find_reusable_worktree, Step, _missing_paths, laid
  <2>3. CASE ~listed /\ Step(a, "find", "fetch") /\ UNCHANGED given
    BY <1>2, <2>1, <2>3 DEF _find_reusable_worktree, Step, _missing_paths, laid
  <2> QED  BY <1>2, <2>2, <2>3 DEF _find_reusable_worktree
<1>3. ASSUME NEW a \in Agents, Sync(a) PROVE WorktreeInv'
  BY <1>3 DEF Sync, Step, _missing_paths, laid
<1>4. ASSUME NEW a \in Agents, SyncFails(a) PROVE WorktreeInv'
  BY <1>4 DEF SyncFails, Step, _missing_paths, laid
<1>5. ASSUME NEW a \in Agents, _branch_exists(a) PROVE WorktreeInv'
  BY <1>5 DEF _branch_exists, Step, _missing_paths, laid
<1>6. ASSUME NEW a \in Agents, _create_worktree(a) PROVE WorktreeInv'
  <2>1. where[a] = "create" /\ ~listed /\ given = {} /\ (\A b \in Agents : b # a => where[b] = "idle") /\ UNCHANGED <<given, glitches>>
    BY <1>6 DEF _create_worktree
  <2>2. CASE Step(a, "create", "upstream") /\ dir' = TRUE /\ listed' = TRUE /\ upstream' = TRUE
    BY <1>6, <2>1, <2>2 DEF _create_worktree, Step, _missing_paths
  <2>3. CASE Step(a, "create", "idle") /\ UNCHANGED laid
    BY <1>6, <2>1, <2>3 DEF _create_worktree, Step, _missing_paths, laid
  <2> QED  BY <1>6, <2>2, <2>3 DEF _create_worktree
<1>7. ASSUME NEW a \in Agents, _clear_upstream(a) PROVE WorktreeInv'
  BY <1>7 DEF _clear_upstream, Step, _missing_paths
<1>8. ASSUME NEW a \in Agents, ClearUpstreamFails(a) PROVE WorktreeInv'
  BY <1>8 DEF ClearUpstreamFails, Step, _missing_paths, laid
<1>9. ASSUME NEW a \in Agents, VerifyPaths(a) PROVE WorktreeInv'
  BY <1>9 DEF VerifyPaths, Step, _missing_paths, laid
<1>10. ASSUME NEW a \in Agents, _discard_new_worktree(a) PROVE WorktreeInv'
  BY <1>10 DEF _discard_new_worktree, Step, _missing_paths
<1>11. ASSUME NEW a \in Agents, DiscardFails(a) PROVE WorktreeInv'
  BY <1>11 DEF DiscardFails, Step, _missing_paths
<1>16. ASSUME NEW a \in Agents, CreateFails(a) PROVE WorktreeInv'
  <2>1. where[a] = "create" /\ ~listed /\ given = {} /\ (\A b \in Agents : b # a => where[b] = "idle") /\ UNCHANGED given
    BY <1>16 DEF CreateFails, Step
  <2>2. where' = [where EXCEPT ![a] = "idle"]
    BY <1>16 DEF CreateFails, Step
  <2>3. \/ UNCHANGED <<dir, listed, upstream, unchecked>>
        \/ dir' = TRUE /\ listed' = TRUE /\ upstream' = TRUE /\ unchecked' = TRUE
        \/ dir' = FALSE /\ listed' = FALSE /\ upstream' = TRUE /\ unchecked' = FALSE
    BY <1>16 DEF CreateFails, laid
  <2>4. HandedOutIsUsable'
    BY <2>1
  <2>5. WorktreeTypes'
    BY <2>2, <2>3
  <2>6. \A b \in Agents : where'[b] = "idle"
    BY <2>1, <2>2
  <2> QED  BY <2>1, <2>3, <2>4, <2>5, <2>6
<1>17. ASSUME NEW a \in Agents, Killed(a) PROVE WorktreeInv'
  BY <1>17 DEF Killed, Step, _missing_paths
<1>12. CASE RemoteMoves
  BY <1>12 DEF RemoteMoves, _missing_paths, laid
<1>13. CASE Pull
  BY <1>13 DEF Pull, _missing_paths, laid
<1>14. CASE OperatorDeletes
  BY <1>14 DEF OperatorDeletes, _missing_paths
<1>15. CASE UNCHANGED worktreeVars
  BY <1>15 DEF worktreeVars, _missing_paths
<1> QED
  BY <1>1, <1>2, <1>3, <1>4, <1>5, <1>6, <1>7, <1>8, <1>9, <1>10, <1>11, <1>12, <1>13, <1>14, <1>15,
     <1>16, <1>17
  DEF WorktreeNext

(* For any number of agents, failing commands, kills and any history of the *)
(* remote: when calls do not overlap, every worktree that was handed out is *)
(* listed, complete, and unless its maker never checked it, it cannot push  *)
(* to the base.                                                             *)
THEOREM WorktreesAreUsable ==
  ASSUME ~Concurrent
  PROVE  WorktreeSpec => []HandedOutIsUsable
<1>1. WorktreeInit => WorktreeInv
  <2> SUFFICES ASSUME WorktreeInit PROVE WorktreeInv
    OBVIOUS
  <2>1. WorktreeTypes
    BY DEF WorktreeInit, WorktreeTypes, Checking
  <2> QED  BY <2>1 DEF WorktreeInit, WorktreeInv, HandedOutIsUsable, Checking
<1>2. WorktreeInv /\ [WorktreeNext]_worktreeVars => WorktreeInv'
  BY WorktreeStep
<1>3. QED
  BY <1>1, <1>2, PTL DEF WorktreeSpec, WorktreeInv

-----------------------------------------------------------------------------
(* Sequences.                                                               *)

(* What is left of a sequence without its n-th element.                     *)
LEMMA RemoveAtSeq ==
  ASSUME NEW S, NEW s \in Seq(S), NEW n \in 1..Len(s)
  PROVE  /\ RemoveAt(s, n) \in Seq(S)
         /\ Len(RemoveAt(s, n)) = Len(s) - 1
         /\ \A k \in 1..(Len(s) - 1) : RemoveAt(s, n)[k] = IF k < n THEN s[k] ELSE s[k + 1]
<1> DEFINE a == SubSeq(s, 1, n - 1)
           b == SubSeq(s, n + 1, Len(s))
<1>1. a \in Seq(S) /\ Len(a) = n - 1 /\ \A k \in 1..(n - 1) : a[k] = s[k]
  OBVIOUS
<1>2. b \in Seq(S) /\ Len(b) = Len(s) - n /\ \A k \in 1..(Len(s) - n) : b[k] = s[n + k]
  OBVIOUS
<1>3. RemoveAt(s, n) = a \o b
  BY DEF RemoveAt
<1> HIDE DEF a, b
<1>4. a \o b \in Seq(S) /\ Len(a \o b) = Len(s) - 1
  <2>0. a \in Seq(S) /\ b \in Seq(S)
    BY <1>1, <1>2
  <2>1. a \o b \in Seq(S)
    BY <2>0, ConcatProperties, Zenon
  <2>2. Len(a \o b) = Len(a) + Len(b)
    BY <2>0, ConcatProperties, Zenon
  <2>3. (n - 1) + (Len(s) - n) = Len(s) - 1
    OBVIOUS
  <2> QED  BY <1>1, <1>2, <2>1, <2>2, <2>3
<1>5. ASSUME NEW k \in 1..(Len(s) - 1) PROVE (a \o b)[k] = IF k < n THEN s[k] ELSE s[k + 1]
  <2>1. CASE k < n
    BY <1>1, <1>2, <2>1
  <2>2. CASE ~(k < n)
    <3>1. k - (n - 1) \in 1..(Len(s) - n) /\ n + (k - (n - 1)) = k + 1
      BY <2>2
    <3>2. (a \o b)[k] = b[k - (n - 1)]
      BY <1>1, <1>2, <2>2, ConcatProperties
    <3> QED  BY <1>2, <2>2, <3>1, <3>2
  <2> QED  BY <2>1, <2>2
<1> QED  BY <1>3, <1>4, <1>5

-----------------------------------------------------------------------------
(* The hook manager.                                                        *)

Dispatch == [kind : {"none", "plain", "dual"}, bus : Nat, callback : Nat]

(* An id is registered once and its hook is one of that id; before the      *)
(* first setting no hook, in the registry or out of it, holds a dispatch.   *)
ManagerInv ==
  /\ registered \in Seq(Ids)
  /\ \A m, n \in 1..Len(registered) : registered[m] = registered[n] => m = n
  /\ hookOf \in [Ids -> Hooks \cup {NoHook}]
  /\ \A i \in Range(registered) : hookOf[i] \in Hooks /\ IdOf(hookOf[i]) = i
  /\ callback \in Nat /\ hookBus \in Nat
  /\ injected \in [Hooks -> Dispatch]
  /\ callback = 0 /\ hookBus = 0 => \A h \in Hooks : injected[h] = Nothing
  /\ InjectedIsCurrent

LEMMA BuiltDispatch ==
  ASSUME NEW cb \in Nat, NEW bus \in Nat
  PROVE  /\ BuildDispatch(cb, bus) \in Dispatch
         /\ BuildDispatch(cb, bus) = Nothing <=> cb = 0 /\ bus = 0
BY DEF BuildDispatch, Dispatch, Nothing

LEMMA HookTypes == \A h \in Hooks : IdOf(h) \in Ids
BY ManagerAssumption DEF Hooks, IdOf

LEMMA ManagerStep == ASSUME ManagerInv, [ManagerNext]_managerVars PROVE ManagerInv'
<1> USE DEF ManagerInv
<1>1. ASSUME NEW c \in Callbacks, SetEventCallback(c) PROVE ManagerInv'
  <2> DEFINE d == BuildDispatch(c, hookBus)
  <2>1. c \in Nat /\ c # 0
    BY ManagerAssumption
  <2>2. d \in Dispatch
    BY <2>1, BuiltDispatch
  <2> HIDE DEF d
  <2>3. injected' \in [Hooks -> Dispatch] /\ Current' = Current /\ Current \subseteq Hooks
        /\ \A h \in Current : injected'[h] = d
    BY <1>1, <2>2 DEF SetEventCallback, Inject, Current, d
  <2> QED  BY <1>1, <2>1, <2>3 DEF SetEventCallback, InjectedIsCurrent, d
<1>2. ASSUME NEW b \in Buses, SetEventBus(b) PROVE ManagerInv'
  <2> DEFINE d == BuildDispatch(callback, b)
  <2>1. b \in Nat /\ b # 0
    BY ManagerAssumption
  <2>2. d \in Dispatch
    BY <2>1, BuiltDispatch
  <2> HIDE DEF d
  <2>3. injected' \in [Hooks -> Dispatch] /\ Current' = Current /\ Current \subseteq Hooks
        /\ \A h \in Current : injected'[h] = d
    BY <1>2, <2>2 DEF SetEventBus, Inject, Current, d
  <2> QED  BY <1>2, <2>1, <2>3 DEF SetEventBus, InjectedIsCurrent, d
<1>3. ASSUME NEW h \in Hooks, Register(h) PROVE ManagerInv'
  <2> DEFINE d == BuildDispatch(callback, hookBus)
             i == IdOf(h)
  <2>1. d \in Dispatch /\ (d = Nothing <=> callback = 0 /\ hookBus = 0)
    BY BuiltDispatch
  <2>2. i \in Ids
    BY HookTypes
  <2>3. hookOf' = [hookOf EXCEPT ![i] = h] /\ UNCHANGED <<callback, hookBus>>
    BY <1>3 DEF Register
  <2>4. registered' \in Seq(Ids)
        /\ (\A m, n \in 1..Len(registered') : registered'[m] = registered'[n] => m = n)
        /\ Range(registered') \subseteq Range(registered) \cup {i}
    <3>1. CASE i \in Range(registered)
      BY <1>3, <3>1 DEF Register
    <3>2. CASE i \notin Range(registered)
      <4>1. registered' = Append(registered, i)
        BY <1>3, <3>2 DEF Register
      <4>2. \A n \in 1..Len(registered) : registered[n] # i
        BY <3>2 DEF Range
      <4> HIDE DEF i
      <4>3. Len(registered') = Len(registered) + 1 /\ registered'[Len(registered) + 1] = i
            /\ \A n \in 1..Len(registered) : registered'[n] = registered[n]
        BY <2>2, <4>1
      <4>4. registered' \in Seq(Ids)
        BY <2>2, <4>1
      <4>5. \A n \in 1..Len(registered') : n \in 1..Len(registered) \/ n = Len(registered) + 1
        BY <4>3
      <4> QED  BY <4>2, <4>3, <4>4, <4>5 DEF Range
    <3> QED  BY <3>1, <3>2
  <2>5. injected' = IF d = Nothing THEN injected ELSE [injected EXCEPT ![h] = d]
    BY <1>3 DEF Register
  <2> HIDE DEF d, i
  <2>6. injected' \in [Hooks -> Dispatch] /\ injected'[h] = d
        /\ \A g \in Hooks : g # h => injected'[g] = injected[g]
    BY <2>1, <2>5
  <2>7. \A j \in Range(registered') : j \in Ids
    BY <2>4 DEF Range
  <2>8. \A j \in Range(registered') :
          hookOf'[j] \in Hooks /\ IdOf(hookOf'[j]) = j
          /\ (j # i => j \in Range(registered) /\ hookOf'[j] = hookOf[j]) /\ (j = i => hookOf'[j] = h)
    BY <2>2, <2>3, <2>4, <2>7 DEF i
  <2>9. InjectedIsCurrent'
    <3> SUFFICES ASSUME NEW j \in Range(registered') PROVE injected'[hookOf'[j]] = d
      BY <2>3 DEF InjectedIsCurrent, Current, d
    <3>1. CASE hookOf'[j] = h
      BY <3>1, <2>6
    <3>2. CASE hookOf'[j] # h
      <4>1. j \in Range(registered) /\ hookOf'[j] = hookOf[j] /\ hookOf[j] \in Hooks
        BY <3>2, <2>8
      <4>2. injected[hookOf[j]] = d
        BY <4>1 DEF InjectedIsCurrent, Current, d
      <4> QED  BY <3>2, <4>1, <4>2, <2>6
    <3> QED  BY <3>1, <3>2
  <2>10. hookOf' \in [Ids -> Hooks \cup {NoHook}]
    BY <2>2, <2>3
  <2>11. callback' = 0 /\ hookBus' = 0 => \A g \in Hooks : injected'[g] = Nothing
    BY <2>1, <2>3, <2>5
  <2> QED  BY <2>3, <2>4, <2>6, <2>8, <2>9, <2>10, <2>11
<1>4. ASSUME NEW i \in Ids, Unregister(i) PROVE ManagerInv'
  <2>1. PICK n \in DOMAIN registered : registered[n] = i /\ registered' = RemoveAt(registered, n)
    BY <1>4 DEF Unregister
  <2>2. hookOf' = [hookOf EXCEPT ![i] = NoHook] /\ UNCHANGED <<callback, hookBus, injected>>
    BY <1>4 DEF Unregister
  <2>3. n \in 1..Len(registered)
    BY <2>1
  <2> DEFINE r == RemoveAt(registered, n)
  <2>4. r \in Seq(Ids) /\ Len(r) = Len(registered) - 1
        /\ \A k \in 1..(Len(registered) - 1) : r[k] = IF k < n THEN registered[k] ELSE registered[k + 1]
    BY <2>3, RemoveAtSeq
  <2> HIDE DEF r
  <2>5. \A k \in 1..Len(r) : r[k] # i
    BY <2>1, <2>3, <2>4
  <2>6. \A k \in 1..Len(r) : r[k] \in Range(registered)
    BY <2>3, <2>4, SMTT(30) DEF Range
  <2>7. \A j, k \in 1..Len(r) : r[j] = r[k] => j = k
    BY <2>3, <2>4
  <2>8. registered' = r
    BY <2>1 DEF r
  <2>9. \A j \in Range(registered') : j \in Range(registered) /\ j # i /\ j \in Ids /\ hookOf'[j] = hookOf[j]
    <3> SUFFICES ASSUME NEW k \in 1..Len(r)
                 PROVE  r[k] \in Range(registered) /\ r[k] # i /\ r[k] \in Ids /\ hookOf'[r[k]] = hookOf[r[k]]
      BY <2>4, <2>8 DEF Range
    <3>1. r[k] \in Ids /\ r[k] # i
      BY <2>4, <2>5
    <3> QED  BY <2>2, <2>6, <3>1
  <2>10. InjectedIsCurrent'
    BY <2>2, <2>9 DEF InjectedIsCurrent, Current
  <2>11. hookOf' \in [Ids -> Hooks \cup {NoHook}]
    BY <2>2
  <2>12. \A j \in Range(registered') : hookOf'[j] \in Hooks /\ IdOf(hookOf'[j]) = j
    BY <2>9
  <2> QED  BY <2>2, <2>4, <2>7, <2>8, <2>10, <2>11, <2>12
<1>5. ASSUME UNCHANGED <<registered, hookOf, callback, hookBus, injected>> PROVE ManagerInv'
  BY <1>5 DEF InjectedIsCurrent, Current
<1>6. ASSUME NEW op \in {"start", "stop"}, BeginRound(op) PROVE ManagerInv'
  BY <1>6, <1>5 DEF BeginRound
<1>7. CASE RoundStep
  BY <1>7, <1>5 DEF RoundStep
<1>8. CASE EndRound
  BY <1>8, <1>5 DEF EndRound
<1>9. ASSUME NEW h \in Hooks, OnEvent(h) PROVE ManagerInv'
  BY <1>9, <1>5 DEF OnEvent
<1>10. CASE UNCHANGED managerVars
  BY <1>10, <1>5 DEF managerVars
<1> QED
  BY <1>1, <1>2, <1>3, <1>4, <1>6, <1>7, <1>8, <1>9, <1>10 DEF ManagerNext

(* Whatever the order of registrations, replacements, removals and          *)
(* settings, a registered hook holds the dispatch its manager would build   *)
(* now, for any hooks, callbacks and buses.                                 *)
THEOREM InjectionIsNeverStale == ManagerSpec => []InjectedIsCurrent
<1>1. ManagerInit => ManagerInv
  BY DEF ManagerInit, ManagerInv, InjectedIsCurrent, Current, Range, Dispatch, Nothing
<1>2. QED
  BY <1>1, ManagerStep, PTL DEF ManagerSpec, ManagerInv

-----------------------------------------------------------------------------
(* The allocator of task and feature numbers.                               *)

(* A set of numbers that is not empty has a smallest one.                   *)
LEMMA LeastNumber ==
  ASSUME NEW T, T \subseteq Nat, T # {}
  PROVE  \E x \in T : \A y \in T : x <= y
<1>1. PICK x \in T : \A y \in T : ~ (<<y, x>> \in OpToRel(<, Nat))
  BY NatLessThanWellFounded, WFMin
<1>2. \A y \in T : ~ (y < x)
  BY <1>1 DEF OpToRel
<1> QED BY <1>2

(* A finite set of numbers that is not empty has a largest one: a smallest  *)
(* subset without one would have one.                                       *)
LEMMA LargestNumber ==
  ASSUME NEW S, S \subseteq Nat, IsFiniteSet(S), S # {}
  PROVE  Max(S) \in S /\ \A y \in S : Max(S) >= y
<1> DEFINE Capped(T) == \E x \in T : \A y \in T : x >= y
           bad == {T \in FiniteSubsetsOf(S) : T # {} /\ ~Capped(T)}
<1>1. ASSUME bad # {} PROVE FALSE
  <2>1. bad \subseteq FiniteSubsetsOf(S)
    OBVIOUS
  <2>2. PICK T \in bad : \A U \in bad : ~ (<<U, T>> \in StrictSubsetOrdering(S))
    <3> HIDE DEF bad
    <3> QED BY <1>1, <2>1, FS_StrictSubsetOrderingWellFounded, WFMin
  <2>3. T \subseteq S /\ IsFiniteSet(T) /\ T # {} /\ ~Capped(T)
    BY DEF FiniteSubsetsOf
  <2>4. PICK x \in T : TRUE
    BY <2>3
  <2>5. IsFiniteSet(T \ {x}) /\ T \ {x} \subseteq S
    BY <2>3, FS_RemoveElement
  <2>6. <<T \ {x}, T>> \in StrictSubsetOrdering(S)
    BY <2>3 DEF StrictSubsetOrdering
  <2>7. T \ {x} = {} \/ Capped(T \ {x})
    BY <2>2, <2>5, <2>6 DEF FiniteSubsetsOf
  <2>8. CASE T \ {x} = {}
    BY <2>3, <2>8
  <2>9. CASE Capped(T \ {x})
    <3>1. PICK m \in T \ {x} : \A y \in T \ {x} : m >= y
      BY <2>9
    <3>2. m \in Nat /\ x \in Nat /\ \A y \in T : y \in Nat
      BY <2>3
    <3>3. CASE m >= x
      BY <2>3, <3>1, <3>2, <3>3
    <3>4. CASE x >= m
      BY <2>3, <3>1, <3>2, <3>4
    <3> QED BY <3>2, <3>3, <3>4
  <2> QED BY <2>7, <2>8, <2>9
<1>2. S \in FiniteSubsetsOf(S)
  BY DEF FiniteSubsetsOf
<1>3. Capped(S)
  BY <1>1, <1>2
<1> QED BY <1>3 DEF Max

Boot == bootstrap_ledger(InUse)
Mark == [author : {Author[a] : a \in Allocators}, second : Seconds, parent : Nat \ {0},
         kind : Kinds, count : Nat \ {0}, slug : Slugs]
Commit == [next : [Kinds -> Nat], used : SUBSET Used, mark : Mark \cup {NoMark}]
Grant == [to : Allocators, ids : SUBSET Nat, mark : Mark]

(* The ledger starts past every number in use.                              *)
LEMMA BootIsFree ==
  ASSUME NEW k \in Kinds
  PROVE  Boot[k] \in Nat /\ \A i \in NumbersOf(k, InUse) : i < Boot[k]
<1> DEFINE V == {v \in InUse : v.kind = k}
           N == NumbersOf(k, InUse)
           f == [u \in V |-> u.id]
<1>1. IsFiniteSet(V)
  BY ReservationAssumption, FS_Subset
<1>2. f \in Surjection(V, N)
  BY DEF Surjection, NumbersOf
<1>3. IsFiniteSet(N)
  BY <1>1, <1>2, FS_Surjection
<1>4. N \subseteq Nat
  BY ReservationAssumption DEF NumbersOf, Used
<1> HIDE DEF N
<1> DEFINE S == N \cup {0}
<1>5. IsFiniteSet(S) /\ S \subseteq Nat /\ S # {}
  BY <1>3, <1>4, FS_AddElement
<1>6. Boot[k] = Max(S) + 1
  BY DEF Boot, bootstrap_ledger, N
<1> HIDE DEF S
<1>7. Max(S) \in S /\ \A y \in S : Max(S) >= y
  BY <1>5, LargestNumber
<1>8. Max(S) \in Nat
  BY <1>5, <1>7
<1>9. \A y \in N : y \in S /\ y \in Nat
  BY <1>4 DEF S
<1> QED  BY <1>6, <1>7, <1>8, <1>9 DEF N

LEMMA MarkedOrNot == ASSUME NEW m \in Mark PROVE m # NoMark
<1>1. m.parent # 0
  BY DEF Mark
<1> QED BY <1>1 DEF NoMark

ReserveTypes ==
  /\ commits \in Seq(Commit) /\ Tip \in Nat \ {0}
  /\ phase \in [Allocators -> {"idle", "resolve", "push"}]
  /\ call \in [Allocators -> Orders \cup {NoCall}]
  /\ \A a \in Allocators : phase[a] # "idle" => call[a] \in Orders
  /\ tracking \in [Allocators -> Nat] /\ \A a \in Allocators : tracking[a] <= Tip
  /\ built \in [Allocators -> Mark \cup {NoMark}]
  /\ grants \in Seq(Grant)

(* An attempt's commit is on top of the origin/<base> of its clone.         *)
Based ==
  \A a \in Allocators : phase[a] = "push" =>
    built[a] \in Mark /\ built[a].parent = tracking[a] /\ built[a].author = Author[a]

(* The ledger only advances, and by what a ledger commit is for.            *)
Ledgers(cs) ==
  /\ cs[1].next = Boot
  /\ \A m, n \in 1..Len(cs) : m <= n => \A k \in Kinds : cs[m].next[k] <= cs[n].next[k]
  /\ \A n \in 1..Len(cs) : cs[n].mark # NoMark =>
       /\ n > 1 /\ cs[n].mark.parent = n - 1
       /\ cs[n].next[cs[n].mark.kind] = cs[n - 1].next[cs[n].mark.kind] + cs[n].mark.count

(* A grant's numbers are those its commit takes from the ledger.            *)
Placed(cs, g) ==
  /\ g.mark.parent + 1 <= Len(cs) /\ cs[g.mark.parent + 1].mark = g.mark
  /\ \A i \in g.ids : /\ cs[g.mark.parent].next[g.mark.kind] <= i
                      /\ i < cs[g.mark.parent + 1].next[g.mark.kind]
  /\ g.mark.author = Author[g.to]

(* A clone is granted each commit once: its origin/<base> is past it.       *)
OnceEach ==
  /\ \A n \in 1..Len(grants) : grants[n].mark.parent < tracking[grants[n].to]
  /\ \A m, n \in 1..Len(grants) :
       m # n /\ grants[m].to = grants[n].to => grants[m].mark.parent # grants[n].mark.parent

(* The files of the branch use the numbers of the start and granted ones.   *)
Files(used, gs) ==
  /\ InUse \subseteq used
  /\ \A u \in used \ InUse : \E n \in 1..Len(gs) :
       u.kind = gs[n].mark.kind /\ u.slug = gs[n].mark.slug /\ u.id \in gs[n].ids

ReserveInv ==
  /\ ReserveTypes /\ Based /\ Ledgers(commits)
  /\ \A n \in 1..Len(grants) : Placed(commits, grants[n])
  /\ OnceEach
  /\ Files(commits[Tip].used, grants)

(* Two grants that share a number have one commit.                          *)
LEMMA SharedNumber ==
  ASSUME NEW cs \in Seq(Commit), Ledgers(cs), NEW g \in Grant, NEW h \in Grant,
         Placed(cs, g), Placed(cs, h), g.mark.kind = h.mark.kind, NEW i \in g.ids, i \in h.ids
  PROVE  g.mark = h.mark
<1> DEFINE p == g.mark.parent
           q == h.mark.parent
           k == g.mark.kind
<1>1. p \in Nat \ {0} /\ q \in Nat \ {0} /\ k \in Kinds /\ i \in Nat
  BY DEF Grant, Mark
<1>2. p + 1 \in 1..Len(cs) /\ q + 1 \in 1..Len(cs) /\ p \in 1..Len(cs) /\ q \in 1..Len(cs)
  BY <1>1 DEF Placed
<1>3. \A n \in 1..Len(cs) : cs[n].next[k] \in Nat
  <2>1. \A n \in 1..Len(cs) : cs[n] \in Commit
    OBVIOUS
  <2> QED BY <1>1, <2>1 DEF Commit
<1>4. cs[p].next[k] <= i /\ i < cs[p + 1].next[k] /\ cs[q].next[k] <= i /\ i < cs[q + 1].next[k]
  BY DEF Placed
<1>5. cs[p + 1].mark = g.mark /\ cs[q + 1].mark = h.mark
  BY DEF Placed
<1> HIDE DEF p, q, k
<1>6. ~(p < q)
  <2> SUFFICES ASSUME p < q PROVE FALSE
    OBVIOUS
  <2>1. p + 1 <= q
    BY <1>1
  <2>2. cs[p + 1].next[k] <= cs[q].next[k]
    BY <1>1, <1>2, <2>1 DEF Ledgers
  <2> QED BY <1>1, <1>2, <1>3, <1>4, <2>2
<1>7. ~(q < p)
  <2> SUFFICES ASSUME q < p PROVE FALSE
    OBVIOUS
  <2>1. q + 1 <= p
    BY <1>1
  <2>2. cs[q + 1].next[k] <= cs[p].next[k]
    BY <1>1, <1>2, <2>1 DEF Ledgers
  <2> QED BY <1>1, <1>2, <1>3, <1>4, <2>2
<1>8. p = q
  BY <1>1, <1>6, <1>7
<1> QED BY <1>5, <1>8

(* What is granted is past the numbers in use at the start.                 *)
LEMMA PastTheStart ==
  ASSUME NEW cs \in Seq(Commit), Ledgers(cs), NEW g \in Grant, Placed(cs, g), NEW i \in g.ids
  PROVE  i \notin NumbersOf(g.mark.kind, InUse)
<1> DEFINE p == g.mark.parent
           k == g.mark.kind
<1>1. p \in Nat \ {0} /\ k \in Kinds /\ i \in Nat
  BY DEF Grant, Mark
<1>2. p \in 1..Len(cs) /\ 1 \in 1..Len(cs) /\ 1 <= p
  BY <1>1 DEF Placed
<1>3. cs[p] \in Commit
  BY <1>2
<1>4. cs[p].next[k] \in Nat /\ cs[p].next[k] <= i
  BY <1>1, <1>3 DEF Commit, Placed
<1>5. Boot[k] <= cs[p].next[k]
  BY <1>1, <1>2 DEF Ledgers
<1>6. Boot[k] \in Nat /\ \A j \in NumbersOf(k, InUse) : j < Boot[k]
  BY <1>1, BootIsFree
<1> HIDE DEF p, k
<1>7. i \notin NumbersOf(k, InUse)
  BY <1>1, <1>4, <1>5, <1>6
<1> QED BY <1>7 DEF k

(* Numbers that are granted for one commit, to one slug, do not collide.    *)
LEMMA GrantedAreUnique == ASSUME ReserveInv PROVE IdsAreUnique
<1> DEFINE used == commits[Tip].used
<1>1. commits[Tip] \in Commit
  BY DEF ReserveInv, ReserveTypes, Tip
<1>2. used \subseteq Used
  BY <1>1 DEF Commit
<1>3. /\ Files(used, grants) /\ Ledgers(commits) /\ OnceEach /\ commits \in Seq(Commit)
      /\ DOMAIN grants = 1..Len(grants) /\ grants \in Seq(Grant)
  BY DEF ReserveInv, ReserveTypes
<1> HIDE DEF used
<1>4. \A n \in 1..Len(grants) : grants[n] \in Grant /\ Placed(commits, grants[n])
  BY <1>3 DEF ReserveInv
<1>5. ASSUME NEW n \in 1..Len(grants), NEW i \in grants[n].ids
      PROVE  i \notin NumbersOf(grants[n].mark.kind, InUse)
  BY <1>3, <1>4, PastTheStart
<1>6. ASSUME NEW m \in 1..Len(grants), NEW n \in 1..Len(grants), m # n,
             grants[m].mark.kind = grants[n].mark.kind, NEW i \in grants[m].ids, i \in grants[n].ids
      PROVE  Twins(m, n)
  <2>1. grants[m].mark = grants[n].mark
    BY <1>3, <1>4, <1>6, SharedNumber
  <2>2. grants[m].to # grants[n].to
    BY <1>3, <1>6, <2>1 DEF OnceEach
  <2>3. Author[grants[m].to] = Author[grants[n].to]
    <3>1. grants[m].mark.author = Author[grants[m].to] /\ grants[n].mark.author = Author[grants[n].to]
      BY <1>4 DEF Placed
    <3> QED BY <2>1, <3>1
  <2> QED BY <2>1, <2>2, <2>3 DEF Twins
<1>7. ASSUME NEW u \in used, NEW v \in used, v.kind = u.kind, v.id = u.id, v.slug # u.slug
      PROVE  u \in InUse
  <2> SUFFICES ASSUME u \notin InUse PROVE FALSE
    OBVIOUS
  <2>1. PICK n \in 1..Len(grants) :
          u.kind = grants[n].mark.kind /\ u.slug = grants[n].mark.slug /\ u.id \in grants[n].ids
    BY <1>3 DEF Files
  <2>2. v \notin InUse
    BY <1>5, <1>7, <2>1 DEF NumbersOf
  <2>3. PICK m \in 1..Len(grants) :
          v.kind = grants[m].mark.kind /\ v.slug = grants[m].mark.slug /\ v.id \in grants[m].ids
    BY <1>3, <2>2 DEF Files
  <2>4. grants[m].mark = grants[n].mark
    BY <1>3, <1>4, <1>7, <2>1, <2>3, SharedNumber
  <2> QED  BY <1>7, <2>1, <2>3, <2>4
<1>8. find_collisions(used) = find_collisions(InUse)
  <2>1. InUse \subseteq used
    BY <1>3 DEF Files
  <2>2. \A u \in find_collisions(used) : u \in find_collisions(InUse)
    <3> SUFFICES ASSUME NEW u \in used, NEW v \in used, v.kind = u.kind, v.id = u.id, v.slug # u.slug
                 PROVE  u \in find_collisions(InUse)
      BY DEF find_collisions
    <3>1. u \in InUse /\ v \in InUse
      BY <1>7
    <3> QED  BY <3>1 DEF find_collisions
  <2>3. \A u \in find_collisions(InUse) : u \in find_collisions(used)
    BY <2>1 DEF find_collisions
  <2> QED  BY <2>2, <2>3
<1> QED
  BY <1>3, <1>5, <1>6, <1>8 DEF IdsAreUnique, used

(* A commit whose ledger is not behind that of the tip.                     *)
LEMMA LedgerGrows ==
  ASSUME NEW cs \in Seq(Commit), cs # << >>, Ledgers(cs), NEW c \in Commit,
         \A k \in Kinds : cs[Len(cs)].next[k] <= c.next[k],
         c.mark # NoMark =>
           /\ c.mark.parent = Len(cs)
           /\ c.next[c.mark.kind] = cs[Len(cs)].next[c.mark.kind] + c.mark.count
  PROVE  /\ Ledgers(Append(cs, c)) /\ Append(cs, c) \in Seq(Commit)
         /\ \A g \in Grant : Placed(cs, g) => Placed(Append(cs, c), g)
<1> DEFINE ds == Append(cs, c)
           t == Len(cs)
<1>1. /\ t \in Nat \ {0} /\ ds \in Seq(Commit) /\ Len(ds) = t + 1 /\ ds[t + 1] = c
      /\ \A n \in 1..t : ds[n] = cs[n]
  OBVIOUS
<1> HIDE DEF ds, t
<1>2. \A n \in 1..(t + 1) : n \in 1..t \/ n = t + 1
  BY <1>1
<1>3. \A n \in 1..t : \A k \in Kinds : cs[n].next[k] <= cs[t].next[k] /\ cs[n].next[k] \in Nat
  <2>1. \A n \in 1..t : cs[n] \in Commit
    BY DEF t
  <2>2. t \in 1..t /\ \A n \in 1..t : n <= t
    BY <1>1
  <2> QED BY <2>1, <2>2 DEF Commit, Ledgers, t
<1>4. \A k \in Kinds : c.next[k] \in Nat /\ cs[t].next[k] <= c.next[k]
  BY DEF Commit, t
<1>5. \A n \in 1..t : \A k \in Kinds : cs[n].next[k] <= c.next[k]
  <2> SUFFICES ASSUME NEW n \in 1..t, NEW k \in Kinds PROVE cs[n].next[k] <= c.next[k]
    OBVIOUS
  <2>1. t \in 1..t
    BY <1>1
  <2>2. cs[t].next[k] \in Nat
    BY <1>3, <2>1
  <2> QED BY <1>3, <1>4, <2>2
<1>6. \A m, n \in 1..(t + 1) : m <= n => \A k \in Kinds : ds[m].next[k] <= ds[n].next[k]
  <2> SUFFICES ASSUME NEW m \in 1..(t + 1), NEW n \in 1..(t + 1), m <= n, NEW k \in Kinds
               PROVE  ds[m].next[k] <= ds[n].next[k]
    OBVIOUS
  <2>1. CASE n \in 1..t
    <3>1. m \in 1..t
      BY <1>1, <2>1
    <3> QED BY <1>1, <2>1, <3>1 DEF Ledgers, t
  <2>2. CASE n = t + 1 /\ m \in 1..t
    BY <1>1, <1>5, <2>2
  <2>3. CASE n = t + 1 /\ m = t + 1
    BY <1>1, <1>4, <2>3
  <2> QED BY <1>2, <2>1, <2>2, <2>3
<1>7. ds[1].next = Boot
  <2>1. 1 \in 1..t
    BY <1>1
  <2> QED BY <1>1, <2>1 DEF Ledgers
<1>8. ASSUME NEW n \in 1..(t + 1), ds[n].mark # NoMark
      PROVE  /\ n > 1 /\ ds[n].mark.parent = n - 1
             /\ ds[n].next[ds[n].mark.kind] = ds[n - 1].next[ds[n].mark.kind] + ds[n].mark.count
  <2>1. CASE n \in 1..t
    <3>1. /\ n > 1 /\ cs[n].mark.parent = n - 1
          /\ cs[n].next[cs[n].mark.kind] = cs[n - 1].next[cs[n].mark.kind] + cs[n].mark.count
      BY <1>1, <1>8, <2>1 DEF Ledgers, t
    <3>2. n - 1 \in 1..t
      BY <1>1, <2>1, <3>1
    <3> QED BY <1>1, <2>1, <3>1, <3>2
  <2>2. CASE n = t + 1
    <3>1. t \in 1..t /\ n - 1 = t /\ n > 1
      BY <1>1, <2>2
    <3>2. ds[n] = c /\ ds[n - 1] = cs[t]
      BY <1>1, <2>2, <3>1
    <3> QED BY <1>8, <3>1, <3>2 DEF t
  <2> QED BY <1>2, <2>1, <2>2
<1>9. Ledgers(ds)
  BY <1>1, <1>6, <1>7, <1>8 DEF Ledgers
<1>10. ASSUME NEW g \in Grant, Placed(cs, g) PROVE Placed(ds, g)
  <2>1. g.mark.parent \in Nat \ {0}
    BY DEF Grant, Mark
  <2>2. g.mark.parent + 1 <= t
    BY <1>10 DEF Placed, t
  <2>3. g.mark.parent + 1 \in 1..t /\ g.mark.parent \in 1..t /\ g.mark.parent + 1 <= t + 1
    BY <1>1, <2>1, <2>2
  <2> QED BY <1>1, <1>10, <2>3 DEF Placed
<1> QED BY <1>1, <1>9, <1>10 DEF ds

(* The commit that a push adds: the ledger advances by what it hands out.   *)
LEMMA PushedCommit ==
  ASSUME ReserveInv, NEW a \in Allocators, phase[a] = "push", FastForward(a)
  PROVE  LET c == _build_ledger_commit(built[a])
             old == commits[Tip] IN
         /\ c \in Commit /\ c.used = old.used /\ c.mark = built[a] /\ c.mark.parent = Len(commits)
         /\ \A j \in Kinds : old.next[j] <= c.next[j]
         /\ c.next[c.mark.kind] = old.next[c.mark.kind] + c.mark.count
<1> DEFINE m == built[a]
           old == commits[Tip]
           k == m.kind
           n == m.count
           c == [next |-> [old.next EXCEPT ![k] = @ + n], used |-> old.used, mark |-> m]
<1>1. m \in Mark /\ m.parent = Tip /\ old \in Commit
  BY DEF ReserveInv, ReserveTypes, Based, FastForward, Tip
<1>2. k \in Kinds /\ n \in Nat \ {0}
  BY <1>1 DEF Mark
<1>3. old.next \in [Kinds -> Nat] /\ old.used \in SUBSET Used
  BY <1>1 DEF Commit
<1>4. _build_ledger_commit(m) = c
  BY <1>1 DEF _build_ledger_commit, _read_ledger_at
<1> HIDE DEF k, n, old, m
<1>5. c.next \in [Kinds -> Nat] /\ c.next[k] = old.next[k] + n
      /\ (\A j \in Kinds : j # k => c.next[j] = old.next[j]) /\ old.next[k] \in Nat
  BY <1>2, <1>3
<1>6. c \in Commit
  BY <1>1, <1>3, <1>5 DEF Commit
<1>7. \A j \in Kinds : old.next[j] <= c.next[j]
  BY <1>2, <1>3, <1>5
<1>8. c.used = old.used /\ c.mark = m
  OBVIOUS
<1> HIDE DEF c
<1>9. /\ c \in Commit /\ c.used = old.used /\ c.mark = m /\ c.mark.parent = Tip
      /\ \A j \in Kinds : old.next[j] <= c.next[j]
      /\ c.next[c.mark.kind] = old.next[c.mark.kind] + c.mark.count
  BY <1>1, <1>5, <1>6, <1>7, <1>8 DEF k, n
<1> QED BY <1>4, <1>9 DEF old, m, Tip

(* A push that is taken leaves its commit at the tip, whoever made it.      *)
LEMMA Landed ==
  ASSUME ReserveInv, NEW a \in Allocators, Lands(a)
  PROVE  /\ commits' \in Seq(Commit) /\ Tip' \in Nat \ {0} /\ Ledgers(commits') /\ Tip <= Tip'
         /\ Tip' = Len(commits') /\ built[a] \in Mark /\ built[a].parent + 1 = Tip'
         /\ commits'[Tip'].mark = built[a]
         /\ commits'[built[a].parent] = commits[built[a].parent]
         /\ commits'[Tip'].used = commits[Tip].used
         /\ \A g \in Grant : Placed(commits, g) => Placed(commits', g)
<1>1. /\ commits \in Seq(Commit) /\ Tip \in Nat \ {0} /\ Ledgers(commits) /\ commits # << >>
      /\ phase[a] = "push" /\ built[a] \in Mark /\ built[a].parent \in Nat \ {0} /\ Tip = Len(commits)
  BY DEF ReserveInv, ReserveTypes, Based, Lands, Tip, Mark
<1>2. CASE FastForward(a) /\ commits' = Append(commits, _build_ledger_commit(built[a]))
  <2> DEFINE c == _build_ledger_commit(built[a])
  <2>1. /\ c \in Commit /\ c.used = commits[Tip].used /\ c.mark = built[a] /\ c.mark.parent = Len(commits)
        /\ \A j \in Kinds : commits[Tip].next[j] <= c.next[j]
        /\ c.next[c.mark.kind] = commits[Tip].next[c.mark.kind] + c.mark.count
    BY <1>1, <1>2, PushedCommit
  <2> HIDE DEF c
  <2>2. commits' = Append(commits, c)
    BY <1>2 DEF c
  <2>3. /\ Ledgers(commits') /\ commits' \in Seq(Commit)
        /\ \A g \in Grant : Placed(commits, g) => Placed(commits', g)
    BY <1>1, <2>1, <2>2, LedgerGrows
  <2>4. Len(commits') = Len(commits) + 1 /\ commits'[Len(commits) + 1] = c /\ built[a].parent = Tip
        /\ \A n \in 1..Len(commits) : commits'[n] = commits[n]
    BY <1>1, <1>2, <2>1, <2>2 DEF FastForward
  <2>5. Tip' = Tip + 1 /\ Tip \in 1..Len(commits)
    BY <1>1, <2>4 DEF Tip
  <2> QED BY <1>1, <2>1, <2>3, <2>4, <2>5
<1>3. CASE UpToDate(a) /\ UNCHANGED commits
  <2>1. commits[Tip].mark # NoMark /\ Tip \in 1..Len(commits)
    BY <1>1, <1>3, MarkedOrNot DEF UpToDate
  <2>2. built[a].parent = Tip - 1
    BY <1>1, <1>3, <2>1 DEF Ledgers, UpToDate
  <2>3. Tip' = Tip
    BY <1>3 DEF Tip
  <2> QED BY <1>1, <1>3, <2>2, <2>3 DEF UpToDate
<1> QED BY <1>2, <1>3 DEF Lands

(* A call that ends leaves a well-formed allocator.                         *)
LEMMA ConcludeTypes ==
  ASSUME ReserveTypes, NEW a \in Allocators, Conclude(a)
  PROVE  /\ phase' \in [Allocators -> {"idle", "resolve", "push"}]
         /\ call' \in [Allocators -> Orders \cup {NoCall}]
         /\ \A b \in Allocators : phase'[b] # "idle" => call'[b] \in Orders
         /\ built' \in [Allocators -> Mark \cup {NoMark}]
         /\ \A b \in Allocators : phase'[b] = "push" => b # a /\ phase[b] = "push" /\ built'[b] = built[b]
BY DEF ReserveTypes, Conclude

(* The commit of an attempt.                                                *)
LEMMA AttemptMark ==
  ASSUME ReserveTypes, NEW a \in Allocators, phase[a] # "idle", NEW sha \in Nat \ {0}, NEW now \in Seconds
  PROVE  CommitOf(a, sha, now) \in Mark
<1>1. call[a] \in Orders
  BY DEF ReserveTypes
<1>2. call[a].kind \in Kinds /\ call[a].count \in Nat \ {0} /\ call[a].slug \in Slugs
  BY <1>1, ReservationAssumption
<1> QED BY <1>2 DEF CommitOf, Mark

LEMMA ReserveStep == ASSUME ReserveInv, [ReserveNext]_reserveVars PROVE ReserveInv'
<1>0. /\ ReserveTypes /\ Based /\ Ledgers(commits) /\ OnceEach /\ Files(commits[Tip].used, grants)
      /\ commits \in Seq(Commit) /\ Tip = Len(commits) /\ Tip \in Nat \ {0}
      /\ \A n \in 1..Len(grants) : grants[n] \in Grant /\ Placed(commits, grants[n])
  BY DEF ReserveInv, ReserveTypes, Tip
<1>1. ASSUME UNCHANGED <<commits, grants>>, ReserveTypes', Based', OnceEach' PROVE ReserveInv'
  BY <1>0, <1>1 DEF ReserveInv, Tip
<1>2. ASSUME NEW a \in Allocators, NEW r \in Orders, Ask(a, r) PROVE ReserveInv'
  BY <1>0, <1>1, <1>2 DEF Ask, ReserveTypes, Tip, Based, OnceEach
<1>3. ASSUME NEW a \in Allocators, ResolveBase(a) PROVE ReserveInv'
  <2> DEFINE sha == _resolve_base_sha(a)
  <2>1. PICK now \in Seconds : built' = [built EXCEPT ![a] = CommitOf(a, sha, now)]
    BY <1>3 DEF ResolveBase
  <2>2. sha \in Nat \ {0} /\ sha <= Tip /\ tracking[a] <= sha
    BY <1>0 DEF _resolve_base_sha, ReserveTypes
  <2>3. /\ phase[a] = "resolve" /\ phase' = [phase EXCEPT ![a] = "push"]
        /\ tracking' = [tracking EXCEPT ![a] = sha] /\ UNCHANGED <<commits, call, grants>>
    BY <1>3 DEF ResolveBase
  <2>4. CommitOf(a, sha, now) \in Mark /\ CommitOf(a, sha, now).parent = sha /\ CommitOf(a, sha, now).author = Author[a]
    <3>1. CommitOf(a, sha, now) \in Mark
      BY <1>0, <2>2, <2>3, AttemptMark
    <3> QED BY <3>1 DEF CommitOf
  <2> HIDE DEF sha
  <2>5. \A b \in Allocators : tracking[b] <= tracking'[b] /\ tracking'[b] <= Tip /\ tracking'[b] \in Nat
    BY <1>0, <2>2, <2>3 DEF ReserveTypes
  <2>6. ReserveTypes'
    BY <1>0, <2>1, <2>2, <2>3, <2>4, <2>5 DEF ReserveTypes, Tip
  <2>7. Based'
    <3> SUFFICES ASSUME NEW b \in Allocators, phase'[b] = "push"
                 PROVE  built'[b] \in Mark /\ built'[b].parent = tracking'[b] /\ built'[b].author = Author[b]
      BY DEF Based
    <3>1. CASE b = a
      BY <1>0, <2>1, <2>3, <2>4, <3>1 DEF ReserveTypes
    <3>2. CASE b # a
      BY <1>0, <2>1, <2>3, <3>2 DEF ReserveTypes, Based
    <3> QED BY <3>1, <3>2
  <2>8. OnceEach'
    <3>1. ASSUME NEW n \in 1..Len(grants) PROVE grants[n].mark.parent < tracking'[grants[n].to]
      <4>1. grants[n].to \in Allocators /\ grants[n].mark.parent \in Nat
        BY <1>0 DEF Grant, Mark
      <4>2. grants[n].mark.parent < tracking[grants[n].to] /\ tracking[grants[n].to] \in Nat
        BY <1>0, <4>1 DEF OnceEach, ReserveTypes
      <4> QED BY <2>5, <4>1, <4>2
    <3> QED BY <1>0, <2>3, <3>1 DEF OnceEach
  <2> QED BY <1>1, <2>3, <2>6, <2>7, <2>8
<1>4. ASSUME NEW a \in Allocators, Push(a) PROVE ReserveInv'
  <2> DEFINE m == built[a]
             g == [to |-> a, ids |-> ReservedIds(m), mark |-> m]
  <2>0. /\ Lands(a) /\ phase[a] = "push" /\ grants' = Append(grants, g) /\ Conclude(a)
        /\ tracking' = [tracking EXCEPT ![a] = Len(commits')]
    BY <1>4 DEF Push, Lands
  <2>1. /\ commits' \in Seq(Commit) /\ Tip' \in Nat \ {0} /\ Ledgers(commits') /\ Tip <= Tip'
        /\ Tip' = Len(commits') /\ m \in Mark /\ m.parent + 1 = Tip' /\ commits'[Tip'].mark = m
        /\ commits'[m.parent] = commits[m.parent] /\ commits'[Tip'].used = commits[Tip].used
        /\ \A h \in Grant : Placed(commits, h) => Placed(commits', h)
    BY <2>0, Landed
  <2>2. m.parent = tracking[a] /\ m.author = Author[a] /\ m.parent \in Nat \ {0} /\ m.kind \in Kinds
        /\ m.count \in Nat \ {0}
    BY <1>0, <2>0, <2>1 DEF Based, Mark
  <2> HIDE DEF m
  <2>3. commits'[Tip'].next[m.kind] = commits'[m.parent].next[m.kind] + m.count
    <3>1. commits'[Tip'].mark # NoMark /\ Tip' \in 1..Len(commits')
      BY <2>1, MarkedOrNot
    <3>2. Tip' - 1 = m.parent
      BY <2>1, <2>2
    <3> QED BY <2>1, <3>1, <3>2 DEF Ledgers
  <2>4. commits'[m.parent].next[m.kind] \in Nat
    <3>1. m.parent \in 1..Len(commits')
      BY <2>1, <2>2
    <3>2. commits'[m.parent] \in Commit
      BY <2>1, <3>1
    <3> QED BY <2>2, <3>2 DEF Commit
  <2>5. \A i \in ReservedIds(m) : i \in Nat /\ commits'[m.parent].next[m.kind] <= i /\ i < commits'[Tip'].next[m.kind]
    <3> DEFINE f == commits'[m.parent].next[m.kind]
               n == m.count
    <3>1. ReservedIds(m) = f .. (f + n - 1)
      BY <2>1 DEF ReservedIds, _read_ledger_at
    <3>2. commits'[Tip'].next[m.kind] = f + n /\ f \in Nat /\ n \in Nat \ {0}
      BY <2>2, <2>3, <2>4
    <3> HIDE DEF f, n
    <3>3. \A i \in f .. (f + n - 1) : i \in Nat /\ f <= i /\ i < f + n
      BY <3>2
    <3> QED BY <3>1, <3>2, <3>3 DEF f
  <2>6. g \in Grant /\ g.to = a /\ g.mark = m /\ g.ids = ReservedIds(m)
    BY <2>1, <2>5 DEF Grant
  <2> HIDE DEF g
  <2>7. Placed(commits', g)
    BY <2>1, <2>2, <2>5, <2>6 DEF Placed
  <2>8. /\ Len(grants') = Len(grants) + 1 /\ grants'[Len(grants) + 1] = g /\ grants' \in Seq(Grant)
        /\ \A n \in 1..Len(grants) : grants'[n] = grants[n] /\ n \in 1..Len(grants')
        /\ \A n \in 1..Len(grants') : n \in 1..Len(grants) \/ n = Len(grants) + 1
    BY <1>0, <2>0, <2>6 DEF ReserveTypes
  <2>9. \A b \in Allocators : tracking[b] <= tracking'[b] /\ tracking'[b] <= Tip' /\ tracking'[b] \in Nat
    BY <1>0, <2>0, <2>1 DEF ReserveTypes
  <2>10. ReserveTypes'
    BY <1>0, <2>0, <2>1, <2>8, <2>9, ConcludeTypes DEF ReserveTypes
  <2>11. Based'
    <3>1. \A b \in Allocators : phase'[b] = "push" => b # a /\ phase[b] = "push" /\ built'[b] = built[b]
      BY <1>0, <2>0, ConcludeTypes
    <3> QED BY <1>0, <2>0, <3>1 DEF Based, ReserveTypes
  <2>12. \A n \in 1..Len(grants) : /\ grants[n].to \in Allocators /\ grants[n].mark.parent \in Nat
                                   /\ tracking[grants[n].to] \in Nat
                                   /\ grants[n].mark.parent < tracking[grants[n].to]
    <3>1. \A n \in 1..Len(grants) : grants[n].to \in Allocators /\ grants[n].mark.parent \in Nat
      BY <1>0 DEF Grant, Mark
    <3> QED BY <1>0, <3>1 DEF OnceEach, ReserveTypes
  <2>13. tracking'[a] = Tip' /\ m.parent < Tip'
    BY <1>0, <2>0, <2>1, <2>2 DEF ReserveTypes
  <2>14. \A n \in 1..Len(grants') : grants'[n].mark.parent < tracking'[grants'[n].to]
    <3> SUFFICES ASSUME NEW n \in 1..Len(grants') PROVE grants'[n].mark.parent < tracking'[grants'[n].to]
      OBVIOUS
    <3>1. CASE n \in 1..Len(grants)
      BY <2>8, <2>9, <2>12, <3>1
    <3>2. CASE n = Len(grants) + 1
      BY <2>6, <2>8, <2>13, <3>2
    <3> QED BY <2>8, <3>1, <3>2
  <2>15. \A n \in 1..Len(grants) : grants[n].to = a => grants[n].mark.parent # g.mark.parent
    BY <2>2, <2>6, <2>12
  <2>16. \A x, y \in 1..Len(grants') :
           x # y /\ grants'[x].to = grants'[y].to => grants'[x].mark.parent # grants'[y].mark.parent
    <3> SUFFICES ASSUME NEW x \in 1..Len(grants'), NEW y \in 1..Len(grants'), x # y, grants'[x].to = grants'[y].to
                 PROVE  grants'[x].mark.parent # grants'[y].mark.parent
      OBVIOUS
    <3>1. CASE x \in 1..Len(grants) /\ y \in 1..Len(grants)
      BY <1>0, <2>8, <3>1 DEF OnceEach
    <3>2. CASE x \in 1..Len(grants) /\ y = Len(grants) + 1
      BY <2>6, <2>8, <2>15, <3>2
    <3>3. CASE y \in 1..Len(grants) /\ x = Len(grants) + 1
      BY <2>6, <2>8, <2>15, <3>3
    <3> QED BY <2>8, <3>1, <3>2, <3>3
  <2>17. \A n \in 1..Len(grants') : Placed(commits', grants'[n])
    BY <1>0, <2>1, <2>7, <2>8
  <2>18. Files(commits'[Tip'].used, grants')
    BY <1>0, <2>1, <2>8 DEF Files
  <2> QED BY <2>1, <2>10, <2>11, <2>14, <2>16, <2>17, <2>18 DEF ReserveInv, OnceEach
<1>5. ASSUME NEW a \in Allocators, PushTimesOut(a) PROVE ReserveInv'
  <2>0. Lands(a) /\ Conclude(a) /\ UNCHANGED <<grants, tracking>>
    BY <1>5 DEF PushTimesOut
  <2>1. /\ commits' \in Seq(Commit) /\ Tip' \in Nat \ {0} /\ Ledgers(commits') /\ Tip <= Tip'
        /\ commits'[Tip'].used = commits[Tip].used
        /\ \A h \in Grant : Placed(commits, h) => Placed(commits', h)
    BY <2>0, Landed
  <2>2. \A b \in Allocators : tracking'[b] <= Tip'
    BY <1>0, <2>0, <2>1 DEF ReserveTypes
  <2>3. ReserveTypes'
    BY <1>0, <2>0, <2>1, <2>2, ConcludeTypes DEF ReserveTypes
  <2>4. Based'
    <3>1. \A b \in Allocators : phase'[b] = "push" => b # a /\ phase[b] = "push" /\ built'[b] = built[b]
      BY <1>0, <2>0, ConcludeTypes
    <3> QED BY <1>0, <2>0, <3>1 DEF Based
  <2> QED BY <1>0, <2>0, <2>1, <2>3, <2>4 DEF ReserveInv, OnceEach
<1>6. ASSUME NEW a \in Allocators, PushRejected(a) PROVE ReserveInv'
  <2>1. UNCHANGED <<commits, tracking, grants>>
    BY <1>6 DEF PushRejected
  <2>2. OnceEach'
    BY <1>0, <2>1 DEF OnceEach
  <2>3. CASE Conclude(a)
    BY <1>0, <1>1, <2>1, <2>2, <2>3, ConcludeTypes DEF ReserveTypes, Tip, Based
  <2>4. CASE phase' = [phase EXCEPT ![a] = "resolve"] /\ UNCHANGED <<call, built>>
    <3>1. call[a] \in Orders
      BY <1>0, <1>6 DEF PushRejected, ReserveTypes
    <3> QED  BY <1>0, <1>1, <2>1, <2>2, <2>4, <3>1 DEF ReserveTypes, Tip, Based
  <2> QED  BY <1>6, <2>3, <2>4 DEF PushRejected
<1>7. ASSUME NEW a \in Allocators, GitFails(a) PROVE ReserveInv'
  BY <1>0, <1>1, <1>7, ConcludeTypes DEF GitFails, ReserveTypes, Tip, Based, OnceEach
<1>8. ASSUME NEW a \in Allocators, Work(a) PROVE ReserveInv'
  BY <1>0, <1>1, <1>8 DEF Work, ReserveTypes, Tip, Based, OnceEach
<1>9. ASSUME NEW a \in Allocators, Publish(a) PROVE ReserveInv'
  <2> DEFINE old == commits[Tip]
             UsedBy(n) == {[kind |-> grants[n].mark.kind, id |-> i, slug |-> grants[n].mark.slug] : i \in grants[n].ids}
  <2>0. /\ phase[a] = "idle" /\ UNCHANGED <<call, phase, built, grants>>
        /\ tracking' = [tracking EXCEPT ![a] = Tip + 1]
    BY <1>9 DEF Publish
  <2>1. PICK n \in DOMAIN grants :
          commits' = Append(commits, [next |-> old.next, used |-> old.used \cup UsedBy(n), mark |-> NoMark])
    BY <1>9 DEF Publish
  <2>2. n \in 1..Len(grants) /\ grants[n] \in Grant
    BY <1>0
  <2>3. old.next \in [Kinds -> Nat] /\ old.used \in SUBSET Used
    <3>1. old \in Commit
      BY <1>0
    <3> QED  BY <3>1 DEF Commit
  <2>4. UsedBy(n) \subseteq Used
    BY <2>2 DEF Grant, Mark, Used
  <2>5. \A u \in UsedBy(n) : u.kind = grants[n].mark.kind /\ u.slug = grants[n].mark.slug /\ u.id \in grants[n].ids
    OBVIOUS
  <2> HIDE DEF UsedBy
  <2> DEFINE c == [next |-> old.next, used |-> old.used \cup UsedBy(n), mark |-> NoMark]
  <2>6. c \in Commit
    BY <2>3, <2>4 DEF Commit
  <2>7. c.next = old.next /\ c.used = old.used \cup UsedBy(n) /\ c.mark = NoMark
    OBVIOUS
  <2>8. commits' = Append(commits, c)
    BY <2>1
  <2> HIDE DEF c
  <2>9. \A k \in Kinds : commits[Len(commits)].next[k] <= c.next[k]
    BY <1>0, <2>3, <2>7
  <2>10. commits # << >>
    BY <1>0
  <2>11. /\ Ledgers(commits') /\ commits' \in Seq(Commit)
         /\ \A h \in Grant : Placed(commits, h) => Placed(commits', h)
    BY <1>0, <2>6, <2>7, <2>8, <2>9, <2>10, LedgerGrows
  <2>12. Tip' = Tip + 1 /\ commits'[Tip'] = c
    BY <1>0, <2>6, <2>8 DEF Tip
  <2>13. \A b \in Allocators : tracking[b] <= tracking'[b] /\ tracking'[b] <= Tip' /\ tracking'[b] \in Nat
    BY <1>0, <2>0, <2>12 DEF ReserveTypes
  <2>14. ReserveTypes'
    BY <1>0, <2>0, <2>11, <2>12, <2>13 DEF ReserveTypes
  <2>15. Based'
    BY <1>0, <2>0 DEF Based, ReserveTypes
  <2>16. OnceEach'
    <3>1. ASSUME NEW x \in 1..Len(grants) PROVE grants[x].mark.parent < tracking'[grants[x].to]
      <4>1. grants[x].to \in Allocators /\ grants[x].mark.parent \in Nat
        BY <1>0 DEF Grant, Mark
      <4>2. grants[x].mark.parent < tracking[grants[x].to] /\ tracking[grants[x].to] \in Nat
        BY <1>0, <4>1 DEF OnceEach, ReserveTypes
      <4> QED BY <2>13, <4>1, <4>2
    <3> QED BY <1>0, <2>0, <3>1 DEF OnceEach
  <2>17. Files(c.used, grants)
    BY <1>0, <2>2, <2>5, <2>7 DEF Files
  <2> QED BY <1>0, <2>0, <2>11, <2>12, <2>14, <2>15, <2>16, <2>17 DEF ReserveInv
<1>10. CASE UNCHANGED reserveVars
  BY <1>0, <1>1, <1>10 DEF reserveVars, ReserveTypes, Tip, Based, OnceEach
<1> QED
  BY <1>2, <1>3, <1>4, <1>5, <1>6, <1>7, <1>8, <1>9, <1>10 DEF ReserveNext

(* The push is a compare-and-swap but for twins: for any number of clones,  *)
(* authors and orders, with stale references, lost answers, retries and     *)
(* publications, a number that is given out twice was asked for by one      *)
(* author in the same words, at the same base, in the same second; none     *)
(* that was in use at the start is given out, and no two slugs use one.     *)
THEOREM ReservedIdsAreUnique == ReserveSpec => []IdsAreUnique
<1>1. ReserveInit => ReserveInv
  <2> SUFFICES ASSUME ReserveInit PROVE ReserveInv
    OBVIOUS
  <2> DEFINE c == [next |-> Boot, used |-> InUse, mark |-> NoMark]
  <2>1. commits = <<c>> /\ grants = <<>>
    BY DEF ReserveInit, Boot
  <2>2. Boot \in [Kinds -> Nat]
    <3>1. Boot = [k \in Kinds |-> Boot[k]]
      BY DEF Boot, bootstrap_ledger
    <3> QED  BY <3>1, BootIsFree
  <2>3. c \in Commit /\ c.next = Boot /\ c.used = InUse /\ c.mark = NoMark
    BY <2>2, ReservationAssumption DEF Commit
  <2> HIDE DEF c
  <2>4. commits \in Seq(Commit) /\ Tip = 1 /\ commits[1] = c /\ Len(commits) = 1 /\ grants \in Seq(Grant)
    BY <2>1, <2>3 DEF Tip
  <2>5. Ledgers(commits)
    <3>1. \A k \in Kinds : Boot[k] \in Nat
      BY BootIsFree
    <3> QED BY <2>3, <2>4, <3>1 DEF Ledgers
  <2>6. ReserveTypes /\ Based
    BY <2>4 DEF ReserveInit, ReserveTypes, Based
  <2>7. OnceEach /\ Files(commits[Tip].used, grants) /\ \A n \in 1..Len(grants) : Placed(commits, grants[n])
    BY <2>1, <2>3, <2>4 DEF OnceEach, Files
  <2> QED  BY <2>5, <2>6, <2>7 DEF ReserveInv
<1>2. ReserveInv => IdsAreUnique
  BY GrantedAreUnique
<1>3. QED
  BY <1>1, <1>2, ReserveStep, PTL DEF ReserveSpec

-----------------------------------------------------------------------------
(* Inbound webhooks.                                                        *)

CacheEntry == [id : Deliveries, at : Nat]
Slot == {Idle} \cup [pc : {"body", "preprocess", "dispatch"}, id : Deliveries]

(* Pruning drops entries that are expired, and no other.                    *)
LEMMA PrunedAreOld ==
  ASSUME NEW cache \in Seq(CacheEntry), clock \in Nat
  PROVE  /\ Fresh(cache) \in Seq(CacheEntry)
         /\ Range(Fresh(cache)) \subseteq Range(cache)
         /\ \A c \in Range(cache) : c \in Range(Fresh(cache)) \/ clock - c.at > DedupTtl
<1> DEFINE Old(n) == clock - cache[n].at > DedupTtl
           Fits(n) == (\A m \in 1..(n - 1) : Old(m)) /\ (n <= Len(cache) => ~Old(n))
           first == CHOOSE n \in 1..(Len(cache) + 1) : Fits(n)
           T == {n \in 1..Len(cache) : ~Old(n)}
<1>1. \E n \in 1..(Len(cache) + 1) : Fits(n)
  <2>1. CASE T = {}
    <3> HIDE DEF Old
    <3>1. \A m \in 1..Len(cache) : Old(m)
      BY <2>1
    <3>2. Len(cache) + 1 \in 1..(Len(cache) + 1) /\ Fits(Len(cache) + 1)
      BY <3>1
    <3> QED  BY <3>2
  <2>2. CASE T # {}
    <3> HIDE DEF Old
    <3>1. T \subseteq Nat
      OBVIOUS
    <3>2. PICK x \in T : \A y \in T : x <= y
      BY <2>2, <3>1, LeastNumber
    <3>3. \A m \in 1..(x - 1) : m \in 1..Len(cache) /\ m \in Nat /\ x \in Nat /\ ~(x <= m)
      BY <3>2
    <3>4. \A m \in 1..(x - 1) : Old(m)
      BY <3>2, <3>3
    <3>5. x \in 1..(Len(cache) + 1) /\ Fits(x)
      BY <3>2, <3>4
    <3> QED  BY <3>5
  <2> QED  BY <2>1, <2>2
<1>2. first \in 1..(Len(cache) + 1) /\ Fits(first)
  <2> HIDE DEF Fits
  <2> QED  BY <1>1
<1>3. Fresh(cache) = SubSeq(cache, first, Len(cache))
  BY DEF Fresh
<1> HIDE DEF first
<1> DEFINE f == SubSeq(cache, first, Len(cache))
<1>4. f \in Seq(CacheEntry) /\ Len(f) = Len(cache) - first + 1
      /\ \A i \in 1..(Len(cache) - first + 1) : f[i] = cache[first + i - 1]
  BY <1>2
<1> HIDE DEF f
<1>5. Range(f) \subseteq Range(cache)
  <2>1. \A i \in 1..Len(f) : first + i - 1 \in 1..Len(cache) /\ f[i] = cache[first + i - 1]
    BY <1>2, <1>4
  <2> QED  BY <1>4, <2>1 DEF Range
<1>6. ASSUME NEW c \in Range(cache) PROVE c \in Range(f) \/ clock - c.at > DedupTtl
  <2>1. PICK n \in 1..Len(cache) : cache[n] = c
    BY DEF Range
  <2>2. CASE n < first
    BY <1>2, <2>1, <2>2
  <2>3. CASE ~(n < first)
    <3>1. n - first + 1 \in 1..Len(f) /\ f[n - first + 1] = cache[n]
      BY <1>2, <1>4, <2>3
    <3> QED  BY <1>4, <2>1, <3>1 DEF Range
  <2> QED  BY <2>2, <2>3
<1> QED  BY <1>3, <1>4, <1>5, <1>6 DEF f

(* A timestamped signature that verifies is not stale, nor from the future. *)
LEMMA VerifiedIsFresh ==
  ASSUME NEW d \in Deliveries, Verdict("right", d) = "ok"
  PROVE  ~ (scheme = "stripe" /\ Tolerance > 0
            /\ (clock - issued[d] > Tolerance \/ issued[d] - clock > Tolerance))
BY DEF Verdict

Exempt(d) == d \in evicted \/ (scheme = "hex" /\ d \in expired)
Gone(d) == scheme = "stripe" /\ issued[d] >= 0 /\ clock - issued[d] > Tolerance
Preparing(r, d) == request[r].pc = "preprocess" /\ request[r].id = d
Cached(d) == \E c \in Range(recent) : c.id = d

IngestTypes ==
  /\ clock \in Nat /\ scheme \in {"hex", "stripe"}
  /\ issued \in [Deliveries -> Int]
  /\ request \in [Requests -> Slot]
  /\ recent \in Seq(CacheEntry) /\ background \in Seq(Deliveries)
  /\ dispatched \in [Deliveries -> Nat]

(* What is under way or cached was signed, and what is cached was good then. *)
Signed ==
  /\ \A r \in Requests : request[r].pc # "idle" => issued[request[r].id] >= 0
  /\ \A c \in Range(recent) :
       issued[c.id] >= 0 /\ (scheme = "stripe" => issued[c.id] <= c.at + Tolerance)

(* A delivery is with one request between its admission and its dispatch,   *)
(* or once in the background, or was dispatched, and never two of these.    *)
OneCopy(d) ==
  /\ dispatched[d] <= 1
  /\ dispatched[d] > 0 => d \notin Range(background) /\ \A r \in Requests : ~Preparing(r, d)
  /\ d \in Range(background) => \A r \in Requests : ~Preparing(r, d)
  /\ \A i, j \in 1..Len(background) : background[i] = d /\ background[j] = d => i = j
  /\ \A q, r \in Requests : Preparing(q, d) /\ Preparing(r, d) => q = r

Admitted(d) ==
  dispatched[d] > 0 \/ d \in Range(background) \/ \E r \in Requests : Preparing(r, d)

(* ... and until its signature is stale it is remembered.                   *)
Remembered(d) == Admitted(d) => Cached(d) \/ Gone(d)

IngestInv ==
  /\ IngestTypes /\ Signed
  /\ \A d \in Deliveries : Exempt(d) \/ (OneCopy(d) /\ Remembered(d))

(* A step that leaves cache and clock alone.                                *)
LEMMA QuietStep ==
  ASSUME IngestInv, UNCHANGED <<scheme, clock, recent, expired, evicted>>,
         IngestTypes', Signed',
         \A d \in Deliveries : Gone(d) => Gone(d)',
         \A d \in Deliveries : OneCopy(d) => OneCopy(d)',
         \A d \in Deliveries : OneCopy(d) /\ Admitted(d)' => Admitted(d)
  PROVE  IngestInv'
<1>1. ASSUME NEW d \in Deliveries PROVE (Exempt(d) \/ (OneCopy(d) /\ Remembered(d)))'
  <2>1. CASE Exempt(d)
    BY <2>1 DEF Exempt
  <2>2. CASE OneCopy(d) /\ Remembered(d)
    BY <2>2 DEF Remembered, Cached
  <2> QED  BY <2>1, <2>2 DEF IngestInv
<1> QED  BY <1>1 DEF IngestInv

(* A request that ends, or reads a body, is not being prepared.             *)
LEMMA RequestEnds ==
  ASSUME IngestInv, NEW r \in Requests, request' = [request EXCEPT ![r] = Idle],
         UNCHANGED <<scheme, clock, issued, recent, expired, evicted, background, dispatched>>
  PROVE  IngestInv'
<1>1. \A q \in Requests : q # r => request'[q] = request[q]
  BY DEF IngestInv, IngestTypes
<1>2. request'[r] = Idle /\ request'[r].pc = "idle"
  BY DEF IngestInv, IngestTypes, Idle
<1>3. \A q \in Requests, d \in Deliveries : Preparing(q, d)' => Preparing(q, d)
  BY <1>1, <1>2 DEF Preparing
<1>4. IngestTypes'
  BY DEF IngestInv, IngestTypes, Slot
<1>5. Signed'
  BY <1>1, <1>2 DEF IngestInv, Signed
<1>6. \A d \in Deliveries : OneCopy(d) => OneCopy(d)'
  BY <1>3 DEF OneCopy
<1>7. \A d \in Deliveries : OneCopy(d) /\ Admitted(d)' => Admitted(d)
  BY <1>3 DEF Admitted
<1> QED  BY <1>4, <1>5, <1>6, <1>7, QuietStep DEF Gone

(* A delivery comes in, maybe signed just now.                              *)
LEMMA ArrivalStep ==
  ASSUME IngestInv, NEW r \in Requests, NEW d \in Deliveries, HandleWebhook(r, d)
  PROVE  IngestInv'
<1>0. PICK ahead \in 0..Ahead :
        issued' = [issued EXCEPT ![d] = IF issued[d] < 0 THEN clock + ahead ELSE issued[d]]
  BY DEF HandleWebhook, Sign
<1>1. issued' = [issued EXCEPT ![d] = IF issued[d] < 0 THEN clock + ahead ELSE issued[d]]
      /\ ahead \in Nat
      /\ UNCHANGED <<scheme, clock, recent, expired, evicted, background, dispatched>>
      /\ (request' = [request EXCEPT ![r] = [pc |-> "body", id |-> d]] \/ request' = request)
  BY <1>0, SenderClock DEF HandleWebhook, settled
<1>2. clock \in Nat /\ issued \in [Deliveries -> Int] /\ request \in [Requests -> Slot]
      /\ recent \in Seq(CacheEntry)
  BY DEF IngestInv, IngestTypes
<1>3. issued' \in [Deliveries -> Int] /\ issued'[d] >= 0
      /\ \A x \in Deliveries : issued[x] >= 0 => issued'[x] = issued[x]
  BY <1>1, <1>2
<1>4. \A q \in Requests, x \in Deliveries : Preparing(q, x)' <=> Preparing(q, x) /\ request'[q] = request[q]
  BY <1>1, <1>2 DEF Preparing
<1>5. request' \in [Requests -> Slot]
  BY <1>1, <1>2 DEF Slot
<1>6. IngestTypes'
  BY <1>1, <1>3, <1>5 DEF IngestInv, IngestTypes
<1>7. \A q \in Requests : request'[q].pc # "idle" => issued'[request'[q].id] >= 0
  <2> SUFFICES ASSUME NEW q \in Requests, request'[q].pc # "idle" PROVE issued'[request'[q].id] >= 0
    OBVIOUS
  <2>1. CASE request'[q] = [pc |-> "body", id |-> d]
    BY <2>1, <1>3
  <2>2. CASE request'[q] = request[q]
    <3>1. request[q].id \in Deliveries /\ issued[request[q].id] >= 0
      BY <1>2, <2>2 DEF Slot, Idle, IngestInv, Signed
    <3> QED  BY <1>3, <2>2, <3>1
  <2> QED  BY <1>1, <1>2, <2>1, <2>2
<1>8. \A c \in Range(recent) : c.id \in Deliveries
  <2>1. \A c \in Range(recent) : c \in CacheEntry
    BY <1>2 DEF Range
  <2> QED  BY <2>1 DEF CacheEntry
<1>9. Signed'
  BY <1>1, <1>3, <1>7, <1>8 DEF IngestInv, Signed
<1>10. \A x \in Deliveries : Gone(x) => Gone(x)'
  BY <1>1, <1>3 DEF Gone
<1>11. \A x \in Deliveries : OneCopy(x) => OneCopy(x)'
  BY <1>1, <1>4 DEF OneCopy
<1>12. \A x \in Deliveries : OneCopy(x) /\ Admitted(x)' => Admitted(x)
  BY <1>1, <1>4 DEF Admitted
<1> QED  BY <1>1, <1>6, <1>9, <1>10, <1>11, <1>12, QuietStep

(* A delivery that is admitted is in the cache, and what leaves the cache   *)
(* is expired or made room.                                                 *)
LEMMA CacheAfter ==
  ASSUME IngestInv, DedupTtl > 0, NEW d \in Deliveries, Seen(d),
         expired' = expired \cup {c.id : c \in Range(recent) \ Range(Fresh(recent))},
         evicted' = evicted \cup {c.id : c \in Range(Fresh(recent)) \ Range(recent')}
  PROVE  /\ recent' \in Seq(CacheEntry)
         /\ Range(recent') \subseteq Range(recent) \cup {[id |-> d, at |-> clock]}
         /\ \E c \in Range(recent') : c.id = d
         /\ \A c \in Range(recent) :
              c \in Range(recent') \/ c.id \in evicted' \/ (c.id \in expired' /\ clock - c.at > DedupTtl)
         /\ \A c \in Range(recent) : c \in Range(Fresh(recent)) \/ (c.id \in expired' /\ clock - c.at > DedupTtl)
<1> DEFINE f == Fresh(recent)
           n == [id |-> d, at |-> clock]
<1>1. clock \in Nat /\ recent \in Seq(CacheEntry) /\ DedupCacheSize \in Nat \ {0}
  BY WebhookConfig DEF IngestInv, IngestTypes, ListenerConfigOk
<1>2. f \in Seq(CacheEntry) /\ Range(f) \subseteq Range(recent)
      /\ \A c \in Range(recent) : c \in Range(f) \/ clock - c.at > DedupTtl
  BY <1>1, PrunedAreOld
<1>3. n \in CacheEntry
  BY <1>1 DEF CacheEntry
<1>4. recent' = IF \E c \in Range(f) : c.id = d THEN f
                ELSE IF Len(Append(f, n)) > DedupCacheSize THEN Tail(Append(f, n)) ELSE Append(f, n)
  BY DEF Seen, Trim
<1>5. \A c \in Range(recent) : c \in Range(f) \/ (c.id \in expired' /\ clock - c.at > DedupTtl)
  <2>1. \A c \in Range(recent) : c \in Range(f) \/ c.id \in expired'
    OBVIOUS
  <2> HIDE DEF f
  <2> QED  BY <1>2, <2>1
<1>6. \A c \in Range(f) : c \in Range(recent') \/ c.id \in evicted'
  OBVIOUS
<1> HIDE DEF f, n
<1>7. recent' \in Seq(CacheEntry) /\ Range(recent') \subseteq Range(f) \cup {n}
      /\ \E c \in Range(recent') : c.id = d
  <2> DEFINE g == Append(f, n)
  <2>1. CASE \E c \in Range(f) : c.id = d
    BY <1>2, <1>4, <2>1
  <2>2. CASE ~(\E c \in Range(f) : c.id = d)
    <3>1. g \in Seq(CacheEntry) /\ Len(g) = Len(f) + 1 /\ g[Len(f) + 1] = n
          /\ \A i \in 1..Len(f) : g[i] = f[i]
      BY <1>2, <1>3
    <3>2. \A i \in 1..Len(g) : i \in 1..Len(f) \/ i = Len(f) + 1
      BY <1>2, <3>1
    <3>3. Range(g) \subseteq Range(f) \cup {n}
      BY <1>2, <3>1, <3>2 DEF Range
    <3>4. n.id = d
      BY DEF n
    <3> HIDE DEF g
    <3>5. CASE Len(g) > DedupCacheSize
      <4>1. recent' = Tail(g) /\ Len(g) >= 2 /\ Len(f) >= 1
        BY <1>1, <1>2, <1>4, <2>2, <3>1, <3>5 DEF g
      <4>2. Tail(g) \in Seq(CacheEntry) /\ Len(Tail(g)) = Len(f) /\ \A i \in 1..Len(f) : Tail(g)[i] = g[i + 1]
        BY <3>1, <4>1
      <4>3. \A i \in 1..Len(f) : i + 1 \in 1..Len(g)
        BY <1>2, <3>1
      <4>4. Range(Tail(g)) \subseteq Range(g)
        BY <3>1, <4>2, <4>3 DEF Range
      <4>5. Len(f) \in 1..Len(Tail(g)) /\ Tail(g)[Len(f)] = n
        BY <1>2, <3>1, <4>1, <4>2
      <4>6. n \in Range(Tail(g))
        BY <4>2, <4>5 DEF Range
      <4> QED  BY <3>3, <3>4, <4>1, <4>2, <4>4, <4>6
    <3>6. CASE ~(Len(g) > DedupCacheSize)
      <4>1. recent' = g
        BY <1>4, <2>2, <3>6 DEF g
      <4>2. Len(f) + 1 \in 1..Len(g)
        BY <1>2, <3>1
      <4>3. n \in Range(g)
        BY <3>1, <4>2 DEF Range
      <4> QED  BY <3>1, <3>3, <3>4, <4>1, <4>3
    <3> QED  BY <3>5, <3>6
  <2> QED  BY <2>1, <2>2
<1> QED  BY <1>2, <1>5, <1>6, <1>7 DEF f, n

LEMMA AdmitStep ==
  ASSUME DedupTtl > 0, Tolerance > 0, 2 * Tolerance <= DedupTtl, IngestInv, NEW r \in Requests, Admit(r),
         NEW d, d = request[r].id
  PROVE  IngestInv'
<1>1. /\ request[r].pc = "body" /\ Verdict("right", d) = "ok" /\ Seen(d)
      /\ expired' = expired \cup {c.id : c \in Range(recent) \ Range(Fresh(recent))}
      /\ evicted' = evicted \cup {c.id : c \in Range(Fresh(recent)) \ Range(recent')}
      /\ UNCHANGED <<scheme, issued, background, clock, dispatched>>
  BY DEF Admit, settled
<1>2. clock \in Nat /\ issued \in [Deliveries -> Int] /\ request \in [Requests -> Slot]
      /\ recent \in Seq(CacheEntry) /\ Tolerance \in Nat /\ DedupTtl \in Nat
  BY WebhookConfig DEF IngestInv, IngestTypes, ListenerConfigOk, EndpointConfigOk
<1>3. d \in Deliveries /\ issued[d] >= 0
  BY <1>1, <1>2 DEF Slot, Idle, IngestInv, Signed
<1>4. \/ request' = [request EXCEPT ![r] = Idle]
      \/ ~IsDuplicate(d) /\ request' = [request EXCEPT ![r].pc = "preprocess"]
  BY DEF Admit, Answer, Reject, At
<1>5. ~Gone(d)
  BY <1>1, <1>2, <1>3, VerifiedIsFresh DEF Gone
<1>6. /\ recent' \in Seq(CacheEntry)
      /\ Range(recent') \subseteq Range(recent) \cup {[id |-> d, at |-> clock]}
      /\ \E c \in Range(recent') : c.id = d
      /\ \A c \in Range(recent) :
           c \in Range(recent') \/ c.id \in evicted' \/ (c.id \in expired' /\ clock - c.at > DedupTtl)
      /\ \A c \in Range(recent) : c \in Range(Fresh(recent)) \/ (c.id \in expired' /\ clock - c.at > DedupTtl)
  BY <1>1, <1>3, CacheAfter
<1>7. \A c \in Range(recent) : c.id \in Deliveries /\ c.at \in Nat /\ issued[c.id] \in Int
                               /\ issued[c.id] >= 0
                               /\ (scheme = "stripe" => issued[c.id] <= c.at + Tolerance)
  <2>1. \A c \in Range(recent) : c \in CacheEntry
    BY <1>2 DEF Range
  <2>2. \A c \in Range(recent) :
          issued[c.id] >= 0 /\ (scheme = "stripe" => issued[c.id] <= c.at + Tolerance)
    BY DEF IngestInv, Signed
  <2> QED  BY <1>2, <2>1, <2>2 DEF CacheEntry
<1>8. \A c \in Range(recent) : scheme = "stripe" /\ clock - c.at > DedupTtl => Gone(c.id)
  <2> SUFFICES ASSUME NEW c \in Range(recent), scheme = "stripe", clock - c.at > DedupTtl PROVE Gone(c.id)
    OBVIOUS
  <2>1. clock - issued[c.id] > Tolerance
    BY <1>2, <1>7
  <2> QED  BY <1>7, <2>1 DEF Gone
<1>9. \A x \in Deliveries : Gone(x)' <=> Gone(x)
  BY <1>1 DEF Gone
<1>10. \A x \in Deliveries : Exempt(x) => Exempt(x)'
  BY <1>1 DEF Exempt
<1>11. \A x \in Deliveries : Cached(x) => Cached(x)' \/ Exempt(x)' \/ Gone(x)
  <2> SUFFICES ASSUME NEW x \in Deliveries, NEW c \in Range(recent), c.id = x
               PROVE  Cached(x)' \/ Exempt(x)' \/ Gone(x)
    BY DEF Cached
  <2>1. CASE c \in Range(recent') \/ c.id \in evicted'
    BY <2>1 DEF Cached, Exempt
  <2>2. CASE c.id \in expired' /\ clock - c.at > DedupTtl
    <3>1. scheme' = "hex" \/ scheme' = "stripe"
      BY <1>1 DEF IngestInv, IngestTypes
    <3> QED  BY <1>1, <1>8, <2>2, <3>1 DEF Exempt
  <2> QED  BY <1>6, <2>1, <2>2
<1>12. ~IsDuplicate(d) /\ ~Exempt(d)' => ~Admitted(d)
  <2> SUFFICES ASSUME ~IsDuplicate(d), ~Exempt(d)', Admitted(d) PROVE FALSE
    OBVIOUS
  <2>1. Cached(d)
    BY <1>3, <1>5, <1>10 DEF IngestInv, Remembered
  <2>2. PICK c \in Range(recent) : c.id = d
    BY <2>1 DEF Cached
  <2>3. c \notin Range(Fresh(recent))
    BY <2>2 DEF IsDuplicate
  <2>4. d \in expired' /\ clock - c.at > DedupTtl
    BY <1>6, <2>2, <2>3
  <2>5. scheme = "stripe"
    <3>1. scheme \in {"hex", "stripe"} /\ scheme' = scheme
      BY <1>1 DEF IngestInv, IngestTypes
    <3> QED  BY <2>4, <3>1 DEF Exempt
  <2> QED  BY <1>5, <1>8, <2>2, <2>4, <2>5
<1>13. request' \in [Requests -> Slot] /\ (\A q \in Requests : q # r => request'[q] = request[q])
       /\ (request'[r] = Idle \/ (~IsDuplicate(d) /\ request'[r] = [pc |-> "preprocess", id |-> d]))
  <2>1. request[r] = [pc |-> "body", id |-> d]
    BY <1>1, <1>2 DEF Slot, Idle
  <2>2. [request EXCEPT ![r].pc = "preprocess"] = [request EXCEPT ![r] = [pc |-> "preprocess", id |-> d]]
    <3>1. [request EXCEPT ![r].pc = "preprocess"]
          = [request EXCEPT ![r] = [request[r] EXCEPT !.pc = "preprocess"]]
      OBVIOUS
    <3>2. [request[r] EXCEPT !.pc = "preprocess"] = [pc |-> "preprocess", id |-> d]
      BY <2>1
    <3> QED  BY <3>1, <3>2
  <2>3. CASE request' = [request EXCEPT ![r] = Idle]
    BY <1>2, <2>3 DEF Slot
  <2>4. CASE ~IsDuplicate(d) /\ request' = [request EXCEPT ![r] = [pc |-> "preprocess", id |-> d]]
    BY <1>2, <1>3, <2>4 DEF Slot
  <2> QED  BY <1>4, <2>2, <2>3, <2>4
<1>14. IngestTypes'
  BY <1>1, <1>6, <1>13 DEF IngestInv, IngestTypes
<1>15. Signed'
  <2>1. \A q \in Requests : request'[q].pc # "idle" => issued[request'[q].id] >= 0
    BY <1>3, <1>13 DEF IngestInv, Signed, Idle
  <2>2. scheme = "stripe" => issued[d] <= clock + Tolerance
    BY <1>1, <1>2, <1>3, VerifiedIsFresh
  <2> QED  BY <1>1, <1>3, <1>6, <1>7, <2>1, <2>2 DEF Signed
<1>16. ASSUME NEW x \in Deliveries PROVE (Exempt(x) \/ (OneCopy(x) /\ Remembered(x)))'
  <2> SUFFICES ASSUME ~Exempt(x)' PROVE OneCopy(x)' /\ Remembered(x)'
    OBVIOUS
  <2>1. OneCopy(x) /\ Remembered(x)
    BY <1>10 DEF IngestInv
  <2>2. \A q \in Requests : Preparing(q, x)' => Preparing(q, x) \/ (q = r /\ x = d /\ ~IsDuplicate(d))
    BY <1>13 DEF Preparing, Idle
  <2>3. CASE x = d /\ ~IsDuplicate(d)
    <3>1. ~Admitted(x)
      BY <1>12, <2>3
    <3>2. \A q \in Requests : Preparing(q, x)' => q = r
      BY <2>2, <3>1 DEF Admitted
    <3>3. OneCopy(x)'
      BY <1>1, <2>1, <3>1, <3>2 DEF OneCopy, Admitted
    <3>4. Cached(x)'
      BY <1>6, <2>3 DEF Cached
    <3> QED  BY <3>3, <3>4 DEF Remembered
  <2>4. CASE ~(x = d /\ ~IsDuplicate(d))
    <3>1. \A q \in Requests : Preparing(q, x)' => Preparing(q, x)
      BY <2>2, <2>4
    <3>2. OneCopy(x)'
      BY <1>1, <2>1, <3>1 DEF OneCopy
    <3>3. Admitted(x)' => Admitted(x)
      BY <1>1, <3>1 DEF Admitted
    <3>4. Remembered(x)'
      BY <1>9, <1>11, <2>1, <3>3 DEF Remembered
    <3> QED  BY <3>2, <3>4
  <2> QED  BY <2>3, <2>4
<1> QED  BY <1>14, <1>15, <1>16 DEF IngestInv

LEMMA BuiltStep == ASSUME IngestInv, NEW r \in Requests, Built(r) PROVE IngestInv'
<1>1. request[r].pc = "preprocess" /\ UNCHANGED <<scheme, clock, issued, recent, expired, evicted>>
  BY DEF Built, settled
<1>2. PICK d : d = request[r].id
  OBVIOUS
<1>3. d \in Deliveries /\ request[r] = [pc |-> "preprocess", id |-> d] /\ Preparing(r, d)
      /\ request \in [Requests -> Slot] /\ background \in Seq(Deliveries) /\ dispatched \in [Deliveries -> Nat]
  BY <1>1, <1>2 DEF IngestInv, IngestTypes, Slot, Idle, Preparing
<1>4. CASE request' = [request EXCEPT ![r] = Idle] /\ UNCHANGED <<background, dispatched>>
  BY <1>1, <1>4, RequestEnds
<1>5. ASSUME (\A q \in Requests : q # r => request'[q] = request[q]),
             request'[r] \in Slot /\ request'[r].pc # "preprocess",
             request'[r].pc # "idle" => request'[r].id = d,
             request' \in [Requests -> Slot],
             background' \in Seq(Deliveries), dispatched' \in [Deliveries -> Nat],
             OneCopy(d) => dispatched'[d] <= 1 /\ (dispatched'[d] > 0 => d \notin Range(background'))
                /\ \A i, j \in 1..Len(background') : background'[i] = d /\ background'[j] = d => i = j,
             \A x \in Deliveries : x # d =>
               /\ dispatched'[x] = dispatched[x] /\ (x \in Range(background') => x \in Range(background))
               /\ OneCopy(x) => \A i, j \in 1..Len(background') : background'[i] = x /\ background'[j] = x => i = j
      PROVE  IngestInv'
  <2>1. \A q \in Requests, x \in Deliveries : Preparing(q, x)' => Preparing(q, x) /\ q # r
    BY <1>5 DEF Preparing
  <2>2. IngestTypes'
    BY <1>1, <1>5 DEF IngestInv, IngestTypes
  <2>3. Signed'
    <3>1. issued[d] >= 0
      BY <1>1, <1>3 DEF IngestInv, Signed
    <3>2. \A q \in Requests : request'[q].pc # "idle" => issued[request'[q].id] >= 0
      BY <1>5, <3>1 DEF IngestInv, Signed
    <3> QED  BY <1>1, <3>2 DEF IngestInv, Signed
  <2>4. ASSUME NEW x \in Deliveries, OneCopy(x) PROVE OneCopy(x)'
    <3>1. CASE x = d
      <4>1. \A q \in Requests : ~Preparing(q, d)'
        BY <1>3, <2>1, <2>4, <3>1 DEF OneCopy
      <4> QED  BY <1>5, <2>4, <3>1, <4>1 DEF OneCopy
    <3>2. CASE x # d
      BY <1>5, <2>1, <2>4, <3>2 DEF OneCopy
    <3> QED  BY <3>1, <3>2
  <2>5. \A x \in Deliveries : Admitted(x)' => Admitted(x)
    BY <1>3, <1>5, <2>1 DEF Admitted
  <2>6. \A x \in Deliveries : Gone(x) => Gone(x)'
    BY <1>1 DEF Gone
  <2> QED  BY <1>1, <2>2, <2>3, <2>4, <2>5, <2>6, QuietStep
<1>6. CASE background' = Append(background, d) /\ request' = [request EXCEPT ![r] = Idle] /\ UNCHANGED dispatched
  <2>1. background' \in Seq(Deliveries) /\ Len(background') = Len(background) + 1
        /\ background'[Len(background) + 1] = d /\ \A i \in 1..Len(background) : background'[i] = background[i]
    BY <1>3, <1>6
  <2>2. \A i \in 1..Len(background') : i \in 1..Len(background) \/ i = Len(background) + 1
    BY <1>3, <2>1
  <2>3. \A x \in Deliveries : x # d =>
          /\ (x \in Range(background') => x \in Range(background))
          /\ \A i \in 1..Len(background') : background'[i] = x => i \in 1..Len(background) /\ background[i] = x
    <3>1. \A x \in Deliveries : x # d => \A i \in 1..Len(background') :
            background'[i] = x => i \in 1..Len(background) /\ background[i] = x
      BY <2>1, <2>2
    <3>2. \A x \in Range(background') : \E i \in 1..Len(background') : background'[i] = x
      BY <2>1 DEF Range
    <3>3. \A i \in 1..Len(background) : background[i] \in Range(background)
      BY <1>3 DEF Range
    <3> QED  BY <3>1, <3>2, <3>3
  <2>4. OneCopy(d) => dispatched[d] = 0 /\ \A i \in 1..Len(background) : background[i] # d
    <3>1. OneCopy(d) => ~(dispatched[d] > 0) /\ d \notin Range(background)
      BY <1>3 DEF OneCopy
    <3> QED  BY <1>3, <3>1 DEF Range
  <2>5. OneCopy(d) => \A i, j \in 1..Len(background') : background'[i] = d /\ background'[j] = d => i = j
    BY <2>1, <2>2, <2>4
  <2>6. \A x \in Deliveries : x # d /\ OneCopy(x) =>
          \A i, j \in 1..Len(background') : background'[i] = x /\ background'[j] = x => i = j
    BY <2>3 DEF OneCopy
  <2>7. request'[r] = Idle /\ Idle \in Slot /\ Idle.pc = "idle" /\ request' \in [Requests -> Slot]
        /\ \A q \in Requests : q # r => request'[q] = request[q]
    BY <1>3, <1>6 DEF Slot, Idle
  <2> QED  BY <1>3, <1>5, <1>6, <2>1, <2>3, <2>4, <2>5, <2>6, <2>7
<1>7. CASE /\ dispatched' = IF Heard THEN [dispatched EXCEPT ![d] = dispatched[d] + 1] ELSE dispatched
           /\ request' = [request EXCEPT ![r].pc = "dispatch"]
           /\ UNCHANGED background
  <2>1. request'[r] = [pc |-> "dispatch", id |-> d] /\ \A q \in Requests : q # r => request'[q] = request[q]
    BY <1>3, <1>7
  <2>2. request' \in [Requests -> Slot] /\ request'[r] \in Slot
    <3>1. [pc |-> "dispatch", id |-> d] \in Slot
      BY <1>3 DEF Slot
    <3>2. request' = [q \in Requests |-> request'[q]]
      BY <1>3, <1>7
    <3> QED  BY <1>3, <2>1, <3>1, <3>2
  <2>3. dispatched' \in [Deliveries -> Nat] /\ (\A x \in Deliveries : x # d => dispatched'[x] = dispatched[x])
        /\ dispatched'[d] <= dispatched[d] + 1
    BY <1>3, <1>7
  <2>4. OneCopy(d) => dispatched[d] = 0 /\ d \notin Range(background)
    <3>1. OneCopy(d) => ~(dispatched[d] > 0) /\ d \notin Range(background)
      BY <1>3 DEF OneCopy
    <3> QED  BY <1>3, <3>1
  <2>5. OneCopy(d) => dispatched'[d] <= 1
    BY <1>3, <2>3, <2>4
  <2>6. \A x \in Deliveries : OneCopy(x) =>
          \A i, j \in 1..Len(background) : background[i] = x /\ background[j] = x => i = j
    BY DEF OneCopy
  <2> QED  BY <1>3, <1>5, <1>7, <2>1, <2>2, <2>3, <2>4, <2>5, <2>6
<1> QED
  BY <1>2, <1>4, <1>6, <1>7 DEF Built, Answer, Reject, At

LEMMA BackgroundStep ==
  ASSUME IngestInv, BackgroundDispatch \/ StopListener
  PROVE  IngestInv'
<1>1. background # <<>> /\ UNCHANGED <<scheme, clock, issued, request, recent, expired, evicted>>
  BY DEF BackgroundDispatch, StopListener, settled
<1>2. background \in Seq(Deliveries) /\ dispatched \in [Deliveries -> Nat]
  BY DEF IngestInv, IngestTypes
<1>3. Signed' /\ (\A x \in Deliveries : Gone(x) => Gone(x)')
      /\ \A q \in Requests, x \in Deliveries : Preparing(q, x)' <=> Preparing(q, x)
  BY <1>1 DEF IngestInv, Signed, Gone, Preparing
<1>4. CASE StopListener
  <2>1. background' = <<>> /\ dispatched' = dispatched
    BY <1>4 DEF StopListener
  <2>2. \A x \in Deliveries : x \notin Range(background')
    BY <2>1 DEF Range
  <2>3. IngestTypes'
    BY <1>1, <2>1 DEF IngestInv, IngestTypes
  <2>4. \A x \in Deliveries : OneCopy(x) => OneCopy(x)'
    BY <1>3, <2>1, <2>2 DEF OneCopy
  <2>5. \A x \in Deliveries : Admitted(x)' => Admitted(x)
    BY <1>3, <2>1, <2>2 DEF Admitted
  <2> QED  BY <1>1, <1>3, <2>3, <2>4, <2>5, QuietStep
<1>5. CASE BackgroundDispatch
  <2>1. PICK d \in Deliveries : d = background[1] /\ d \in Range(background)
    BY <1>1, <1>2 DEF Range
  <2>2. /\ dispatched' = IF Heard THEN [dispatched EXCEPT ![d] = dispatched[d] + 1] ELSE dispatched
        /\ background' = Tail(background)
    BY <1>5, <1>2, <2>1 DEF BackgroundDispatch
  <2>3. background' \in Seq(Deliveries) /\ Len(background') = Len(background) - 1 /\ Len(background) >= 1
        /\ \A i \in 1..(Len(background) - 1) : background'[i] = background[i + 1]
    <3>1. Len(background) >= 1
      BY <1>1, <1>2, EmptySeq
    <3> QED  BY <1>2, <2>2, <3>1, HeadTailProperties
  <2>4. \A i \in 1..Len(background') : i + 1 \in 1..Len(background) /\ background'[i] = background[i + 1]
    <3> SUFFICES ASSUME NEW i \in 1..Len(background')
                 PROVE  i + 1 \in 1..Len(background) /\ background'[i] = background[i + 1]
      OBVIOUS
    <3>1. Len(background) \in Nat /\ i \in 1..(Len(background) - 1)
      BY <1>2, <2>3
    <3> QED  BY <2>3, <3>1
  <2>5. dispatched' \in [Deliveries -> Nat] /\ (\A x \in Deliveries : x # d => dispatched'[x] = dispatched[x])
        /\ dispatched'[d] <= dispatched[d] + 1
    <3>1. CASE Heard
      BY <1>2, <2>2, <3>1
    <3>2. CASE ~Heard
      BY <1>2, <2>2, <3>2
    <3> QED  BY <3>1, <3>2
  <2>6. Range(background') \subseteq Range(background)
    <3>1. \A x \in Range(background') : \E i \in 1..Len(background') : background'[i] = x
      BY <2>3 DEF Range
    <3>2. \A i \in 1..Len(background) : background[i] \in Range(background)
      BY <1>2 DEF Range
    <3> QED  BY <2>4, <3>1, <3>2
  <2>7. IngestTypes'
    BY <1>1, <2>3, <2>5 DEF IngestInv, IngestTypes
  <2>8. OneCopy(d) => d \notin Range(background') /\ dispatched[d] = 0
    <3> SUFFICES ASSUME OneCopy(d) PROVE d \notin Range(background') /\ dispatched[d] = 0
      OBVIOUS
    <3>1. ~(dispatched[d] > 0)
      BY <2>1 DEF OneCopy
    <3>2. \A i \in 1..Len(background') : background'[i] # d
      <4> SUFFICES ASSUME NEW i \in 1..Len(background'), background'[i] = d PROVE FALSE
        OBVIOUS
      <4>1. 1 \in 1..Len(background) /\ i + 1 \in 1..Len(background) /\ background[i + 1] = d
            /\ background[1] = d /\ i + 1 # 1
        BY <1>2, <2>1, <2>3, <2>4
      <4> QED  BY <4>1 DEF OneCopy
    <3>3. d \in Deliveries /\ dispatched[d] \in Nat
      BY DEF IngestInv, IngestTypes
    <3>4. dispatched[d] = 0
      BY <3>1, <3>3
    <3>5. DOMAIN background' = 1..Len(background')
      BY <2>3
    <3>6. ASSUME d \in Range(background') PROVE FALSE
      BY <3>2, <3>5, <3>6 DEF Range
    <3> QED  BY <3>4, <3>6
  <2>9. ASSUME NEW x \in Deliveries, OneCopy(x) PROVE OneCopy(x)'
    <3>1. \A i, j \in 1..Len(background') : background'[i] = x /\ background'[j] = x => i = j
      <4> SUFFICES ASSUME NEW i \in 1..Len(background'), NEW j \in 1..Len(background'),
                          background'[i] = x, background'[j] = x
                   PROVE  i = j
        OBVIOUS
      <4>1. i + 1 = j + 1
        BY <2>4, <2>9 DEF OneCopy
      <4> QED  BY <1>2, <2>3, <4>1
    <3>2. CASE x = d
      <4>1. \A q \in Requests : ~Preparing(q, d)
        BY <2>1, <2>9, <3>2 DEF OneCopy
      <4>2. dispatched'[d] <= 1 /\ d \notin Range(background')
        BY <1>2, <2>5, <2>8, <2>9, <3>2
      <4> QED  BY <1>3, <3>1, <3>2, <4>1, <4>2 DEF OneCopy
    <3>3. CASE x # d
      BY <1>3, <2>5, <2>6, <2>9, <3>1, <3>3 DEF OneCopy
    <3> QED  BY <3>2, <3>3
  <2>10. \A x \in Deliveries : Admitted(x)' => Admitted(x)
    BY <1>3, <2>1, <2>5, <2>6 DEF Admitted
  <2> QED  BY <1>1, <1>3, <2>7, <2>9, <2>10, QuietStep
<1> QED  BY <1>4, <1>5

LEMMA IngestStep ==
  ASSUME DedupTtl > 0, Tolerance > 0, 2 * Tolerance <= DedupTtl, IngestInv, [IngestNext]_ingestVars
  PROVE  IngestInv'
<1>1. ASSUME NEW r \in Requests, NEW d \in Deliveries, HandleWebhook(r, d) PROVE IngestInv'
  BY <1>1, ArrivalStep
<1>2. ASSUME NEW r \in Requests, Refuse(r) PROVE IngestInv'
  BY <1>2, RequestEnds DEF Refuse, Reject, settled
<1>3. ASSUME NEW r \in Requests, Admit(r) PROVE IngestInv'
  BY <1>3, AdmitStep
<1>4. ASSUME NEW r \in Requests, Built(r) PROVE IngestInv'
  BY <1>4, BuiltStep
<1>5. ASSUME NEW r \in Requests, Dispatched(r) PROVE IngestInv'
  BY <1>5, RequestEnds DEF Dispatched, Answer, settled
<1>6. CASE BackgroundDispatch \/ StopListener
  BY <1>6, BackgroundStep
<1>7. CASE ClockTicks
  <2>1. clock' = clock + 1 /\ clock \in Nat
        /\ UNCHANGED <<scheme, issued, request, recent, background, dispatched, expired, evicted>>
    BY <1>7 DEF ClockTicks, settled, IngestInv, IngestTypes
  <2>2. issued \in [Deliveries -> Int] /\ Tolerance \in Nat
    BY WebhookConfig DEF IngestInv, IngestTypes, EndpointConfigOk
  <2>4. IngestTypes'
    BY <2>1 DEF IngestInv, IngestTypes
  <2>5. Signed'
    BY <2>1 DEF IngestInv, Signed
  <2>6. \A x \in Deliveries : Gone(x) => Gone(x)'
    BY <2>1, <2>2 DEF Gone
  <2>7. ASSUME NEW x \in Deliveries PROVE (Exempt(x) \/ (OneCopy(x) /\ Remembered(x)))'
    <3>1. CASE Exempt(x)
      BY <2>1, <3>1 DEF Exempt
    <3>2. CASE OneCopy(x) /\ Remembered(x)
      BY <2>1, <2>6, <3>2 DEF OneCopy, Remembered, Admitted, Cached, Preparing
    <3> QED  BY <3>1, <3>2 DEF IngestInv
  <2> QED  BY <2>4, <2>5, <2>7 DEF IngestInv
<1>8. CASE UNCHANGED ingestVars
  <2>1. IngestTypes' /\ Signed' /\ (\A x \in Deliveries : Gone(x) => Gone(x)')
    BY <1>8 DEF ingestVars, settled, IngestInv, IngestTypes, Signed, Gone
  <2>2. \A x \in Deliveries : (OneCopy(x) => OneCopy(x)') /\ (Admitted(x)' => Admitted(x))
    BY <1>8 DEF ingestVars, settled, OneCopy, Admitted, Preparing
  <2> QED  BY <1>8, <2>1, <2>2, QuietStep DEF ingestVars, settled
<1> QED
  BY <1>1, <1>2, <1>3, <1>4, <1>5, <1>6, <1>7, <1>8 DEF IngestNext

(* Where deliveries are remembered for twice the tolerance, which is how    *)
(* long a signature may be good, from however far a sender's clock is       *)
(* ahead, copies of a delivery are dispatched once unless the cache had to  *)
(* make room, or a digest without a timestamp came back after its time: for *)
(* any requests, cache and capacity, with copies that overtake each other   *)
(* at every await.                                                          *)
THEOREM DeliveriesAreDispatchedOnce ==
  ASSUME DedupTtl > 0, Tolerance > 0, 2 * Tolerance <= DedupTtl
  PROVE  IngestSpec => []OncePerDelivery
<1>1. IngestInit => IngestInv
  <2> SUFFICES ASSUME IngestInit PROVE IngestInv
    OBVIOUS
  <2>1. IngestTypes
    BY DEF IngestInit, IngestTypes, Slot
  <2>2. recent = <<>> /\ background = <<>> /\ (\A r \in Requests : request[r].pc = "idle")
        /\ \A d \in Deliveries : dispatched[d] = 0
    BY DEF IngestInit, Idle
  <2>3. Signed
    BY <2>2 DEF Signed, Range
  <2>4. \A d \in Deliveries : OneCopy(d) /\ ~Admitted(d)
    BY <2>2 DEF OneCopy, Admitted, Preparing, Range
  <2> QED  BY <2>1, <2>3, <2>4 DEF IngestInv, Remembered
<1>2. IngestInv => OncePerDelivery
  <2> SUFFICES ASSUME IngestInv, NEW d \in Deliveries, dispatched[d] > 1 PROVE Exempt(d)
    BY DEF OncePerDelivery, Exempt
  <2>1. dispatched[d] \in Nat
    BY DEF IngestInv, IngestTypes
  <2> QED  BY <2>1 DEF IngestInv, OneCopy
<1>3. IngestInv /\ [IngestNext]_ingestVars => IngestInv'
  BY IngestStep
<1>4. QED
  BY <1>1, <1>2, <1>3, PTL DEF IngestSpec

-----------------------------------------------------------------------------
(* Lifecycle events.                                                        *)

(* An emission without the guard descends from no report, or is the first   *)
(* report itself; a report that runs has set the guard.                     *)
Good(e) ==
  /\ e = [reg |-> e.reg, class |-> e.class, no |-> e.no, guard |-> e.guard, glob |-> e.glob,
          reports |-> e.reports, todo |-> e.todo, running |-> e.running]
  /\ e.reports \in Nat /\ e.guard \in BOOLEAN /\ e.running \in BOOLEAN
  /\ e.class # "error" => e.reports <= 1 /\ (~e.guard => e.reports = 0)
  /\ e.class = "error" /\ ~e.guard => e.reports <= 1
  /\ e.class = "error" /\ e.running => e.guard /\ e.reports <= 1

GoodSeq(q) == \E S : q \in Seq(S) /\ \A e \in S : Good(e)

LifecycleInv == GoodSeq(emissions)

LEMMA NewEmission ==
  ASSUME NEW reg, NEW class, NEW no, NEW guard \in BOOLEAN, NEW glob, NEW reports \in Nat,
         class # "error" => reports <= 1 /\ (~guard => reports = 0),
         class = "error" /\ ~guard => reports <= 1
  PROVE  Good(Emission(reg, class, no, guard, glob, reports))
BY DEF Good, Emission

(* What a running emission starts is good too.                              *)
LEMMA FollowUps ==
  ASSUME NEW e, Good(e), e.running, NEW s
  PROVE  GoodSeq(Forward(e)) /\ GoodSeq(SubscriberError(e, s)) /\ GoodSeq(Replies(e, s))
<1> DEFINE f == Emission(e.glob, e.class, e.no, e.guard, e.glob, e.reports)
           g == Emission(e.glob, "error", 0, e.guard, e.glob, e.reports + 1)
           h == Emission(0, "before", emitted + 1, e.guard, e.glob, e.reports)
<1>0. e.reports \in Nat /\ e.guard \in BOOLEAN
  BY DEF Good
<1>1. Good(f)
  <2>1. e.class = "error" => e.guard
    BY DEF Good
  <2>2. e.class # "error" => e.reports <= 1 /\ (~e.guard => e.reports = 0)
    BY DEF Good
  <2> QED  BY <1>0, <2>1, <2>2, NewEmission
<1>2. Good(g)
  <2>1. ~e.guard => e.reports = 0
    BY DEF Good
  <2>2. e.reports + 1 \in Nat /\ (~e.guard => e.reports + 1 <= 1)
    BY <1>0, <2>1
  <2> QED  BY <1>0, <2>2, NewEmission
<1>3. e.class = "error" => Good(h)
  <2> SUFFICES ASSUME e.class = "error" PROVE Good(h)
    OBVIOUS
  <2>1. e.guard /\ e.reports <= 1
    BY DEF Good
  <2> QED  BY <1>0, <2>1, NewEmission
<1>4. Forward(e) = <<>> \/ Forward(e) = <<f>>
  BY DEF Forward
<1>5. SubscriberError(e, s) = <<>> \/ SubscriberError(e, s) = <<g>>
  BY DEF SubscriberError, Inherited
<1>6. Replies(e, s) = <<>> \/ (e.class = "error" /\ Replies(e, s) = <<h>>)
  BY DEF Replies, Inherited
<1> HIDE DEF f, g, h
<1>7. \A q, S : q \in Seq(S) /\ (\A y \in S : Good(y)) => GoodSeq(q)
  BY Zenon DEF GoodSeq
<1>8. GoodSeq(<<>>)
  <2> DEFINE S == {}
             q == <<>>
  <2>1. q \in Seq(S) /\ \A y \in S : Good(y)
    OBVIOUS
  <2> HIDE DEF S, q
  <2>2. GoodSeq(q)
    BY <2>1, <1>7
  <2> QED  BY <2>2 DEF q
<1>9. ASSUME NEW x, Good(x) PROVE GoodSeq(<<x>>)
  <2> DEFINE S == {x}
             q == <<x>>
  <2>1. q \in Seq(S) /\ \A y \in S : Good(y)
    BY <1>9
  <2> HIDE DEF S, q
  <2>2. GoodSeq(q)
    BY <2>1, <1>7
  <2> QED  BY <2>2 DEF q
<1> QED  BY <1>1, <1>2, <1>3, <1>4, <1>5, <1>6, <1>8, <1>9

(* Sequences of good emissions are put together and taken apart.            *)
LEMMA GoodParts ==
  ASSUME NEW q, NEW r, GoodSeq(q), GoodSeq(r)
  PROVE  GoodSeq(q \o r)
<1>1. PICK S : q \in Seq(S) /\ \A e \in S : Good(e)
  BY DEF GoodSeq
<1>2. PICK T : r \in Seq(T) /\ \A e \in T : Good(e)
  BY DEF GoodSeq
<1>3. q \in Seq(S \cup T) /\ r \in Seq(S \cup T)
  BY <1>1, <1>2
<1>4. q \o r \in Seq(S \cup T)
  BY <1>3, ConcatProperties, Zenon
<1>5. \A e \in S \cup T : Good(e)
  BY <1>1, <1>2
<1> QED  BY <1>4, <1>5 DEF GoodSeq

(* One emission taken out, or replaced by a good one.                       *)
LEMMA GoodChange ==
  ASSUME GoodSeq(emissions), NEW i \in 1..Len(emissions)
  PROVE  /\ Good(emissions[i]) /\ GoodSeq(RemoveAt(emissions, i))
         /\ \A b : Good(b) => GoodSeq([emissions EXCEPT ![i] = b])
<1>1. PICK S : emissions \in Seq(S) /\ \A e \in S : Good(e)
  BY DEF GoodSeq
<1>2. GoodSeq(RemoveAt(emissions, i))
  BY <1>1, RemoveAtSeq DEF GoodSeq
<1>3. ASSUME NEW b, Good(b) PROVE GoodSeq([emissions EXCEPT ![i] = b])
  <2>1. [emissions EXCEPT ![i] = b] \in Seq(S \cup {b}) /\ \A x \in S \cup {b} : Good(x)
    BY <1>1, <1>3
  <2> QED  BY <2>1 DEF GoodSeq
<1> QED  BY <1>1, <1>2, <1>3

Starting(e, heard) ==
  [e EXCEPT !.guard = e.guard \/ e.class = "error", !.todo = heard, !.running = TRUE]

RunsFrom(b, e, heard) ==
  /\ Good(b) /\ b.running /\ b.todo = heard
  /\ b.reg = e.reg /\ b.class = e.class /\ b.no = e.no /\ b.glob = e.glob

(* An emission that starts and is not dropped has the guard it should.      *)
LEMMA Started ==
  ASSUME NEW e, Good(e), NEW heard, ~(e.class = "error" /\ (e.guard \/ e.reg = 0)),
         NEW b, b = Starting(e, heard)
  PROVE  RunsFrom(b, e, heard)
<1> DEFINE g == e.guard \/ e.class = "error"
<1>0. g \in BOOLEAN /\ (g <=> e.guard \/ e.class = "error") /\ b = [e EXCEPT !.guard = g, !.todo = heard, !.running = TRUE]
  BY DEF Starting
<1> HIDE DEF g
<1>1. b = [reg |-> e.reg, class |-> e.class, no |-> e.no, guard |-> g,
           glob |-> e.glob, reports |-> e.reports, todo |-> heard, running |-> TRUE]
  <2> DEFINE b1 == [e EXCEPT !.guard = g]
             b2 == [b1 EXCEPT !.todo = heard]
  <2>1. e = [reg |-> e.reg, class |-> e.class, no |-> e.no, guard |-> e.guard,
             glob |-> e.glob, reports |-> e.reports, todo |-> e.todo, running |-> e.running]
    BY DEF Good
  <2>2. b1 = [reg |-> e.reg, class |-> e.class, no |-> e.no, guard |-> g,
              glob |-> e.glob, reports |-> e.reports, todo |-> e.todo, running |-> e.running]
    BY <2>1
  <2>3. b = [b2 EXCEPT !.running = TRUE]
    BY <1>0
  <2> HIDE DEF b1
  <2>4. b2 = [reg |-> e.reg, class |-> e.class, no |-> e.no, guard |-> g,
              glob |-> e.glob, reports |-> e.reports, todo |-> heard, running |-> e.running]
    BY <2>2
  <2> HIDE DEF b2
  <2> QED  BY <2>3, <2>4
<1>2. /\ b.reg = e.reg /\ b.class = e.class /\ b.no = e.no /\ b.guard = g /\ b.glob = e.glob
      /\ b.reports = e.reports /\ b.todo = heard /\ b.running = TRUE
  BY <1>1
<1>3. e.class = "error" => ~e.guard
  BY Zenon
<1>4. b = [reg |-> b.reg, class |-> b.class, no |-> b.no, guard |-> b.guard, glob |-> b.glob,
           reports |-> b.reports, todo |-> b.todo, running |-> b.running]
  BY <1>1, <1>2
<1>5. b.running /\ b.running \in BOOLEAN /\ b.guard \in BOOLEAN /\ (b.class = "error" => b.guard)
      /\ (~b.guard => ~e.guard)
  BY <1>0, <1>2
<1>6. e.reports \in Nat /\ (e.class # "error" => e.reports <= 1 /\ (~e.guard => e.reports = 0))
      /\ (e.class = "error" /\ ~e.guard => e.reports <= 1)
  BY DEF Good
<1>7. Good(b)
  BY <1>2, <1>3, <1>4, <1>5, <1>6 DEF Good
<1> QED  BY <1>2, <1>7 DEF RunsFrom

LEMMA LifecycleStep == ASSUME LifecycleInv, [LifecycleNext]_lifecycleVars PROVE LifecycleInv'
<1> USE DEF LifecycleInv
<1>1. ASSUME UNCHANGED emissions PROVE LifecycleInv'
  BY <1>1
<1>2. ASSUME NEW t \in Threads, NEW c \in {"before", "after"}, EmitNowait(t, c) PROVE LifecycleInv'
  <2>1. PICK n : Good(n) /\ emissions' = Append(emissions, n)
    <3>1. emissions' = Append(emissions, Emission(0, c, emitted + 1, FALSE, home[t], 0))
      BY <1>2 DEF EmitNowait
    <3>2. c # "error" /\ FALSE \in BOOLEAN /\ 0 \in Nat /\ 0 <= 1
      OBVIOUS
    <3>3. Good(Emission(0, c, emitted + 1, FALSE, home[t], 0))
      BY <3>2, NewEmission
    <3> QED  BY <3>1, <3>3
  <2>2. PICK S : emissions \in Seq(S) /\ \A e \in S : Good(e)
    BY DEF GoodSeq
  <2>3. emissions' \in Seq(S \cup {n}) /\ \A e \in S \cup {n} : Good(e)
    BY <2>1, <2>2
  <2> QED  BY <2>3 DEF GoodSeq
<1>3. ASSUME NEW i \in 1..Len(emissions), Begin(i) PROVE LifecycleInv'
  <2> DEFINE e == emissions[i]
             heard == InOrder(e.class, Matching(subscriptions[e.reg], e.class))
             b == Starting(e, heard)
             dropped == e.class = "error" /\ (e.guard \/ e.reg = 0)
  <2>1. ~e.running /\ \/ emissions' = RemoveAt(emissions, i)
                      \/ ~dropped /\ emissions' = RemoveAt(emissions, i) \o Unheard(b)
                      \/ ~dropped /\ emissions' = [emissions EXCEPT ![i] = b] \o Replies(b, heard[1])
    BY <1>3 DEF Begin, Starting
  <2>2. Good(e)
    BY GoodChange
  <2> HIDE DEF heard, e
  <2>3. ASSUME ~dropped PROVE Good(b) /\ b.running
    <3>1. ~(e.class = "error" /\ (e.guard \/ e.reg = 0))
      BY <2>3, Zenon
    <3> HIDE DEF dropped
    <3>2. RunsFrom(b, e, heard)
      BY <2>2, <3>1, Started, Zenon
    <3> QED  BY <3>2 DEF RunsFrom
  <2> HIDE DEF b, dropped
  <2>4. CASE emissions' = RemoveAt(emissions, i)
    BY <2>4, GoodChange
  <2>5. CASE ~dropped /\ emissions' = RemoveAt(emissions, i) \o Unheard(b)
    <3>1. GoodSeq(Forward(b)) /\ GoodSeq(RemoveAt(emissions, i))
      BY <2>3, <2>5, FollowUps, GoodChange
    <3> QED  BY <2>5, <3>1, GoodParts DEF Unheard
  <2>6. CASE ~dropped /\ emissions' = [emissions EXCEPT ![i] = b] \o Replies(b, heard[1])
    <3>1. GoodSeq(Replies(b, heard[1])) /\ GoodSeq([emissions EXCEPT ![i] = b])
      BY <2>3, <2>6, FollowUps, GoodChange
    <3> QED  BY <2>6, <3>1, GoodParts
  <2> QED  BY <2>1, <2>4, <2>5, <2>6
<1>4. ASSUME NEW i \in 1..Len(emissions), Return(i) PROVE LifecycleInv'
  <2> DEFINE e == emissions[i]
             next == Tail(e.todo)
             report == SubscriberError(e, Head(e.todo))
             b == [e EXCEPT !.todo = next]
  <2>1. e.running /\ \/ emissions' = RemoveAt(emissions, i) \o report \o Forward(e)
                     \/ emissions' = [emissions EXCEPT ![i].todo = next] \o report \o Replies(e, next[1])
    BY <1>4 DEF Return
  <2>2. Good(e)
    BY GoodChange
  <2>3. [emissions EXCEPT ![i].todo = next] = [emissions EXCEPT ![i] = b]
    OBVIOUS
  <2> HIDE DEF next, e
  <2>4. Good(b)
    <3>1. b = [reg |-> e.reg, class |-> e.class, no |-> e.no, guard |-> e.guard,
               glob |-> e.glob, reports |-> e.reports, todo |-> next, running |-> e.running]
      BY <2>2 DEF Good
    <3> QED  BY <2>2, <3>1 DEF Good
  <2>5. GoodSeq(report) /\ GoodSeq(Forward(e)) /\ GoodSeq(Replies(e, next[1]))
    BY <2>1, <2>2, FollowUps
  <2>6. GoodSeq(RemoveAt(emissions, i)) /\ GoodSeq([emissions EXCEPT ![i] = b])
    BY <2>4, GoodChange
  <2> HIDE DEF report, b
  <2>7. CASE emissions' = RemoveAt(emissions, i) \o report \o Forward(e)
    BY <2>5, <2>6, <2>7, GoodParts
  <2>8. CASE emissions' = [emissions EXCEPT ![i] = b] \o report \o Replies(e, next[1])
    BY <2>5, <2>6, <2>8, GoodParts
  <2> QED  BY <2>1, <2>3, <2>7, <2>8
<1>5. UNCHANGED emissions
      \/ (\E t \in Threads, c \in {"before", "after"} : EmitNowait(t, c))
      \/ \E i \in 1..Len(emissions) : Begin(i) \/ Return(i)
  BY DEF LifecycleNext, lifecycleVars, SubscribeLocal, SubscribeGlobal, Unsubscribe, AttachBus
<1> QED  BY <1>1, <1>2, <1>3, <1>4, <1>5

(* The guard travels with the context: whatever subscribers raise, reply,   *)
(* subscribe and unsubscribe, and whichever registry an emission is in, no  *)
(* emission that runs descends from two reports.                            *)
THEOREM ReportsNeverCascade == LifecycleSpec => []ReportsDoNotCascade
<1>1. LifecycleInit => LifecycleInv
  <2> SUFFICES ASSUME LifecycleInit PROVE LifecycleInv
    OBVIOUS
  <2>1. emissions \in Seq({}) /\ \A e \in {} : Good(e)
    BY DEF LifecycleInit
  <2> QED  BY <2>1 DEF LifecycleInv, GoodSeq
<1>2. LifecycleInv => ReportsDoNotCascade
  <2> SUFFICES ASSUME LifecycleInv, NEW i \in 1..Len(emissions), emissions[i].running
               PROVE  emissions[i].reports <= 1
    BY DEF ReportsDoNotCascade
  <2>1. Good(emissions[i])
    BY GoodChange DEF LifecycleInv
  <2> QED  BY <2>1 DEF Good
<1>3. QED
  BY <1>1, <1>2, LifecycleStep, PTL DEF LifecycleSpec


-----------------------------------------------------------------------------
(* The lint of the task graph.                                              *)

Deps(t) == depends_on[t] \cap Tasks
Acyclic == \A t \in Tasks : t \notin AncestorsOf(t)

FrameSet == [task : Tasks, acc : SUBSET Tasks, todo : SUBSET (Tasks \cup {Unknown})]

GraphTypes ==
  /\ depends_on \in [Tasks -> SUBSET (Tasks \cup {Unknown})]
  /\ waves \in Seq(SUBSET Tasks) /\ cyclic \in SUBSET Tasks
  /\ frames \in Seq(FrameSet) /\ memo \in [Tasks -> (SUBSET Tasks) \cup {NotYet}]
  /\ findings \subseteq {"cycle", "checked", "unknown-dependency", "file-overlap"}

\* A task waits for those of its dependencies that are not in a wave yet; a task in
\* a wave is in no other, and its dependencies are in waves before it.
WavesInOrder ==
  /\ DOMAIN remaining \subseteq Tasks
  /\ \A t \in DOMAIN remaining : remaining[t] = Deps(t) \cap DOMAIN remaining
  /\ \A t \in Tasks \ DOMAIN remaining : \E n \in 1..Len(waves) : t \in waves[n]
  /\ \A n \in 1..Len(waves) : \A t \in waves[n] :
       /\ t \notin DOMAIN remaining
       /\ \A m \in 1..(n - 1) : t \notin waves[m]
       /\ \A d \in Deps(t) : \E m \in 1..(n - 1) : d \in waves[m]
  /\ cyclic # {} => DOMAIN remaining # {} /\ \A t \in DOMAIN remaining : remaining[t] # {}

\* The visits under way are of a task, one of its ancestors, one of that one's and so
\* on.  A dependency that a visit is done with is among the ancestors found, with
\* its own unless it is the one being visited.
FrameSound(s, i) ==
  LET f == s[i] IN
  /\ f.acc \subseteq AncestorsOf(f.task) /\ f.todo \subseteq depends_on[f.task]
  /\ \A d \in Deps(f.task) \ f.todo :
       /\ d \in f.acc
       /\ AncestorsOf(d) \subseteq f.acc \/ (i < Len(s) /\ d = s[i + 1].task)
  /\ \A j \in 1..(i - 1) : f.task \in AncestorsOf(s[j].task)

StackSound(s) == \A i \in 1..Len(s) : FrameSound(s, i)
MemoSound == \A t \in Tasks : memo[t] # NotYet => memo[t] = AncestorsOf(t)

Reported ==
  /\ "cycle" \in findings <=> cyclic # {}
  /\ "checked" \in findings => Checked
  /\ "unknown-dependency" \in findings
       <=> "checked" \in findings /\ \E t \in Tasks : Unknown \in depends_on[t]
  /\ "file-overlap" \in findings
       <=> "checked" \in findings /\ \E a, b \in Tasks : Overlap(a, b)

GraphInv == GraphTypes /\ WavesInOrder /\ (Acyclic => StackSound(frames) /\ MemoSound) /\ Reported

-----------------------------------------------------------------------------
\* AncestorsOf is the smallest set with the dependencies of t and of its members.
LEMMA AncestorLaws ==
  ASSUME NEW t \in Tasks
  PROVE  /\ AncestorsOf(t) \subseteq Tasks
         /\ Deps(t) \subseteq AncestorsOf(t)
         /\ \A x \in AncestorsOf(t) : Deps(x) \subseteq AncestorsOf(t)
         /\ \A S \in SUBSET Tasks :
              Deps(t) \subseteq S /\ (\A x \in S : Deps(x) \subseteq S) => AncestorsOf(t) \subseteq S
BY DEF AncestorsOf, Deps

LEMMA AncestorsOfAncestors ==
  ASSUME NEW t \in Tasks, NEW d \in AncestorsOf(t)
  PROVE  AncestorsOf(d) \subseteq AncestorsOf(t)
<1>1. d \in Tasks /\ AncestorsOf(t) \subseteq Tasks /\ Deps(d) \subseteq AncestorsOf(t)
        /\ \A x \in AncestorsOf(t) : Deps(x) \subseteq AncestorsOf(t)
  BY AncestorLaws
<1>2. \A S \in SUBSET Tasks :
        Deps(d) \subseteq S /\ (\A x \in S : Deps(x) \subseteq S) => AncestorsOf(d) \subseteq S
  BY <1>1, AncestorLaws
<1> QED BY <1>1, <1>2

\* The ancestors of t are its dependencies and theirs.
LEMMA AncestorsFromDeps ==
  ASSUME NEW t \in Tasks, NEW S, \A d \in Deps(t) : d \in S /\ AncestorsOf(d) \subseteq S
  PROVE  AncestorsOf(t) \subseteq S
<1> DEFINE T == {x \in Tasks : x \in Deps(t) \/ \E d \in Deps(t) : x \in AncestorsOf(d)}
<1>1. ASSUME NEW x \in T PROVE Deps(x) \subseteq T
  <2>1. CASE x \in Deps(t)
    <3>1. Deps(x) \subseteq AncestorsOf(x)
      BY AncestorLaws
    <3> QED BY <2>1, <3>1 DEF Deps
  <2>2. ASSUME NEW d \in Deps(t), x \in AncestorsOf(d) PROVE Deps(x) \subseteq T
    <3>1. Deps(x) \subseteq AncestorsOf(d)
      BY <2>2, AncestorLaws DEF Deps
    <3> QED BY <3>1 DEF Deps
  <2> QED BY <1>1, <2>1, <2>2
<1>2. Deps(t) \subseteq T /\ T \subseteq Tasks /\ T \subseteq S
  BY DEF Deps
<1> HIDE DEF T
<1>3. AncestorsOf(t) \subseteq T
  BY <1>1, <1>2, AncestorLaws
<1> QED BY <1>2, <1>3

\* When each of some tasks depends on one of them, there is a cycle: the one with
\* the fewest ancestors would depend on one that has fewer.
LEMMA NoneReadyIsACycle ==
  ASSUME NEW R \in SUBSET Tasks, R # {}, \A t \in R : Deps(t) \cap R # {}
  PROVE  ~Acyclic
<1> SUFFICES ASSUME Acyclic PROVE FALSE
  OBVIOUS
<1> DEFINE size(t) == Cardinality(AncestorsOf(t))
           N == {size(t) : t \in R}
<1>1. ASSUME NEW t \in Tasks PROVE IsFiniteSet(AncestorsOf(t)) /\ size(t) \in Nat
  <2>1. AncestorsOf(t) \in SUBSET Tasks
    BY AncestorLaws
  <2>2. IsFiniteSet(AncestorsOf(t))
    BY <2>1, FS_Subset, GraphAssumption
  <2> QED BY <2>2, FS_CardinalityType
<1>2. N \subseteq Nat /\ N # {}
  BY <1>1
<1>3. PICK n \in N : \A m \in N : n <= m
  <2> HIDE DEF N
  <2> QED BY <1>2, LeastNumber
<1>4. PICK t \in R : n = size(t)
  BY <1>3
<1>5. PICK d \in R : d \in Deps(t)
  OBVIOUS
<1>6. d \in AncestorsOf(t)
  BY <1>5, AncestorLaws
<1>7. AncestorsOf(d) \subseteq AncestorsOf(t)
  BY <1>6, AncestorsOfAncestors
<1>8. d \notin AncestorsOf(d)
  BY DEF Acyclic
<1>9. size(d) <= size(t) /\ (size(d) = size(t) => AncestorsOf(d) = AncestorsOf(t))
  BY <1>1, <1>7, FS_Subset
<1>10. size(t) <= size(d)
  BY <1>3, <1>4
<1> HIDE DEF size
<1>11. size(d) = size(t)
  BY <1>1, <1>9, <1>10
<1> QED BY <1>6, <1>8, <1>9, <1>11

-----------------------------------------------------------------------------
\* The stack.

LEMMA TopOfStack ==
  ASSUME frames \in Seq(FrameSet), frames # <<>>
  PROVE  /\ Len(frames) \in Nat \ {0} /\ Top = frames[Len(frames)] /\ Top \in FrameSet
         /\ \A i \in 1..Len(frames) : frames[i] \in FrameSet
<1>1. Len(frames) \in Nat \ {0} /\ \A i \in 1..Len(frames) : frames[i] \in FrameSet
  OBVIOUS
<1> QED BY <1>1 DEF Top, Last

LEMMA FrontOfStack ==
  ASSUME NEW S, NEW s \in Seq(S), s # <<>>
  PROVE  /\ Front(s) \in Seq(S) /\ Len(Front(s)) = Len(s) - 1
         /\ \A i \in 1..(Len(s) - 1) : Front(s)[i] = s[i]
<1>1. Len(s) \in Nat \ {0}
  OBVIOUS
<1> DEFINE n == Len(s) - 1
<1>2. n \in Nat /\ n + 1 = Len(s)
  BY <1>1
<1>3. Front(s) = SubSeq(s, 1, n)
  BY DEF Front
<1> HIDE DEF n
<1>4. /\ SubSeq(s, 1, n) \in Seq(S) /\ Len(SubSeq(s, 1, n)) = n
      /\ \A i \in 1..n : SubSeq(s, 1, n)[i] = s[i]
  BY <1>2
<1> QED BY <1>2, <1>3, <1>4 DEF n

LEMMA PushOnStack ==
  ASSUME NEW S, NEW s \in Seq(S), NEW x \in S
  PROVE  /\ Append(s, x) \in Seq(S) /\ Len(Append(s, x)) = Len(s) + 1
         /\ Append(s, x)[Len(s) + 1] = x
         /\ \A i \in 1..Len(s) : Append(s, x)[i] = s[i]
OBVIOUS

LEMMA ReplaceTop ==
  ASSUME frames \in Seq(FrameSet), frames # <<>>, NEW x \in FrameSet
  PROVE  /\ Replace(x) \in Seq(FrameSet) /\ Len(Replace(x)) = Len(frames)
         /\ Replace(x)[Len(frames)] = x
         /\ \A i \in 1..(Len(frames) - 1) : Replace(x)[i] = frames[i]
<1> DEFINE f == Front(frames)
<1>1. f \in Seq(FrameSet) /\ Len(f) = Len(frames) - 1 /\ \A i \in 1..(Len(frames) - 1) : f[i] = frames[i]
  BY FrontOfStack
<1>2. Len(frames) \in Nat \ {0}
  OBVIOUS
<1>3. Replace(x) = Append(f, x)
  BY DEF Replace
<1> HIDE DEF f
<1>4. /\ Append(f, x) \in Seq(FrameSet) /\ Len(Append(f, x)) = Len(f) + 1
      /\ Append(f, x)[Len(f) + 1] = x /\ \A i \in 1..Len(f) : Append(f, x)[i] = f[i]
  BY <1>1, PushOnStack
<1>5. Len(f) + 1 = Len(frames)
  BY <1>1, <1>2
<1> QED BY <1>1, <1>3, <1>4, <1>5

\* The stack r is like s up to the n-th visit, of which it says something else.
LEMMA SameBelow ==
  ASSUME NEW s \in Seq(FrameSet), NEW r \in Seq(FrameSet), StackSound(s),
         NEW n \in 1..Len(s), n <= Len(r), \A i \in 1..(n - 1) : r[i] = s[i], r[n].task = s[n].task,
         NEW i \in 1..(n - 1)
  PROVE  FrameSound(r, i)
<1>1. i \in Nat /\ n \in Nat /\ Len(s) \in Nat /\ Len(r) \in Nat /\ i + 1 \in 1..n /\ i < Len(s) /\ i < Len(r)
        /\ i \in 1..Len(s)
  OBVIOUS
<1>2. r[i] = s[i] /\ r[i + 1].task = s[i + 1].task
  <2>1. CASE i + 1 = n
    BY <2>1
  <2>2. CASE i + 1 # n
    <3>1. i + 1 \in 1..(n - 1)
      BY <1>1, <2>2
    <3> QED BY <3>1
  <2> QED BY <2>1, <2>2
<1>3. FrameSound(s, i)
  BY <1>1 DEF StackSound
<1>4. \A j \in 1..(i - 1) : r[j] = s[j]
  OBVIOUS
<1> QED BY <1>1, <1>2, <1>3, <1>4 DEF FrameSound

\* A round of visit() that needs no visit of another task.
LEMMA SoundReplaced ==
  ASSUME frames \in Seq(FrameSet), frames # <<>>, StackSound(frames),
         NEW x \in FrameSet, x.task = Top.task,
         x.acc \subseteq AncestorsOf(x.task), x.todo \subseteq depends_on[x.task],
         \A d \in Deps(x.task) \ x.todo : d \in x.acc /\ AncestorsOf(d) \subseteq x.acc
  PROVE  StackSound(Replace(x))
<1> DEFINE r == Replace(x)
           n == Len(frames)
<1>1. r \in Seq(FrameSet) /\ Len(r) = n /\ r[n] = x /\ \A i \in 1..(n - 1) : r[i] = frames[i]
  BY ReplaceTop
<1>2. n \in Nat \ {0} /\ Top = frames[n]
  BY TopOfStack
<1> HIDE DEF r, n
<1>3. ASSUME NEW i \in 1..(n - 1) PROVE FrameSound(r, i)
  <2>1. n \in 1..Len(frames) /\ n <= Len(r)
    BY <1>1, <1>2 DEF n
  <2> QED BY <1>1, <1>2, <2>1, SameBelow
<1>4. FrameSound(r, n)
  <2>1. FrameSound(frames, n)
    BY <1>2 DEF StackSound, n
  <2> QED BY <1>1, <1>2, <2>1 DEF FrameSound
<1>5. \A i \in 1..Len(r) : i \in 1..(n - 1) \/ i = n
  BY <1>1, <1>2
<1> QED BY <1>3, <1>4, <1>5 DEF StackSound, r

\* A round that starts the visit of a dependency.
LEMMA SoundPushed ==
  ASSUME frames \in Seq(FrameSet), frames # <<>>, StackSound(frames),
         depends_on \in [Tasks -> SUBSET (Tasks \cup {Unknown})],
         NEW x \in FrameSet, x.task = Top.task, NEW c \in Deps(x.task),
         x.acc \subseteq AncestorsOf(x.task), x.todo \subseteq depends_on[x.task],
         \A d \in Deps(x.task) \ x.todo : d \in x.acc /\ (AncestorsOf(d) \subseteq x.acc \/ d = c)
  PROVE  /\ Append(Replace(x), Frame(c)) \in Seq(FrameSet)
         /\ StackSound(Append(Replace(x), Frame(c)))
<1> DEFINE q == Replace(x)
           r == Append(q, Frame(c))
           n == Len(frames)
<1>1. q \in Seq(FrameSet) /\ Len(q) = n /\ q[n] = x /\ \A i \in 1..(n - 1) : q[i] = frames[i]
  BY ReplaceTop
<1>2. n \in Nat \ {0} /\ Top = frames[n] /\ \A i \in 1..n : frames[i] \in FrameSet
  BY TopOfStack
<1>3. Frame(c) \in FrameSet /\ Frame(c).task = c /\ Frame(c).acc = {} /\ Frame(c).todo = depends_on[c] /\ c \in Tasks
  BY DEF Frame, FrameSet, Deps
<1> HIDE DEF q, n
<1>4. r \in Seq(FrameSet) /\ Len(r) = n + 1 /\ r[n + 1] = Frame(c) /\ \A i \in 1..n : r[i] = q[i]
  BY <1>1, <1>3, PushOnStack
<1> HIDE DEF r
<1>5. r[n] = x /\ \A i \in 1..(n - 1) : r[i] = frames[i]
  BY <1>1, <1>2, <1>4
<1>6. ASSUME NEW i \in 1..(n - 1) PROVE FrameSound(r, i)
  <2>1. n \in 1..Len(frames) /\ n <= Len(r)
    BY <1>2, <1>4 DEF n
  <2> QED BY <1>2, <1>4, <1>5, <2>1, SameBelow
<1>7. FrameSound(frames, n)
  BY <1>2 DEF StackSound, n
<1>8. FrameSound(r, n)
  <2>1. r[n + 1].task = c /\ n < Len(r)
    BY <1>2, <1>3, <1>4
  <2>2. \A j \in 1..(n - 1) : x.task \in AncestorsOf(r[j].task)
    BY <1>2, <1>5, <1>7 DEF FrameSound
  <2> QED BY <1>5, <2>1, <2>2 DEF FrameSound
<1>9. FrameSound(r, n + 1)
  <2>1. \A d \in Deps(c) : d \in depends_on[c]
    BY DEF Deps
  <2>2. ASSUME NEW j \in 1..n PROVE c \in AncestorsOf(r[j].task)
    <3>1. CASE j = n
      BY <1>5, <3>1, AncestorLaws DEF FrameSet
    <3>2. CASE j # n
      <4>1. j \in 1..(n - 1)
        BY <1>2, <3>2
      <4>2. x.task \in AncestorsOf(frames[j].task) /\ frames[j].task \in Tasks
        BY <1>2, <1>7, <4>1 DEF FrameSound, FrameSet
      <4> QED BY <1>5, <4>1, <4>2, AncestorLaws
    <3> QED BY <3>1, <3>2
  <2>3. (n + 1) - 1 = n
    BY <1>2
  <2> QED BY <1>3, <1>4, <2>1, <2>2, <2>3 DEF FrameSound
<1>10. \A i \in 1..Len(r) : i \in 1..(n - 1) \/ i = n \/ i = n + 1
  BY <1>2, <1>4
<1>11. StackSound(r)
  BY <1>6, <1>8, <1>9, <1>10 DEF StackSound
<1> QED BY <1>4, <1>11 DEF r, q

\* A visit that is done with all dependencies has found the ancestors of its task.
LEMMA FoundAll ==
  ASSUME frames \in Seq(FrameSet), frames # <<>>, StackSound(frames), Top.todo = {}
  PROVE  Top.task \in Tasks /\ Top.acc = AncestorsOf(Top.task)
<1>1. Len(frames) \in Nat \ {0} /\ Top = frames[Len(frames)] /\ Top \in FrameSet
  BY TopOfStack
<1>2. Top.task \in Tasks
  BY <1>1 DEF FrameSet
<1>3. FrameSound(frames, Len(frames))
  BY <1>1 DEF StackSound
<1>4. Top.acc \subseteq AncestorsOf(Top.task)
        /\ \A d \in Deps(Top.task) : d \in Top.acc /\ AncestorsOf(d) \subseteq Top.acc
  BY <1>1, <1>3 DEF FrameSound
<1>5. AncestorsOf(Top.task) \subseteq Top.acc
  BY <1>2, <1>4, AncestorsFromDeps
<1> QED BY <1>2, <1>4, <1>5

\* The visit that waited for it goes on with what it has found.
LEMMA SoundReturn ==
  ASSUME frames \in Seq(FrameSet), frames # <<>>, StackSound(frames), Top.todo = {}, Len(frames) # 1
  PROVE  LET caller == Last(Front(frames))
             r == Append(Front(Front(frames)), [caller EXCEPT !.acc = @ \cup Top.acc]) IN
         r \in Seq(FrameSet) /\ StackSound(r)
<1> DEFINE f == Front(frames)
           caller == Last(f)
           x == [caller EXCEPT !.acc = @ \cup Top.acc]
           g == Front(f)
           r == Append(g, x)
           n == Len(frames) - 1
<1>1. Len(frames) \in Nat \ {0} /\ Top = frames[Len(frames)] /\ Top \in FrameSet
        /\ \A i \in 1..Len(frames) : frames[i] \in FrameSet
  BY TopOfStack
<1>2. n \in Nat \ {0} /\ n + 1 = Len(frames) /\ n \in 1..Len(frames)
  <2> HIDE DEF f, caller, x, g, r
  <2>1. n \in Nat /\ n + 1 = Len(frames)
    BY <1>1
  <2>2. n # 0
    BY <2>1
  <2> HIDE DEF n
  <2> QED BY <1>1, <2>1, <2>2
<1>3. f \in Seq(FrameSet) /\ Len(f) = n /\ \A i \in 1..n : f[i] = frames[i]
  BY FrontOfStack
<1>4. caller = frames[n] /\ caller \in FrameSet
  BY <1>1, <1>2, <1>3 DEF Last
<1>5. f # <<>>
  BY <1>2, <1>3
<1> HIDE DEF f, n
<1>6. g \in Seq(FrameSet) /\ Len(g) = n - 1 /\ \A i \in 1..(n - 1) : g[i] = f[i]
  BY <1>3, <1>5, FrontOfStack
<1> HIDE DEF caller, g
<1>7. /\ x \in FrameSet /\ x.task = caller.task /\ x.acc = caller.acc \cup Top.acc
      /\ x.todo = caller.todo
  BY <1>1, <1>4 DEF FrameSet
<1> HIDE DEF x
<1>8. r \in Seq(FrameSet) /\ Len(r) = Len(g) + 1 /\ r[Len(g) + 1] = x /\ \A i \in 1..Len(g) : r[i] = g[i]
  BY <1>6, <1>7, PushOnStack
<1> HIDE DEF r
<1>9. Len(r) = n /\ r[n] = x /\ \A i \in 1..(n - 1) : r[i] = frames[i]
  BY <1>2, <1>3, <1>6, <1>8
<1>10. ASSUME NEW i \in 1..(n - 1) PROVE FrameSound(r, i)
  <2>1. n <= Len(r) /\ r[n].task = frames[n].task
    BY <1>2, <1>4, <1>7, <1>9
  <2> QED BY <1>2, <1>8, <1>9, <2>1, SameBelow
<1>11. FrameSound(r, n)
  <2>1. FrameSound(frames, n) /\ FrameSound(frames, n + 1)
    BY <1>2 DEF StackSound
  <2>2. Top.task \in AncestorsOf(caller.task) /\ caller.task \in Tasks
    BY <1>1, <1>2, <1>4, <2>1 DEF FrameSound, FrameSet
  <2>3. Top.acc = AncestorsOf(Top.task)
    BY FoundAll
  <2>4. Top.acc \subseteq AncestorsOf(caller.task)
    BY <2>2, <2>3, AncestorsOfAncestors
  <2>5. /\ caller.acc \subseteq AncestorsOf(caller.task) /\ caller.todo \subseteq depends_on[caller.task]
        /\ \A j \in 1..(n - 1) : caller.task \in AncestorsOf(frames[j].task)
        /\ \A d \in Deps(caller.task) \ caller.todo :
             d \in caller.acc /\ (AncestorsOf(d) \subseteq caller.acc \/ d = Top.task)
    BY <1>1, <1>2, <1>4, <2>1 DEF FrameSound
  <2>6. \A d \in Deps(x.task) \ x.todo : d \in x.acc /\ AncestorsOf(d) \subseteq x.acc
    BY <1>7, <2>3, <2>5
  <2>7. x.acc \subseteq AncestorsOf(x.task) /\ x.todo \subseteq depends_on[x.task]
          /\ \A j \in 1..(n - 1) : x.task \in AncestorsOf(r[j].task)
    BY <1>7, <1>9, <2>4, <2>5
  <2> QED BY <1>9, <2>6, <2>7 DEF FrameSound
<1>12. \A i \in 1..Len(r) : i \in 1..(n - 1) \/ i = n
  BY <1>2, <1>9
<1>13. StackSound(r)
  BY <1>10, <1>11, <1>12 DEF StackSound
<1> QED BY <1>8, <1>13 DEF r, g, x, caller, f

-----------------------------------------------------------------------------
\* The graph never changes, so what is said of it stays said.
LEMMA GraphIsFixed ==
  ASSUME depends_on' = depends_on
  PROVE  /\ Acyclic' <=> Acyclic
         /\ \A t \in Tasks : Deps(t)' = Deps(t)
         /\ StackSound(frames') => StackSound(frames)'
         /\ (\A t \in Tasks : memo'[t] # NotYet => memo'[t] = AncestorsOf(t)) => MemoSound'
BY DEF Acyclic, Deps, StackSound, FrameSound, MemoSound, AncestorsOf

LEMMA GraphBoot == GraphInit => GraphInv
<1> SUFFICES ASSUME GraphInit PROVE GraphInv
  OBVIOUS
<1>1. GraphTypes
  <2>1. << >> \in Seq(SUBSET Tasks) /\ << >> \in Seq(FrameSet)
    OBVIOUS
  <2>2. [t \in Tasks |-> NotYet] \in [Tasks -> (SUBSET Tasks) \cup {NotYet}]
    OBVIOUS
  <2> QED BY <2>1, <2>2 DEF GraphInit, GraphTypes
<1>2. WavesInOrder
  BY DEF GraphInit, WavesInOrder, Deps
<1>3. StackSound(frames) /\ MemoSound
  BY DEF GraphInit, StackSound, MemoSound
<1>4. Reported
  BY DEF GraphInit, Reported
<1> QED BY <1>1, <1>2, <1>3, <1>4 DEF GraphInv

\* The search leaves waves and report alone ...
LEMMA SearchStep ==
  ASSUME GraphInv, UNCHANGED <<depends_on, remaining, waves, cyclic, findings>>, "checked" \notin findings,
         frames' \in Seq(FrameSet), memo' \in [Tasks -> (SUBSET Tasks) \cup {NotYet}],
         Acyclic => /\ StackSound(frames')
                    /\ \A t \in Tasks : memo'[t] # NotYet => memo'[t] = AncestorsOf(t)
  PROVE  GraphInv'
<1>1. GraphTypes'
  BY DEF GraphInv, GraphTypes
<1>2. WavesInOrder'
  BY GraphIsFixed DEF GraphInv, WavesInOrder, Deps
<1>3. Acyclic' => StackSound(frames)' /\ MemoSound'
  BY GraphIsFixed
<1>4. Reported'
  BY DEF GraphInv, Reported
<1> QED BY <1>1, <1>2, <1>3, <1>4 DEF GraphInv

\* ... and the passes of _waves and the report leave the search alone.
LEMMA NoSearchStep ==
  ASSUME GraphInv, UNCHANGED <<depends_on, frames, memo>>,
         waves' \in Seq(SUBSET Tasks), cyclic' \in SUBSET Tasks,
         findings' \subseteq {"cycle", "checked", "unknown-dependency", "file-overlap"},
         WavesInOrder', Reported'
  PROVE  GraphInv'
<1>1. GraphTypes'
  BY DEF GraphInv, GraphTypes
<1>2. Acyclic' => StackSound(frames)' /\ MemoSound'
  BY GraphIsFixed DEF GraphInv, MemoSound
<1> QED BY <1>1, <1>2 DEF GraphInv

LEMMA WavesStep == ASSUME GraphInv, _waves PROVE GraphInv'
<1> DEFINE ready == {t \in DOMAIN remaining : remaining[t] = {}}
           rest == DOMAIN remaining \ ready
<1>1. UNCHANGED <<depends_on, frames, memo>> /\ DOMAIN remaining # {} /\ cyclic = {}
  BY DEF _waves
<1>2. "checked" \notin findings /\ "cycle" \notin findings
  BY <1>1 DEF GraphInv, Reported, Checked, WavesDone
<1>3. CASE ready # {} /\ waves' = Append(waves, ready) /\ remaining' = [t \in rest |-> remaining[t] \ ready]
             /\ UNCHANGED <<cyclic, findings>>
  <2>1. waves \in Seq(SUBSET Tasks) /\ ready \in SUBSET Tasks
    BY DEF GraphInv, GraphTypes, WavesInOrder
  <2> DEFINE n == Len(waves)
  <2>2. /\ n \in Nat /\ waves' \in Seq(SUBSET Tasks) /\ Len(waves') = n + 1 /\ waves'[n + 1] = ready
        /\ \A i \in 1..n : waves'[i] = waves[i]
    <3> HIDE DEF ready
    <3>1. /\ Append(waves, ready) \in Seq(SUBSET Tasks) /\ Len(Append(waves, ready)) = n + 1
          /\ Append(waves, ready)[n + 1] = ready /\ \A i \in 1..n : Append(waves, ready)[i] = waves[i]
      BY <2>1, PushOnStack
    <3> QED BY <1>3, <2>1, <3>1
  <2>3. DOMAIN remaining' = rest /\ \A t \in rest : remaining'[t] = remaining[t] \ ready
    BY <1>3
  <2>4. WavesInOrder
    BY DEF GraphInv
  <2>5. \A t \in Tasks : Deps(t)' = Deps(t)
    BY <1>1, GraphIsFixed
  <2> HIDE DEF n
  <2>6. rest \subseteq Tasks
    BY <2>4 DEF WavesInOrder
  <2>7. ASSUME NEW t \in rest PROVE remaining'[t] = Deps(t)' \cap rest
    BY <2>3, <2>4, <2>5, <2>6 DEF WavesInOrder
  <2>8. ASSUME NEW t \in Tasks \ rest PROVE \E k \in 1..(n + 1) : t \in waves'[k]
    <3>1. CASE t \in ready
      <4>1. n + 1 \in 1..(n + 1)
        BY <2>2
      <4> QED BY <2>2, <3>1, <4>1
    <3>2. CASE t \notin ready
      <4>1. PICK k \in 1..n : t \in waves[k]
        BY <2>4, <3>2 DEF WavesInOrder, n
      <4>2. k \in 1..(n + 1)
        BY <2>2
      <4> QED BY <2>2, <4>1, <4>2
    <3> QED BY <3>1, <3>2
  <2>9. ASSUME NEW k \in 1..n, NEW t \in waves'[k]
        PROVE  /\ t \notin rest /\ \A m \in 1..(k - 1) : t \notin waves'[m]
               /\ \A d \in Deps(t)' : \E m \in 1..(k - 1) : d \in waves'[m]
    <3>1. t \in waves[k] /\ t \in Tasks
      BY <2>1, <2>2 DEF n
    <3>2. /\ t \notin DOMAIN remaining /\ \A m \in 1..(k - 1) : t \notin waves[m]
          /\ \A d \in Deps(t) : \E m \in 1..(k - 1) : d \in waves[m]
      BY <2>4, <3>1 DEF WavesInOrder, n
    <3>3. \A m \in 1..(k - 1) : waves'[m] = waves[m]
      BY <2>2
    <3> QED BY <2>5, <3>1, <3>2, <3>3
  <2>10. ASSUME NEW t \in ready
         PROVE  /\ t \notin rest /\ \A m \in 1..n : t \notin waves'[m]
                /\ \A d \in Deps(t)' : \E m \in 1..n : d \in waves'[m]
    <3>1. t \in Tasks /\ t \in DOMAIN remaining /\ remaining[t] = {}
      BY <2>1
    <3>2. \A m \in 1..n : t \notin waves[m]
      BY <2>4, <3>1 DEF WavesInOrder, n
    <3>3. ASSUME NEW d \in Deps(t) PROVE \E m \in 1..n : d \in waves[m]
      <4>1. d \in Tasks \ DOMAIN remaining
        BY <2>4, <3>1 DEF WavesInOrder, Deps
      <4> QED BY <2>4, <4>1 DEF WavesInOrder, n
    <3> QED BY <2>2, <2>5, <3>1, <3>2, <3>3
  <2>11. WavesInOrder'
    <3> HIDE DEF ready, rest
    <3>1. ASSUME NEW k \in 1..(n + 1), NEW t \in waves'[k]
          PROVE  /\ t \notin rest /\ \A m \in 1..(k - 1) : t \notin waves'[m]
                 /\ \A d \in Deps(t)' : \E m \in 1..(k - 1) : d \in waves'[m]
      <4>1. CASE k \in 1..n
        BY <2>9, <4>1
      <4>2. CASE k = n + 1
        <5>1. t \in ready /\ k - 1 = n
          BY <2>2, <4>2
        <5> QED BY <2>10, <5>1
      <4> QED BY <2>2, <4>1, <4>2
    <3> QED BY <1>1, <1>3, <2>2, <2>3, <2>6, <2>7, <2>8, <3>1 DEF WavesInOrder
  <2>12. Reported'
    BY <1>1, <1>2, <1>3 DEF GraphInv, Reported
  <2>13. cyclic' \in SUBSET Tasks /\ findings' \subseteq {"cycle", "checked", "unknown-dependency", "file-overlap"}
    BY <1>3 DEF GraphInv, GraphTypes
  <2> QED BY <1>1, <2>2, <2>11, <2>12, <2>13, NoSearchStep
<1>4. CASE ready = {} /\ cyclic' = rest /\ findings' = findings \cup {"cycle"} /\ UNCHANGED <<waves, remaining>>
  <2>1. WavesInOrder'
    <3>1. \A t \in Tasks : Deps(t)' = Deps(t)
      BY <1>1, GraphIsFixed
    <3>2. WavesInOrder /\ \A t \in DOMAIN remaining : remaining[t] # {}
      BY <1>4 DEF GraphInv
    <3>3. \A n \in 1..Len(waves) : waves[n] \subseteq Tasks
      BY DEF GraphInv, GraphTypes
    <3> HIDE DEF ready, rest
    <3> QED BY <1>1, <1>4, <3>1, <3>2, <3>3 DEF WavesInOrder
  <2>2. rest = DOMAIN remaining /\ rest # {}
    BY <1>1, <1>4
  <2>3. Reported'
    <3> HIDE DEF ready, rest
    <3> QED BY <1>1, <1>2, <1>4, <2>2 DEF GraphInv, Reported
  <2>4. waves' \in Seq(SUBSET Tasks) /\ cyclic' \in SUBSET Tasks
          /\ findings' \subseteq {"cycle", "checked", "unknown-dependency", "file-overlap"}
    <3>1. rest \subseteq Tasks
      BY DEF GraphInv, WavesInOrder
    <3> HIDE DEF ready, rest
    <3> QED BY <1>4, <3>1 DEF GraphInv, GraphTypes
  <2> QED BY <1>1, <2>1, <2>3, <2>4, NoSearchStep
<1> QED BY <1>3, <1>4 DEF _waves

LEMMA VisitStep ==
  ASSUME GraphInv, NEW d \in Tasks \cup {Unknown}, visit(d)
  PROVE  GraphInv'
<1> DEFINE rest == [Top EXCEPT !.todo = @ \ {d}]
<1>1. UNCHANGED <<depends_on, remaining, waves, cyclic, memo, findings>> /\ frames # <<>> /\ d \in Top.todo
  BY DEF visit
<1>2. "checked" \notin findings
  BY <1>1 DEF GraphInv, Reported, Checked
<1>3. /\ frames \in Seq(FrameSet) /\ memo \in [Tasks -> (SUBSET Tasks) \cup {NotYet}]
      /\ depends_on \in [Tasks -> SUBSET (Tasks \cup {Unknown})]
      /\ Acyclic => StackSound(frames) /\ MemoSound
  BY DEF GraphInv, GraphTypes
<1> DEFINE n == Len(frames)
<1>4. /\ n \in Nat \ {0} /\ Top = frames[n] /\ Top \in FrameSet
      /\ \A i \in 1..n : frames[i] \in FrameSet
  BY <1>1, <1>3, TopOfStack
<1>5. /\ rest \in FrameSet /\ rest.task = Top.task /\ rest.task \in Tasks
      /\ rest.acc = Top.acc /\ rest.todo = Top.todo \ {d}
  BY <1>4 DEF FrameSet
<1>6. ASSUME Acyclic
      PROVE  /\ rest.acc \subseteq AncestorsOf(rest.task) /\ Top.todo \subseteq depends_on[rest.task]
             /\ \A e \in Deps(rest.task) \ Top.todo : e \in rest.acc /\ AncestorsOf(e) \subseteq rest.acc
             /\ \A j \in 1..(n - 1) : rest.task \in AncestorsOf(frames[j].task)
  <2>1. FrameSound(frames, n)
    BY <1>3, <1>4, <1>6 DEF StackSound
  <2> QED BY <1>4, <1>5, <2>1 DEF FrameSound
<1>7. ASSUME Acyclic PROVE d \in Deps(rest.task) \/ d \notin Tasks
  BY <1>1, <1>6, <1>7 DEF Deps
\* Only a cycle leads back to a task whose visit is under way.
<1>8. ASSUME Acyclic, d \in OnStack PROVE d \notin Tasks
  <2> SUFFICES ASSUME d \in Tasks PROVE FALSE
    OBVIOUS
  <2>1. PICK j \in 1..n : d = frames[j].task
    <3>1. DOMAIN frames = 1..n
      BY <1>3
    <3> QED BY <1>8, <3>1 DEF OnStack
  <2>2. d \in AncestorsOf(rest.task)
    BY <1>5, <1>7, <1>8, AncestorLaws
  <2>3. CASE j = n
    BY <1>4, <1>5, <1>8, <2>1, <2>2, <2>3 DEF Acyclic
  <2>4. CASE j # n
    <3>1. j \in 1..(n - 1)
      BY <1>4, <2>4
    <3>2. rest.task \in AncestorsOf(d)
      BY <1>6, <1>8, <2>1, <3>1
    <3>3. d \in AncestorsOf(d)
      BY <2>2, <3>2, AncestorsOfAncestors
    <3> QED BY <1>8, <3>3 DEF Acyclic
  <2> QED BY <2>3, <2>4
<1> HIDE DEF rest, n
<1>9. CASE (d \notin Tasks \/ d \in OnStack) /\ frames' = Replace(rest)
  <2>1. ASSUME Acyclic PROVE StackSound(frames')
    <3>1. d \notin Tasks
      BY <1>8, <1>9, <2>1
    <3>2. rest.todo \subseteq depends_on[rest.task]
            /\ \A e \in Deps(rest.task) \ rest.todo : e \in rest.acc /\ AncestorsOf(e) \subseteq rest.acc
      BY <1>5, <1>6, <2>1, <3>1 DEF Deps
    <3> QED BY <1>1, <1>3, <1>5, <1>6, <1>9, <2>1, <3>2, SoundReplaced
  <2>2. Replace(rest) \in Seq(FrameSet)
    BY <1>1, <1>3, <1>5, ReplaceTop
  <2> QED BY <1>1, <1>2, <1>3, <1>9, <2>1, <2>2, SearchStep DEF MemoSound
<1>10. CASE d \in Tasks \ OnStack /\ memo[d] # NotYet
              /\ frames' = Replace([rest EXCEPT !.acc = @ \cup {d} \cup memo[d]])
  <2> DEFINE x == [rest EXCEPT !.acc = @ \cup {d} \cup memo[d]]
  <2>1. memo[d] \in SUBSET Tasks
    BY <1>3, <1>10
  <2>2. /\ x \in FrameSet /\ x.task = rest.task /\ x.todo = rest.todo
        /\ x.acc = rest.acc \cup {d} \cup memo[d]
    BY <1>5, <1>10, <2>1 DEF FrameSet
  <2> HIDE DEF x
  <2>3. ASSUME Acyclic PROVE StackSound(frames')
    <3>1. memo[d] = AncestorsOf(d) /\ d \in AncestorsOf(rest.task)
      BY <1>3, <1>5, <1>7, <1>10, <2>3, AncestorLaws DEF MemoSound
    <3>2. AncestorsOf(d) \subseteq AncestorsOf(rest.task)
      BY <1>5, <3>1, AncestorsOfAncestors
    <3>3. /\ x.acc \subseteq AncestorsOf(x.task) /\ x.todo \subseteq depends_on[x.task]
          /\ \A e \in Deps(x.task) \ x.todo : e \in x.acc /\ AncestorsOf(e) \subseteq x.acc
      BY <1>5, <1>6, <2>2, <2>3, <3>1, <3>2
    <3> QED BY <1>1, <1>3, <1>5, <1>10, <2>2, <2>3, <3>3, SoundReplaced DEF x
  <2>4. Replace(x) \in Seq(FrameSet)
    BY <1>1, <1>3, <2>2, ReplaceTop
  <2> QED BY <1>1, <1>2, <1>3, <1>10, <2>3, <2>4, SearchStep DEF MemoSound, x
<1>11. CASE d \in Tasks \ OnStack /\ memo[d] = NotYet
              /\ frames' = Append(Replace([rest EXCEPT !.acc = @ \cup {d}]), Frame(d))
  <2> DEFINE x == [rest EXCEPT !.acc = @ \cup {d}]
  <2>1. x \in FrameSet /\ x.task = rest.task /\ x.todo = rest.todo /\ x.acc = rest.acc \cup {d}
    BY <1>5, <1>11 DEF FrameSet
  <2> HIDE DEF x
  <2>2. frames' = Append(Replace(x), Frame(d))
    BY <1>11 DEF x
  <2>3. ASSUME Acyclic PROVE StackSound(frames')
    <3>1. d \in Deps(x.task) /\ d \in AncestorsOf(x.task)
      BY <1>5, <1>7, <1>11, <2>1, <2>3, AncestorLaws
    <3>2. /\ x.acc \subseteq AncestorsOf(x.task) /\ x.todo \subseteq depends_on[x.task]
          /\ \A e \in Deps(x.task) \ x.todo : e \in x.acc /\ (AncestorsOf(e) \subseteq x.acc \/ e = d)
      BY <1>5, <1>6, <2>1, <2>3, <3>1
    <3> QED BY <1>1, <1>3, <1>5, <2>1, <2>2, <2>3, <3>1, <3>2, SoundPushed
  <2>4. Append(Replace(x), Frame(d)) \in Seq(FrameSet)
    <3>1. Replace(x) \in Seq(FrameSet)
      BY <1>1, <1>3, <2>1, ReplaceTop
    <3>2. Frame(d) \in FrameSet
      BY <1>3, <1>11 DEF Frame, FrameSet
    <3> QED BY <3>1, <3>2, PushOnStack
  <2> QED BY <1>1, <1>2, <1>3, <2>2, <2>3, <2>4, SearchStep DEF MemoSound
<1> QED BY <1>9, <1>10, <1>11 DEF visit, rest

LEMMA ReturnStep == ASSUME GraphInv, VisitReturns PROVE GraphInv'
<1>1. UNCHANGED <<depends_on, remaining, waves, cyclic, findings>> /\ frames # <<>> /\ Top.todo = {}
        /\ memo' = [memo EXCEPT ![Top.task] = Top.acc]
  BY DEF VisitReturns
<1>2. "checked" \notin findings
  BY <1>1 DEF GraphInv, Reported, Checked
<1>3. /\ frames \in Seq(FrameSet) /\ memo \in [Tasks -> (SUBSET Tasks) \cup {NotYet}]
      /\ Acyclic => StackSound(frames) /\ MemoSound
  BY DEF GraphInv, GraphTypes
<1>4. Top \in FrameSet /\ Top.task \in Tasks /\ Top.acc \in SUBSET Tasks
  <2>1. Top \in FrameSet
    BY <1>1, <1>3, TopOfStack
  <2> QED BY <2>1 DEF FrameSet
<1>5. memo' \in [Tasks -> (SUBSET Tasks) \cup {NotYet}]
  BY <1>1, <1>3, <1>4
<1>6. ASSUME Acyclic PROVE \A t \in Tasks : memo'[t] # NotYet => memo'[t] = AncestorsOf(t)
  <2>1. Top.acc = AncestorsOf(Top.task)
    BY <1>1, <1>3, <1>6, FoundAll
  <2> QED BY <1>1, <1>3, <1>4, <1>6, <2>1 DEF MemoSound
<1>7. CASE Len(frames) = 1
  <2>1. frames' = << >>
    BY <1>7 DEF VisitReturns
  <2>2. frames' \in Seq(FrameSet) /\ StackSound(frames')
    BY <2>1 DEF StackSound
  <2> QED BY <1>1, <1>2, <1>5, <1>6, <2>2, SearchStep
<1>8. CASE Len(frames) # 1
  <2> DEFINE caller == Last(Front(frames))
             r == Append(Front(Front(frames)), [caller EXCEPT !.acc = @ \cup Top.acc])
             f == Front(frames)
             n == Len(frames) - 1
  <2>1. frames' = r
    BY <1>8 DEF VisitReturns
  <2>2. r \in Seq(FrameSet)
    <3>1. f \in Seq(FrameSet) /\ Len(f) = n /\ \A i \in 1..n : f[i] = frames[i]
      BY <1>1, <1>3, FrontOfStack
    <3>2. Len(frames) \in Nat \ {0}
      BY <1>1, <1>3
    <3>3. n \in Nat /\ n # 0
      BY <1>8, <3>2
    <3> HIDE DEF f, n
    <3>4. f # << >> /\ Last(f) \in FrameSet
      BY <3>1, <3>3 DEF Last
    <3>5. [Last(f) EXCEPT !.acc = @ \cup Top.acc] \in FrameSet
      BY <1>4, <3>4 DEF FrameSet
    <3>6. Front(f) \in Seq(FrameSet)
      BY <3>1, <3>4, FrontOfStack
    <3>7. Append(Front(f), [Last(f) EXCEPT !.acc = @ \cup Top.acc]) \in Seq(FrameSet)
      BY <3>5, <3>6, PushOnStack
    <3> QED BY <3>7 DEF f
  <2>3. ASSUME Acyclic PROVE StackSound(r)
    BY <1>1, <1>3, <1>8, <2>3, SoundReturn
  <2> HIDE DEF r
  <2> QED BY <1>1, <1>2, <1>5, <1>6, <2>1, <2>2, <2>3, SearchStep
<1> QED BY <1>7, <1>8

LEMMA GraphStep == ASSUME GraphInv, [GraphNext]_graphVars PROVE GraphInv'
<1>1. CASE _waves
  BY <1>1, WavesStep
<1>2. ASSUME NEW t \in Tasks, VisitTask(t) PROVE GraphInv'
  <2>1. UNCHANGED <<depends_on, remaining, waves, cyclic, memo, findings>> /\ memo[t] = NotYet
          /\ frames' = <<Frame(t)>>
    BY <1>2 DEF VisitTask
  <2>2. "checked" \notin findings
    BY <2>1 DEF GraphInv, Reported, Checked
  <2>3. Frame(t) \in FrameSet /\ Frame(t).task = t /\ Frame(t).acc = {} /\ Frame(t).todo = depends_on[t]
    BY DEF GraphInv, GraphTypes, Frame, FrameSet
  <2>4. frames' \in Seq(FrameSet) /\ Len(frames') = 1 /\ frames'[1] = Frame(t)
    BY <2>1, <2>3
  <2>5. FrameSound(frames', 1)
    BY <2>3, <2>4 DEF FrameSound, Deps
  <2>6. StackSound(frames')
    BY <2>4, <2>5 DEF StackSound
  <2> QED BY <2>1, <2>2, <2>4, <2>6, SearchStep DEF GraphInv, GraphTypes, MemoSound
<1>3. ASSUME NEW d \in Tasks \cup {Unknown}, visit(d) PROVE GraphInv'
  BY <1>3, VisitStep
<1>4. CASE VisitReturns
  BY <1>4, ReturnStep
<1>5. CASE check_graph
  <2>1. UNCHANGED <<depends_on, remaining, waves, cyclic, frames, memo>>
    BY <1>5 DEF check_graph
  <2>2. WavesInOrder'
    BY <2>1, GraphIsFixed DEF GraphInv, WavesInOrder, Deps
  <2>3. Reported' /\ findings' \subseteq {"cycle", "checked", "unknown-dependency", "file-overlap"}
    <3> DEFINE U == {"unknown-dependency" : t \in {u \in Tasks : Unknown \in depends_on[u]}}
               O == {"file-overlap" : p \in {q \in Tasks \X Tasks : Overlap(q[1], q[2])}}
    <3>1. Checked /\ "checked" \notin findings /\ findings' = findings \cup {"checked"} \cup U \cup O
      BY <1>5 DEF check_graph
    <3>2. U \subseteq {"unknown-dependency"} /\ ("unknown-dependency" \in U <=> \E t \in Tasks : Unknown \in depends_on[t])
      OBVIOUS
    <3>3. O \subseteq {"file-overlap"} /\ ("file-overlap" \in O <=> \E a, b \in Tasks : Overlap(a, b))
      <4>1. \A a, b \in Tasks : <<a, b>> \in Tasks \X Tasks /\ <<a, b>>[1] = a /\ <<a, b>>[2] = b
        OBVIOUS
      <4>2. \A q \in Tasks \X Tasks : q[1] \in Tasks /\ q[2] \in Tasks
        OBVIOUS
      <4> QED BY <4>1, <4>2
    <3> HIDE DEF U, O
    <3>4. Checked' /\ \A a, b \in Tasks : Overlap(a, b)' <=> Overlap(a, b)
      BY <2>1, <3>1 DEF Checked, WavesDone, Overlap
    <3>5. Reported /\ findings \subseteq {"cycle", "checked", "unknown-dependency", "file-overlap"}
      BY DEF GraphInv, GraphTypes
    <3> QED BY <2>1, <3>1, <3>2, <3>3, <3>4, <3>5 DEF Reported
  <2> QED BY <2>1, <2>2, <2>3, NoSearchStep DEF GraphInv, GraphTypes
<1>6. CASE UNCHANGED graphVars
  <2>1. UNCHANGED <<depends_on, remaining, waves, cyclic, frames, memo, findings>>
    BY <1>6 DEF graphVars
  <2>2. WavesInOrder'
    BY <2>1, GraphIsFixed DEF GraphInv, WavesInOrder, Deps
  <2>3. Reported'
    BY <2>1 DEF GraphInv, Reported, Checked, WavesDone, Overlap
  <2> QED BY <2>1, <2>2, <2>3, NoSearchStep DEF GraphInv, GraphTypes
<1> QED BY <1>1, <1>2, <1>3, <1>4, <1>5, <1>6 DEF GraphNext

\* What a task waits for is in waves before its own.
LEMMA AncestorsAreBefore ==
  ASSUME GraphInv, NEW n \in 1..Len(waves), NEW t \in waves[n], NEW d \in AncestorsOf(t)
  PROVE  \E m \in 1..(n - 1) : d \in waves[m]
<1> DEFINE S == {x \in Tasks : \E m \in 1..(n - 1) : x \in waves[m]}
<1>1. /\ waves \in Seq(SUBSET Tasks) /\ Len(waves) \in Nat /\ \A i \in 1..Len(waves) : waves[i] \subseteq Tasks
      /\ WavesInOrder
  BY DEF GraphInv, GraphTypes
<1>2. Deps(t) \subseteq S /\ t \in Tasks
  BY <1>1 DEF WavesInOrder, Deps
<1>3. ASSUME NEW x \in S PROVE Deps(x) \subseteq S
  <2>1. PICK m \in 1..(n - 1) : x \in waves[m]
    OBVIOUS
  <2>2. m \in 1..Len(waves) /\ \A k \in 1..(m - 1) : k \in 1..(n - 1)
    BY <1>1
  <2>3. \A e \in Deps(x) : \E k \in 1..(m - 1) : e \in waves[k]
    BY <1>1, <2>1, <2>2 DEF WavesInOrder
  <2> QED BY <2>2, <2>3 DEF Deps
<1>4. S \in SUBSET Tasks
  OBVIOUS
<1>5. AncestorsOf(t) \subseteq S
  <2> HIDE DEF S
  <2> QED BY <1>2, <1>3, <1>4, AncestorLaws
<1> QED BY <1>5

\* A cycle is reported exactly when there is one.
LEMMA CycleIsReported ==
  ASSUME GraphInv, WavesDone
  PROVE  "cycle" \in findings <=> ~Acyclic
<1>1. WavesInOrder /\ Reported
  BY DEF GraphInv
<1>2. ASSUME "cycle" \in findings PROVE ~Acyclic
  <2>1. DOMAIN remaining \in SUBSET Tasks /\ DOMAIN remaining # {}
          /\ \A t \in DOMAIN remaining : Deps(t) \cap DOMAIN remaining # {}
    BY <1>1, <1>2 DEF WavesInOrder, Reported
  <2> QED BY <2>1, NoneReadyIsACycle
<1>3. ASSUME "cycle" \notin findings, NEW t \in Tasks, t \in AncestorsOf(t) PROVE FALSE
  <2>1. DOMAIN remaining = {}
    BY <1>1, <1>3 DEF Reported, WavesDone
  <2>2. PICK n \in 1..Len(waves) : t \in waves[n]
    BY <1>1, <2>1 DEF WavesInOrder
  <2>3. \E m \in 1..(n - 1) : t \in waves[m]
    BY <1>3, <2>2, AncestorsAreBefore
  <2> QED BY <1>1, <2>2, <2>3 DEF WavesInOrder
<1> QED BY <1>2, <1>3 DEF Acyclic

\* A report without errors means that the waves can run in parallel, and errors are
\* reported when there are any: _waves and _ancestors, which find the order of the
\* tasks in different ways, agree with the graph.
THEOREM CleanReportsAreSafe == GraphSpec => []CleanReportIsSafe
<1>1. GraphInv => CleanReportIsSafe
  <2> SUFFICES ASSUME GraphInv, "checked" \in findings PROVE CleanReportIsSafe
    BY DEF CleanReportIsSafe
  <2> DEFINE unordered == \E a, b \in Tasks :
               a # b /\ FilesOf[a] \cap FilesOf[b] # {} /\ a \notin AncestorsOf(b) /\ b \notin AncestorsOf(a)
  <2>1. WavesInOrder /\ Reported /\ Checked
    BY DEF GraphInv, Reported
  <2>2. "cycle" \in findings <=> ~Acyclic
    BY <2>1, CycleIsReported DEF Checked
  <2>3. ASSUME Acyclic PROVE "file-overlap" \in findings <=> unordered
    <3>1. \A t \in Tasks : memo[t] = AncestorsOf(t)
      BY <2>1, <2>3 DEF GraphInv, MemoSound, Checked
    <3>2. (\E a, b \in Tasks : Overlap(a, b)) <=> unordered
      BY <3>1 DEF Overlap
    <3> QED BY <2>1, <3>2 DEF Reported
  <2>4. ASSUME findings = {"checked"}
        PROVE  /\ \A t \in Tasks : \E n \in DOMAIN waves :
                    t \in waves[n] /\ \A d \in depends_on[t] : \E m \in 1..(n - 1) : d \in waves[m]
               /\ \A n \in DOMAIN waves : \A a, b \in waves[n] : a # b => FilesOf[a] \cap FilesOf[b] = {}
    <3>1. /\ "cycle" \notin findings /\ "file-overlap" \notin findings
          /\ "unknown-dependency" \notin findings
      BY <2>4
    <3>2. Acyclic /\ ~unordered
      BY <2>2, <2>3, <3>1
    <3>3. \A t \in Tasks : Unknown \notin depends_on[t]
      BY <2>1, <3>1 DEF Reported
    <3>4. DOMAIN waves = 1..Len(waves) /\ \A n \in 1..Len(waves) : waves[n] \subseteq Tasks
      BY DEF GraphInv, GraphTypes
    <3>5. DOMAIN remaining = {}
      BY <2>1, <3>1 DEF Checked, WavesDone, Reported
    <3>6. ASSUME NEW t \in Tasks
          PROVE  \E n \in DOMAIN waves :
                   t \in waves[n] /\ \A d \in depends_on[t] : \E m \in 1..(n - 1) : d \in waves[m]
      <4>1. PICK n \in 1..Len(waves) : t \in waves[n]
        BY <2>1, <3>5 DEF WavesInOrder
      <4>2. \A d \in Deps(t) : \E m \in 1..(n - 1) : d \in waves[m]
        BY <2>1, <4>1 DEF WavesInOrder
      <4>3. depends_on[t] = Deps(t)
        BY <3>3 DEF Deps, GraphInv, GraphTypes
      <4> QED BY <3>4, <4>1, <4>2, <4>3
    <3>7. ASSUME NEW n \in DOMAIN waves, NEW a \in waves[n], NEW b \in waves[n], a # b
          PROVE  FilesOf[a] \cap FilesOf[b] = {}
      <4>1. a \in Tasks /\ b \in Tasks /\ n \in 1..Len(waves)
        BY <3>4
      <4>2. ASSUME NEW x \in waves[n], NEW y \in waves[n], x \in AncestorsOf(y) PROVE FALSE
        <5>1. \E m \in 1..(n - 1) : x \in waves[m]
          BY <4>1, <4>2, AncestorsAreBefore
        <5> QED BY <2>1, <4>1, <5>1 DEF WavesInOrder
      <4> QED BY <3>2, <3>7, <4>1, <4>2
    <3> QED BY <3>6, <3>7
  <2>5. ~Acyclic <=> \E t \in Tasks : t \in AncestorsOf(t)
    BY DEF Acyclic
  <2> QED BY <2>2, <2>3, <2>4, <2>5 DEF CleanReportIsSafe
<1> QED BY <1>1, GraphBoot, GraphStep, PTL DEF GraphSpec

-----------------------------------------------------------------------------
(* Subscriptions.                                                           *)

\* list.remove of an element.
LEMMA RemoveFirstSeq ==
  ASSUME NEW S, NEW s \in Seq(S), NEW e
  PROVE  \/ e \notin ToSet(s) /\ RemoveFirst(s, e) = s
         \/ \E n \in 1..Len(s) : s[n] = e /\ RemoveFirst(s, e) = RemoveAt(s, n)
<1> DEFINE I == {i \in 1..Len(s) : s[i] = e}
<1>1. CASE I = {}
  <2>1. DOMAIN s = 1..Len(s)
    BY LenProperties
  <2> QED BY <1>1, <2>1 DEF RemoveFirst, ToSet
<1>2. CASE I # {}
  <2>1. I \subseteq Nat
    OBVIOUS
  <2>2. PICK m \in I : \A y \in I : m <= y
    <3> HIDE DEF I
    <3> QED BY <1>2, <2>1, LeastNumber
  <2>3. Min(I) \in I
    BY <2>2 DEF Min
  <2>4. RemoveFirst(s, e) = RemoveAt(s, Min(I))
    BY <1>2 DEF RemoveFirst, SelectInSeq
  <2> QED BY <2>3, <2>4
<1> QED BY <1>1, <1>2

\* The places that subscriptions get in order of priority.
Sooner(q, j, i) == Rank[q[j]] > Rank[q[i]] \/ (Rank[q[j]] = Rank[q[i]] /\ j <= i)

LEMMA Ranks == \A s \in BusSubs : Rank[s] \in Nat
BY SubscriptionsAssumption

LEMMA SoonerOrder ==
  ASSUME NEW q \in Seq(BusSubs), NEW i \in 1..Len(q), NEW j \in 1..Len(q), i # j
  PROVE  /\ Sooner(q, i, i)
         /\ Sooner(q, i, j) <=> ~Sooner(q, j, i)
         /\ \A k \in 1..Len(q) : Sooner(q, k, j) /\ Sooner(q, j, i) => Sooner(q, k, i)
<1>1. \A k \in 1..Len(q) : q[k] \in BusSubs /\ k \in Nat
  BY LenProperties, ElementOfSeq
<1>2. \A k \in 1..Len(q) : Rank[q[k]] \in Nat
  BY <1>1, Ranks
<1> QED BY <1>1, <1>2 DEF Sooner

LEMMA PlacesAreOrdered ==
  ASSUME NEW q \in Seq(BusSubs)
  PROVE  /\ \A i \in 1..Len(q) : Place(q, i) \in 1..Len(q)
         /\ \A i, j \in 1..Len(q) : i # j /\ Sooner(q, j, i) => Place(q, j) < Place(q, i)
<1> DEFINE n == Len(q)
           A(i) == {j \in 1..n : Sooner(q, j, i)}
<1>1. n \in Nat /\ DOMAIN q = 1..n
  BY LenProperties
<1>2. \A i \in 1..n : Place(q, i) = Cardinality(A(i))
  BY <1>1 DEF Place, Sooner
<1> HIDE DEF n
<1>3. IsFiniteSet(1..n) /\ Cardinality(1..n) = n
  <2>1. 1 \in Int /\ n \in Int /\ (IF 1 > n THEN 0 ELSE n - 1 + 1) = n
    BY <1>1
  <2> QED BY <2>1, FS_Interval
<1>4. ASSUME NEW i \in 1..n
      PROVE  IsFiniteSet(A(i)) /\ Cardinality(A(i)) \in 1..n /\ i \in A(i)
  <2>1. A(i) \in SUBSET (1..n)
    OBVIOUS
  <2>2. i \in A(i)
    BY DEF Sooner
  <2> HIDE DEF A
  <2>3. IsFiniteSet(A(i)) /\ Cardinality(A(i)) <= n
    BY <1>3, <2>1, FS_Subset
  <2>4. Cardinality(A(i)) \in Nat
    BY <2>3, FS_CardinalityType
  <2>5. Cardinality(A(i)) # 0
    BY <2>2, <2>3, FS_EmptySet
  <2> QED BY <1>1, <2>2, <2>3, <2>4, <2>5
<1>5. ASSUME NEW i \in 1..n, NEW j \in 1..n, i # j, Sooner(q, j, i)
      PROVE  Cardinality(A(j)) < Cardinality(A(i))
  <2>1. A(j) \subseteq A(i)
    BY <1>5, SoonerOrder DEF n
  <2>2. i \notin A(j)
    BY <1>5, SoonerOrder DEF n
  <2> HIDE DEF A
  <2>3. i \in A(i) /\ IsFiniteSet(A(i)) /\ Cardinality(A(i)) \in Nat /\ Cardinality(A(j)) \in Nat
    <3>1. \A k \in 1..n : k \in Nat
      OBVIOUS
    <3> QED BY <1>4, <3>1
  <2>4. Cardinality(A(j)) <= Cardinality(A(i)) /\ (Cardinality(A(i)) = Cardinality(A(j)) => A(i) = A(j))
    BY <2>1, <2>3, FS_Subset
  <2>5. Cardinality(A(j)) # Cardinality(A(i))
    BY <2>2, <2>3, <2>4
  <2> QED BY <2>3, <2>4, <2>5
<1> QED BY <1>2, <1>4, <1>5 DEF n

\* Every place is somebody's.
LEMMA PlacesAreTaken ==
  ASSUME NEW q \in Seq(BusSubs), NEW n \in 1..Len(q)
  PROVE  \E i \in 1..Len(q) : Place(q, i) = n
<1> DEFINE I == 1..Len(q)
           f == [i \in I |-> Place(q, i)]
<1>1. Len(q) \in Nat
  BY LenProperties
<1>2. IsFiniteSet(I)
  BY <1>1, FS_Interval
<1>3. \A i \in I : f[i] = Place(q, i) /\ Place(q, i) \in I
  BY PlacesAreOrdered
<1>4. \A i, j \in I : i # j => Place(q, i) # Place(q, j)
  <2> SUFFICES ASSUME NEW i \in I, NEW j \in I, i # j PROVE Place(q, i) # Place(q, j)
    OBVIOUS
  <2>1. Place(q, i) \in Nat /\ Place(q, j) \in Nat
    BY <1>3
  <2>2. Sooner(q, i, j) \/ Sooner(q, j, i)
    BY SoonerOrder
  <2>3. Place(q, i) < Place(q, j) \/ Place(q, j) < Place(q, i)
    BY <2>2, PlacesAreOrdered
  <2> QED BY <2>1, <2>3
<1>5. f \in [I -> I]
  BY <1>3
<1>6. f \in Injection(I, I)
  <2>1. \A a, b \in I : f[a] = f[b] => a = b
    BY <1>3, <1>4
  <2> QED BY <1>5, <2>1 DEF Injection, IsInjective
<1>7. f \in Surjection(I, I)
  <2> HIDE DEF f, I
  <2> QED BY <1>2, <1>6, FS_Injection
<1>8. \E i \in I : f[i] = n
  <2> HIDE DEF f
  <2> QED BY <1>7 DEF Surjection
<1> QED BY <1>3, <1>8

\* The list in order of priority: the same subscriptions, a higher rank first and of
\* equal ones the earlier in the list first.
LEMMA ByPrioritySorts ==
  ASSUME NEW q \in Seq(BusSubs)
  PROVE  LET r == ByPriority(q) IN
         /\ r \in Seq(BusSubs) /\ Len(r) = Len(q) /\ ToSet(r) = ToSet(q)
         /\ \A a, b \in 1..Len(r) : a < b =>
              \E i, j \in 1..Len(q) : i # j /\ r[a] = q[i] /\ r[b] = q[j] /\ Sooner(q, i, j)
<1> DEFINE r == ByPriority(q)
           n == Len(q)
           f(m) == CHOOSE i \in 1..n : Place(q, i) = m
<1>1. n \in Nat /\ DOMAIN q = 1..n /\ \A i \in 1..n : q[i] \in BusSubs
  BY LenProperties, ElementOfSeq
<1>2. \A m \in 1..n : f(m) \in 1..n /\ Place(q, f(m)) = m
  <2> SUFFICES ASSUME NEW m \in 1..n PROVE f(m) \in 1..n /\ Place(q, f(m)) = m
    OBVIOUS
  <2>1. \E i \in 1..n : Place(q, i) = m
    BY PlacesAreTaken
  <2> QED BY <2>1
<1>3. r = [m \in 1..n |-> q[f(m)]]
  BY <1>1 DEF ByPriority
<1> HIDE DEF n, r, f
<1>4. r \in [1..n -> BusSubs]
  BY <1>1, <1>2, <1>3
<1>5. r \in Seq(BusSubs) /\ Len(r) = n /\ DOMAIN r = 1..n
  BY <1>1, <1>4
<1>6. \A i \in 1..n : f(Place(q, i)) = i /\ Place(q, i) \in 1..n
  <2> SUFFICES ASSUME NEW i \in 1..n PROVE f(Place(q, i)) = i /\ Place(q, i) \in 1..n
    OBVIOUS
  <2> DEFINE m == Place(q, i)
             k == f(m)
  <2>1. m \in 1..n
    BY PlacesAreOrdered DEF n
  <2>2. k \in 1..n /\ Place(q, k) = m
    BY <1>2, <2>1
  <2>3. CASE k # i
    <3>1. Sooner(q, i, k) \/ Sooner(q, k, i)
      BY <2>2, <2>3, SoonerOrder DEF n
    <3>2. Place(q, i) < Place(q, k) \/ Place(q, k) < Place(q, i)
      BY <2>2, <2>3, <3>1, PlacesAreOrdered DEF n
    <3>3. m \in Nat
      BY <2>1
    <3> QED BY <2>2, <3>2, <3>3
  <2> QED BY <2>1, <2>3
<1>7. ToSet(r) = ToSet(q)
  <2>1. ToSet(r) = {r[m] : m \in 1..n} /\ ToSet(q) = {q[m] : m \in 1..n}
    BY <1>1, <1>5 DEF ToSet
  <2>2. \A m \in 1..n : r[m] = q[f(m)] /\ f(m) \in 1..n
    BY <1>2, <1>3
  <2>3. \A i \in 1..n : r[Place(q, i)] = q[i]
    BY <1>6, <2>2
  <2>4. \A m \in 1..n : r[m] \in ToSet(q)
    BY <2>1, <2>2
  <2>5. \A i \in 1..n : q[i] \in ToSet(r)
    <3> SUFFICES ASSUME NEW i \in 1..n PROVE q[i] \in ToSet(r)
      OBVIOUS
    <3>1. Place(q, i) \in 1..n /\ r[Place(q, i)] = q[i]
      BY <1>6, <2>3
    <3> QED BY <2>1, <3>1
  <2> QED BY <2>1, <2>4, <2>5
<1>8. ASSUME NEW a \in 1..n, NEW b \in 1..n, a < b
      PROVE  \E i, j \in 1..n : i # j /\ r[a] = q[i] /\ r[b] = q[j] /\ Sooner(q, i, j)
  <2>1. /\ f(a) \in 1..n /\ f(b) \in 1..n /\ Place(q, f(a)) = a /\ Place(q, f(b)) = b
        /\ r[a] = q[f(a)] /\ r[b] = q[f(b)]
    BY <1>2, <1>3
  <2>2. f(a) # f(b) /\ ~(b < a)
    BY <1>1, <1>8, <2>1
  <2>3. ~Sooner(q, f(b), f(a))
    BY <2>1, <2>2, PlacesAreOrdered DEF n
  <2>4. Sooner(q, f(a), f(b))
    BY <2>1, <2>2, <2>3, SoonerOrder DEF n
  <2> QED BY <2>1, <2>2, <2>4
<1> QED BY <1>5, <1>7, <1>8 DEF r, n

-----------------------------------------------------------------------------
InTurn(q) == \A i, j \in 1..Len(q) : i < j => Precedes(q[i], q[j])
Joined == {s \in BusSubs : since[s] > 0}
Walks == {Resting} \cup [env : Letterbox, todo : Seq(BusSubs), in : BOOLEAN]

SubscriptionTypes ==
  /\ since \in [BusSubs -> Nat]
  /\ exact \in Seq(BusSubs) /\ globs \in Seq(BusSubs)
  /\ walk \in [Dispatchers -> Walks]
  /\ called \in [Letterbox -> Seq(BusSubs)]
  /\ present \in [Letterbox -> (SUBSET BusSubs) \cup {Unset}]

\* Numbers are given in the order of subscribe.
Numbered ==
  /\ \A s \in BusSubs : since[s] <= Cardinality(Joined)
  /\ \A s, t \in Joined : since[s] = since[t] => s = t

\* Each list is in order, with subscriptions of its kind.
ListsInTurn ==
  /\ InTurn(exact) /\ ToSet(exact) \subseteq Joined \ Globs
  /\ InTurn(globs) /\ ToSet(globs) \subseteq Joined \cap Globs

Wanting(S, e) == {s \in S : Wants(s, e)}

\* What a dispatch called and what it still has before it: together they are the
\* subscriptions that want the envelope, and those called come first.
WalkSound(w) ==
  LET e == walk[w].env
      todo == walk[w].todo IN
  e # Unset =>
    /\ present[e] # Unset /\ InTurn(todo) /\ ToSet(todo) \subseteq Joined
    /\ \A s \in ToSet(called[e]), t \in ToSet(todo) : Precedes(s, t)
    /\ ToSet(called[e]) \cup Wanting(ToSet(todo), e) = Wanting(present[e], e)

CallsSound ==
  /\ \A w \in Dispatchers : WalkSound(w)
  /\ \A v, w \in Dispatchers : v # w /\ walk[w].env # Unset => walk[v].env # walk[w].env
  /\ \A e \in Letterbox :
       /\ InTurn(called[e]) /\ ToSet(called[e]) \subseteq Joined
       /\ present[e] = Unset => called[e] = << >> /\ ~Under(e)
       /\ present[e] # Unset /\ ~Under(e) => ToSet(called[e]) = Wanting(present[e], e)

SubscriptionsInv == SubscriptionTypes /\ Numbered /\ ListsInTurn /\ CallsSound

-----------------------------------------------------------------------------
\* The order under a numbering: since, before and after a step.
PrecedesBy(num, s, t) ==
  \/ Rank[s] > Rank[t]
  \/ Rank[s] = Rank[t] /\ s \notin Globs /\ t \in Globs
  \/ Rank[s] = Rank[t] /\ (s \in Globs <=> t \in Globs) /\ num[s] < num[t]
InTurnBy(num, q) == \A i, j \in 1..Len(q) : i < j => PrecedesBy(num, q[i], q[j])

LEMMA ByTheNumbers ==
  /\ \A q : InTurn(q) <=> InTurnBy(since, q)
  /\ \A q : InTurn(q)' <=> InTurnBy(since', q)
  /\ \A s, t : Precedes(s, t) <=> PrecedesBy(since, s, t)
  /\ \A s, t : Precedes(s, t)' <=> PrecedesBy(since', s, t)
BY DEF InTurn, InTurnBy, Precedes, PrecedesBy

\* A list stays in order when nobody in it gets another number.
LEMMA RenumberedInTurn ==
  ASSUME NEW q \in Seq(BusSubs), NEW a, NEW b, InTurnBy(a, q), \A s \in ToSet(q) : b[s] = a[s]
  PROVE  InTurnBy(b, q)
<1>1. Len(q) \in Nat /\ DOMAIN q = 1..Len(q)
  BY LenProperties
<1>2. \A i \in 1..Len(q) : b[q[i]] = a[q[i]]
  BY <1>1 DEF ToSet
<1> QED BY <1>2 DEF InTurnBy, PrecedesBy

\* Sorting by priority gives the order, when those of equal rank are in order.
LEMMA SortedInTurn ==
  ASSUME NEW q \in Seq(BusSubs), NEW num,
         \A i, j \in 1..Len(q) : i < j /\ Rank[q[i]] = Rank[q[j]] => PrecedesBy(num, q[i], q[j])
  PROVE  InTurnBy(num, ByPriority(q))
<1> DEFINE r == ByPriority(q)
<1>1. \A a, b \in 1..Len(r) : a < b =>
        \E i, j \in 1..Len(q) : i # j /\ r[a] = q[i] /\ r[b] = q[j] /\ Sooner(q, i, j)
  BY ByPrioritySorts
<1> HIDE DEF r
<1> SUFFICES ASSUME NEW a \in 1..Len(r), NEW b \in 1..Len(r), a < b PROVE PrecedesBy(num, r[a], r[b])
  BY DEF InTurnBy, r
<1>2. PICK i \in 1..Len(q), j \in 1..Len(q) : i # j /\ r[a] = q[i] /\ r[b] = q[j] /\ Sooner(q, i, j)
  BY <1>1
<1>3. CASE Rank[q[i]] > Rank[q[j]]
  BY <1>2, <1>3 DEF PrecedesBy
<1>4. CASE Rank[q[i]] = Rank[q[j]] /\ i <= j
  <2>1. i < j
    BY <1>2, <1>4
  <2> QED BY <1>2, <1>4, <2>1
<1> QED BY <1>2, <1>3, <1>4 DEF Sooner

\* A subscription with a number above all others goes to the end of those of its rank.
LEMMA AddedInTurn ==
  ASSUME NEW q \in Seq(BusSubs), NEW s \in BusSubs, NEW num, InTurnBy(num, q),
         \A t \in ToSet(q) : (t \in Globs <=> s \in Globs) /\ num[t] < num[s]
  PROVE  LET r == ByPriority(Append(q, s)) IN
         r \in Seq(BusSubs) /\ InTurnBy(num, r) /\ ToSet(r) = ToSet(q) \cup {s}
<1> DEFINE p == Append(q, s)
           n == Len(q)
<1>1. /\ p \in Seq(BusSubs) /\ Len(p) = n + 1 /\ p[n + 1] = s /\ n \in Nat
      /\ \A i \in 1..n : p[i] = q[i]
  BY AppendProperties, LenProperties
<1>2. DOMAIN q = 1..n /\ DOMAIN p = 1..(n + 1)
  BY <1>1, LenProperties
<1>3. ToSet(p) = ToSet(q) \cup {s}
  <2> HIDE DEF p, n
  <2>1. ToSet(p) = {p[i] : i \in 1..(n + 1)} /\ ToSet(q) = {q[i] : i \in 1..n}
    BY <1>2 DEF ToSet
  <2>2. \A i \in 1..(n + 1) : i \in 1..n \/ i = n + 1
    BY <1>1
  <2>3. n + 1 \in 1..(n + 1) /\ \A i \in 1..n : i \in 1..(n + 1)
    BY <1>1
  <2> QED BY <1>1, <2>1, <2>2, <2>3
<1> HIDE DEF p, n
<1>4. ASSUME NEW i \in 1..(n + 1), NEW j \in 1..(n + 1), i < j, Rank[p[i]] = Rank[p[j]]
      PROVE  PrecedesBy(num, p[i], p[j])
  <2>1. i \in 1..n /\ (j \in 1..n \/ j = n + 1)
    BY <1>1, <1>4
  <2>2. CASE j \in 1..n
    BY <1>1, <1>4, <2>1, <2>2 DEF InTurnBy, n
  <2>3. CASE j = n + 1
    <3>1. p[j] = s /\ p[i] \in ToSet(q)
      BY <1>1, <1>2, <2>1, <2>3 DEF ToSet
    <3> QED BY <1>4, <3>1 DEF PrecedesBy
  <2> QED BY <2>1, <2>2, <2>3
<1>5. InTurnBy(num, ByPriority(p))
  BY <1>1, <1>4, SortedInTurn
<1>6. ByPriority(p) \in Seq(BusSubs) /\ ToSet(ByPriority(p)) = ToSet(p)
  BY <1>1, ByPrioritySorts
<1> QED BY <1>3, <1>5, <1>6 DEF p

\* A list without one of its subscriptions, which is in it once.
LEMMA RemovedInTurn ==
  ASSUME NEW q \in Seq(BusSubs), NEW s, NEW num, InTurnBy(num, q)
  PROVE  LET r == RemoveFirst(q, s) IN
         r \in Seq(BusSubs) /\ InTurnBy(num, r) /\ ToSet(r) \subseteq ToSet(q)
<1>1. CASE RemoveFirst(q, s) = q
  BY <1>1
<1>2. ASSUME NEW n \in 1..Len(q), RemoveFirst(q, s) = RemoveAt(q, n)
      PROVE  LET r == RemoveFirst(q, s) IN
             r \in Seq(BusSubs) /\ InTurnBy(num, r) /\ ToSet(r) \subseteq ToSet(q)
  <2> DEFINE r == RemoveAt(q, n)
             m == Len(q) - 1
             old(k) == IF k < n THEN k ELSE k + 1
  <2>1. r \in Seq(BusSubs) /\ Len(r) = m /\ \A k \in 1..m : r[k] = IF k < n THEN q[k] ELSE q[k + 1]
    BY RemoveAtSeq
  <2>2. Len(q) \in Nat /\ DOMAIN q = 1..Len(q) /\ DOMAIN r = 1..m
    BY <2>1, LenProperties
  <2>3. ASSUME NEW k \in 1..m PROVE r[k] = q[old(k)] /\ old(k) \in 1..Len(q)
    <3>1. k \in Nat /\ n \in Nat /\ k + 1 \in 1..Len(q) /\ k \in 1..Len(q)
      BY <2>2
    <3> QED BY <2>1, <3>1
  <2>4. \A k, l \in 1..m : k < l => old(k) < old(l)
    <3> SUFFICES ASSUME NEW k \in 1..m, NEW l \in 1..m, k < l PROVE old(k) < old(l)
      OBVIOUS
    <3>1. k \in Nat /\ l \in Nat /\ n \in Nat
      BY <2>2
    <3> HIDE DEF r, m
    <3>2. CASE l < n
      BY <3>1, <3>2
    <3>3. CASE ~(l < n)
      BY <3>1, <3>3
    <3> QED BY <3>2, <3>3
  <2> HIDE DEF r, old, m
  <2>5. InTurnBy(num, r)
    BY <2>1, <2>3, <2>4 DEF InTurnBy
  <2>6. ToSet(r) \subseteq ToSet(q)
    BY <2>2, <2>3 DEF ToSet
  <2> QED BY <1>2, <2>1, <2>5, <2>6 DEF r
<1> QED BY <1>1, <1>2, RemoveFirstSeq

\* What comes after the first one that wants the envelope: those before it do not.
LEMMA RestOfTheWalk ==
  ASSUME NEW q \in Seq(BusSubs), NEW num, InTurnBy(num, q), NEW e, NEW n \in 1..Len(q),
         Wants(q[n], e), \A k \in 1..Len(q) : Wants(q[k], e) => n <= k
  PROVE  LET r == SubSeq(q, n + 1, Len(q)) IN
         /\ r \in Seq(BusSubs) /\ InTurnBy(num, r) /\ ToSet(r) \subseteq ToSet(q)
         /\ Wanting(ToSet(q), e) = Wanting(ToSet(r), e) \cup {q[n]}
         /\ \A t \in ToSet(r) : PrecedesBy(num, q[n], t)
<1> DEFINE r == SubSeq(q, n + 1, Len(q))
           m == Len(q) - n
<1>1. Len(q) \in Nat /\ n \in Nat /\ n <= Len(q) /\ DOMAIN q = 1..Len(q) /\ m \in Nat /\ n + m = Len(q)
  BY LenProperties
<1>2. r \in Seq(BusSubs) /\ Len(r) = m /\ \A k \in 1..m : r[k] = q[n + k]
  OBVIOUS
<1>3. DOMAIN r = 1..m
  BY <1>2, LenProperties
<1> HIDE DEF r, m
<1>4. ToSet(r) = {r[k] : k \in 1..m} /\ ToSet(q) = {q[k] : k \in 1..Len(q)}
  BY <1>1, <1>3 DEF ToSet
<1>5. \A k \in 1..m : n + k \in 1..Len(q) /\ n < n + k
  BY <1>1
<1>6. ToSet(r) \subseteq ToSet(q)
  BY <1>2, <1>4, <1>5
<1>7. InTurnBy(num, r)
  <2> SUFFICES ASSUME NEW k \in 1..m, NEW l \in 1..m, k < l PROVE PrecedesBy(num, r[k], r[l])
    BY <1>2 DEF InTurnBy
  <2>1. n + k < n + l
    BY <1>1
  <2> QED BY <1>2, <1>5, <2>1 DEF InTurnBy
<1>8. \A t \in ToSet(r) : PrecedesBy(num, q[n], t)
  BY <1>2, <1>4, <1>5 DEF InTurnBy
<1>9. ASSUME NEW s \in ToSet(q), Wants(s, e), s # q[n] PROVE s \in ToSet(r)
  <2>1. PICK k \in 1..Len(q) : s = q[k]
    BY <1>4
  <2>2. k - n \in 1..m /\ k = n + (k - n)
    BY <1>1, <1>9, <2>1
  <2> QED BY <1>2, <1>4, <2>1, <2>2
<1>10. q[n] \in ToSet(q)
  BY <1>4
<1>11. Wanting(ToSet(q), e) = Wanting(ToSet(r), e) \cup {q[n]}
  BY <1>6, <1>9, <1>10 DEF Wanting
<1> QED BY <1>2, <1>6, <1>7, <1>8, <1>11 DEF r

-----------------------------------------------------------------------------
LEMMA SubscriptionsBoot == SubscriptionsInit => SubscriptionsInv
<1> SUFFICES ASSUME SubscriptionsInit PROVE SubscriptionsInv
  OBVIOUS
<1>1. << >> \in Seq(BusSubs) /\ ToSet(<< >>) = {} /\ InTurn(<< >>)
  BY DEF ToSet, InTurn
<1>2. SubscriptionTypes
  BY <1>1 DEF SubscriptionsInit, SubscriptionTypes, Walks
<1>3. Numbered
  <2>1. Joined = {}
    BY DEF SubscriptionsInit, Joined
  <2> QED BY <2>1, FS_EmptySet DEF SubscriptionsInit, Numbered
<1>4. ListsInTurn
  BY <1>1 DEF SubscriptionsInit, ListsInTurn
<1>5. \A w \in Dispatchers : walk[w].env = Unset
  BY DEF SubscriptionsInit, Resting
<1>6. \A e \in Letterbox : called[e] = << >> /\ present[e] = Unset /\ ~Under(e)
  BY <1>5, SubscriptionsAssumption DEF SubscriptionsInit, Under
<1>7. CallsSound
  <2> HIDE DEF Wanting
  <2> QED BY <1>1, <1>5, <1>6 DEF CallsSound, WalkSound
<1> QED BY <1>2, <1>3, <1>4, <1>7 DEF SubscriptionsInv

\* Subscribing and unsubscribing do not reach what a dispatch took.
LEMMA CallsKept ==
  ASSUME SubscriptionsInv, UNCHANGED <<walk, called, present>>,
         \A t \in Joined : t \in Joined' /\ since'[t] = since[t]
  PROVE  CallsSound'
<1>1. \A s, t \in Joined : Precedes(s, t)' <=> Precedes(s, t)
  BY DEF Precedes
<1>2. ASSUME NEW w \in Dispatchers PROVE WalkSound(w)'
  <2> DEFINE e == walk[w].env
             todo == walk[w].todo
  <2> SUFFICES ASSUME e # Unset PROVE WalkSound(w)'
    BY DEF WalkSound
  <2>1. e \in Letterbox /\ todo \in Seq(BusSubs)
    BY DEF SubscriptionsInv, SubscriptionTypes, Walks, Resting
  <2>2. /\ present[e] # Unset /\ InTurn(todo) /\ ToSet(todo) \subseteq Joined
        /\ \A s \in ToSet(called[e]), t \in ToSet(todo) : Precedes(s, t)
        /\ ToSet(called[e]) \cup Wanting(ToSet(todo), e) = Wanting(present[e], e)
    BY DEF SubscriptionsInv, CallsSound, WalkSound
  <2>3. ToSet(called[e]) \subseteq Joined
    BY <2>1 DEF SubscriptionsInv, CallsSound
  <2>4. InTurnBy(since', todo)
    BY <2>1, <2>2, ByTheNumbers, RenumberedInTurn
  <2>5. walk'[w] = walk[w] /\ called' = called /\ present' = present
    OBVIOUS
  <2>6. InTurn(todo)' 
    BY <2>4, <2>5 DEF InTurn, InTurnBy, Precedes, PrecedesBy
  <2>7. \A s \in ToSet(called[e]), t \in ToSet(todo) : Precedes(s, t)'
    BY <1>1, <2>2, <2>3
  <2>8. Wanting(ToSet(todo), e)' = Wanting(ToSet(todo), e) /\ Wanting(present[e], e)' = Wanting(present[e], e)
    BY <2>5 DEF Wanting, Wants
  <2>9. ToSet(todo) \subseteq Joined'
    BY <2>2
  <2> QED BY <2>2, <2>5, <2>6, <2>7, <2>8, <2>9 DEF WalkSound
<1>3. \A v, w \in Dispatchers : v # w /\ walk'[w].env # Unset => walk'[v].env # walk'[w].env
  BY DEF SubscriptionsInv, CallsSound
<1>4. ASSUME NEW e \in Letterbox
      PROVE  /\ InTurn(called[e])' /\ ToSet(called'[e]) \subseteq Joined'
             /\ present'[e] = Unset => called'[e] = << >> /\ ~Under(e)'
             /\ present'[e] # Unset /\ ~Under(e)' => ToSet(called'[e]) = Wanting(present'[e], e)
  <2>1. /\ InTurn(called[e]) /\ ToSet(called[e]) \subseteq Joined
        /\ present[e] = Unset => called[e] = << >> /\ ~Under(e)
        /\ present[e] # Unset /\ ~Under(e) => ToSet(called[e]) = Wanting(present[e], e)
    BY DEF SubscriptionsInv, CallsSound
  <2>2. called[e] \in Seq(BusSubs)
    BY DEF SubscriptionsInv, SubscriptionTypes
  <2>3. InTurnBy(since', called[e])
    BY <2>1, <2>2, ByTheNumbers, RenumberedInTurn
  <2>4. Under(e)' <=> Under(e)
    BY DEF Under
  <2>5. InTurn(called[e])'
    BY <2>3 DEF InTurn, InTurnBy, Precedes, PrecedesBy
  <2> QED BY <2>1, <2>4, <2>5
<1> QED BY <1>2, <1>3, <1>4 DEF CallsSound, Wanting, Wants

LEMMA SubscribeStep ==
  ASSUME SubscriptionsInv, NEW s \in BusSubs, subscribe(s)
  PROVE  SubscriptionsInv'
<1> DEFINE n == Cardinality(Joined)
<1>1. /\ since[s] = 0 /\ since \in [BusSubs -> Nat] /\ exact \in Seq(BusSubs) /\ globs \in Seq(BusSubs)
      /\ UNCHANGED <<walk, called, present>>
      /\ \A t \in BusSubs : since[t] <= n
      /\ \A t, u \in Joined : since[t] = since[u] => t = u
      /\ ListsInTurn
  BY DEF SubscriptionsInv, SubscriptionTypes, Numbered, subscribe
<1>2. IsFiniteSet(Joined) /\ n \in Nat
  <2>1. Joined \in SUBSET BusSubs
    BY DEF Joined
  <2>2. IsFiniteSet(Joined)
    BY <2>1, FS_Subset, SubscriptionsAssumption
  <2> QED BY <2>2, FS_CardinalityType
<1>3. since' = [since EXCEPT ![s] = 1 + n]
  BY DEF subscribe, Joined
<1> HIDE DEF n
<1>4. /\ since' \in [BusSubs -> Nat] /\ since'[s] = 1 + n
      /\ \A t \in BusSubs \ {s} : since'[t] = since[t]
  BY <1>1, <1>2, <1>3
<1>5. s \notin Joined /\ Joined' = Joined \cup {s}
  BY <1>1, <1>2, <1>4 DEF Joined
<1>6. \A t \in Joined : t \in Joined' /\ since'[t] = since[t] /\ since[t] < since'[s]
  <2> SUFFICES ASSUME NEW t \in Joined PROVE t \in Joined' /\ since'[t] = since[t] /\ since[t] < since'[s]
    OBVIOUS
  <2>1. t \in BusSubs \ {s} /\ since[t] \in Nat /\ since[t] <= n
    BY <1>1, <1>5 DEF Joined
  <2> QED BY <1>2, <1>4, <1>5, <2>1
<1>7. Numbered'
  <2>1. Cardinality(Joined') = n + 1
    BY <1>2, <1>5, FS_AddElement DEF n
  <2>2. \A t \in BusSubs : since'[t] <= n + 1
    <3> SUFFICES ASSUME NEW t \in BusSubs PROVE since'[t] <= n + 1
      OBVIOUS
    <3>1. CASE t = s
      BY <1>2, <1>4, <3>1
    <3>2. CASE t # s
      <4>1. since'[t] = since[t] /\ since[t] \in Nat /\ since[t] <= n
        BY <1>1, <1>4, <3>2
      <4> QED BY <1>2, <4>1
    <3> QED BY <3>1, <3>2
  <2>3. ASSUME NEW t \in Joined', NEW u \in Joined', since'[t] = since'[u] PROVE t = u
    <3>1. \A v \in Joined : since[v] \in Nat
      BY <1>1 DEF Joined
    <3>2. CASE t = s /\ u # s
      <4>1. u \in Joined /\ since[u] < since'[s] /\ since'[u] = since[u]
        BY <1>5, <1>6, <3>2
      <4> QED BY <1>2, <1>4, <2>3, <3>1, <3>2, <4>1
    <3>3. CASE t # s /\ u = s
      <4>1. t \in Joined /\ since[t] < since'[s] /\ since'[t] = since[t]
        BY <1>5, <1>6, <3>3
      <4> QED BY <1>2, <1>4, <2>3, <3>1, <3>3, <4>1
    <3>4. CASE t # s /\ u # s
      BY <1>1, <1>5, <1>6, <2>3, <3>4
    <3> QED BY <3>2, <3>3, <3>4
  <2> QED BY <2>1, <2>2, <2>3 DEF Numbered
<1>8. /\ InTurnBy(since', exact) /\ ToSet(exact) \subseteq Joined \ Globs
      /\ InTurnBy(since', globs) /\ ToSet(globs) \subseteq Joined \cap Globs
  <2>1. /\ InTurnBy(since, exact) /\ ToSet(exact) \subseteq Joined \ Globs
        /\ InTurnBy(since, globs) /\ ToSet(globs) \subseteq Joined \cap Globs
    BY <1>1, ByTheNumbers DEF ListsInTurn
  <2>2. InTurnBy(since', exact)
    BY <1>1, <1>6, <2>1, RenumberedInTurn
  <2>3. InTurnBy(since', globs)
    BY <1>1, <1>6, <2>1, RenumberedInTurn
  <2> QED BY <2>1, <2>2, <2>3
<1>9. /\ exact' \in Seq(BusSubs) /\ InTurnBy(since', exact') /\ ToSet(exact') \subseteq Joined' \ Globs
      /\ globs' \in Seq(BusSubs) /\ InTurnBy(since', globs') /\ ToSet(globs') \subseteq Joined' \cap Globs
  <2>1. CASE s \in Globs
    <3>1. globs' = ByPriority(Append(globs, s)) /\ exact' = exact
      BY <2>1 DEF subscribe
    <3>2. \A t \in ToSet(globs) : (t \in Globs <=> s \in Globs) /\ since'[t] < since'[s]
      BY <1>6, <1>8, <2>1
    <3>3. LET r == ByPriority(Append(globs, s)) IN
          r \in Seq(BusSubs) /\ InTurnBy(since', r) /\ ToSet(r) = ToSet(globs) \cup {s}
      BY <1>1, <1>8, <3>2, AddedInTurn
    <3> QED BY <1>1, <1>5, <1>8, <2>1, <3>1, <3>3
  <2>2. CASE s \notin Globs
    <3>1. exact' = ByPriority(Append(exact, s)) /\ globs' = globs
      BY <2>2 DEF subscribe
    <3>2. \A t \in ToSet(exact) : (t \in Globs <=> s \in Globs) /\ since'[t] < since'[s]
      BY <1>6, <1>8, <2>2
    <3>3. LET r == ByPriority(Append(exact, s)) IN
          r \in Seq(BusSubs) /\ InTurnBy(since', r) /\ ToSet(r) = ToSet(exact) \cup {s}
      BY <1>1, <1>8, <3>2, AddedInTurn
    <3> QED BY <1>1, <1>5, <1>8, <2>2, <3>1, <3>3
  <2> QED BY <2>1, <2>2
<1>10. ListsInTurn'
  BY <1>9 DEF ListsInTurn, InTurn, InTurnBy, Precedes, PrecedesBy
<1>11. SubscriptionTypes'
  BY <1>1, <1>4, <1>9 DEF SubscriptionsInv, SubscriptionTypes
<1>12. CallsSound'
  BY <1>1, <1>6, CallsKept
<1> QED BY <1>7, <1>10, <1>11, <1>12 DEF SubscriptionsInv

LEMMA UnsubscribeStep ==
  ASSUME SubscriptionsInv, NEW s \in BusSubs, unsubscribe(s)
  PROVE  SubscriptionsInv'
<1>1. /\ exact' = RemoveFirst(exact, s) /\ globs' = RemoveFirst(globs, s)
      /\ UNCHANGED <<since, told, walk, called, present>>
  BY DEF unsubscribe
<1>2. /\ exact \in Seq(BusSubs) /\ globs \in Seq(BusSubs)
      /\ InTurnBy(since, exact) /\ ToSet(exact) \subseteq Joined \ Globs
      /\ InTurnBy(since, globs) /\ ToSet(globs) \subseteq Joined \cap Globs
  BY ByTheNumbers DEF SubscriptionsInv, SubscriptionTypes, ListsInTurn
<1>3. exact' \in Seq(BusSubs) /\ InTurnBy(since, exact') /\ ToSet(exact') \subseteq ToSet(exact)
  BY <1>1, <1>2, RemovedInTurn
<1>4. globs' \in Seq(BusSubs) /\ InTurnBy(since, globs') /\ ToSet(globs') \subseteq ToSet(globs)
  BY <1>1, <1>2, RemovedInTurn
<1>5. Joined' = Joined
  BY <1>1 DEF Joined
<1>6. ListsInTurn'
  BY <1>1, <1>2, <1>3, <1>4, <1>5 DEF ListsInTurn, InTurn, InTurnBy, Precedes, PrecedesBy
<1>7. Numbered'
  BY <1>1, <1>5 DEF SubscriptionsInv, Numbered
<1>8. SubscriptionTypes'
  BY <1>1, <1>3, <1>4 DEF SubscriptionsInv, SubscriptionTypes
<1>9. CallsSound'
  BY <1>1, <1>5, CallsKept
<1> QED BY <1>6, <1>7, <1>8, <1>9 DEF SubscriptionsInv

\* What matches is in the order of the calls to come.
LEMMA MatchingInTurn ==
  ASSUME SubscriptionsInv
  PROVE  /\ _matching_subscriptions \in Seq(BusSubs) /\ InTurnBy(since, _matching_subscriptions)
         /\ ToSet(_matching_subscriptions) = Registered /\ Registered \subseteq Joined
<1> DEFINE p == exact \o globs
           a == Len(exact)
           b == Len(globs)
<1>1. /\ exact \in Seq(BusSubs) /\ globs \in Seq(BusSubs)
      /\ InTurnBy(since, exact) /\ ToSet(exact) \subseteq Joined \ Globs
      /\ InTurnBy(since, globs) /\ ToSet(globs) \subseteq Joined \cap Globs
  BY ByTheNumbers DEF SubscriptionsInv, SubscriptionTypes, ListsInTurn
<1>2. a \in Nat /\ b \in Nat /\ DOMAIN exact = 1..a /\ DOMAIN globs = 1..b
  BY <1>1, LenProperties
<1>3. /\ p \in Seq(BusSubs) /\ Len(p) = a + b
      /\ \A i \in 1..(a + b) : p[i] = IF i <= a THEN exact[i] ELSE globs[i - a]
  BY <1>1, ConcatProperties
<1>4. DOMAIN p = 1..(a + b)
  BY <1>3, LenProperties
<1> HIDE DEF p, a, b
<1>5. ASSUME NEW i \in 1..(a + b)
      PROVE  \/ i \in 1..a /\ p[i] = exact[i] /\ p[i] \in ToSet(exact)
             \/ i - a \in 1..b /\ p[i] = globs[i - a] /\ p[i] \in ToSet(globs) /\ ~(i <= a)
  <2>1. CASE i <= a
    <3>1. i \in 1..a /\ p[i] = exact[i]
      BY <1>2, <1>3, <2>1
    <3> QED BY <1>2, <3>1 DEF ToSet
  <2>2. CASE ~(i <= a)
    <3>1. i - a \in 1..b /\ p[i] = globs[i - a]
      BY <1>2, <1>3, <2>2
    <3> QED BY <1>2, <2>2, <3>1 DEF ToSet
  <2> QED BY <2>1, <2>2
<1>6. ToSet(p) = Registered
  <2>1. ToSet(p) = {p[i] : i \in 1..(a + b)} /\ ToSet(exact) = {exact[i] : i \in 1..a}
          /\ ToSet(globs) = {globs[i] : i \in 1..b}
    BY <1>2, <1>4 DEF ToSet
  <2>2. ToSet(p) \subseteq ToSet(exact) \cup ToSet(globs)
    BY <1>5, <2>1
  <2>3. ASSUME NEW i \in 1..a PROVE exact[i] \in ToSet(p)
    <3>1. i \in 1..(a + b) /\ p[i] = exact[i]
      BY <1>2, <1>3
    <3> QED BY <2>1, <3>1
  <2>4. ASSUME NEW i \in 1..b PROVE globs[i] \in ToSet(p)
    <3>1. a + i \in 1..(a + b) /\ ~(a + i <= a) /\ (a + i) - a = i
      BY <1>2
    <3>2. p[a + i] = globs[i]
      BY <1>3, <3>1
    <3> QED BY <2>1, <3>1, <3>2
  <2> QED BY <2>1, <2>2, <2>3, <2>4 DEF Registered
<1>7. ASSUME NEW i \in 1..(a + b), NEW j \in 1..(a + b), i < j, Rank[p[i]] = Rank[p[j]]
      PROVE  PrecedesBy(since, p[i], p[j])
  <2>1. CASE i \in 1..a /\ j \in 1..a /\ p[i] = exact[i] /\ p[j] = exact[j]
    BY <1>1, <1>7, <2>1 DEF InTurnBy, a
  <2>2. CASE p[i] \in ToSet(exact) /\ p[j] \in ToSet(globs)
    BY <1>1, <1>7, <2>2 DEF PrecedesBy
  <2>3. CASE i - a \in 1..b /\ j - a \in 1..b /\ p[i] = globs[i - a] /\ p[j] = globs[j - a]
    <3>1. i - a < j - a
      BY <1>2, <1>7
    <3> QED BY <1>1, <2>3, <3>1 DEF InTurnBy, b
  <2>4. ~(~(i <= a) /\ j \in 1..a)
    BY <1>2, <1>7
  <2> QED BY <1>5, <2>1, <2>2, <2>3, <2>4
<1>8. InTurnBy(since, ByPriority(p))
  BY <1>3, <1>7, SortedInTurn
<1>9. ByPriority(p) \in Seq(BusSubs) /\ ToSet(ByPriority(p)) = ToSet(p)
  BY <1>3, ByPrioritySorts
<1> QED BY <1>1, <1>6, <1>8, <1>9 DEF _matching_subscriptions, p, Registered

\* The dispatch of e by w goes on: the worker's walk becomes x.
WalkerMoves(w, e, x) ==
  /\ UNCHANGED <<exact, globs, since>> /\ walk' = [walk EXCEPT ![w] = x] /\ x \in Walks
  /\ x.env = e \/ x.env = Unset
  /\ walk[w].env = e \/ walk[w].env = Unset
  /\ \A v \in Dispatchers \ {w} : walk[v].env # e
  /\ called' \in [Letterbox -> Seq(BusSubs)] /\ present' \in [Letterbox -> (SUBSET BusSubs) \cup {Unset}]
  /\ \A f \in Letterbox \ {e} : called'[f] = called[f] /\ present'[f] = present[f]
  /\ present'[e] # Unset /\ InTurnBy(since, called'[e]) /\ ToSet(called'[e]) \subseteq Joined
  /\ x.env = Unset => ToSet(called'[e]) = Wanting(present'[e], e)
  /\ x.env = e =>
       /\ InTurnBy(since, x.todo) /\ ToSet(x.todo) \subseteq Joined
       /\ \A s \in ToSet(called'[e]), t \in ToSet(x.todo) : PrecedesBy(since, s, t)
       /\ ToSet(called'[e]) \cup Wanting(ToSet(x.todo), e) = Wanting(present'[e], e)

\* The others go on as they were.
LEMMA WalkerStep ==
  ASSUME SubscriptionsInv, NEW w \in Dispatchers, NEW e \in Letterbox, NEW x, WalkerMoves(w, e, x)
  PROVE  SubscriptionsInv'
<1> USE DEF WalkerMoves
<1>1. Joined' = Joined /\ since' = since
  BY DEF Joined
<1>4. /\ walk \in [Dispatchers -> Walks] /\ walk'[w] = x /\ walk' \in [Dispatchers -> Walks]
      /\ \A v \in Dispatchers \ {w} : walk'[v] = walk[v]
  BY DEF SubscriptionsInv, SubscriptionTypes
<1>5. SubscriptionTypes'
  BY <1>4 DEF SubscriptionsInv, SubscriptionTypes
<1>6. Numbered' /\ ListsInTurn'
  <2>1. Numbered'
    BY <1>1 DEF SubscriptionsInv, Numbered
  <2>2. InTurn(exact)' /\ InTurn(globs)'
    BY <1>1 DEF SubscriptionsInv, ListsInTurn, InTurn, Precedes
  <2>3. ToSet(exact') \subseteq Joined' \ Globs /\ ToSet(globs') \subseteq Joined' \cap Globs
    BY <1>1 DEF SubscriptionsInv, ListsInTurn
  <2> QED BY <2>1, <2>2, <2>3 DEF ListsInTurn
<1>7. ASSUME NEW v \in Dispatchers PROVE WalkSound(v)'
  <2>1. CASE v = w
    <3>1. CASE x.env = e
      <4>1. InTurn(x.todo) /\ \A s \in ToSet(called'[e]), t \in ToSet(x.todo) : Precedes(s, t)
        BY <3>1, ByTheNumbers
      <4>2. InTurn(x.todo)' /\ \A s \in ToSet(called'[e]), t \in ToSet(x.todo) : Precedes(s, t)'
        BY <1>1, <4>1 DEF InTurn, Precedes
      <4> QED BY <1>1, <1>4, <2>1, <3>1, <4>2 DEF WalkSound, Wanting, Wants
    <3>2. CASE x.env = Unset
      BY <1>4, <2>1, <3>2 DEF WalkSound
    <3> QED BY <3>1, <3>2
  <2>2. CASE v # w
    <3> DEFINE f == walk[v].env
    <3>1. walk'[v] = walk[v] /\ f # e
      BY <1>4, <2>2
    <3> SUFFICES ASSUME f # Unset PROVE WalkSound(v)'
      BY <3>1 DEF WalkSound
    <3>2. f \in Letterbox
      BY <1>4 DEF Walks, Resting
    <3>3. called'[f] = called[f] /\ present'[f] = present[f]
      BY <3>1, <3>2
    <3>4. WalkSound(v)
      BY DEF SubscriptionsInv, CallsSound
    <3> HIDE DEF WalkerMoves
    <3>5. InTurn(walk[v].todo)' <=> InTurn(walk[v].todo)
      BY <1>1, <3>1 DEF InTurn, Precedes
    <3>6. \A a, b : Precedes(a, b)' <=> Precedes(a, b)
      BY <1>1 DEF Precedes
    <3>7. Wanting(ToSet(walk[v].todo), f)' = Wanting(ToSet(walk[v].todo), f)
            /\ Wanting(present[f], f)' = Wanting(present[f], f)
      BY <3>1, <3>3 DEF Wanting, Wants
    <3> QED BY <1>1, <3>1, <3>3, <3>4, <3>5, <3>6, <3>7 DEF WalkSound
  <2> QED BY <2>1, <2>2
<1>8. ASSUME NEW u \in Dispatchers, NEW v \in Dispatchers, u # v, walk'[v].env # Unset
      PROVE  walk'[u].env # walk'[v].env
  BY <1>4, <1>8 DEF SubscriptionsInv, CallsSound
<1>9. ASSUME NEW f \in Letterbox
      PROVE  /\ InTurn(called[f])' /\ ToSet(called'[f]) \subseteq Joined'
             /\ present'[f] = Unset => called'[f] = << >> /\ ~Under(f)'
             /\ present'[f] # Unset /\ ~Under(f)' => ToSet(called'[f]) = Wanting(present'[f], f)
  <2>1. CASE f = e
    <3>1. InTurn(called[e])'
      BY <1>1, ByTheNumbers
    <3>2. ~Under(e)' => x.env = Unset
      BY <1>4 DEF Under
    <3> QED BY <1>1, <2>1, <3>1, <3>2
  <2>2. CASE f # e
    <3>1. /\ InTurn(called[f]) /\ ToSet(called[f]) \subseteq Joined
          /\ present[f] = Unset => called[f] = << >> /\ ~Under(f)
          /\ present[f] # Unset /\ ~Under(f) => ToSet(called[f]) = Wanting(present[f], f)
      BY DEF SubscriptionsInv, CallsSound
    <3>2. called'[f] = called[f] /\ present'[f] = present[f]
      BY <2>2
    <3>3. f # Unset
      BY SubscriptionsAssumption
    <3>4. Under(f)' <=> Under(f)
      BY <1>4, <2>2, <3>3 DEF Under
    <3>5. InTurn(called[f])'
      <4> HIDE DEF WalkerMoves
      <4> QED BY <1>1, <3>1, <3>2 DEF InTurn, Precedes
    <3> QED BY <1>1, <3>1, <3>2, <3>4, <3>5
  <2> QED BY <2>1, <2>2
<1>10. CallsSound'
  <2>1. \A S, f : Wanting(S, f)' = Wanting(S, f)
    BY DEF Wanting, Wants
  <2> QED BY <1>7, <1>8, <1>9 DEF CallsSound, Wanting, Wants
<1> QED BY <1>5, <1>6, <1>10 DEF SubscriptionsInv

LEMMA DispatchStep ==
  ASSUME SubscriptionsInv, NEW w \in Dispatchers, NEW e \in Letterbox, _dispatch(w, e)
  PROVE  SubscriptionsInv'
<1> DEFINE m == _matching_subscriptions
           x == [env |-> e, todo |-> m, in |-> FALSE]
<1>1. /\ walk[w] = Resting /\ present[e] = Unset /\ walk' = [walk EXCEPT ![w] = x]
      /\ present' = [present EXCEPT ![e] = Registered] /\ UNCHANGED <<exact, globs, since, called>>
  BY DEF _dispatch
<1>2. m \in Seq(BusSubs) /\ InTurnBy(since, m) /\ ToSet(m) = Registered /\ Registered \subseteq Joined
  BY MatchingInTurn
<1> HIDE DEF m
<1>3. x \in Walks /\ x.env = e /\ x.todo = m
  BY <1>2 DEF Walks
<1>4. /\ called \in [Letterbox -> Seq(BusSubs)] /\ called[e] = << >>
      /\ present \in [Letterbox -> (SUBSET BusSubs) \cup {Unset}] /\ ~Under(e) /\ e # Unset
  BY <1>1, SubscriptionsAssumption DEF SubscriptionsInv, SubscriptionTypes, CallsSound
<1>5. Registered \in SUBSET BusSubs /\ Registered # Unset
  <2>1. Registered \in SUBSET BusSubs
    BY <1>2 DEF Joined
  <2> QED BY <2>1, SubscriptionsAssumption
<1>6. walk[w].env = Unset /\ \A v \in Dispatchers : walk[v].env # e
  BY <1>1, <1>4 DEF Resting, Under
<1>7. ToSet(called[e]) = {} /\ InTurnBy(since, called[e])
  BY <1>4 DEF ToSet, InTurnBy
<1>8. /\ present' \in [Letterbox -> (SUBSET BusSubs) \cup {Unset}] /\ present'[e] = Registered
      /\ \A f \in Letterbox \ {e} : present'[f] = present[f]
  BY <1>1, <1>4, <1>5
<1> HIDE DEF x
<1>9. WalkerMoves(w, e, x)
  BY <1>1, <1>2, <1>3, <1>4, <1>5, <1>6, <1>7, <1>8 DEF WalkerMoves
<1> QED BY <1>9, WalkerStep

LEMMA WalkChanged ==
  ASSUME NEW r \in [env : Letterbox, todo : Seq(BusSubs), in : BOOLEAN],
         NEW t \in Seq(BusSubs), NEW b \in BOOLEAN
  PROVE  /\ [r EXCEPT !.in = b] = [env |-> r.env, todo |-> r.todo, in |-> b]
         /\ [r EXCEPT !.todo = t, !.in = b] = [env |-> r.env, todo |-> t, in |-> b]
<1> DEFINE R == [env : Letterbox, todo : Seq(BusSubs), in : BOOLEAN]
           x == [r EXCEPT !.in = b]
           y == [r EXCEPT !.todo = t, !.in = b]
<1>1. \A z \in R : z = [env |-> z.env, todo |-> z.todo, in |-> z.in]
  OBVIOUS
<1>2. x \in R /\ x.env = r.env /\ x.todo = r.todo /\ x.in = b
  OBVIOUS
<1>3. y \in R /\ y.env = r.env /\ y.todo = t /\ y.in = b
  OBVIOUS
<1> HIDE DEF R, x, y
<1>4. x = [env |-> r.env, todo |-> r.todo, in |-> b]
  BY <1>1, <1>2
<1>5. y = [env |-> r.env, todo |-> t, in |-> b]
  BY <1>1, <1>3
<1> QED BY <1>4, <1>5 DEF x, y

LEMMA CallNextStep ==
  ASSUME SubscriptionsInv, NEW w \in Dispatchers, CallNext(w)
  PROVE  SubscriptionsInv'
<1> DEFINE e == walk[w].env
           todo == walk[w].todo
           n == Len(todo)
<1>1. e # Unset /\ UNCHANGED <<exact, globs, since, left, told, present>>
  BY DEF CallNext
<1>2. e \in Letterbox /\ todo \in Seq(BusSubs) /\ walk[w].in \in BOOLEAN
        /\ walk[w] = [env |-> e, todo |-> todo, in |-> walk[w].in]
        /\ called \in [Letterbox -> Seq(BusSubs)] /\ present \in [Letterbox -> (SUBSET BusSubs) \cup {Unset}]
  BY <1>1 DEF SubscriptionsInv, SubscriptionTypes, Walks, Resting
<1>3. /\ present[e] # Unset /\ InTurnBy(since, todo) /\ ToSet(todo) \subseteq Joined
      /\ \A s \in ToSet(called[e]), t \in ToSet(todo) : PrecedesBy(since, s, t)
      /\ ToSet(called[e]) \cup Wanting(ToSet(todo), e) = Wanting(present[e], e)
  BY <1>1, ByTheNumbers DEF SubscriptionsInv, CallsSound, WalkSound
<1>4. \A v \in Dispatchers \ {w} : walk[v].env # e
  BY <1>1 DEF SubscriptionsInv, CallsSound
<1>5. InTurnBy(since, called[e]) /\ ToSet(called[e]) \subseteq Joined
  BY <1>2, ByTheNumbers DEF SubscriptionsInv, CallsSound
<1>6. n \in Nat /\ DOMAIN todo = 1..n
  BY <1>2, LenProperties
<1>7. CASE ~(\E i \in 1..n : Wants(todo[i], e)) /\ walk' = [walk EXCEPT ![w] = Resting] /\ UNCHANGED called
  <2>1. Wanting(ToSet(todo), e) = {}
    BY <1>6, <1>7 DEF Wanting, ToSet
  <2>2. Resting \in Walks /\ Resting.env = Unset
    BY DEF Walks, Resting
  <2>3. ToSet(called[e]) = Wanting(present[e], e)
    BY <1>3, <2>1
  <2> HIDE DEF e, todo, n
  <2>4. walk[w].env = e
    BY DEF e
  <2>5. Resting.env # e /\ called' = called /\ present' = present
    BY <1>1, <1>7, <2>2
  <2>6. WalkerMoves(w, e, Resting)
    BY <1>1, <1>2, <1>3, <1>4, <1>5, <1>7, <2>2, <2>3, <2>4, <2>5 DEF WalkerMoves
  <2> QED BY <1>2, <2>6, WalkerStep
<1>8. ASSUME NEW i \in 1..n, Wants(todo[i], e), \A j \in 1..n : Wants(todo[j], e) => i <= j,
             called' = [called EXCEPT ![e] = Append(@, todo[i])],
             walk' = [walk EXCEPT ![w].todo = SubSeq(todo, i + 1, Len(todo)), ![w].in = TRUE]
      PROVE  SubscriptionsInv'
  <2> DEFINE r == SubSeq(todo, i + 1, Len(todo))
             x == [env |-> e, todo |-> r, in |-> TRUE]
             c == Append(called[e], todo[i])
             k == Len(called[e])
  <2>1. /\ r \in Seq(BusSubs) /\ InTurnBy(since, r) /\ ToSet(r) \subseteq ToSet(todo)
        /\ Wanting(ToSet(todo), e) = Wanting(ToSet(r), e) \cup {todo[i]}
        /\ \A t \in ToSet(r) : PrecedesBy(since, todo[i], t)
    BY <1>2, <1>3, <1>8, RestOfTheWalk
  <2>2. todo[i] \in ToSet(todo) /\ todo[i] \in BusSubs
    BY <1>2, <1>6 DEF ToSet
  <2> HIDE DEF r, x
  <2>3. walk' = [walk EXCEPT ![w] = x]
    <3>1. [walk[w] EXCEPT !.todo = r, !.in = TRUE] = x
      <4>1. walk[w] \in [env : Letterbox, todo : Seq(BusSubs), in : BOOLEAN]
        BY <1>1, <1>2 DEF SubscriptionsInv, SubscriptionTypes, Walks, Resting
      <4>2. [walk[w] EXCEPT !.todo = r, !.in = TRUE] = [env |-> walk[w].env, todo |-> r, in |-> TRUE]
        <5>1. TRUE \in BOOLEAN /\ r \in Seq(BusSubs)
          BY <2>1
        <5> QED BY <4>1, <5>1, WalkChanged
      <4> QED BY <4>2 DEF x
    <3>2. walk' = [walk EXCEPT ![w] = [walk[w] EXCEPT !.todo = r, !.in = TRUE]]
      BY <1>8 DEF r
    <3> QED BY <3>1, <3>2
  <2>4. x \in Walks /\ x.env = e /\ x.todo = r
    BY <1>2, <2>1 DEF Walks, x
  <2>5. called[e] \in Seq(BusSubs)
    BY <1>2
  <2>6. /\ c \in Seq(BusSubs) /\ Len(c) = k + 1 /\ c[k + 1] = todo[i] /\ k \in Nat
        /\ \A j \in 1..k : c[j] = called[e][j]
    BY <2>2, <2>5, AppendProperties, LenProperties
  <2>7. DOMAIN called[e] = 1..k /\ DOMAIN c = 1..(k + 1)
    BY <2>5, <2>6, LenProperties
  <2> HIDE DEF c, k
  <2>8. ToSet(c) = ToSet(called[e]) \cup {todo[i]}
    <3>1. ToSet(c) = {c[j] : j \in 1..(k + 1)} /\ ToSet(called[e]) = {called[e][j] : j \in 1..k}
      BY <2>7 DEF ToSet
    <3>2. \A j \in 1..(k + 1) : j \in 1..k \/ j = k + 1
      BY <2>6
    <3>3. k + 1 \in 1..(k + 1) /\ \A j \in 1..k : j \in 1..(k + 1)
      BY <2>6
    <3> QED BY <2>6, <3>1, <3>2, <3>3
  <2>9. InTurnBy(since, c)
    <3> SUFFICES ASSUME NEW a \in 1..(k + 1), NEW b \in 1..(k + 1), a < b PROVE PrecedesBy(since, c[a], c[b])
      BY <2>6 DEF InTurnBy
    <3>1. a \in 1..k /\ c[a] = called[e][a] /\ c[a] \in ToSet(called[e])
      <4>1. a \in 1..k
        BY <2>6
      <4> QED BY <2>6, <2>7, <4>1 DEF ToSet
    <3>2. CASE b \in 1..k
      BY <1>5, <2>6, <3>1, <3>2 DEF InTurnBy, k
    <3>3. CASE b = k + 1
      BY <1>3, <2>2, <2>6, <3>1, <3>3
    <3>4. b \in 1..k \/ b = k + 1
      BY <2>6
    <3> QED BY <3>2, <3>3, <3>4
  <2>10. \A s \in ToSet(c), t \in ToSet(r) : PrecedesBy(since, s, t)
    BY <1>3, <2>1, <2>8
  <2>11. ToSet(c) \cup Wanting(ToSet(r), e) = Wanting(present[e], e)
    BY <1>3, <2>1, <2>8
  <2>12. called' \in [Letterbox -> Seq(BusSubs)] /\ called'[e] = c
           /\ \A f \in Letterbox \ {e} : called'[f] = called[f]
    BY <1>2, <1>8, <2>6 DEF c
  <2>13. ToSet(c) \subseteq Joined /\ ToSet(r) \subseteq Joined
    BY <1>3, <1>5, <2>1, <2>2, <2>8
  <2> HIDE DEF e, todo, n
  <2>14. walk[w].env = e /\ present' = present
    BY <1>1 DEF e
  <2>15. WalkerMoves(w, e, x)
    BY <1>1, <1>2, <1>3, <1>4, <2>1, <2>3, <2>4, <2>9, <2>10, <2>11, <2>12, <2>13, <2>14 DEF WalkerMoves
  <2> QED BY <1>2, <2>15, WalkerStep
<1> QED
  <2>1. \/ ~(\E i \in 1..n : Wants(todo[i], e)) /\ walk' = [walk EXCEPT ![w] = Resting] /\ UNCHANGED called
        \/ \E i \in 1..n :
             /\ Wants(todo[i], e) /\ \A j \in 1..n : Wants(todo[j], e) => i <= j
             /\ called' = [called EXCEPT ![e] = Append(@, todo[i])]
             /\ walk' = [walk EXCEPT ![w].todo = SubSeq(todo, i + 1, Len(todo)), ![w].in = TRUE]
    BY <1>6 DEF CallNext
  <2> QED BY <1>7, <1>8, <2>1

LEMMA HandlerDoneStep ==
  ASSUME SubscriptionsInv, NEW w \in Dispatchers, HandlerDone(w)
  PROVE  SubscriptionsInv'
<1> DEFINE e == walk[w].env
           x == [env |-> e, todo |-> walk[w].todo, in |-> FALSE]
<1>1. walk[w].in /\ walk' = [walk EXCEPT ![w].in = FALSE]
        /\ UNCHANGED <<exact, globs, since, left, told, called, present>>
  BY DEF HandlerDone
<1>2. /\ e \in Letterbox /\ e # Unset /\ x \in Walks /\ x.env = e /\ x.todo = walk[w].todo
      /\ walk' = [walk EXCEPT ![w] = x]
      /\ called \in [Letterbox -> Seq(BusSubs)] /\ present \in [Letterbox -> (SUBSET BusSubs) \cup {Unset}]
  <2>1. walk \in [Dispatchers -> Walks] /\ called \in [Letterbox -> Seq(BusSubs)]
          /\ present \in [Letterbox -> (SUBSET BusSubs) \cup {Unset}]
    BY DEF SubscriptionsInv, SubscriptionTypes
  <2>2. walk[w] \in [env : Letterbox, todo : Seq(BusSubs), in : BOOLEAN]
    BY <1>1, <2>1 DEF Walks, Resting
  <2>3. [walk[w] EXCEPT !.in = FALSE] = x /\ x \in [env : Letterbox, todo : Seq(BusSubs), in : BOOLEAN]
    <3>1. FALSE \in BOOLEAN /\ walk[w].todo \in Seq(BusSubs)
      BY <2>2
    <3>2. [walk[w] EXCEPT !.in = FALSE] = [env |-> walk[w].env, todo |-> walk[w].todo, in |-> FALSE]
      BY <2>2, <3>1, WalkChanged
    <3> QED BY <2>2, <3>2
  <2> HIDE DEF x
  <2>4. walk' = [walk EXCEPT ![w] = x]
    BY <1>1, <2>3
  <2>5. e \in Letterbox /\ e # Unset
    BY <2>2, SubscriptionsAssumption
  <2>6. x.env = e /\ x.todo = walk[w].todo
    BY DEF x
  <2> QED BY <2>1, <2>3, <2>4, <2>5, <2>6 DEF Walks
<1> HIDE DEF x
<1>3. /\ present[e] # Unset /\ InTurnBy(since, x.todo) /\ ToSet(x.todo) \subseteq Joined
      /\ \A s \in ToSet(called[e]), t \in ToSet(x.todo) : PrecedesBy(since, s, t)
      /\ ToSet(called[e]) \cup Wanting(ToSet(x.todo), e) = Wanting(present[e], e)
  BY <1>2, ByTheNumbers DEF SubscriptionsInv, CallsSound, WalkSound
<1>4. \A v \in Dispatchers \ {w} : walk[v].env # e
  BY <1>2 DEF SubscriptionsInv, CallsSound
<1>5. InTurnBy(since, called[e]) /\ ToSet(called[e]) \subseteq Joined
  BY <1>2, ByTheNumbers DEF SubscriptionsInv, CallsSound
<1>6. walk[w].env = e
  OBVIOUS
<1> HIDE DEF e
<1>7. WalkerMoves(w, e, x)
  BY <1>1, <1>2, <1>3, <1>4, <1>5, <1>6 DEF WalkerMoves
<1> QED BY <1>2, <1>7, WalkerStep

LEMMA SubscriptionsStep ==
  ASSUME SubscriptionsInv, [SubscriptionsNext]_subscriptionVars
  PROVE  SubscriptionsInv'
<1>1. ASSUME NEW s \in BusSubs, subscribe(s) PROVE SubscriptionsInv'
  BY <1>1, SubscribeStep
<1>2. ASSUME NEW s \in BusSubs, unsubscribe(s) PROVE SubscriptionsInv'
  BY <1>2, UnsubscribeStep
<1>3. ASSUME NEW w \in Dispatchers, NEW e \in Letterbox, _dispatch(w, e) PROVE SubscriptionsInv'
  BY <1>3, DispatchStep
<1>4. ASSUME NEW w \in Dispatchers, CallNext(w) PROVE SubscriptionsInv'
  BY <1>4, CallNextStep
<1>5. ASSUME NEW w \in Dispatchers, HandlerDone(w) PROVE SubscriptionsInv'
  BY <1>5, HandlerDoneStep
<1>6. ASSUME UNCHANGED <<exact, globs, since, walk, called, present>> PROVE SubscriptionsInv'
  <2>1. Joined' = Joined /\ since' = since
    BY <1>6 DEF Joined
  <2>2. SubscriptionTypes' /\ Numbered'
    BY <1>6, <2>1 DEF SubscriptionsInv, SubscriptionTypes, Numbered
  <2>3. ListsInTurn'
    BY <1>6, <2>1 DEF SubscriptionsInv, ListsInTurn, InTurn, Precedes
  <2>4. CallsSound'
    BY <1>6, <2>1, CallsKept
  <2> QED BY <2>2, <2>3, <2>4 DEF SubscriptionsInv
<1>7. ASSUME NEW e \in Letterbox, publish(e) PROVE SubscriptionsInv'
  BY <1>6, <1>7 DEF publish
<1>8. CASE UNCHANGED subscriptionVars
  BY <1>6, <1>8 DEF subscriptionVars
<1> QED BY <1>1, <1>2, <1>3, <1>4, <1>5, <1>7, <1>8 DEF SubscriptionsNext

\* However handlers and other tasks subscribe and unsubscribe while workers dispatch,
\* an envelope is handled by exactly the subscriptions there were when its dispatch
\* began, once each and in their order.
THEOREM HandlersAreCalledInOrder == SubscriptionsSpec => []HandledInOrder
<1>1. SubscriptionsInv => HandledInOrder
  <2> SUFFICES ASSUME SubscriptionsInv, NEW e \in Letterbox
               PROVE  /\ \A i, j \in DOMAIN called[e] : i < j => Precedes(called[e][i], called[e][j])
                      /\ present[e] # Unset /\ ~Under(e)
                           => ToSet(called[e]) = {s \in present[e] : Wants(s, e)}
    BY DEF HandledInOrder
  <2>1. called[e] \in Seq(BusSubs)
    BY DEF SubscriptionsInv, SubscriptionTypes
  <2>2. DOMAIN called[e] = 1..Len(called[e])
    BY <2>1, LenProperties
  <2> QED BY <2>2 DEF SubscriptionsInv, CallsSound, InTurn, Wanting
<1> QED BY <1>1, SubscriptionsBoot, SubscriptionsStep, PTL DEF SubscriptionsSpec

-----------------------------------------------------------------------------
(* The events a global subscriber is owed.                                  *)

IsList(q) == \E S : q \in Seq(S)

(* An emission that is still to reach the global subscriber o[1].           *)
Carries(e, o) ==
  /\ e.no = o[2] /\ e.class # "error" /\ o[1] \notin ErrorSubs /\ e.glob = 1
  /\ \/ e.reg = 0
     \/ e.reg = 1 /\ ~e.running
     \/ e.reg = 1 /\ e.running /\ IsList(e.todo) /\ \E k \in 2..Len(e.todo) : e.todo[k] = o[1]

HasCarrier(q, o) == \E i \in 1..Len(q) : Carries(q[i], o)

(* There is one global registry, and whoever is owed an event is subscribed *)
(* to it, with an emission on the way.                                      *)
OneGlobal ==
  /\ subscriptions \in [Registries -> Seq(Subs)]
  /\ home \in [Threads -> {1}]
  /\ \A r \in Globals : r # 1 => subscriptions[r] = <<>>

Owing(o) ==
  /\ o = <<o[1], o[2]>> /\ 1 \in Globals
  /\ \E k \in 1..Len(subscriptions[1]) : subscriptions[1][k] = o[1]
  /\ HasCarrier(emissions, o)

ObservedInv == GoodSeq(emissions) /\ OneGlobal /\ \A o \in owed : Owing(o)

\* Every matching subscription is in the list of the matching ones.
LEMMA MatchingHasAll ==
  ASSUME NEW list \in Seq(Subs), NEW class
  PROVE  /\ IsList(Matching(list, class))
         /\ \A i \in 1..Len(list) : Matches(list[i], class) =>
              \E n \in 1..Len(Matching(list, class)) : Matching(list, class)[n] = list[i]
<1> DEFINE hits == {i \in 1..Len(list) : Matches(list[i], class)}
           upto(i) == {j \in hits : j <= i}
           Nth(n) == CHOOSE i \in hits : Cardinality(upto(i)) = n
           m == [n \in 1..Cardinality(hits) |-> list[Nth(n)]]
<1>1. Matching(list, class) = m
  BY DEF Matching
<1>2. Len(list) \in Nat /\ hits \subseteq 1..Len(list)
  BY LenProperties
<1>3. IsFiniteSet(hits)
  <2>1. IsFiniteSet(1..Len(list))
    BY <1>2, FS_Interval
  <2> QED BY <1>2, <2>1, FS_Subset
<1>4. Cardinality(hits) \in Nat
  BY <1>3, FS_CardinalityType
<1>5. \A i \in hits : i \in Nat /\ list[i] \in Subs
  BY <1>2, ElementOfSeq
<1>6. ASSUME NEW i \in hits PROVE Cardinality(upto(i)) \in 1..Cardinality(hits)
  <2>1. upto(i) \subseteq hits /\ i \in upto(i)
    BY <1>5
  <2> HIDE DEF upto, hits
  <2>2. IsFiniteSet(upto(i)) /\ Cardinality(upto(i)) <= Cardinality(hits)
    BY <1>3, <2>1, FS_Subset
  <2>3. Cardinality(upto(i)) \in Nat /\ Cardinality(upto(i)) # 0
    BY <2>1, <2>2, FS_CardinalityType, FS_EmptySet
  <2> QED BY <1>4, <2>2, <2>3
<1>7. \A i \in hits : Cardinality(upto(i)) \in Nat
  <2> HIDE DEF hits, upto
  <2> QED BY <1>4, <1>6
<1>8. ASSUME NEW i \in hits, NEW k \in hits, i < k PROVE Cardinality(upto(i)) < Cardinality(upto(k))
  <2>1. upto(i) \subseteq upto(k) /\ k \in upto(k) /\ k \notin upto(i) /\ upto(k) \subseteq hits
    BY <1>5, <1>8
  <2> HIDE DEF upto, hits
  <2>2. IsFiniteSet(upto(k))
    BY <1>3, <2>1, FS_Subset
  <2>3. Cardinality(upto(i)) <= Cardinality(upto(k)) /\ (Cardinality(upto(i)) = Cardinality(upto(k)) => upto(i) = upto(k))
    BY <2>1, <2>2, FS_Subset
  <2>4. Cardinality(upto(i)) \in Nat /\ Cardinality(upto(k)) \in Nat
    BY <1>7
  <2> QED BY <2>1, <2>3, <2>4
<1>9. ASSUME NEW i \in hits PROVE Nth(Cardinality(upto(i))) = i
  <2> DEFINE k == Nth(Cardinality(upto(i)))
  <2>1. k \in hits /\ Cardinality(upto(k)) = Cardinality(upto(i))
    <3> HIDE DEF upto, hits
    <3> QED OBVIOUS
  <2> HIDE DEF k, Nth
  <2>2. k \in Nat /\ i \in Nat
    BY <1>5, <2>1
  <2>3. Cardinality(upto(k)) \in Nat /\ Cardinality(upto(i)) \in Nat
    <3> HIDE DEF hits, upto
    <3> QED BY <1>7, <2>1
  <2>4. ~(i < k) /\ ~(k < i)
    <3> HIDE DEF upto, hits
    <3> QED BY <1>8, <2>1, <2>3
  <2>5. k = i
    BY <2>2, <2>4
  <2> QED BY <2>5 DEF k
<1>10. m \in Seq({m[n] : n \in 1..Cardinality(hits)}) /\ Len(m) = Cardinality(hits)
  <2> HIDE DEF hits, Nth
  <2> QED BY <1>4
<1>11. \A n \in 1..Cardinality(hits) : m[n] = list[Nth(n)]
  <2> HIDE DEF hits, Nth
  <2> QED OBVIOUS
<1> HIDE DEF m, Nth, upto
<1>12. IsList(m)
  BY <1>10 DEF IsList
<1>13. ASSUME NEW i \in 1..Len(list), Matches(list[i], class) PROVE \E n \in 1..Len(m) : m[n] = list[i]
  <2>1. i \in hits
    BY <1>13
  <2> HIDE DEF hits
  <2> QED BY <1>6, <1>9, <1>10, <1>11, <2>1
<1> QED BY <1>1, <1>12, <1>13

\* ... and also of the reversed list.
LEMMA HeardHasAll ==
  ASSUME NEW list \in Seq(Subs), NEW class
  PROVE  /\ IsList(InOrder(class, Matching(list, class)))
         /\ \A i \in 1..Len(list) : Matches(list[i], class) =>
              \E n \in 1..Len(InOrder(class, Matching(list, class))) :
                InOrder(class, Matching(list, class))[n] = list[i]
<1> DEFINE m == Matching(list, class)
           r == Reverse(m)
<1>1. PICK S : m \in Seq(S)
  BY MatchingHasAll DEF IsList
<1>2. \A i \in 1..Len(list) : Matches(list[i], class) => \E n \in 1..Len(m) : m[n] = list[i]
  BY MatchingHasAll
<1> HIDE DEF m
<1>3. Len(m) \in Nat /\ \A n \in 1..Len(m) : Len(m) - n + 1 \in 1..Len(m)
  BY <1>1, LenProperties
<1>4. r \in Seq(S) /\ Len(r) = Len(m) /\ \A n \in 1..Len(m) : r[n] = m[Len(m) - n + 1]
  <2>1. r = [n \in 1..Len(m) |-> m[(Len(m) - n) + 1]]
    BY DEF Reverse
  <2>2. \A n \in 1..Len(m) : m[n] \in S
    BY <1>1, ElementOfSeq
  <2> QED BY <1>3, <2>1, <2>2
<1> HIDE DEF r
<1>5. \A n \in 1..Len(m) : r[Len(m) - n + 1] = m[n]
  <2> SUFFICES ASSUME NEW n \in 1..Len(m) PROVE r[Len(m) - n + 1] = m[n]
    OBVIOUS
  <2>1. Len(m) - n + 1 \in 1..Len(m) /\ Len(m) - (Len(m) - n + 1) + 1 = n
    BY <1>3
  <2> QED BY <1>4, <2>1
<1>6. \A i \in 1..Len(list) : Matches(list[i], class) => \E n \in 1..Len(r) : r[n] = list[i]
  BY <1>2, <1>3, <1>4, <1>5
<1>7. IsList(m) /\ IsList(r)
  BY <1>1, <1>4 DEF IsList
<1>8. InOrder(class, m) = m \/ InOrder(class, m) = r
  BY DEF InOrder, r
<1> QED BY <1>2, <1>6, <1>7, <1>8 DEF m

\* A carrier stays one in a longer list ...
LEMMA CarrierJoined ==
  ASSUME NEW q, NEW r, GoodSeq(q), GoodSeq(r), NEW o, HasCarrier(q, o) \/ HasCarrier(r, o)
  PROVE  HasCarrier(q \o r, o)
<1>1. PICK S : q \in Seq(S)
  BY DEF GoodSeq
<1>2. PICK T : r \in Seq(T)
  BY DEF GoodSeq
<1>3. q \in Seq(S \cup T) /\ r \in Seq(S \cup T)
  BY <1>1, <1>2
<1>4. Len(q) \in Nat /\ Len(r) \in Nat /\ Len(q \o r) = Len(q) + Len(r)
  BY <1>3, ConcatProperties, LenProperties, Zenon
<1>5. \A k \in 1..(Len(q) + Len(r)) : (q \o r)[k] = IF k <= Len(q) THEN q[k] ELSE r[k - Len(q)]
  BY <1>3, ConcatProperties, Zenon
<1>6. CASE HasCarrier(q, o)
  <2>1. PICK k \in 1..Len(q) : Carries(q[k], o)
    BY <1>6 DEF HasCarrier
  <2>2. k \in 1..(Len(q) + Len(r)) /\ (q \o r)[k] = q[k]
    BY <1>4, <1>5
  <2> QED BY <1>4, <2>1, <2>2 DEF HasCarrier
<1>7. CASE HasCarrier(r, o)
  <2>1. PICK k \in 1..Len(r) : Carries(r[k], o)
    BY <1>7 DEF HasCarrier
  <2>2. k + Len(q) \in 1..(Len(q) + Len(r)) /\ ~(k + Len(q) <= Len(q)) /\ (k + Len(q)) - Len(q) = k
    BY <1>4
  <2>3. (q \o r)[k + Len(q)] = r[k]
    BY <1>5, <2>2
  <2> QED BY <1>4, <2>1, <2>2, <2>3 DEF HasCarrier
<1> QED BY <1>6, <1>7

\* ... and where another emission ends or changes.
LEMMA CarrierChanged ==
  ASSUME GoodSeq(emissions), NEW i \in 1..Len(emissions), NEW o
  PROVE  /\ HasCarrier(emissions, o) =>
              Carries(emissions[i], o) \/ HasCarrier(RemoveAt(emissions, i), o)
         /\ \A b : HasCarrier(emissions, o) /\ (Carries(emissions[i], o) => Carries(b, o)) =>
              HasCarrier([emissions EXCEPT ![i] = b], o)
<1>1. PICK S : emissions \in Seq(S)
  BY DEF GoodSeq
<1>2. Len(emissions) \in Nat
  BY <1>1, LenProperties
<1>3. ASSUME HasCarrier(emissions, o), ~Carries(emissions[i], o)
      PROVE  HasCarrier(RemoveAt(emissions, i), o)
  <2>1. PICK k \in 1..Len(emissions) : Carries(emissions[k], o)
    BY <1>3 DEF HasCarrier
  <2>2. k # i
    BY <1>3, <2>1
  <2>3. /\ Len(RemoveAt(emissions, i)) = Len(emissions) - 1
        /\ \A j \in 1..(Len(emissions) - 1) :
             RemoveAt(emissions, i)[j] = IF j < i THEN emissions[j] ELSE emissions[j + 1]
    BY <1>1, RemoveAtSeq
  <2>4. CASE k < i
    <3>1. k \in 1..(Len(emissions) - 1) /\ RemoveAt(emissions, i)[k] = emissions[k]
      BY <1>2, <2>3, <2>4
    <3> QED BY <2>1, <2>3, <3>1 DEF HasCarrier
  <2>5. CASE i < k
    <3>1. k - 1 \in 1..(Len(emissions) - 1) /\ ~(k - 1 < i) /\ (k - 1) + 1 = k
      BY <1>2, <2>5
    <3>2. RemoveAt(emissions, i)[k - 1] = emissions[k]
      BY <2>3, <3>1
    <3> QED BY <2>1, <2>3, <3>1, <3>2 DEF HasCarrier
  <2> QED BY <1>2, <2>2, <2>4, <2>5
<1>4. ASSUME NEW b, HasCarrier(emissions, o), Carries(emissions[i], o) => Carries(b, o)
      PROVE  HasCarrier([emissions EXCEPT ![i] = b], o)
  <2>1. PICK k \in 1..Len(emissions) : Carries(emissions[k], o)
    BY <1>4 DEF HasCarrier
  <2> DEFINE q == [emissions EXCEPT ![i] = b]
  <2>2. Len(q) = Len(emissions) /\ q[i] = b /\ (k # i => q[k] = emissions[k])
    BY <1>1
  <2> HIDE DEF q
  <2>3. Carries(q[k], o)
    BY <1>4, <2>1, <2>2
  <2>4. HasCarrier(q, o)
    BY <2>2, <2>3 DEF HasCarrier
  <2> QED BY <2>4 DEF q
<1> QED BY <1>3, <1>4

\* What the emitter's registry has dispatched goes on to the global one.
LEMMA ForwardCarries ==
  ASSUME NEW e, NEW o, Carries(e, o), e.reg = 0, Owing(o)
  PROVE  HasCarrier(Forward(e), o)
<1> DEFINE f == Emission(e.glob, e.class, e.no, e.guard, e.glob, e.reports)
           q == <<f>>
<1>1. PICK k \in 1..Len(subscriptions[1]) : subscriptions[1][k] = o[1]
  BY DEF Owing
<1>2. e.glob = 1 /\ e.no = o[2] /\ e.class # "error" /\ o[1] \notin ErrorSubs
  BY DEF Carries
<1>3. Matches(o[1], e.class)
  BY <1>2 DEF Matches
<1>4. \E s \in Range(subscriptions[e.glob]) : Matches(s, e.class)
  BY <1>1, <1>2, <1>3 DEF Range
<1>5. Forward(e) = q
  BY <1>2, <1>4 DEF Forward
<1>6. Carries(f, o)
  BY <1>2 DEF Carries, Emission
<1>7. Len(q) = 1 /\ q[1] = f
  OBVIOUS
<1> HIDE DEF q, f
<1>8. HasCarrier(q, o)
  BY <1>6, <1>7 DEF HasCarrier
<1> QED BY <1>5, <1>8

\* An emission starts: whoever it is owed to is called or is in its list.
LEMMA BeginOwes ==
  ASSUME ObservedInv, NEW i \in 1..Len(emissions), Begin(i), NEW o \in owed'
  PROVE  o \in owed /\ HasCarrier(emissions', o)
<1> DEFINE e == emissions[i]
           heard == InOrder(e.class, Matching(subscriptions[e.reg], e.class))
           b == Starting(e, heard)
           dropped == e.class = "error" /\ (e.guard \/ e.reg = 0)
<1>1. /\ ~e.running
      /\ \/ dropped /\ emissions' = RemoveAt(emissions, i) /\ owed' = owed
         \/ ~dropped /\ heard = <<>> /\ emissions' = RemoveAt(emissions, i) \o Unheard(b) /\ owed' = owed
         \/ /\ ~dropped /\ heard # <<>>
            /\ emissions' = [emissions EXCEPT ![i] = b] \o Replies(b, heard[1])
            /\ owed' = owed \ {<<heard[1], b.no>>}
  BY DEF Begin, Receive, Starting
<1>2. GoodSeq(emissions) /\ Good(e) /\ OneGlobal
  BY GoodChange DEF ObservedInv
<1>3. ASSUME e.reg \in Registries
      PROVE  IsList(heard) /\ \A k \in 1..Len(subscriptions[e.reg]) :
               Matches(subscriptions[e.reg][k], e.class) =>
                 \E n \in 1..Len(heard) : heard[n] = subscriptions[e.reg][k]
  <2>1. subscriptions[e.reg] \in Seq(Subs)
    BY <1>2, <1>3 DEF OneGlobal
  <2> QED BY <2>1, HeardHasAll
<1> HIDE DEF heard, e
<1>4. ASSUME ~dropped
      PROVE  /\ Good(b) /\ b.running /\ b.todo = heard
             /\ b.reg = e.reg /\ b.class = e.class /\ b.no = e.no /\ b.glob = e.glob
  <2>1. ~(e.class = "error" /\ (e.guard \/ e.reg = 0))
    BY <1>4, Zenon
  <2>2. Good(e) /\ b = Starting(e, heard)
    BY <1>2
  <2> HIDE DEF dropped, b
  <2>3. RunsFrom(b, e, heard)
    BY <2>1, <2>2, Started, Zenon
  <2> QED BY <2>3 DEF RunsFrom
<1> HIDE DEF b
<1>5. o \in owed
  BY <1>1
<1>6. Owing(o) /\ HasCarrier(emissions, o)
  BY <1>5 DEF ObservedInv, Owing
<1>7. Carries(e, o) => e.class # "error"
  BY DEF Carries
\* Whoever listens on the global registry is in the list.
<1>8. ASSUME Carries(e, o), e.reg = 1
      PROVE  IsList(heard) /\ \E n \in 1..Len(heard) : heard[n] = o[1]
  <2>1. PICK k \in 1..Len(subscriptions[1]) : subscriptions[1][k] = o[1]
    BY <1>6 DEF Owing
  <2>2. e.reg \in Registries
    BY <1>6, <1>8 DEF Owing, Globals
  <2>3. Matches(subscriptions[1][k], e.class)
    BY <1>8, <2>1 DEF Carries, Matches
  <2> QED BY <1>3, <1>8, <2>1, <2>2, <2>3
<1>9. CASE dropped /\ emissions' = RemoveAt(emissions, i)
  <2>1. ~Carries(e, o)
    BY <1>7, <1>9
  <2> QED BY <1>2, <1>5, <1>6, <1>9, <2>1, CarrierChanged DEF e
<1>10. CASE ~dropped /\ heard = <<>> /\ emissions' = RemoveAt(emissions, i) \o Unheard(b)
  <2>1. GoodSeq(Forward(b)) /\ GoodSeq(RemoveAt(emissions, i))
    BY <1>2, <1>4, <1>10, FollowUps, GoodChange
  <2>2. CASE ~Carries(e, o)
    <3>1. HasCarrier(RemoveAt(emissions, i), o)
      BY <1>2, <1>6, <2>2, CarrierChanged DEF e
    <3> QED BY <1>5, <1>10, <2>1, <3>1, CarrierJoined DEF Unheard
  <2>3. CASE Carries(e, o)
    <3>1. Len(heard) = 0
      BY <1>10
    <3>2. e.reg # 1
      BY <1>8, <2>3, <3>1
    <3>3. e.reg = 0
      BY <2>3, <3>2 DEF Carries
    <3>4. Carries(b, o)
      BY <1>4, <1>10, <2>3, <3>3 DEF Carries
    <3>5. HasCarrier(Forward(b), o)
      BY <1>4, <1>6, <1>10, <3>3, <3>4, ForwardCarries
    <3> QED BY <1>5, <1>10, <2>1, <3>5, CarrierJoined DEF Unheard
  <2> QED BY <2>2, <2>3
<1>11. CASE /\ ~dropped /\ heard # <<>>
            /\ emissions' = [emissions EXCEPT ![i] = b] \o Replies(b, heard[1])
            /\ owed' = owed \ {<<heard[1], b.no>>}
  <2>1. GoodSeq(Replies(b, heard[1])) /\ GoodSeq([emissions EXCEPT ![i] = b])
    BY <1>2, <1>4, <1>11, FollowUps, GoodChange
  <2>2. ASSUME Carries(e, o) PROVE Carries(b, o)
    <3>1. CASE e.reg = 0
      BY <1>4, <1>11, <2>2, <3>1 DEF Carries
    <3>2. CASE e.reg = 1
      <4>1. PICK n \in 1..Len(heard) : heard[n] = o[1]
        BY <1>8, <2>2, <3>2
      <4>2. IsList(heard)
        BY <1>8, <2>2, <3>2
      <4>3. Len(heard) \in Nat
        BY <4>2, LenProperties DEF IsList
      <4>4. o[1] # heard[1]
        <5>1. o = <<o[1], o[2]>> /\ o[2] = b.no
          BY <1>4, <1>6, <1>11, <2>2 DEF Owing, Carries
        <5> QED BY <1>11, <5>1
      <4>5. n \in 2..Len(heard)
        BY <4>1, <4>3, <4>4
      <4> QED BY <1>4, <1>11, <2>2, <3>2, <4>1, <4>2, <4>5 DEF Carries
    <3> QED BY <2>2, <3>1, <3>2 DEF Carries
  <2>3. HasCarrier([emissions EXCEPT ![i] = b], o)
    BY <1>2, <1>6, <2>2, CarrierChanged DEF e
  <2> QED BY <1>5, <1>11, <2>1, <2>3, CarrierJoined
<1> QED BY <1>1, <1>9, <1>10, <1>11

\* A callback ends: the next is called, the last hands the event on.
LEMMA ReturnOwes ==
  ASSUME ObservedInv, NEW i \in 1..Len(emissions), Return(i), NEW o \in owed'
  PROVE  o \in owed /\ HasCarrier(emissions', o)
<1> DEFINE e == emissions[i]
           next == Tail(e.todo)
           report == SubscriberError(e, Head(e.todo))
           b == [e EXCEPT !.todo = next]
<1>1. /\ e.running
      /\ \/ next = <<>> /\ emissions' = RemoveAt(emissions, i) \o report \o Forward(e) /\ owed' = owed
         \/ /\ next # <<>>
            /\ emissions' = [emissions EXCEPT ![i].todo = next] \o report \o Replies(e, next[1])
            /\ owed' = owed \ {<<next[1], e.no>>}
  BY DEF Return, Receive
<1>2. GoodSeq(emissions) /\ Good(e)
  BY GoodChange DEF ObservedInv
<1>3. [emissions EXCEPT ![i].todo = next] = [emissions EXCEPT ![i] = b]
  OBVIOUS
<1>4. \A S : e.todo \in Seq(S) /\ Len(e.todo) > 1 =>
        next \in Seq(S) /\ Len(next) = Len(e.todo) - 1 /\ \A k \in 1..Len(next) : next[k] = e.todo[k + 1]
  <2> SUFFICES ASSUME NEW S, e.todo \in Seq(S), Len(e.todo) > 1
               PROVE  next \in Seq(S) /\ Len(next) = Len(e.todo) - 1
                      /\ \A k \in 1..Len(next) : next[k] = e.todo[k + 1]
    OBVIOUS
  <2> HIDE DEF e
  <2> QED OBVIOUS
<1> HIDE DEF next, e
<1>5. /\ Good(b) /\ b.running = e.running /\ b.todo = next
      /\ b.reg = e.reg /\ b.class = e.class /\ b.no = e.no /\ b.glob = e.glob
  <2>1. b = [reg |-> e.reg, class |-> e.class, no |-> e.no, guard |-> e.guard,
             glob |-> e.glob, reports |-> e.reports, todo |-> next, running |-> e.running]
    BY <1>2 DEF Good
  <2> QED BY <1>2, <2>1 DEF Good
<1>6. GoodSeq(report) /\ GoodSeq(Forward(e)) /\ GoodSeq(Replies(e, next[1]))
  BY <1>1, <1>2, FollowUps
<1>7. GoodSeq(RemoveAt(emissions, i)) /\ GoodSeq([emissions EXCEPT ![i] = b])
  BY <1>2, <1>5, GoodChange
<1> HIDE DEF report, b
<1>8. o \in owed
  BY <1>1
<1>9. Owing(o) /\ HasCarrier(emissions, o)
  BY <1>8 DEF ObservedInv, Owing
\* On the global registry the subscriber is among those still to be called.
<1>10. ASSUME Carries(e, o), e.reg = 1
       PROVE  /\ next # <<>> /\ IsList(next)
              /\ \E k \in 1..Len(next) : next[k] = o[1]
  <2>1. PICK k \in 2..Len(e.todo) : e.todo[k] = o[1]
    BY <1>1, <1>10 DEF Carries
  <2>2. PICK S : e.todo \in Seq(S)
    BY <1>1, <1>10 DEF Carries, IsList
  <2>3. Len(e.todo) \in Nat /\ Len(e.todo) > 1
    BY <2>1, <2>2, LenProperties
  <2>4. next \in Seq(S) /\ Len(next) = Len(e.todo) - 1 /\ \A n \in 1..Len(next) : next[n] = e.todo[n + 1]
    BY <1>4, <2>2, <2>3
  <2>5. k - 1 \in 1..Len(next) /\ (k - 1) + 1 = k
    BY <2>3, <2>4
  <2>6. next[k - 1] = o[1]
    BY <2>1, <2>4, <2>5
  <2>7. next # <<>>
    BY <2>3, <2>4
  <2> QED BY <2>4, <2>5, <2>6, <2>7 DEF IsList
<1>11. CASE next = <<>> /\ emissions' = RemoveAt(emissions, i) \o report \o Forward(e)
  <2>1. GoodSeq(RemoveAt(emissions, i) \o report)
    BY <1>6, <1>7, GoodParts
  <2>2. CASE ~Carries(e, o)
    <3>1. HasCarrier(RemoveAt(emissions, i), o)
      BY <1>2, <1>9, <2>2, CarrierChanged DEF e
    <3>2. HasCarrier(RemoveAt(emissions, i) \o report, o)
      BY <1>6, <1>7, <3>1, CarrierJoined
    <3> QED BY <1>6, <1>8, <1>11, <2>1, <3>2, CarrierJoined
  <2>3. CASE Carries(e, o)
    <3>1. e.reg = 0
      BY <1>10, <1>11, <2>3 DEF Carries
    <3>2. HasCarrier(Forward(e), o)
      BY <1>9, <2>3, <3>1, ForwardCarries
    <3> QED BY <1>6, <1>8, <1>11, <2>1, <3>2, CarrierJoined
  <2> QED BY <2>2, <2>3
<1>12. CASE /\ next # <<>>
            /\ emissions' = [emissions EXCEPT ![i] = b] \o report \o Replies(e, next[1])
            /\ owed' = owed \ {<<next[1], e.no>>}
  <2>1. ASSUME Carries(e, o) PROVE Carries(b, o)
    <3>1. CASE e.reg = 0
      BY <1>5, <2>1, <3>1 DEF Carries
    <3>2. CASE e.reg = 1
      <4>1. PICK n \in 1..Len(next) : next[n] = o[1]
        BY <1>10, <2>1, <3>2
      <4>2. IsList(next)
        BY <1>10, <2>1, <3>2
      <4>3. Len(next) \in Nat
        BY <4>2, LenProperties DEF IsList
      <4>4. o[1] # next[1]
        <5>1. o = <<o[1], o[2]>> /\ o[2] = e.no
          BY <1>9, <2>1 DEF Owing, Carries
        <5> QED BY <1>12, <5>1
      <4>5. n \in 2..Len(next)
        BY <4>1, <4>3, <4>4
      <4> QED BY <1>1, <1>5, <2>1, <3>2, <4>1, <4>2, <4>5 DEF Carries
    <3> QED BY <2>1, <3>1, <3>2 DEF Carries
  <2>2. HasCarrier([emissions EXCEPT ![i] = b], o)
    BY <1>2, <1>9, <2>1, CarrierChanged DEF e
  <2>3. HasCarrier([emissions EXCEPT ![i] = b] \o report, o) /\ GoodSeq([emissions EXCEPT ![i] = b] \o report)
    BY <1>6, <1>7, <2>2, CarrierJoined, GoodParts
  <2> QED BY <1>6, <1>8, <1>12, <2>3, CarrierJoined
<1> QED BY <1>1, <1>3, <1>11, <1>12

\* A new event is owed to whoever listens on the global registry now.
LEMMA EmitOwes ==
  ASSUME ObservedInv, NEW t \in Threads, NEW c \in {"before", "after"}, EmitNowait(t, c)
  PROVE  ObservedInv'
<1>0. PICK no : no = emitted + 1
  OBVIOUS
<1> DEFINE n == Emission(0, c, no, FALSE, home[t], 0)
<1>1. /\ emissions' = Append(emissions, n) /\ subscriptions' = subscriptions /\ home' = home
      /\ owed' = owed \cup {<<s, no>> : s \in {u \in Subs :
                 \E g \in Globals : u \in Range(subscriptions[g]) /\ Matches(u, c)}}
  BY <1>0 DEF EmitNowait
<1>2. GoodSeq(emissions) /\ OneGlobal
  BY DEF ObservedInv
<1>3. PICK S : emissions \in Seq(S) /\ \A x \in S : Good(x)
  BY <1>2 DEF GoodSeq
<1>4. Good(n)
  <2>1. c # "error" /\ FALSE \in BOOLEAN /\ 0 \in Nat /\ 0 <= 1
    OBVIOUS
  <2> QED BY <2>1, NewEmission
<1>5. home[t] = 1 /\ c # "error"
  BY <1>2 DEF OneGlobal
<1>6. n.no = no /\ n.class = c /\ n.glob = 1 /\ n.reg = 0
  BY <1>5 DEF Emission
<1> HIDE DEF n
<1>7. /\ emissions' \in Seq(S \cup {n}) /\ Len(emissions') = Len(emissions) + 1
      /\ emissions'[Len(emissions) + 1] = n /\ \A k \in 1..Len(emissions) : emissions'[k] = emissions[k]
  BY <1>1, <1>3
<1>8. Len(emissions) \in Nat
  BY <1>3, LenProperties
<1>9. GoodSeq(emissions)'
  <2>1. \A x \in S \cup {n} : Good(x)
    BY <1>3, <1>4
  <2> QED BY <1>7, <2>1 DEF GoodSeq
<1>10. OneGlobal'
  BY <1>1, <1>2 DEF OneGlobal
<1>11. ASSUME NEW o \in owed PROVE Owing(o)'
  <2>1. Owing(o)
    BY DEF ObservedInv
  <2>2. PICK k \in 1..Len(emissions) : Carries(emissions[k], o)
    BY <2>1 DEF Owing, HasCarrier
  <2>3. HasCarrier(emissions, o)'
    <3>1. k \in 1..Len(emissions')
      BY <1>7, <1>8
    <3> QED BY <1>7, <2>2, <3>1 DEF HasCarrier
  <2> QED BY <1>1, <2>1, <2>3 DEF Owing
<1>12. ASSUME NEW s \in Subs, NEW g \in Globals, s \in Range(subscriptions[g]), Matches(s, c)
       PROVE  Owing(<<s, no>>)'
  <2> DEFINE o == <<s, no>>
  <2>1. g = 1
    <3> SUFFICES ASSUME g # 1 PROVE FALSE
      OBVIOUS
    <3>1. subscriptions[g] = <<>>
      BY <1>2 DEF OneGlobal
    <3> QED BY <1>12, <3>1 DEF Range
  <2>2. subscriptions[1] \in Seq(Subs)
    BY <1>2, <2>1 DEF OneGlobal, Globals
  <2>3. \E k \in 1..Len(subscriptions[1]) : subscriptions[1][k] = s
    <3>1. DOMAIN subscriptions[1] = 1..Len(subscriptions[1])
      BY <2>2, LenProperties
    <3> QED BY <1>12, <2>1, <3>1 DEF Range
  <2>4. s \notin ErrorSubs
    BY <1>5, <1>12 DEF Matches
  <2>5. o = <<o[1], o[2]>> /\ o[1] = s /\ o[2] = no
    OBVIOUS
  <2> HIDE DEF o
  <2>6. Carries(n, o)
    BY <1>5, <1>6, <2>4, <2>5 DEF Carries
  <2>7. HasCarrier(emissions, o)'
    <3>1. Len(emissions) + 1 \in 1..Len(emissions')
      BY <1>7, <1>8
    <3> QED BY <1>7, <2>6, <3>1 DEF HasCarrier
  <2>8. Owing(o)'
    BY <1>1, <2>1, <2>3, <2>5, <2>7 DEF Owing
  <2> QED BY <2>8 DEF o
<1>13. ASSUME NEW o \in owed' PROVE Owing(o)'
  <2>1. CASE o \in owed
    BY <1>11, <2>1
  <2>2. CASE o \notin owed
    <3>1. PICK s \in Subs, g \in Globals : s \in Range(subscriptions[g]) /\ Matches(s, c) /\ o = <<s, no>>
      BY <1>1, <2>2
    <3> QED BY <1>12, <3>1
  <2> QED BY <2>1, <2>2
<1> QED BY <1>9, <1>10, <1>13 DEF ObservedInv

\* Subscriptions change: whoever is owed an event is still subscribed.
LEMMA ListsOwe ==
  ASSUME ObservedInv, NEW s \in Subs,
         SubscribeLocal(s) \/ Unsubscribe(s) \/ \E t \in Threads : SubscribeGlobal(t, s)
  PROVE  ObservedInv'
<1>1. GoodSeq(emissions) /\ OneGlobal /\ emissions' = emissions
  BY DEF ObservedInv, SubscribeLocal, Unsubscribe, SubscribeGlobal
<1>2. /\ subscriptions \in [Registries -> Seq(Subs)] /\ home \in [Threads -> {1}]
      /\ \A r \in Globals : r # 1 => subscriptions[r] = <<>>
  BY <1>1 DEF OneGlobal
<1>3. ASSUME OneGlobal',
             \A o \in owed' : o \in owed /\ \A k \in 1..Len(subscriptions[1]) :
               1 \in Globals /\ subscriptions[1][k] = o[1] => \E m \in 1..Len(subscriptions'[1]) : subscriptions'[1][m] = o[1]
      PROVE  ObservedInv'
  <2>1. ASSUME NEW o \in owed' PROVE Owing(o)'
    <3>1. Owing(o)
      BY <1>3 DEF ObservedInv
    <3>2. HasCarrier(emissions', o)
      BY <1>1, <3>1 DEF Owing
    <3> QED BY <1>3, <3>1, <3>2 DEF Owing
  <2> QED BY <1>1, <1>3, <2>1 DEF ObservedInv
<1>4. CASE SubscribeLocal(s)
  <2>1. subscriptions' = [subscriptions EXCEPT ![0] = Append(@, s)] /\ home' = home /\ owed' = owed
    BY <1>4 DEF SubscribeLocal
  <2>2. \A r \in Globals : subscriptions'[r] = subscriptions[r]
    BY <1>2, <2>1 DEF Globals
  <2>3. OneGlobal'
    <3>1. ASSUME NEW r \in Registries PROVE subscriptions'[r] \in Seq(Subs)
      BY <1>2, <2>1
    <3>2. subscriptions' \in [Registries -> Seq(Subs)]
      BY <1>2, <2>1, <3>1
    <3> QED BY <1>2, <2>1, <2>2, <3>2 DEF OneGlobal
  <2> QED BY <1>3, <2>1, <2>2, <2>3
<1>5. CASE \E t \in Threads : SubscribeGlobal(t, s)
  <2>1. PICK t \in Threads : SubscribeGlobal(t, s)
    BY <1>5
  <2>2. home[t] = 1
    BY <1>2
  <2>3. /\ subscriptions' = [subscriptions EXCEPT ![1] = Append(@, s)] /\ owed' = owed
        /\ home' = [home EXCEPT ![t] = 1]
    BY <2>1, <2>2 DEF SubscribeGlobal
  <2>4. \A r \in Globals : r # 1 => subscriptions'[r] = <<>>
    BY <1>2, <2>3 DEF Globals
  <2>5. OneGlobal'
    <3>1. ASSUME NEW r \in Registries PROVE subscriptions'[r] \in Seq(Subs)
      BY <1>2, <2>3
    <3>2. subscriptions' \in [Registries -> Seq(Subs)]
      BY <1>2, <2>3, <3>1
    <3>3. home' \in [Threads -> {1}]
      BY <1>2, <2>3
    <3> QED BY <2>4, <3>2, <3>3 DEF OneGlobal
  <2>6. ASSUME 1 \in Globals, NEW k \in 1..Len(subscriptions[1])
        PROVE  k \in 1..Len(subscriptions'[1]) /\ subscriptions'[1][k] = subscriptions[1][k]
    <3>1. subscriptions[1] \in Seq(Subs) /\ subscriptions'[1] = Append(subscriptions[1], s)
      BY <1>2, <2>3, <2>6 DEF Globals
    <3> QED BY <2>6, <3>1
  <2> QED BY <1>3, <2>3, <2>5, <2>6
<1>6. CASE Unsubscribe(s)
  <2>1. /\ subscriptions' = [r \in Registries |-> RemoveFirst(subscriptions[r], s)]
        /\ owed' = {o \in owed : o[1] # s} /\ home' = home
    BY <1>6 DEF Unsubscribe
  <2>2. ASSUME NEW r \in Registries
        PROVE  \/ RemoveFirst(subscriptions[r], s) = subscriptions[r]
               \/ \E n \in 1..Len(subscriptions[r]) :
                    subscriptions[r][n] = s /\ RemoveFirst(subscriptions[r], s) = RemoveAt(subscriptions[r], n)
    <3>1. subscriptions[r] \in Seq(Subs)
      BY <1>2
    <3> QED BY <3>1, RemoveFirstSeq
  <2>3. ASSUME NEW r \in Registries
        PROVE  /\ RemoveFirst(subscriptions[r], s) \in Seq(Subs)
               /\ subscriptions[r] = <<>> => RemoveFirst(subscriptions[r], s) = <<>>
    <3>1. subscriptions[r] \in Seq(Subs)
      BY <1>2
    <3>2. subscriptions[r] = <<>> => 1..Len(subscriptions[r]) = {}
      OBVIOUS
    <3> QED BY <2>2, <3>1, <3>2, RemoveAtSeq
  <2>4. OneGlobal'
    <3>1. \A r \in Globals : r \in Registries
      BY DEF Globals
    <3>2. \A r \in Registries : subscriptions'[r] = RemoveFirst(subscriptions[r], s)
      BY <2>1
    <3>3. subscriptions' \in [Registries -> Seq(Subs)]
      BY <2>1, <2>3
    <3>4. \A r \in Globals : r # 1 => subscriptions'[r] = <<>>
      BY <1>2, <2>3, <3>1, <3>2
    <3> QED BY <1>2, <2>1, <3>3, <3>4 DEF OneGlobal
  <2>5. ASSUME NEW o \in owed', 1 \in Globals, NEW k \in 1..Len(subscriptions[1]), subscriptions[1][k] = o[1]
        PROVE  \E m \in 1..Len(subscriptions'[1]) : subscriptions'[1][m] = o[1]
    <3>1. 1 \in Registries /\ o[1] # s
      BY <2>1, <2>5 DEF Globals
    <3>2. subscriptions'[1] = RemoveFirst(subscriptions[1], s) /\ subscriptions[1] \in Seq(Subs)
      BY <1>2, <2>1, <3>1
    <3>3. CASE RemoveFirst(subscriptions[1], s) = subscriptions[1]
      BY <2>5, <3>2, <3>3
    <3>4. ASSUME NEW n \in 1..Len(subscriptions[1]), subscriptions[1][n] = s,
                 RemoveFirst(subscriptions[1], s) = RemoveAt(subscriptions[1], n)
          PROVE  \E m \in 1..Len(subscriptions'[1]) : subscriptions'[1][m] = o[1]
      <4> DEFINE l == subscriptions[1]
      <4>1. l \in Seq(Subs) /\ n \in 1..Len(l) /\ k \in 1..Len(l)
        BY <3>2
      <4>2. subscriptions'[1] = RemoveAt(l, n) /\ l[k] = o[1] /\ k # n
        BY <2>5, <3>1, <3>2, <3>4
      <4> HIDE DEF l
      <4>3. /\ Len(RemoveAt(l, n)) = Len(l) - 1
            /\ \A j \in 1..(Len(l) - 1) : RemoveAt(l, n)[j] = IF j < n THEN l[j] ELSE l[j + 1]
        BY <4>1, RemoveAtSeq
      <4>4. Len(l) \in Nat
        BY <4>1, LenProperties
      <4>5. CASE k < n
        <5>1. k \in 1..(Len(l) - 1) /\ RemoveAt(l, n)[k] = l[k]
          BY <4>1, <4>3, <4>4, <4>5
        <5> QED BY <4>2, <4>3, <5>1
      <4>6. CASE n < k
        <5>1. k - 1 \in 1..(Len(l) - 1) /\ ~(k - 1 < n) /\ (k - 1) + 1 = k
          BY <4>1, <4>4, <4>6
        <5>2. RemoveAt(l, n)[k - 1] = l[k]
          BY <4>3, <5>1
        <5> QED BY <4>2, <4>3, <5>1, <5>2
      <4> QED BY <4>1, <4>2, <4>4, <4>5, <4>6
    <3> QED BY <2>2, <3>1, <3>3, <3>4
  <2>6. \A o \in owed' : o \in owed
    BY <2>1
  <2> QED BY <1>3, <2>4, <2>5, <2>6
<1> QED BY <1>4, <1>5, <1>6

LEMMA ObservedStep == ASSUME ObservedInv, [LifecycleNext]_lifecycleVars PROVE ObservedInv'
<1>1. GoodSeq(emissions)'
  BY LifecycleStep DEF ObservedInv, LifecycleInv
<1>2. ASSUME NEW i \in 1..Len(emissions), Begin(i) \/ Return(i) PROVE ObservedInv'
  <2>1. subscriptions' = subscriptions /\ home' = home
    BY <1>2 DEF Begin, Return
  <2>2. ASSUME NEW o \in owed' PROVE Owing(o)'
    <3>1. o \in owed /\ HasCarrier(emissions', o)
      BY <1>2, BeginOwes, ReturnOwes
    <3>2. Owing(o)
      BY <3>1 DEF ObservedInv
    <3> QED BY <2>1, <3>1, <3>2 DEF Owing
  <2>3. OneGlobal'
    BY <2>1 DEF ObservedInv, OneGlobal
  <2> QED BY <1>1, <2>2, <2>3 DEF ObservedInv
<1>3. ASSUME UNCHANGED <<subscriptions, home, emissions, owed>> PROVE ObservedInv'
  BY <1>3 DEF ObservedInv, OneGlobal, Owing, HasCarrier, GoodSeq
<1>4. CASE AttachBus \/ UNCHANGED lifecycleVars
  BY <1>3, <1>4 DEF AttachBus, lifecycleVars
<1> QED BY <1>2, <1>4, EmitOwes, ListsOwe DEF LifecycleNext

(* Where the process has one global registry, made before its tasks, a       *)
(* global subscriber has received an event emitted while it was subscribed   *)
(* by the time the last task of the emission ends, whatever subscribes,      *)
(* unsubscribes, raises and emits meanwhile.                                 *)
THEOREM GlobalSubscribersObserve == Primed /\ LifecycleSpec => []GlobalObserves
<1>1. Primed /\ LifecycleInit => ObservedInv
  <2> SUFFICES ASSUME Primed, LifecycleInit PROVE ObservedInv
    OBVIOUS
  <2>1. home = [t \in Threads |-> 1] /\ owed = {} /\ subscriptions = [r \in Registries |-> <<>>]
    BY DEF LifecycleInit
  <2>2. GoodSeq(emissions)
    <3>1. emissions \in Seq({}) /\ \A e \in {} : Good(e)
      BY DEF LifecycleInit
    <3> QED BY <3>1 DEF GoodSeq
  <2>3. OneGlobal
    <3>1. Globals \subseteq Registries
      BY DEF Globals
    <3> QED BY <2>1, <3>1 DEF OneGlobal
  <2> QED BY <2>1, <2>2, <2>3 DEF ObservedInv
<1>2. ObservedInv => GlobalObserves
  BY DEF ObservedInv, GlobalObserves, Owing, HasCarrier, Carries
<1>3. QED
  BY <1>1, <1>2, ObservedStep, PTL DEF LifecycleSpec

-----------------------------------------------------------------------------
(* The specification that the run checks.  One part takes steps, the others *)
(* stand still.                                                             *)

(* What the run checks of closing a task is what is proved of it.           *)
THEOREM PartsHasClose == Spec => CloseSpec
<1>1. Init => CloseInit
  BY DEF Init
<1>2. ASSUME [Next]_vars PROVE [CloseNext]_closeVars
  BY <1>2 DEF Next, vars, Subscription, Lifecycle, Manager, Ingest, Reserve, Close, Worktree, Graph,
     HookSide, Tooling, CloseNext
<1>3. QED
  BY <1>1, <1>2, PTL DEF Spec, CloseSpec

(* ... of the worktrees ...                                                 *)
THEOREM PartsHasWorktree == Spec => WorktreeSpec
<1>1. Init => WorktreeInit
  BY DEF Init
<1>2. ASSUME [Next]_vars PROVE [WorktreeNext]_worktreeVars
  BY <1>2 DEF Next, vars, Subscription, Lifecycle, Manager, Ingest, Reserve, Close, Worktree, Graph,
     HookSide, Tooling, WorktreeNext
<1>3. QED
  BY <1>1, <1>2, PTL DEF Spec, WorktreeSpec

(* ... of the hook manager ...                                              *)
THEOREM PartsHasManager == Spec => ManagerSpec
<1>1. Init => ManagerInit
  BY DEF Init
<1>2. ASSUME [Next]_vars PROVE [ManagerNext]_managerVars
  BY <1>2 DEF Next, vars, Subscription, Lifecycle, Manager, Ingest, Reserve, Close, Worktree, Graph,
     HookSide, Tooling, ManagerNext
<1>3. QED
  BY <1>1, <1>2, PTL DEF Spec, ManagerSpec

(* ... of the allocator ...                                                 *)
THEOREM PartsHasReserve == Spec => ReserveSpec
<1>1. Init => ReserveInit
  BY DEF Init
<1>2. ASSUME [Next]_vars PROVE [ReserveNext]_reserveVars
  BY <1>2 DEF Next, vars, Subscription, Lifecycle, Manager, Ingest, Reserve, Close, Worktree, Graph,
     HookSide, Tooling, ReserveNext
<1>3. QED
  BY <1>1, <1>2, PTL DEF Spec, ReserveSpec

(* ... of the webhook receiver ...                                          *)
THEOREM PartsHasIngest == Spec => IngestSpec
<1>1. Init => IngestInit
  BY DEF Init
<1>2. ASSUME [Next]_vars PROVE [IngestNext]_ingestVars
  BY <1>2 DEF Next, vars, Subscription, Lifecycle, Manager, Ingest, Reserve, Close, Worktree, Graph,
     HookSide, Tooling, IngestNext
<1>3. QED
  BY <1>1, <1>2, PTL DEF Spec, IngestSpec

(* ... of the lifecycle events ...                                          *)
THEOREM PartsHasLifecycle == Spec => LifecycleSpec
<1>1. Init => LifecycleInit
  BY DEF Init
<1>2. ASSUME [Next]_vars PROVE [LifecycleNext]_lifecycleVars
  BY <1>2 DEF Next, vars, Subscription, Lifecycle, Manager, Ingest, Reserve, Close, Worktree, Graph,
     HookSide, Tooling, LifecycleNext
<1>3. QED
  BY <1>1, <1>2, PTL DEF Spec, LifecycleSpec

(* ... of the lint of the task graph ...                                    *)
THEOREM PartsHasGraph == Spec => GraphSpec
<1>1. Init => GraphInit
  BY DEF Init
<1>2. ASSUME [Next]_vars PROVE [GraphNext]_graphVars
  BY <1>2 DEF Next, vars, Subscription, Lifecycle, Manager, Ingest, Reserve, Close, Worktree, Graph,
     HookSide, Tooling, GraphNext
<1>3. QED
  BY <1>1, <1>2, PTL DEF Spec, GraphSpec

(* ... and of the subscriptions of the bus core.                            *)
THEOREM PartsHasSubscriptions == Spec => SubscriptionsSpec
<1>1. Init => SubscriptionsInit
  BY DEF Init
<1>2. ASSUME [Next]_vars PROVE [SubscriptionsNext]_subscriptionVars
  BY <1>2 DEF Next, vars, Subscription, Lifecycle, Manager, Ingest, Reserve, Close, Worktree, Graph,
     HookSide, Tooling, SubscriptionsNext
<1>3. QED
  BY <1>1, <1>2, PTL DEF Spec, SubscriptionsSpec
=============================================================================
