----------------------------- MODULE TaskGraph ------------------------------
(***************************************************************************)
(* The lint of a feature's task graph (scripts/sdd/check_task_graph.py):   *)
(* tasks are scheduled in waves of tasks whose dependencies are done, and  *)
(* the tasks of one wave run in parallel.  The lint computes the waves, the*)
(* ancestors of every task by a depth-first search with a memo, and        *)
(* reports unknown dependencies, cycles, and unordered tasks that declare  *)
(* the same file.                                                          *)
(*                                                                         *)
(* The search is a stack of frames, one for each visit() under way.  The   *)
(* order of depends_on and of the tasks is any order.                      *)
(***************************************************************************)
EXTENDS Sequences, FiniteSets, SequencesExt

CONSTANTS Tasks, Unknown,  \* the index's tasks; an id that is not one of them
          FilesOf          \* the files each task declares

ASSUME GraphAssumption == Unknown \notin Tasks /\ IsFiniteSet(Tasks)

VARIABLES depends_on,  \* the graph, fixed
          remaining,   \* _waves: task -> dependencies still missing
          waves, cyclic,
          frames,      \* _ancestors: the visits under way
          memo,
          findings     \* errors reported

graphVars == <<depends_on, remaining, waves, cyclic, frames, memo, findings>>

NotYet == {Unknown}    \* a task whose ancestors are not in the memo

GraphInit ==
  /\ depends_on \in [Tasks -> SUBSET (Tasks \cup {Unknown})]
  /\ remaining = [t \in Tasks |-> depends_on[t] \cap Tasks]
  /\ waves = <<>> /\ cyclic = {}
  /\ frames = <<>> /\ memo = [t \in Tasks |-> NotYet]
  /\ findings = {}

(* A pass of the loop of _waves: the tasks with nothing missing are a wave, *)
(* and nobody waits for them any more; when there is none, what remains is  *)
(* reported as cyclic.                                                      *)
_waves ==
  LET ready == {t \in DOMAIN remaining : remaining[t] = {}}
      rest  == DOMAIN remaining \ ready IN
  /\ DOMAIN remaining # {} /\ cyclic = {}
  /\ \/ /\ ready # {}
        /\ waves' = Append(waves, ready)
        /\ remaining' = [t \in rest |-> remaining[t] \ ready]
        /\ UNCHANGED <<cyclic, findings>>
     \/ /\ ready = {}
        /\ cyclic' = rest
        /\ findings' = findings \cup {"cycle"}
        /\ UNCHANGED <<waves, remaining>>
  /\ UNCHANGED <<depends_on, frames, memo>>

WavesDone == DOMAIN remaining = {} \/ cyclic # {}
Frame(t) == [task |-> t, acc |-> {}, todo |-> depends_on[t]]
OnStack == {frames[i].task : i \in DOMAIN frames}
Top == Last(frames)
Replace(frame) == Append(Front(frames), frame)

(* The outer loop of _ancestors takes the next task that has no memo. *)
VisitTask(t) ==
  /\ WavesDone /\ frames = <<>> /\ memo[t] = NotYet
  /\ frames' = <<Frame(t)>>
  /\ UNCHANGED <<depends_on, remaining, waves, cyclic, memo, findings>>

(* Mutant: a dependency that was visited before adds itself and no more. *)
VisitIgnoresMemo(d) ==
  /\ frames # <<>> /\ d \in Top.todo
  /\ LET rest == [Top EXCEPT !.todo = @ \ {d}] IN
     \/ (d \notin Tasks \/ d \in OnStack) /\ frames' = Replace(rest)
     \/ d \in Tasks \ OnStack /\ memo[d] # NotYet
        /\ frames' = Replace([rest EXCEPT !.acc = @ \cup {d}])
     \/ d \in Tasks \ OnStack /\ memo[d] = NotYet
        /\ frames' = Append(Replace([rest EXCEPT !.acc = @ \cup {d}]), Frame(d))
  /\ UNCHANGED <<depends_on, remaining, waves, cyclic, memo, findings>>

(* One round of the loop in visit(): a dependency that is unknown or on the *)
(* path is skipped, one in the memo adds itself and its ancestors, another  *)
(* is visited first.                                                        *)
visit(d) ==
  /\ frames # <<>> /\ d \in Top.todo
  /\ LET rest == [Top EXCEPT !.todo = @ \ {d}] IN
     \/ (d \notin Tasks \/ d \in OnStack) /\ frames' = Replace(rest)
     \/ d \in Tasks \ OnStack /\ memo[d] # NotYet
        /\ frames' = Replace([rest EXCEPT !.acc = @ \cup {d} \cup memo[d]])
     \/ d \in Tasks \ OnStack /\ memo[d] = NotYet
        /\ frames' = Append(Replace([rest EXCEPT !.acc = @ \cup {d}]), Frame(d))
  /\ UNCHANGED <<depends_on, remaining, waves, cyclic, memo, findings>>

(* A visit is over: its result goes into the memo and to the caller. *)
VisitReturns ==
  /\ frames # <<>> /\ Top.todo = {}
  /\ memo' = [memo EXCEPT ![Top.task] = Top.acc]
  /\ frames' = IF Len(frames) = 1 THEN <<>>
               ELSE LET caller == Last(Front(frames)) IN
                    Append(Front(Front(frames)), [caller EXCEPT !.acc = @ \cup Top.acc])
  /\ UNCHANGED <<depends_on, remaining, waves, cyclic, findings>>

Overlap(a, b) ==
  a # b /\ FilesOf[a] \cap FilesOf[b] # {} /\ a \notin memo[b] /\ b \notin memo[a]

(* The errors of check_graph beside the cycle. *)
Checked == frames = <<>> /\ WavesDone /\ \A t \in Tasks : memo[t] # NotYet

check_graph ==
  /\ Checked /\ "checked" \notin findings
  /\ findings' = findings \cup {"checked"}
       \cup {"unknown-dependency" : t \in {u \in Tasks : Unknown \in depends_on[u]}}
       \cup {"file-overlap" : p \in {q \in Tasks \X Tasks : Overlap(q[1], q[2])}}
  /\ UNCHANGED <<depends_on, remaining, waves, cyclic, frames, memo>>

GraphNext ==
  \/ _waves
  \/ \E t \in Tasks : VisitTask(t)
  \/ \E d \in Tasks \cup {Unknown} : visit(d)
  \/ VisitReturns
  \/ check_graph

GraphSpec == GraphInit /\ [][GraphNext]_graphVars

-----------------------------------------------------------------------------
(* Reference: the ancestors are in every set that has the dependencies of t *)
(* and of its members.                                                      *)
AncestorsOf(t) ==
  {d \in Tasks : \A S \in SUBSET Tasks :
     depends_on[t] \cap Tasks \subseteq S /\ (\A x \in S : depends_on[x] \cap Tasks \subseteq S) => d \in S}

(* A report without errors means that the waves can run in parallel: every   *)
(* task is in one wave, after all the tasks it depends on, and no two tasks  *)
(* of a wave declare the same file; a cycle is reported exactly when there   *)
(* is one, and in a graph without one an overlap exactly when two tasks that *)
(* neither wait for the other share a file (check_task_graph.py:167-200,     *)
(* 547-564), whatever order the search takes and whatever its memo held.     *)
CleanReportIsSafe ==
  "checked" \in findings =>
    LET cyclicGraph == \E t \in Tasks : t \in AncestorsOf(t)
        unordered == \E a, b \in Tasks :
          a # b /\ FilesOf[a] \cap FilesOf[b] # {} /\ a \notin AncestorsOf(b) /\ b \notin AncestorsOf(a) IN
    /\ "cycle" \in findings <=> cyclicGraph
    /\ ~cyclicGraph => ("file-overlap" \in findings <=> unordered)
    /\ findings = {"checked"} =>
         /\ \A t \in Tasks : \E n \in DOMAIN waves :
              t \in waves[n] /\ \A d \in depends_on[t] : \E m \in 1..(n - 1) : d \in waves[m]
         /\ \A n \in DOMAIN waves : \A a, b \in waves[n] : a # b => FilesOf[a] \cap FilesOf[b] = {}
=============================================================================
