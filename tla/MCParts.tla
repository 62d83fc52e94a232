------------------------------ MODULE MCParts -------------------------------
(* Parts whose correctness is a matter of safety alone, one at a time: the    *)
(* subscriptions of the bus, the emitters' registries, the hook manager, the  *)
(* webhook receiver, and the development tooling (the allocator of task and   *)
(* feature numbers, closing a task, worktrees and the lint of the task        *)
(* graph).  No two of them share state.                                       *)
EXTENDS TLC, Subscriptions, LifecycleEvents, HookManager, WebhookIngest, IdReservation, TaskClose, Worktrees, TaskGraph

CONSTANTS q1, q2, q3, q4, q5, h1, h2, r1, r2, d1, d2, a1, a2, s1, s2, s3, v1, v2, t1, t2, t3, f1
CONSTANT Subjects

VARIABLE subject

vars == <<subject, subscriptionVars, lifecycleVars, managerVars, ingestVars, reserveVars, closeVars,
          worktreeVars, graphVars>>

SomeRanks == (q1 :> 1) @@ (q2 :> 2) @@ (q3 :> 1) @@ (q4 :> 1) @@ (q5 :> 2)
SomeInUse == {[kind |-> "task", id |-> 2, slug |-> s1]}
SameAuthor == [a \in Allocators |-> "dev"]

SomeOrders ==
  {[kind |-> "task", count |-> 2, slug |-> s1], [kind |-> "task", count |-> 1, slug |-> s2],
   [kind |-> "feature", count |-> 1, slug |-> s2]}
SomeSha == (v1 :> 0) @@ (v2 :> 0)
SomeFiles == (t1 :> {f1}) @@ (t2 :> {f1}) @@ (t3 :> {})

Init ==
  /\ subject \in Subjects /\ SubscriptionsInit /\ LifecycleInit /\ ManagerInit /\ IngestInit
  /\ ReserveInit /\ CloseInit /\ WorktreeInit /\ GraphInit
  /\ subject # "ingest" => scheme = "hex" /\ mode = "await"
  /\ subject # "close" => completed = NoFile
  /\ subject # "graph" => depends_on = [t \in Tasks |-> {}]

HookSide == <<subscriptionVars, lifecycleVars, managerVars, ingestVars>>
Tooling == <<reserveVars, closeVars, worktreeVars, graphVars>>

Subscription(A) ==
  subject = "subscriptions" /\ A /\ UNCHANGED <<subject, lifecycleVars, managerVars, ingestVars, Tooling>>
Lifecycle(A) ==
  subject = "lifecycle" /\ A /\ UNCHANGED <<subject, subscriptionVars, managerVars, ingestVars, Tooling>>
Manager(A) ==
  subject = "manager" /\ A /\ UNCHANGED <<subject, subscriptionVars, lifecycleVars, ingestVars, Tooling>>
Ingest(A) ==
  subject = "ingest" /\ A /\ UNCHANGED <<subject, subscriptionVars, lifecycleVars, managerVars, Tooling>>
Reserve(A) ==
  subject = "reserve" /\ A /\ UNCHANGED <<subject, HookSide, closeVars, worktreeVars, graphVars>>
Close(A) ==
  subject = "close" /\ A /\ UNCHANGED <<subject, HookSide, reserveVars, worktreeVars, graphVars>>
Worktree(A) ==
  subject = "worktree" /\ A /\ UNCHANGED <<subject, HookSide, reserveVars, closeVars, graphVars>>
Graph(A) ==
  subject = "graph" /\ A /\ UNCHANGED <<subject, HookSide, reserveVars, closeVars, worktreeVars>>

Next ==
  \/ Subscription(\E s \in BusSubs : subscribe(s))
  \/ Subscription(\E s \in BusSubs : unsubscribe(s))
  \/ Subscription(\E e \in Letterbox : publish(e))
  \/ Subscription(\E w \in Dispatchers, e \in Letterbox : _dispatch(w, e))
  \/ Subscription(\E w \in Dispatchers : CallNext(w))
  \/ Subscription(\E w \in Dispatchers : HandlerDone(w))
  \/ Lifecycle(\E s \in Subs : SubscribeLocal(s))
  \/ Lifecycle(\E t \in Threads, s \in Subs : SubscribeGlobal(t, s))
  \/ Lifecycle(\E s \in Subs : Unsubscribe(s))
  \/ Lifecycle(AttachBus)
  \/ Lifecycle(\E t \in Threads, c \in {"before", "after"} : EmitNowait(t, c))
  \/ Lifecycle(\E i \in 1..Len(emissions) : Begin(i))
  \/ Lifecycle(\E i \in 1..Len(emissions) : Return(i))
  \/ Manager(\E c \in Callbacks : SetEventCallback(c))
  \/ Manager(\E b \in Buses : SetEventBus(b))
  \/ Manager(\E h \in Hooks : Register(h))
  \/ Manager(\E i \in Ids : Unregister(i))
  \/ Manager(\E op \in {"start", "stop"} : BeginRound(op))
  \/ Manager(RoundStep)
  \/ Manager(EndRound)
  \/ Manager(\E h \in Hooks : OnEvent(h))
  \/ Ingest(\E r \in Requests, d \in Deliveries : HandleWebhook(r, d))
  \/ Ingest(\E r \in Requests : Refuse(r))
  \/ Ingest(\E r \in Requests : Admit(r))
  \/ Ingest(\E r \in Requests : Built(r))
  \/ Ingest(\E r \in Requests : Dispatched(r))
  \/ Ingest(BackgroundDispatch)
  \/ Ingest(StopListener)
  \/ Ingest(ClockTicks)
  \/ Reserve(\E a \in Allocators, r \in Orders : Ask(a, r))
  \/ Reserve(\E a \in Allocators : ResolveBase(a))
  \/ Reserve(\E a \in Allocators : Push(a))
  \/ Reserve(\E a \in Allocators : PushTimesOut(a))
  \/ Reserve(\E a \in Allocators : PushRejected(a))
  \/ Reserve(\E a \in Allocators : GitFails(a))
  \/ Reserve(\E a \in Allocators : Work(a))
  \/ Reserve(\E a \in Allocators : Publish(a))
  \/ Close(\E w \in Workers, e \in Evidence : Call(w, e))
  \/ Close(\E w \in Workers : _serialized(w))
  \/ Close(\E w \in Workers : Replay(w))
  \/ Close(\E w \in Workers : Validate(w))
  \/ Close(\E w \in Workers : RefuseClose(w))
  \/ Close(\E w \in Workers : _ensure_note_applied(w))
  \/ Close(\E w \in Workers : _stage_snapshot(w))
  \/ Close(\E w \in Workers : CloseMoves(w))
  \/ Close(\E w \in Workers : CloseMarks(w))
  \/ Close(\E w \in Workers : Compare(w))
  \/ Close(\E w \in Workers, p \in Paths : Stage(w, p))
  \/ Close(\E w \in Workers : Verify(w))
  \/ Close(\E w \in Workers : _write_journal(w))
  \/ Close(\E w \in Workers : Crash(w))
  \/ Close(\E p \in Paths : Edit(p))
  \/ Close(HeadMoves)
  \/ Worktree(\E a \in Agents : Ensure(a))
  \/ Worktree(\E a \in Agents : _find_reusable_worktree(a))
  \/ Worktree(\E a \in Agents : Sync(a))
  \/ Worktree(\E a \in Agents : SyncFails(a))
  \/ Worktree(\E a \in Agents : _branch_exists(a))
  \/ Worktree(\E a \in Agents : _create_worktree(a))
  \/ Worktree(\E a \in Agents : _clear_upstream(a))
  \/ Worktree(\E a \in Agents : ClearUpstreamFails(a))
  \/ Worktree(\E a \in Agents : VerifyPaths(a))
  \/ Worktree(\E a \in Agents : _discard_new_worktree(a))
  \/ Worktree(\E a \in Agents : DiscardFails(a))
  \/ Worktree(\E a \in Agents : CreateFails(a))
  \/ Worktree(\E a \in Agents : Killed(a))
  \/ Worktree(RemoteMoves)
  \/ Worktree(Pull)
  \/ Worktree(OperatorDeletes)
  \/ Graph(_waves)
  \/ Graph(\E t \in Tasks : VisitTask(t))
  \/ Graph(\E d \in Tasks \cup {Unknown} : visit(d))
  \/ Graph(VisitReturns)
  \/ Graph(check_graph)

Spec == Init /\ [][Next]_vars
=============================================================================
