-------------------------- MODULE LifecycleEvents ---------------------------
(***************************************************************************)
(* Lifecycle events (lifecycle/): the registry of an emitter, the global   *)
(* registry its events are forwarded to, and the report that a raising     *)
(* subscriber causes.  Every emission is a task with a copy of its         *)
(* creator's context: the global registry and the recursion guard are      *)
(* context variables.                                                      *)
(***************************************************************************)
EXTENDS Naturals, Sequences, FiniteSets, SequencesExt

CONSTANTS
  Threads,         \* tasks of the application that subscribe and emit
  Subs,            \* subscribers
  ErrorSubs,       \* subscribed to SubscriberErrorEvent, the others to every event
  Raising,         \* raise on whatever they receive
  Replying,        \* emit an event of their own on an error report
  Forwarding,      \* forward_to_bus
  Primed,          \* get_global_registry() ran before the tasks were created
  MaxEmits,        \* bound: ordinary events
  MaxChanges       \* bound: calls that change a subscription or the attached bus

VARIABLES
  subscriptions,   \* registry -> its subscribers in order; 0 is the emitter's
  home,            \* task -> the global registry its context holds, 0 for none
  made,            \* global registries created
  busAttached,     \* event_bus of the emitter's registry
  emissions,       \* emissions under way
  emitted,         \* ordinary events emitted
  forwarded,       \* <<subscriber, event>> handed to the bus
  owed,            \* <<subscriber, event>> a global subscriber is still to receive
  changes          \* subscriptions and attachments changed

lifecycleVars == <<subscriptions, home, made, busAttached, emissions, emitted, forwarded, owed,
                   changes>>

Registries == 0..Cardinality(Threads)
Globals == Registries \ {0}

Emission(reg, class, no, guard, glob, reports) ==
  [reg |-> reg, class |-> class, no |-> no, guard |-> guard, glob |-> glob,
   reports |-> reports, todo |-> <<>>, running |-> FALSE]

LifecycleInit ==
  /\ subscriptions = [r \in Registries |-> <<>>]
  /\ made = IF Primed THEN 1 ELSE 0
  /\ home = [t \in Threads |-> made]
  /\ busAttached = FALSE
  /\ emissions = <<>> /\ emitted = 0 /\ forwarded = {} /\ owed = {} /\ changes = 0

(* Does s receive events of this class?                                     *)
Matches(s, class) == s \in ErrorSubs => class = "error"

(* The subscriptions that match a class, in their order.                    *)
Matching(list, class) ==
  LET at == {i \in 1..Len(list) : Matches(list[i], class)}
      Nth(n) == CHOOSE i \in at : Cardinality({j \in at : j <= i}) = n
  IN [n \in 1..Cardinality(at) |-> list[Nth(n)]]

(* After... and ...Failed events are dispatched in reverse order.           *)
InOrder(class, list) == IF class = "after" THEN Reverse(list) ELSE list

Unsubscribed(s) == \A r \in Registries : s \notin Range(subscriptions[r])

Change == changes < MaxChanges /\ changes' = changes + 1

(* subscribe on the emitter's own registry ...                              *)
SubscribeLocal(s) ==
  /\ Unsubscribed(s) /\ Change
  /\ subscriptions' = [subscriptions EXCEPT ![0] = Append(@, s)]
  /\ UNCHANGED <<home, made, busAttached, emissions, emitted, forwarded, owed>>

(* ... and on the global one, which is created in the context of the task   *)
(* that asks first.                                                         *)
SubscribeGlobal(t, s) ==
  LET g == IF home[t] = 0 THEN made + 1 ELSE home[t]
  IN /\ Unsubscribed(s) /\ Change
     /\ home' = [home EXCEPT ![t] = g]
     /\ made' = IF home[t] = 0 THEN g ELSE made
     /\ subscriptions' = [subscriptions EXCEPT ![g] = Append(@, s)]
     /\ UNCHANGED <<busAttached, emissions, emitted, forwarded, owed>>

Unsubscribe(s) ==
  /\ ~Unsubscribed(s) /\ Change
  /\ subscriptions' = [r \in Registries |-> RemoveFirst(subscriptions[r], s)]
  /\ owed' = {o \in owed : o[1] # s}
  /\ UNCHANGED <<home, made, busAttached, emissions, emitted, forwarded>>

(* attach_bus and detach_bus.                                               *)
AttachBus ==
  /\ Change
  /\ busAttached' = ~busAttached
  /\ UNCHANGED <<subscriptions, home, made, emissions, emitted, forwarded, owed>>

(* emit_nowait: a new task with a copy of the caller's context.             *)
EmitNowait(t, class) ==
  /\ emitted < MaxEmits
  /\ emitted' = emitted + 1
  /\ emissions' = Append(emissions, Emission(0, class, emitted + 1, FALSE, home[t], 0))
  /\ owed' = owed \cup {<<s, emitted + 1>> : s \in {u \in Subs :
                 \E g \in Globals : u \in Range(subscriptions[g]) /\ Matches(u, class)}}
  /\ UNCHANGED <<subscriptions, home, made, busAttached, forwarded, changes>>

(* _forward_to_global_safely: a registry that is not the global one hands   *)
(* the event on when somebody listens there.                                *)
Forward(e) ==
  IF /\ e.reg = 0 /\ e.glob # 0
     /\ \E s \in Range(subscriptions[e.glob]) : Matches(s, e.class)
    THEN <<Emission(e.glob, e.class, e.no, e.guard, e.glob, e.reports)>>
    ELSE <<>>

(* Mutant of Unheard: without a subscriber of its own nothing is forwarded. *)
UnheardQuietly(e) == <<>>

(* emit with no matching subscription.                                      *)
Unheard(e) == Forward(e)

(* Mutant of Inherited: the guard is a global flag the first report resets. *)
InheritedNot(e) == FALSE

(* What a task created by an emission sees of the recursion guard.          *)
Inherited(e) == e.guard

(* A raising subscriber: the report is dispatched on the global registry.   *)
SubscriberError(e, s) ==
  IF s \in Raising
    THEN <<Emission(e.glob, "error", 0, Inherited(e), e.glob, e.reports + 1)>>
    ELSE <<>>

(* The callback of s starts on e; on a report some emit an event.           *)
Receive(e, s) ==
  /\ owed' = owed \ {<<s, e.no>>}
  /\ emitted' = IF s \in Replying /\ e.class = "error" /\ emitted < MaxEmits
                  THEN emitted + 1 ELSE emitted

Replies(e, s) ==
  IF s \in Replying /\ e.class = "error" /\ emitted < MaxEmits
    THEN <<Emission(0, "before", emitted + 1, Inherited(e), e.glob, e.reports)>>
    ELSE <<>>

(* The task of an emission starts: a report inside a report is dropped,     *)
(* otherwise the matching subscribers are taken and the first is called.    *)
Begin(i) ==
  LET e == emissions[i]
      rest == RemoveAt(emissions, i)
      heard == InOrder(e.class, Matching(subscriptions[e.reg], e.class))
      b == [e EXCEPT !.guard = @ \/ e.class = "error", !.todo = heard, !.running = TRUE]
  IN /\ ~e.running
     /\ \/ /\ e.class = "error" /\ (e.guard \/ e.reg = 0)
           /\ emissions' = rest
           /\ UNCHANGED <<owed, emitted>>
        \/ /\ ~(e.class = "error" /\ (e.guard \/ e.reg = 0))
           /\ heard = <<>>
           /\ emissions' = rest \o Unheard(b)
           /\ UNCHANGED <<owed, emitted>>
        \/ /\ ~(e.class = "error" /\ (e.guard \/ e.reg = 0))
           /\ heard # <<>>
           /\ emissions' = [emissions EXCEPT ![i] = b] \o Replies(b, heard[1])
           /\ Receive(b, heard[1])
     /\ UNCHANGED <<subscriptions, home, made, busAttached, forwarded, changes>>

(* The dual emit of a subscriber, if a bus is attached.                     *)
ForwardToBus(e, s) ==
  forwarded' = IF busAttached /\ s \in Forwarding THEN forwarded \cup {<<s, e.no>>}
               ELSE forwarded

(* A callback returns or raises; its report is scheduled, the dual emit to  *)
(* the bus follows in both cases, and the next callback is called.          *)
Return(i) ==
  LET e == emissions[i]
      left == Tail(e.todo)
      report == SubscriberError(e, Head(e.todo))
  IN /\ e.running
     /\ \/ /\ left = <<>>
           /\ emissions' = RemoveAt(emissions, i) \o report \o Forward(e)
           /\ UNCHANGED <<owed, emitted>>
        \/ /\ left # <<>>
           /\ emissions' = [emissions EXCEPT ![i].todo = left] \o report \o Replies(e, left[1])
           /\ Receive(e, left[1])
     /\ ForwardToBus(e, Head(e.todo))
     /\ UNCHANGED <<subscriptions, home, made, busAttached, changes>>

LifecycleNext ==
  \/ \E s \in Subs : SubscribeLocal(s) \/ Unsubscribe(s)
  \/ \E t \in Threads, s \in Subs : SubscribeGlobal(t, s)
  \/ AttachBus
  \/ \E t \in Threads, c \in {"before", "after"} : EmitNowait(t, c)
  \/ \E i \in 1..Len(emissions) : Begin(i) \/ Return(i)

LifecycleSpec == LifecycleInit /\ [][LifecycleNext]_lifecycleVars

-----------------------------------------------------------------------------
(* Properties *)

(* The recursion guard travels with the context: whatever a subscriber of   *)
(* error reports raises or emits, no report descends from another report.   *)
ReportsDoNotCascade ==
  \A i \in 1..Len(emissions) : emissions[i].running => emissions[i].reports <= 1

(* "observes every lifecycle event": a subscriber of the global registry    *)
(* has received an event emitted while it was subscribed by the time the    *)
(* last task of its emission ends, whichever task subscribed and emitted.   *)
GlobalObserves ==
  \A o \in owed : \E i \in 1..Len(emissions) : emissions[i].no = o[2]

(* "the event payload is also forwarded ... after the callback completes    *)
(* successfully": what a subscriber raised on is not forwarded.             *)
ForwardedAfterSuccess == \A f \in forwarded : f[1] \notin Raising
=============================================================================
