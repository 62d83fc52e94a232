---------------------------- MODULE HookManager -----------------------------
(***************************************************************************)
(* The hook manager (hooks/manager.py, base.py, mixins.py): a registry of  *)
(* hooks that can be started and stopped, and the dispatch that it injects *)
(* into every one of them: the bare callback without a bus, callback then  *)
(* bus with one.  A hook outside the registry keeps what it was given.     *)
(***************************************************************************)
EXTENDS Naturals, Sequences, SequencesExt

CONSTANTS
  Ids,             \* hook ids
  Replaced,        \* ids that two hook objects have, the others one
  Disabled,        \* ids of hooks with enabled = False
  Stubborn,        \* ids of hooks whose start() and stop() raise
  Callbacks, Buses, \* what the setters are given, numbers from 1
  Throwing         \* callbacks that raise

ASSUME ManagerAssumption ==
  Callbacks \subseteq Nat \ {0} /\ Buses \subseteq Nat \ {0} /\ Replaced \subseteq Ids

VARIABLES
  registered,      \* _hooks: the ids in order of insertion
  hookOf,          \* id -> the hook registered last under it
  callback,        \* _callback, 0 for none
  hookBus,         \* _event_bus, 0 for none
  injected,        \* hook -> the dispatch it holds
  up,              \* hooks that are started
  rounds,          \* the start_all or stop_all under way: [op, at, keys], or none
  missed           \* a dual emit did not bring an event to its bus

managerVars == <<registered, hookOf, callback, hookBus, injected, up, rounds, missed>>

Hooks == (Ids \X {1}) \cup (Replaced \X {2})
IdOf(h) == h[1]

NoHook == <<>>
Nothing == [kind |-> "none", bus |-> 0, callback |-> 0]
NoRound == [op |-> "none", at |-> 0, keys |-> <<>>]

ManagerInit ==
  /\ registered = <<>> /\ hookOf = [i \in Ids |-> NoHook]
  /\ callback = 0 /\ hookBus = 0
  /\ injected = [h \in Hooks |-> Nothing] /\ up = {} /\ rounds = NoRound
  /\ missed = FALSE

Current == {hookOf[i] : i \in Range(registered)}

(* _build_dispatch: a dual emit captures the bus and reads the callback     *)
(* when it runs.                                                            *)
BuildDispatch(cb, bus) ==
  IF bus # 0 THEN [kind |-> "dual", bus |-> bus, callback |-> 0]
  ELSE IF cb # 0 THEN [kind |-> "plain", bus |-> 0, callback |-> cb]
  ELSE Nothing

(* Every setter, route_to_bus included, hands the dispatch to all hooks.    *)
Inject(dispatch) == [h \in Hooks |-> IF h \in Current THEN dispatch ELSE injected[h]]

SetEventCallback(c) ==
  /\ callback' = c
  /\ injected' = Inject(BuildDispatch(c, hookBus))
  /\ UNCHANGED <<registered, hookOf, hookBus, up, rounds, missed>>

(* Mutant of SetEventBus: only hooks registered later learn of the bus.     *)
SetEventBusLazily(b) ==
  /\ hookBus' = b
  /\ UNCHANGED <<registered, hookOf, callback, injected, up, rounds, missed>>

SetEventBus(b) ==
  /\ hookBus' = b
  /\ injected' = Inject(BuildDispatch(callback, b))
  /\ UNCHANGED <<registered, hookOf, callback, up, rounds, missed>>

(* A hook registered under a used id replaces the other, which is neither   *)
(* stopped nor told.                                                        *)
Register(h) ==
  LET dispatch == BuildDispatch(callback, hookBus)
  IN /\ hookOf[IdOf(h)] # h
     /\ registered' = IF IdOf(h) \in Range(registered) THEN registered
                      ELSE Append(registered, IdOf(h))
     /\ hookOf' = [hookOf EXCEPT ![IdOf(h)] = h]
     /\ injected' = IF dispatch = Nothing THEN injected
                    ELSE [injected EXCEPT ![h] = dispatch]
     /\ UNCHANGED <<callback, hookBus, up, rounds, missed>>

Unregister(i) ==
  /\ \E n \in DOMAIN registered : registered[n] = i /\ registered' = RemoveAt(registered, n)
  /\ hookOf' = [hookOf EXCEPT ![i] = NoHook]
  /\ UNCHANGED <<callback, hookBus, injected, up, rounds, missed>>

(* start_all and stop_all walk the registry across the awaits; a registry   *)
(* of another size ends the walk with a RuntimeError.                       *)
BeginRound(op) ==
  /\ rounds = NoRound
  /\ rounds' = [op |-> op, at |-> 1, keys |-> registered]
  /\ UNCHANGED <<registered, hookOf, callback, hookBus, injected, up, missed>>

(* Is there a hook left to visit, and is the registry still the same size?  *)
Walking ==
  /\ rounds.at <= Len(rounds.keys)
  /\ Len(registered) = Len(rounds.keys) /\ rounds.keys[rounds.at] \in Range(registered)

(* What one hook raises is logged and the walk goes on.                     *)
RoundStep ==
  LET h == hookOf[rounds.keys[rounds.at]]
  IN /\ rounds # NoRound /\ Walking
     /\ up' = IF IdOf(h) \in Disabled \cup Stubborn THEN up
              ELSE IF rounds.op = "start" THEN up \cup {h}
              ELSE up \ {h}
     /\ rounds' = [rounds EXCEPT !.at = @ + 1]
     /\ UNCHANGED <<registered, hookOf, callback, hookBus, injected, missed>>

EndRound ==
  /\ rounds # NoRound /\ ~Walking
  /\ rounds' = NoRound
  /\ UNCHANGED <<registered, hookOf, callback, hookBus, injected, up, missed>>

(* The dual emit reads the callback when it runs and publishes on the bus   *)
(* it captured, unless the callback raises; a bus that fails is logged.     *)
DualEmit(dispatch) == missed' = (missed \/ (dispatch.kind = "dual" /\ callback \in Throwing))

(* on_event of a started hook: nothing is raised to the source of the event.*)
OnEvent(h) ==
  /\ h \in up /\ injected[h] # Nothing
  /\ DualEmit(injected[h])
  /\ UNCHANGED <<registered, hookOf, callback, hookBus, injected, up, rounds>>

ManagerNext ==
  \/ \E c \in Callbacks : SetEventCallback(c)
  \/ \E b \in Buses : SetEventBus(b)
  \/ \E h \in Hooks : Register(h) \/ OnEvent(h)
  \/ \E i \in Ids : Unregister(i)
  \/ \E op \in {"start", "stop"} : BeginRound(op)
  \/ RoundStep \/ EndRound

ManagerSpec == ManagerInit /\ [][ManagerNext]_managerVars

-----------------------------------------------------------------------------
(* Properties *)

(* "avoids [the] stale-closure issue": whatever the order of registrations, *)
(* replacements and settings, the dispatch a registered hook holds is the   *)
(* one its manager would build now.                                         *)
InjectedIsCurrent == \A h \in Current : injected[h] = BuildDispatch(callback, hookBus)

(* "every hook event is emitted to both the registered callback and the     *)
(* bus".                                                                    *)
BusHearsAll == ~missed
=============================================================================
