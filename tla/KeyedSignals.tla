---------------------------- MODULE KeyedSignals ----------------------------
(***************************************************************************)
(* How the consumers of a keyed queue learn that a key has work            *)
(* (queues/keyed/store.py, consumer.py and drainer.py): wake-up signals on *)
(* a stream of their own, markers that say a signal of a key is alive, the *)
(* set of delayed keys, the throttled sweep of recover(), and pause.       *)
(* Signals are hints: they are lost, duplicated and redelivered, and no    *)
(* key may wait for ever because of it.                                    *)
(*                                                                         *)
(* A key is its number of messages, whether its head may run already, and  *)
(* whether it is held; KeyedQueue models what a lease does to messages.    *)
(* Two signals of a key in the same place of the stream are one: the       *)
(* second adds nothing.  Time is an action: a deadline, a visibility       *)
(* window, a marker, the throttle, a pause or the lock of a dead consumer  *)
(* runs out.                                                               *)
(***************************************************************************)
EXTENDS Naturals

CONSTANTS Keys, Consumers, Nobody,
          Drainer,      \* the process that drains instead of consuming
          MaxPushes,    \* bound on messages
          MaxUpsets     \* bound on retries, holds, pauses, crashes and lost signals together

ASSUME SignalsAssumption ==
  /\ Drainer \notin Consumers /\ Nobody \notin Consumers \cup {Drainer} \cup Keys
  /\ {MaxPushes, MaxUpsets} \subseteq Nat

Procs == Consumers \cup {Drainer}

VARIABLES
  backlog,   \* messages of each key
  ready,     \* the head of the key may run now
  held,      \* keys on hold
  lock,      \* holder of each key's lock, or Nobody
  delayed,   \* "no", "later" or "due", per key
  stream,    \* signals of each key nobody works on: "queued" ones were never
             \* received, "stranded" ones by a process that died, and "visible"
             \* ones may be received again
  live,      \* the signals with a live marker: as in the stream, the process
             \* that has the signal, or "gone"
  unsignalled,      \* keys whose client committed and has yet to signal
  throttle,  \* SET recover NX PX is in force
  paused,
  proc,      \* what each process is doing
  spent      \* how much of each bound is used

signalVars == <<backlog, ready, held, lock, delayed, stream, live, unsignalled, throttle, paused,
                proc, spent>>

(* sig: the process has a signal of its key; then: where it goes on after   *)
(* _reconcile; sweep: the keys it has still to look at.                     *)
AtTop == [pc |-> "top", key |-> Nobody, sig |-> FALSE, sweep |-> {}, then |-> "top"]

SignalsInit ==
  /\ backlog = [k \in Keys |-> 0]
  /\ ready = [k \in Keys |-> TRUE]
  /\ held = {} /\ unsignalled = {}
  /\ lock = [k \in Keys |-> Nobody]
  /\ delayed = [k \in Keys |-> "no"]
  /\ stream = [k \in Keys |-> {}] /\ live = [k \in Keys |-> {}]
  /\ throttle = FALSE /\ paused = FALSE
  /\ proc = [w \in Procs |-> AtTop]
  /\ spent = [push |-> 0, upset |-> 0]

Spend(what, max) == spent[what] < max /\ spent' = [spent EXCEPT ![what] = @ + 1]
In(w, pc) == proc[w].pc = pc
Become(w, p) == proc' = [proc EXCEPT ![w] = p]
Goto(w, pc) == Become(w, IF pc = "top" THEN AtTop ELSE [proc[w] EXCEPT !.pc = pc])

(* A signal of k moves, and its marker, if it has one, with it. *)
Move(k, from, to) ==
  /\ stream' = [stream EXCEPT ![k] = (@ \ {from}) \cup ({to} \cap {"queued", "stranded", "visible"})]
  /\ live' = [live EXCEPT ![k] = IF from \in @ THEN (@ \ {from}) \cup {to} ELSE @]

(* Send a signal and mark it alive. *)
_signal(k) ==
  /\ stream' = [stream EXCEPT ![k] = @ \cup {"queued"}]
  /\ live' = [live EXCEPT ![k] = @ \cup {"queued"}]

(* Delete the signal a process has, and its marker. *)
_ack_signal(w) ==
  /\ live' = IF proc[w].sig THEN [live EXCEPT ![proc[w].key] = @ \ {w}] ELSE live
  /\ UNCHANGED stream

(* There are signals no consumer has been given yet. *)
_has_backlog == \E k \in Keys : "queued" \in stream[k]

-----------------------------------------------------------------------------
(* Clients. *)

(* The message is committed; the signal is sent after it. *)
push(k) ==
  /\ Spend("push", MaxPushes) /\ k \notin unsignalled
  /\ backlog' = [backlog EXCEPT ![k] = @ + 1]
  /\ unsignalled' = unsignalled \cup {k}
  /\ UNCHANGED <<ready, held, lock, delayed, stream, live, throttle, paused, proc>>

release_hold(k) ==
  /\ k \in held /\ k \notin unsignalled
  /\ held' = held \ {k}
  /\ unsignalled' = unsignalled \cup {k}
  /\ UNCHANGED <<backlog, ready, lock, delayed, stream, live, throttle, paused, proc, spent>>

ClientSignals(k) ==
  /\ k \in unsignalled /\ unsignalled' = unsignalled \ {k}
  /\ _signal(k)
  /\ UNCHANGED <<backlog, ready, held, lock, delayed, throttle, paused, proc, spent>>

ClientDies(k) ==
  /\ k \in unsignalled /\ unsignalled' = unsignalled \ {k}
  /\ Spend("upset", MaxUpsets)
  /\ UNCHANGED <<backlog, ready, held, lock, delayed, stream, live, throttle, paused, proc>>

pause ==
  /\ ~paused /\ paused' = TRUE /\ Spend("upset", MaxUpsets)
  /\ UNCHANGED <<backlog, ready, held, lock, delayed, stream, live, unsignalled, throttle, proc>>

(* resume(), or the pause's time to live. *)
resume ==
  /\ paused /\ paused' = FALSE
  /\ UNCHANGED <<backlog, ready, held, lock, delayed, stream, live, unsignalled, throttle, proc, spent>>

-----------------------------------------------------------------------------
(* A consumer's round: recover, promote_due, lease, handle, apply. *)

run_once(w) ==
  /\ In(w, "top") /\ w \in Consumers /\ ~paused
  /\ Goto(w, "recover")
  /\ UNCHANGED <<backlog, ready, held, lock, delayed, stream, live, unsignalled, throttle, paused, spent>>

(* Keys of the key set without a live signal and without a holder. *)
Orphans == {k \in Keys : backlog[k] > 0 /\ lock[k] = Nobody /\ live[k] = {}}

(* The sweep is skipped while paused, while there are undelivered signals, *)
(* and while the throttle is in force.                                     *)
recover(w) ==
  /\ In(w, "recover")
  /\ \/ /\ paused \/ _has_backlog \/ throttle
        /\ Goto(w, "promote") /\ UNCHANGED throttle
     \/ /\ ~paused /\ ~_has_backlog /\ ~throttle
        /\ throttle' = TRUE
        /\ Become(w, [proc[w] EXCEPT !.pc = "sweep", !.sweep = Orphans])
  /\ UNCHANGED <<backlog, ready, held, lock, delayed, stream, live, unsignalled, paused, spent>>

Sweep(w) ==
  /\ In(w, "sweep")
  /\ \/ proc[w].sweep = {} /\ Become(w, [AtTop EXCEPT !.pc = "promote"])
     \/ \E k \in proc[w].sweep :
          Become(w, [proc[w] EXCEPT !.pc = "reconcile", !.key = k, !.sweep = @ \ {k}, !.then = "sweep"])
  /\ UNCHANGED <<backlog, ready, held, lock, delayed, stream, live, unsignalled, throttle, paused, spent>>

(* _reconcile looks at the head of the key, then delays the key or takes it *)
(* out of the delayed set and signals.                                      *)
_reconcile(w) ==
  LET k == proc[w].key IN
  /\ In(w, "reconcile")
  /\ \/ /\ backlog[k] = 0 \/ k \in held
        /\ delayed' = [delayed EXCEPT ![k] = "no"]
        /\ Goto(w, proc[w].then)
     \/ /\ backlog[k] > 0 /\ k \notin held
        /\ Goto(w, IF ready[k] THEN "undelay" ELSE "delay")
        /\ UNCHANGED delayed
  /\ UNCHANGED <<backlog, ready, held, lock, stream, live, unsignalled, throttle, paused, spent>>

(* The deadline that was read may have passed by the time it is written. *)
ReconcileDelays(w) ==
  LET k == proc[w].key IN
  /\ In(w, "delay")
  /\ delayed' = [delayed EXCEPT ![k] = IF ready[k] THEN "due" ELSE "later"]
  /\ Goto(w, proc[w].then)
  /\ UNCHANGED <<backlog, ready, held, lock, stream, live, unsignalled, throttle, paused, spent>>

ReconcileUndelays(w) ==
  /\ In(w, "undelay")
  /\ delayed' = [delayed EXCEPT ![proc[w].key] = "no"]
  /\ Goto(w, "send")
  /\ UNCHANGED <<backlog, ready, held, lock, stream, live, unsignalled, throttle, paused, spent>>

Send(w) ==
  /\ In(w, "send")
  /\ _signal(proc[w].key)
  /\ Goto(w, proc[w].then)
  /\ UNCHANGED <<backlog, ready, held, lock, delayed, unsignalled, throttle, paused, spent>>

(* ZREM decides who signals a key that is due. *)
promote_due(w) ==
  /\ In(w, "promote")
  /\ \/ /\ \A k \in Keys : delayed[k] # "due"
        /\ Become(w, [AtTop EXCEPT !.pc = "lease"]) /\ UNCHANGED delayed
     \/ \E k \in Keys :
          /\ delayed[k] = "due"
          /\ delayed' = [delayed EXCEPT ![k] = "no"]
          /\ Become(w, [proc[w] EXCEPT !.pc = "send", !.key = k, !.then = "promote"])
  /\ UNCHANGED <<backlog, ready, held, lock, stream, live, unsignalled, throttle, paused, spent>>

(* lease() receives one signal, a new one or one whose window ran out; *)
(* without one, or when paused, the round is over.                     *)
ReceiveSignal(w, k) ==
  /\ In(w, "lease") /\ ~paused
  /\ \E s \in stream[k] \cap {"queued", "visible"} : Move(k, s, w)
  /\ Become(w, [proc[w] EXCEPT !.pc = "signal", !.key = k, !.sig = TRUE])
  /\ UNCHANGED <<backlog, ready, held, lock, delayed, unsignalled, throttle, paused, spent>>

NothingToLease(w) ==
  /\ In(w, "lease")
  /\ paused \/ \A k \in Keys : stream[k] \subseteq {"stranded"}
  /\ Goto(w, "top")
  /\ UNCHANGED <<backlog, ready, held, lock, delayed, stream, live, unsignalled, throttle, paused, spent>>

(* A pause that began meanwhile hands the signal back; otherwise the signal *)
(* is alive again and the key is tried.                                     *)
lease(w) ==
  /\ In(w, "signal")
  /\ \/ paused /\ Move(proc[w].key, w, "visible") /\ Goto(w, "top")
     \/ /\ ~paused /\ Goto(w, "lock")
        /\ live' = [live EXCEPT ![proc[w].key] = @ \cup {w}] /\ UNCHANGED stream
  /\ UNCHANGED <<backlog, ready, held, lock, delayed, unsignalled, throttle, paused, spent>>

(* After a key that could not be leased a consumer receives the next signal, *)
(* and a drain of the key is over.                                           *)
NoLease(w) == Become(w, IF w = Drainer THEN AtTop ELSE [AtTop EXCEPT !.pc = "lease"])

(* A key somebody holds is left to the holder, and the signal is dropped. *)
lease_key(w) ==
  LET k == proc[w].key IN
  /\ In(w, "lock")
  /\ \/ lock[k] = Nobody /\ lock' = [lock EXCEPT ![k] = w] /\ Goto(w, "head") /\ UNCHANGED <<stream, live>>
     \/ lock[k] # Nobody /\ _ack_signal(w) /\ NoLease(w) /\ UNCHANGED lock
  /\ UNCHANGED <<backlog, ready, held, delayed, unsignalled, throttle, paused, spent>>

(* The head is leased, or the key is empty, held, or too early, which puts it *)
(* among the delayed keys.  A drain does not mind a retry's delay.            *)
_lease_locked(w) ==
  LET k == proc[w].key IN
  /\ In(w, "head")
  /\ \/ backlog[k] = 0 /\ delayed' = [delayed EXCEPT ![k] = "no"] /\ Goto(w, "giveup")
     \/ backlog[k] > 0 /\ k \in held /\ Goto(w, "giveup") /\ UNCHANGED delayed
     \/ /\ backlog[k] > 0 /\ k \notin held /\ ~ready[k]
        /\ delayed' = [delayed EXCEPT ![k] = "later"] /\ Goto(w, "giveup")
     \/ /\ backlog[k] > 0 /\ k \notin held /\ (ready[k] \/ w = Drainer)
        /\ Goto(w, "handle") /\ UNCHANGED delayed
  /\ UNCHANGED <<backlog, ready, held, lock, stream, live, unsignalled, throttle, paused, spent>>

GiveUpKey(w) ==
  /\ In(w, "giveup")
  /\ lock' = [lock EXCEPT ![proc[w].key] = Nobody]
  /\ Goto(w, "drop")
  /\ UNCHANGED <<backlog, ready, held, delayed, stream, live, unsignalled, throttle, paused, spent>>

DropSignal(w) ==
  /\ In(w, "drop")
  /\ _ack_signal(w) /\ NoLease(w)
  /\ UNCHANGED <<backlog, ready, held, lock, delayed, unsignalled, throttle, paused, spent>>

(* What the handler decides is applied under the fence: the message goes, is *)
(* tried later, or blocks its key.  A drain goes on with the key only after  *)
(* a message that is gone.                                                   *)
Decide(w, pc, drained) ==
  /\ In(w, "handle")
  /\ Become(w, [proc[w] EXCEPT !.pc = pc, !.then = IF w = Drainer THEN drained ELSE "ack"])

Ack(w) ==
  LET k == proc[w].key IN
  /\ Decide(w, "apply", "lock")
  /\ backlog' = [backlog EXCEPT ![k] = @ - 1]
  /\ ready' = [ready EXCEPT ![k] = TRUE]
  /\ UNCHANGED <<held, lock, delayed, stream, live, unsignalled, throttle, paused, spent>>

RetryOrWait(w) ==
  LET k == proc[w].key IN
  /\ Decide(w, "apply", "top") /\ Spend("upset", MaxUpsets)
  /\ ready' = [ready EXCEPT ![k] = FALSE]
  /\ delayed' = [delayed EXCEPT ![k] = "later"]
  /\ UNCHANGED <<backlog, held, lock, stream, live, unsignalled, throttle, paused>>

Hold(w) ==
  /\ Decide(w, "applyhold", "top") /\ Spend("upset", MaxUpsets)
  /\ held' = held \cup {proc[w].key}
  /\ UNCHANGED <<backlog, ready, lock, delayed, stream, live, unsignalled, throttle, paused>>

(* apply() after its EXEC: release, reconcile unless held, and last the signal. *)
apply(w) ==
  /\ \/ In(w, "apply") /\ Goto(w, "reconcile")
     \/ In(w, "applyhold") /\ Goto(w, proc[w].then)
  /\ lock' = [lock EXCEPT ![proc[w].key] = Nobody]
  /\ UNCHANGED <<backlog, ready, held, delayed, stream, live, unsignalled, throttle, paused, spent>>

AckSignal(w) ==
  /\ In(w, "ack")
  /\ _ack_signal(w)
  /\ Goto(w, "top")
  /\ UNCHANGED <<backlog, ready, held, lock, delayed, unsignalled, throttle, paused, spent>>

(* A drain tries the keys of the key set and the delayed ones, without a *)
(* signal and, when it is told to, in a pause; held keys are left out.   *)
drain(k) ==
  /\ In(Drainer, "top") /\ k \notin held
  /\ backlog[k] > 0 \/ delayed[k] # "no"
  /\ Become(Drainer, [AtTop EXCEPT !.pc = "lock", !.key = k])
  /\ UNCHANGED <<backlog, ready, held, lock, delayed, stream, live, unsignalled, throttle, paused, spent>>

-----------------------------------------------------------------------------
(* Faults and time. *)

(* A process dies: its lock and its signal stay until they run out. *)
Dies(w) ==
  /\ ~In(w, "top") /\ Spend("upset", MaxUpsets)
  /\ Become(w, AtTop)
  /\ IF proc[w].sig THEN Move(proc[w].key, w, "stranded") ELSE UNCHANGED <<stream, live>>
  /\ UNCHANGED <<backlog, ready, held, lock, delayed, unsignalled, throttle, paused>>

(* A signal is gone: trimmed from the stream, or received too often. *)
LosesSignal(k) ==
  /\ Spend("upset", MaxUpsets)
  /\ \E s \in stream[k] : Move(k, s, "gone")
  /\ UNCHANGED <<backlog, ready, held, lock, delayed, unsignalled, throttle, paused, proc>>

Works(w, k) == proc[w].key = k /\ proc[w].pc \in {"head", "giveup", "handle", "apply", "applyhold"}

(* The lock of a process that died; a live one extends its own. *)
LockLapses(k) ==
  /\ lock[k] # Nobody /\ ~Works(lock[k], k)
  /\ lock' = [lock EXCEPT ![k] = Nobody]
  /\ UNCHANGED <<backlog, ready, held, delayed, stream, live, unsignalled, throttle, paused, proc, spent>>

(* A signal is visible again when its receiver died; a live one extends it. *)
Reappears(k) ==
  /\ "stranded" \in stream[k]
  /\ Move(k, "stranded", "visible")
  /\ UNCHANGED <<backlog, ready, held, lock, delayed, unsignalled, throttle, paused, proc, spent>>

(* Mutant: the sweep does not remove expired markers, so that only a signal *)
(* that is received again renews or loses its own.                          *)
LostMarkersStay(k) ==
  /\ \E s \in live[k] \ (Procs \cup {"stranded", "gone"}) : live' = [live EXCEPT ![k] = @ \ {s}]
  /\ UNCHANGED <<backlog, ready, held, lock, delayed, stream, unsignalled, throttle, paused, proc, spent>>

(* A marker is set at delivery for the signal's window and extended with it. *)
MarkerExpires(k) ==
  /\ \E s \in live[k] \ (Procs \cup {"stranded"}) : live' = [live EXCEPT ![k] = @ \ {s}]
  /\ UNCHANGED <<backlog, ready, held, lock, delayed, stream, unsignalled, throttle, paused, proc, spent>>

ThrottleExpires ==
  /\ throttle /\ throttle' = FALSE
  /\ UNCHANGED <<backlog, ready, held, lock, delayed, stream, live, unsignalled, paused, proc, spent>>

DeadlinePasses(k) ==
  /\ ~ready[k] \/ delayed[k] = "later"
  /\ ready' = [ready EXCEPT ![k] = TRUE]
  /\ delayed' = [delayed EXCEPT ![k] = IF @ = "later" THEN "due" ELSE @]
  /\ UNCHANGED <<backlog, held, lock, stream, live, unsignalled, throttle, paused, proc, spent>>

(* The steps a process takes by itself: it goes on while it can, and its   *)
(* handler returns.                                                         *)
ProcStep(w) ==
  \/ run_once(w) \/ recover(w) \/ Sweep(w)
  \/ _reconcile(w) \/ ReconcileDelays(w) \/ ReconcileUndelays(w) \/ Send(w) \/ promote_due(w)
  \/ \E k \in Keys : ReceiveSignal(w, k)
  \/ NothingToLease(w) \/ lease(w) \/ lease_key(w) \/ _lease_locked(w)
  \/ GiveUpKey(w) \/ DropSignal(w) \/ Ack(w) \/ apply(w) \/ AckSignal(w)

TimeRunsOut(k) == LockLapses(k) \/ DeadlinePasses(k) \/ Reappears(k) \/ MarkerExpires(k)

-----------------------------------------------------------------------------
(* Whatever signals are lost or dropped as busy, whoever dies between two      *)
(* commands, and however pauses, delays and the sweep's own restraint fall     *)
(* together, the messages of a key are all handled in the end, unless the key  *)
(* is put on hold (store.py:965-975: a key whose signal was lost is signalled  *)
(* again).                                                                     *)
KeysAreServed ==
  \A k \in Keys : backlog[k] > 0 ~> backlog[k] = 0 \/ k \in held
=============================================================================
