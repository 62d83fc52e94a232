------------------------------ MODULE MCAround ------------------------------
(* Parts that promise that something happens in the end, one at a time: the  *)
(* bus's subscribers with state and the wake-ups of the keyed queues.  No    *)
(* two of them share state.                                                  *)
EXTENDS WebhookDelivery, Alerts, AuditTrail, KeyedSignals

CONSTANTS w1, w2, c1, c2, k1, f1, f2, a1, a2
CONSTANT Subjects

VARIABLE subject

vars == <<subject, deliveryVars, alertVars, auditVars, signalVars>>

Init ==
  /\ subject \in Subjects
  /\ DeliveryInit /\ AlertInit /\ AuditInit /\ SignalsInit

Delivery(A) ==
  subject = "delivery" /\ A /\ UNCHANGED <<subject, alertVars, auditVars, signalVars>>
Alert(A) ==
  subject = "alerts" /\ A /\ UNCHANGED <<subject, deliveryVars, auditVars, signalVars>>
Audit(A) ==
  subject = "audit" /\ A /\ UNCHANGED <<subject, deliveryVars, alertVars, signalVars>>
Signals(A) ==
  subject = "signals" /\ A /\ UNCHANGED <<subject, deliveryVars, alertVars, auditVars>>

Next ==
  \/ Delivery(Attach)
  \/ Delivery(Detach)
  \/ Delivery(\E n \in Envelopes : OnEnvelope(n))
  \/ Delivery(\E w \in Workers : TakeNext(w))
  \/ Delivery(\E w \in Workers : BuildFails(w))
  \/ Delivery(\E w \in Workers : Post(w))
  \/ Delivery(Aclose)
  \/ Delivery(Joined)
  \/ Delivery(DrainTimeout)
  \/ Delivery(Closed)
  \/ Alert(\E c \in Classes : Evaluate(c))
  \/ Alert(FlushDigest)
  \/ Alert(DigestSent)
  \/ Alert(AlertTick)
  \/ Audit(AuditEnvelope)
  \/ Audit(\E f \in Flushers : AttachAudit(f))
  \/ Audit(\E f \in Flushers : FlusherBegins(f))
  \/ Audit(\E f \in Flushers : FlusherWakes(f))
  \/ Audit(\E a \in AuditActor : FlushRow(a))
  \/ Audit(\E a \in AuditActor : FlushEnds(a))
  \/ Audit(\E c \in Closers : CloseAudit(c))
  \/ Audit(\E c \in Closers : FinalFlush(c))
  \/ Audit(\E c \in Closers : CancelClose(c))
  \/ Signals(\E k \in Keys : push(k))
  \/ Signals(\E k \in Keys : release_hold(k))
  \/ Signals(\E k \in Keys : ClientSignals(k))
  \/ Signals(\E k \in Keys : ClientDies(k))
  \/ Signals(pause)
  \/ Signals(resume)
  \/ Signals(\E w \in Procs : run_once(w))
  \/ Signals(\E w \in Procs : recover(w))
  \/ Signals(\E w \in Procs : Sweep(w))
  \/ Signals(\E w \in Procs : _reconcile(w))
  \/ Signals(\E w \in Procs : ReconcileDelays(w))
  \/ Signals(\E w \in Procs : ReconcileUndelays(w))
  \/ Signals(\E w \in Procs : Send(w))
  \/ Signals(\E w \in Procs : promote_due(w))
  \/ Signals(\E w \in Procs, k \in Keys : ReceiveSignal(w, k))
  \/ Signals(\E w \in Procs : NothingToLease(w))
  \/ Signals(\E w \in Procs : lease(w))
  \/ Signals(\E w \in Procs : lease_key(w))
  \/ Signals(\E w \in Procs : _lease_locked(w))
  \/ Signals(\E w \in Procs : GiveUpKey(w))
  \/ Signals(\E w \in Procs : DropSignal(w))
  \/ Signals(\E w \in Procs : Ack(w))
  \/ Signals(\E w \in Procs : RetryOrWait(w))
  \/ Signals(\E w \in Procs : Hold(w))
  \/ Signals(\E w \in Procs : apply(w))
  \/ Signals(\E w \in Procs : AckSignal(w))
  \/ Signals(\E k \in Keys : drain(k))
  \/ Signals(\E w \in Procs : Dies(w))
  \/ Signals(\E k \in Keys : LosesSignal(k))
  \/ Signals(\E k \in Keys : LockLapses(k))
  \/ Signals(\E k \in Keys : Reappears(k))
  \/ Signals(\E k \in Keys : MarkerExpires(k))
  \/ Signals(ThrottleExpires)
  \/ Signals(\E k \in Keys : DeadlinePasses(k))

(* Tasks of the event loop go on while they can, and what has a time to     *)
(* live runs out.                                                           *)
Fairness ==
  /\ \A w \in Workers : WF_vars(Delivery(WorkerStep(w)))
  /\ WF_vars(Delivery(Closing))
  /\ WF_vars(Alert(DigestStep)) /\ WF_vars(Alert(AlertTick))
  /\ \A w \in Procs : WF_vars(Signals(ProcStep(w)))
  /\ \A k \in Keys : WF_vars(Signals(ClientSignals(k))) /\ WF_vars(Signals(TimeRunsOut(k)))
  /\ WF_vars(Signals(ThrottleExpires)) /\ WF_vars(Signals(resume))

Spec == Init /\ [][Next]_vars
FairSpec == Spec /\ Fairness
=============================================================================
