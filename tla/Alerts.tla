------------------------------- MODULE Alerts -------------------------------
(***************************************************************************)
(* The alerting subscriber (subscribers/notification.py): a storm guard, a *)
(* sliding window per rule, a dedup window per rule and topic class, and a *)
(* throttle per channel whose overflow one digest task sends later.  One   *)
(* rule and one channel: rules only share the channel.                     *)
(***************************************************************************)
EXTENDS Naturals, Sequences, FiniteSets, FiniteSetsExt, SequencesExt

CONSTANTS
  Classes,         \* topic classes
  StormThreshold, StormWindow,
  CountThreshold, RuleWindow,   \* count_threshold (1: a plain rule), window_seconds
  DedupWindow,
  ThrottleMax, ThrottleWindow,
  MaxTime,         \* bound: the last tick at which an event comes
  MaxEvents        \* bound: events

VARIABLES
  now,
  events,      \* events so far
  errors,      \* times of recent ERROR events
  storm,       \* _storm_active
  window,      \* times of the rule's recent matches
  dedup,       \* topic class -> time of the last alert, -1 if none
  channel,     \* times of recent sends on the channel
  overflow,    \* alerts folded for the digest
  digest,      \* [pc, wake]: none, asleep until wake, or sending
  alerts,      \* alerts raised so far
  plain,       \* times of the throttled sends
  folded,      \* alerts ever folded while no digest was being sent
  digested     \* alerts a digest has carried

alertVars == <<now, events, errors, storm, window, dedup, channel, overflow, digest, alerts,
               plain, folded, digested>>

NoDigest == [pc |-> "none", wake |-> 0]

AlertInit ==
  /\ now = 0 /\ events = 0 /\ errors = <<>> /\ storm = FALSE /\ window = <<>>
  /\ dedup = [c \in Classes |-> 0 - 1]
  /\ channel = <<>> /\ overflow = {} /\ digest = NoDigest /\ alerts = 0
  /\ plain = <<>> /\ folded = {} /\ digested = {}

(* What is older than w is forgotten.                                       *)
Prune(times, w) == SelectSeq(times, LAMBDA t : t + w >= now)

(* Mutant of Throttled: one send too many.                                  *)
ThrottledLate(sent) == Len(sent) > ThrottleMax

Throttled(sent) == Len(sent) >= ThrottleMax

(* Mutant of NextDigest: a new digest only when none has been folded yet.   *)
NextDigestOnce(sent) ==
  IF digest.pc = "none" /\ folded = {}
    THEN [pc |-> "asleep", wake |-> sent[1] + ThrottleWindow]
    ELSE digest

(* The digest task that a folded alert finds or starts.                     *)
NextDigest(sent) ==
  IF digest.pc = "none"
    THEN [pc |-> "asleep", wake |-> sent[1] + ThrottleWindow]
    ELSE digest

(* One alert: sent at once by a task of its own, or folded.                 *)
ScheduleDelivery(a) ==
  LET sent == Prune(channel, ThrottleWindow)
  IN IF Throttled(sent)
       THEN /\ channel' = sent
            /\ overflow' = overflow \cup {a}
            /\ digest' = NextDigest(sent)
            /\ folded' = IF digest.pc = "sending" THEN folded ELSE folded \cup {a}
            /\ UNCHANGED plain
       ELSE /\ channel' = Append(sent, now)
            /\ plain' = Append(plain, now)
            /\ UNCHANGED <<overflow, digest, folded>>

(* Inside the dedup window of its class an alert is suppressed.             *)
Fire(c) ==
  IF dedup[c] >= 0 /\ now - dedup[c] < DedupWindow
    THEN UNCHANGED <<dedup, alerts, channel, overflow, digest, plain, folded>>
    ELSE /\ dedup' = [dedup EXCEPT ![c] = now]
         /\ alerts' = alerts + 1
         /\ ScheduleDelivery(alerts + 1)

(* An ERROR event of class c: above the threshold only the storm itself is  *)
(* reported, once and unthrottled; the window of the rule is cleared when   *)
(* it is crossed.                                                           *)
Evaluate(c) ==
  /\ events < MaxEvents /\ now <= MaxTime
  /\ events' = events + 1
  /\ LET recent == Prune(Append(errors, now), StormWindow)
         raging == Len(recent) > StormThreshold
         times == Prune(Append(window, now), RuleWindow)
     IN /\ errors' = recent
        /\ storm' = raging
        /\ IF raging
             THEN /\ channel' = IF storm THEN channel
                                ELSE Append(Prune(channel, ThrottleWindow), now)
                  /\ UNCHANGED <<window, dedup, overflow, digest, alerts, plain, folded>>
             ELSE IF Len(times) >= CountThreshold
             THEN window' = <<>> /\ Fire(c)
             ELSE /\ window' = times
                  /\ UNCHANGED <<dedup, channel, overflow, digest, alerts, plain, folded>>
  /\ UNCHANGED <<now, digested>>

(* The digest task wakes and takes what has been folded ...                 *)
FlushDigest ==
  /\ digest.pc = "asleep" /\ now >= digest.wake
  /\ digested' = digested \cup overflow
  /\ overflow' = {}
  /\ digest' = [digest EXCEPT !.pc = "sending"]
  /\ channel' = Append(channel, now)
  /\ UNCHANGED <<now, events, errors, storm, window, dedup, alerts, plain, folded>>

(* ... and sends it, which may fail or take up to send_timeout.             *)
DigestSent ==
  /\ digest.pc = "sending"
  /\ digest' = NoDigest
  /\ UNCHANGED <<now, events, errors, storm, window, dedup, channel, overflow, alerts,
                 plain, folded, digested>>

AlertTick ==
  /\ now < MaxTime \/ digest.pc = "asleep"
  /\ ~(digest.pc = "asleep" /\ now >= digest.wake)
  /\ now' = now + 1
  /\ UNCHANGED <<events, errors, storm, window, dedup, channel, overflow, digest, alerts,
                 plain, folded, digested>>

DigestStep == FlushDigest \/ DigestSent

-----------------------------------------------------------------------------
(* Properties *)

(* "max 10 notifications/min per channel": however alerts, digests and      *)
(* storms interleave, no throttle window holds more than the maximum of     *)
(* individual notifications.                                                *)
ThrottleHeld ==
  \A t \in 0..MaxTime :
    Cardinality({i \in 1..Len(plain) : plain[i] \in t..(t + ThrottleWindow)}) <= ThrottleMax

(* "overflow is folded into a single digest message": every folded alert is *)
(* carried by a digest.                                                     *)
EveryFoldedIsSent ==
  \A a \in 1..MaxEvents : a \in overflow ~> a \in digested

(* The same of an alert that is not folded while a digest is being sent.    *)
FoldedIsSent ==
  folded /= {} ~> folded \subseteq digested
=============================================================================
