--------------------------- MODULE Subscriptions ----------------------------
(***************************************************************************)
(* The subscriptions of the bus (BusCore.subscribe, unsubscribe,           *)
(* _matching_subscriptions and the loop of _dispatch; EventBus.subscribe   *)
(* and publish in front of them): the lists of exact and of glob           *)
(* subscriptions, which handlers and other tasks change while workers walk *)
(* what they took of them.  A subscription is made once and has an id of   *)
(* its own.  Retries, errors and dead letters of a call are BusCore's.     *)
(***************************************************************************)
EXTENDS Naturals, FiniteSets, Sequences, SequencesExt

CONSTANTS
  BusSubs,        \* subscriptions that match the topic of the envelopes
  Globs,          \* those with a glob pattern, the others have the topic itself
  Rank,           \* priority of each, from 1
  Floored,        \* those with a min_severity above that of the Mild envelopes
  Vetoing,        \* those whose filter_fn is false, or raises
  Letterbox,      \* envelopes
  Mild,
  Dispatchers,    \* workers
  Unset,          \* no value yet
  MaxRemovals     \* bound: subscriptions removed

ASSUME SubscriptionsAssumption ==
  /\ Rank \in [BusSubs -> Nat \ {0}]
  /\ Globs \cup Floored \cup Vetoing \subseteq BusSubs /\ Mild \subseteq Letterbox
  /\ IsFiniteSet(BusSubs) /\ Unset \notin Letterbox /\ \A S \in SUBSET BusSubs : S # Unset

VARIABLES
  exact, globs,   \* _subscriptions[topic] and _pattern_subscriptions
  since,          \* subscription -> its number in the order of subscribe, 0 before
  left,           \* subscriptions that were removed
  told,           \* envelope -> the number of subscribers publish answered, or none
  walk,           \* worker -> the envelope it dispatches and what is left of its list
  called,         \* envelope -> the subscriptions whose handler was called, in order
  present         \* envelope -> the subscriptions there were when its dispatch began

subscriptionVars == <<exact, globs, since, left, told, walk, called, present>>

Resting == [env |-> Unset, todo |-> <<>>, in |-> FALSE]

SubscriptionsInit ==
  /\ exact = <<>> /\ globs = <<>> /\ left = {}
  /\ since = [s \in BusSubs |-> 0]
  /\ told = [e \in Letterbox |-> Unset]
  /\ walk = [w \in Dispatchers |-> Resting]
  /\ called = [e \in Letterbox |-> <<>>]
  /\ present = [e \in Letterbox |-> Unset]

(* list.sort(key=lambda s: -s.priority), which is stable: the place of a      *)
(* subscription is how many of higher or of equal rank do not come after it.  *)
Place(subs, i) ==
  Cardinality({j \in DOMAIN subs :
    Rank[subs[j]] > Rank[subs[i]] \/ (Rank[subs[j]] = Rank[subs[i]] /\ j <= i)})
ByPriority(subs) ==
  [n \in 1..Len(subs) |-> subs[CHOOSE i \in DOMAIN subs : Place(subs, i) = n]]

Registered == ToSet(exact) \cup ToSet(globs)

subscribe(s) ==
  /\ since[s] = 0
  /\ since' = [since EXCEPT ![s] = 1 + Cardinality({t \in BusSubs : since[t] > 0})]
  /\ \/ s \in Globs /\ globs' = ByPriority(Append(globs, s)) /\ UNCHANGED exact
     \/ s \notin Globs /\ exact' = ByPriority(Append(exact, s)) /\ UNCHANGED globs
  /\ UNCHANGED <<left, told, walk, called, present>>

unsubscribe(s) ==
  /\ s \in Registered /\ Cardinality(left) < MaxRemovals
  /\ exact' = RemoveFirst(exact, s) /\ globs' = RemoveFirst(globs, s)
  /\ left' = left \cup {s}
  /\ UNCHANGED <<since, told, walk, called, present>>

match_count == Len(exact) + Len(globs)

(* The facade answers how many match now, and the envelope waits for a worker. *)
publish(e) ==
  /\ told[e] = Unset
  /\ told' = [told EXCEPT ![e] = match_count]
  /\ UNCHANGED <<exact, globs, since, left, walk, called, present>>

(* Mutant: the two lists one after the other. *)
MatchingExactFirst == exact \o globs

(* A list of its own: later changes of the registry do not reach it. *)
_matching_subscriptions == ByPriority(exact \o globs)

_dispatch(w, e) ==
  /\ walk[w] = Resting /\ told[e] # Unset /\ present[e] = Unset
  /\ walk' = [walk EXCEPT ![w] = [env |-> e, todo |-> _matching_subscriptions, in |-> FALSE]]
  /\ present' = [present EXCEPT ![e] = Registered]
  /\ UNCHANGED <<exact, globs, since, left, told, called>>

(* The severity floor and the filter; an error of the filter is a refusal. *)
Wants(s, e) == ~(s \in Floored /\ e \in Mild) /\ s \notin Vetoing

(* The next handler that wants the envelope is called; without one the dispatch ends. *)
CallNext(w) ==
  LET e == walk[w].env
      todo == walk[w].todo
      wanting == {i \in DOMAIN todo : Wants(todo[i], e)} IN
  /\ e # Unset /\ ~walk[w].in
  /\ \/ wanting = {} /\ walk' = [walk EXCEPT ![w] = Resting] /\ UNCHANGED called
     \/ \E i \in wanting :
          /\ \A j \in wanting : i <= j
          /\ called' = [called EXCEPT ![e] = Append(@, todo[i])]
          /\ walk' = [walk EXCEPT ![w].todo = SubSeq(todo, i + 1, Len(todo)), ![w].in = TRUE]
  /\ UNCHANGED <<exact, globs, since, left, told, present>>

(* The handler has returned or was given up after its retries. *)
HandlerDone(w) ==
  /\ walk[w].in
  /\ walk' = [walk EXCEPT ![w].in = FALSE]
  /\ UNCHANGED <<exact, globs, since, left, told, called, present>>

SubscriptionsNext ==
  \/ \E s \in BusSubs : subscribe(s) \/ unsubscribe(s)
  \/ \E e \in Letterbox : publish(e)
  \/ \E w \in Dispatchers, e \in Letterbox : _dispatch(w, e)
  \/ \E w \in Dispatchers : CallNext(w) \/ HandlerDone(w)

SubscriptionsSpec == SubscriptionsInit /\ [][SubscriptionsNext]_subscriptionVars

-----------------------------------------------------------------------------
Precedes(s, t) ==
  \/ Rank[s] > Rank[t]
  \/ Rank[s] = Rank[t] /\ s \notin Globs /\ t \in Globs
  \/ Rank[s] = Rank[t] /\ (s \in Globs <=> t \in Globs) /\ since[s] < since[t]

Under(e) == \E w \in Dispatchers : walk[w].env = e

(* However handlers and other tasks subscribe and unsubscribe while workers    *)
(* dispatch, an envelope is handled by exactly the subscriptions that were     *)
(* there when its dispatch began and want it, once each, the higher priority   *)
(* first ("Execution order among matching handlers (higher first)",            *)
(* core.py:611), equals exact before glob and then in order of subscription.   *)
HandledInOrder ==
  \A e \in Letterbox :
    /\ \A i, j \in DOMAIN called[e] : i < j => Precedes(called[e][i], called[e][j])
    /\ present[e] # Unset /\ ~Under(e) => ToSet(called[e]) = {s \in present[e] : Wants(s, e)}

(* Expected to fail: the handler of a subscription that was removed is not     *)
(* called any more.  A dispatch that began before unsubscribe() still calls it.*)
SilentAfterUnsubscribe ==
  [][\A e \in Letterbox : called'[e] # called[e] => called'[e][Len(called'[e])] \notin left]_called
=============================================================================
