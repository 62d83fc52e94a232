--------------------------- MODULE WebhookIngest ----------------------------
(***************************************************************************)
(* Inbound webhooks (hooks/webhook/): a request takes a place of the       *)
(* listener, its body is read, it is authenticated, looked up in the cache *)
(* of recent deliveries, parsed, preprocessed, classified and dispatched,  *)
(* with an await at the body, the preprocessor and the dispatch.  The      *)
(* sender repeats a delivery under the same id until it hears a 2xx.       *)
(***************************************************************************)
EXTENDS Naturals, Sequences, FiniteSets, SequencesExt

CONSTANTS
  Requests,        \* request slots of the server
  Deliveries,      \* delivery ids, of one endpoint each
  MaxInflight,     \* max_inflight
  DedupTtl,        \* dedup_ttl_seconds, 0: off
  DedupCacheSize,
  Tolerance,       \* tolerance_seconds of a timestamped signature
  AllowNonJson,    \* allow_non_json
  Heard,           \* the hook is registered with a manager: it has a callback
  Modes,           \* the dispatch modes tried: "await", "background"
  Ahead,           \* how far the sender's clock may be ahead of the receiver's
  MaxSends,        \* bound: requests sent
  MaxClock         \* bound: the clock

(* What the validators of the configuration let through.                    *)
ListenerConfigOk ==
  /\ MaxInflight \in Nat /\ DedupTtl \in Nat /\ DedupCacheSize \in Nat \ {0}
  /\ Modes \subseteq {"await", "background"}
EndpointConfigOk == Tolerance \in Nat /\ AllowNonJson \in BOOLEAN

ASSUME WebhookConfig == ListenerConfigOk /\ EndpointConfigOk
ASSUME SenderClock == Ahead \in Nat

VARIABLES
  scheme,          \* the endpoint's signature: "hex" or "stripe"
  mode,            \* dispatch_mode
  issued,          \* id -> when the sender signed it, -1 before
  request,         \* slot -> [pc, id]
  recent,          \* _dedup: [id, at], oldest first
  background,      \* deliveries in _background_tasks
  clock,
  sends,           \* requests sent
  dispatched,      \* id -> times the callback was given the event
  expired,         \* ids that left the cache after their time ...
  evicted,         \* ... and before it, for want of room
  answered         \* id -> the 2xx answers given: "accepted", "ignored", "duplicate"

ingestVars == <<scheme, mode, issued, request, recent, background, clock,
                sends, dispatched, expired, evicted, answered>>
settled == <<scheme, mode>>

Idle == [pc |-> "idle", id |-> 0]

IngestInit ==
  /\ scheme \in {"hex", "stripe"} /\ mode \in Modes
  /\ issued = [d \in Deliveries |-> 0 - 1]
  /\ request = [r \in Requests |-> Idle]
  /\ recent = <<>> /\ background = <<>>
  /\ clock = 0 /\ sends = 0
  /\ dispatched = [d \in Deliveries |-> 0] /\ expired = {} /\ evicted = {}
  /\ answered = [d \in Deliveries |-> {}]

Busy == {r \in Requests : request[r].pc \notin {"idle"}}
At(r, pc) == [request EXCEPT ![r].pc = pc]

Answer(r, a) ==
  /\ request' = [request EXCEPT ![r] = Idle]
  /\ answered' = [answered EXCEPT ![request[r].id] = @ \cup {a}]

Reject(r) == request' = [request EXCEPT ![r] = Idle] /\ UNCHANGED answered

(* The sender signs a delivery once, by its own clock, and repeats what it  *)
(* signed.  A clock that is behind only makes the signature stale sooner.   *)
Sign(d) ==
  \E ahead \in 0..Ahead : issued' = [issued EXCEPT ![d] = IF @ < 0 THEN clock + ahead ELSE @]

(* A request comes in: at an endpoint that is not registered now, or beyond *)
(* the capacity, it is refused at once; the others keep the endpoint they   *)
(* found and read the body.                                                 *)
HandleWebhook(r, d) ==
  /\ request[r] = Idle /\ sends < MaxSends
  /\ sends' = sends + 1
  /\ Sign(d)
  /\ \/ /\ MaxInflight = 0 \/ Cardinality(Busy) < MaxInflight
        /\ request' = [request EXCEPT ![r] = [pc |-> "body", id |-> d]]
     \/ UNCHANGED request
  /\ UNCHANGED <<settled, recent, background, clock, dispatched, expired, evicted,
                 answered>>

(* SignatureScheme.verify: a plain digest is good for ever, a timestamped   *)
(* one is checked for freshness before the digest is.                       *)
Verdict(header, d) ==
  CASE header = "absent" -> "missing"
    [] header = "garbled" -> "malformed"
    [] header \in {"wrong", "right"} /\ scheme = "stripe" /\ Tolerance > 0
         /\ (clock - issued[d] > Tolerance \/ issued[d] - clock > Tolerance) -> "stale"
    [] header = "wrong" -> "mismatch"
    [] OTHER -> "ok"

(* A disabled endpoint, an address that is not allowed, a body too large or *)
(* a signature that does not hold: nothing has been recorded yet.           *)
Refuse(r) ==
  /\ request[r].pc = "body"
  /\ Reject(r)
  /\ UNCHANGED <<settled, issued, recent, background, clock, sends, dispatched,
                 expired, evicted>>

(* What is left of the cache when the expired entries at its front are gone. *)
Fresh(cache) ==
  LET Old(n) == clock - cache[n].at > DedupTtl
      first == CHOOSE n \in 1..(Len(cache) + 1) :
                 (\A m \in 1..(n - 1) : Old(m)) /\ (n <= Len(cache) => ~Old(n))
  IN SubSeq(cache, first, Len(cache))

Trim(cache) == IF Len(cache) > DedupCacheSize THEN Tail(cache) ELSE cache

(* Mutant of Seen: the cache is consulted, and written only by dispatch.    *)
SeenLate(d) == recent' = Fresh(recent)

(* _is_duplicate records a delivery in the step that looks it up.           *)
Seen(d) ==
  recent' = IF \E c \in Range(Fresh(recent)) : c.id = d
              THEN Fresh(recent)
              ELSE Trim(Append(Fresh(recent), [id |-> d, at |-> clock]))

IsDuplicate(d) ==
  DedupTtl > 0 /\ \E c \in Range(Fresh(recent)) : c.id = d

(* parse_body of what the sender declares and sends: JSON that is no object *)
(* is wrapped, a form is a form, the rest is passed on raw when allowed.    *)
ParseBody(body, type) ==
  CASE body \in {"object", "list"} /\ type # "form" -> "json"
    [] body # "binary" /\ type = "form" -> "form"
    [] OTHER -> IF AllowNonJson THEN "raw" ELSE "invalid"

Parsable ==
  {ParseBody(body, type) : body \in {"object", "list", "text", "binary"},
                           type \in {"json", "form", "other"}}

(* The body has been read: verify, de-duplicate and parse.                  *)
Admit(r) ==
  LET d == request[r].id
  IN /\ request[r].pc = "body" /\ Verdict("right", d) = "ok"
     /\ IF DedupTtl > 0 THEN Seen(d) ELSE UNCHANGED recent
     /\ expired' = expired \cup {c.id : c \in Range(recent) \ Range(Fresh(recent))}
     /\ evicted' = evicted \cup {c.id : c \in Range(Fresh(recent)) \ Range(recent')}
     /\ \/ IsDuplicate(d) /\ Answer(r, "duplicate")
        \/ ~IsDuplicate(d) /\ "invalid" \in Parsable /\ Reject(r)
        \/ /\ ~IsDuplicate(d) /\ Parsable # {"invalid"}
           /\ request' = At(r, "preprocess")
           /\ UNCHANGED answered
     /\ UNCHANGED <<settled, issued, background, clock, sends, dispatched>>

(* run_preprocessor: a failing, late or misbehaving preprocessor leaves the *)
(* payload as it came and the delivery goes on.                             *)
RunPreprocessor(result) ==
  IF result = "ignore" THEN "ignored" ELSE "go on"

(* The preprocessor returns, fails softly or times out; then the delivery   *)
(* is ignored, or fails to classify or build, or is dispatched.             *)
Built(r) ==
  /\ request[r].pc = "preprocess"
  /\ \/ \E result \in {"none", "payload", "ignore", "raised"} :
          /\ RunPreprocessor(result) = "ignored"
          /\ Answer(r, "ignored") /\ UNCHANGED <<background, dispatched>>
     \/ Reject(r) /\ UNCHANGED <<background, dispatched>>
     \/ /\ mode = "background"
        /\ background' = Append(background, request[r].id)
        /\ Answer(r, "accepted")
        /\ UNCHANGED dispatched
     \/ /\ mode = "await"
        /\ dispatched' = IF Heard THEN [dispatched EXCEPT ![request[r].id] = @ + 1] ELSE dispatched
        /\ request' = At(r, "dispatch")
        /\ UNCHANGED <<background, answered>>
  /\ UNCHANGED <<settled, issued, recent, clock, sends, expired, evicted>>

(* The callback has returned, or there was none: the delivery is accepted.  *)
Dispatched(r) ==
  /\ request[r].pc = "dispatch"
  /\ Answer(r, "accepted")
  /\ UNCHANGED <<settled, issued, recent, background, clock, sends, dispatched,
                 expired, evicted>>

(* A background dispatch runs.                                              *)
BackgroundDispatch ==
  /\ background # <<>>
  /\ dispatched' = IF Heard THEN [dispatched EXCEPT ![Head(background)] = @ + 1] ELSE dispatched
  /\ background' = Tail(background)
  /\ UNCHANGED <<settled, issued, request, recent, clock, sends, expired, evicted,
                 answered>>

(* stop() cancels the background dispatches.                                *)
StopListener ==
  /\ background # <<>>
  /\ background' = <<>>
  /\ UNCHANGED <<settled, issued, request, recent, clock, sends, dispatched,
                 expired, evicted, answered>>

ClockTicks ==
  /\ clock < MaxClock
  /\ clock' = clock + 1
  /\ UNCHANGED <<settled, issued, request, recent, background, sends, dispatched,
                 expired, evicted, answered>>

IngestNext ==
  \/ \E r \in Requests, d \in Deliveries : HandleWebhook(r, d)
  \/ \E r \in Requests : Refuse(r) \/ Admit(r) \/ Built(r) \/ Dispatched(r)
  \/ BackgroundDispatch \/ StopListener \/ ClockTicks

IngestSpec == IngestInit /\ [][IngestNext]_ingestVars

-----------------------------------------------------------------------------
(* Properties *)

(* Copies of one delivery, under way together or at any distance, are       *)
(* dispatched once unless the cache had to make room; a plain digest can be *)
(* replayed after the time to live, a timestamped one is stale by then, if  *)
(* the time to live is twice the tolerance: a signature from a clock that   *)
(* is ahead is good that long.                                              *)
OncePerDelivery ==
  \A d \in Deliveries : dispatched[d] > 1 => d \in evicted \/ (scheme = "hex" /\ d \in expired)

(* "suppressing provider retries of a delivery already accepted": a sender  *)
(* is told duplicate only of a delivery that was, or is being, handled.     *)
DuplicateWasHandled ==
  \A d \in Deliveries : "duplicate" \in answered[d] =>
    \/ answered[d] \cap {"accepted", "ignored"} # {}
    \/ \E r \in Requests : request[r].id = d

(* A delivery that was accepted has been, or will be, given to a callback.  *)
AcceptedReachesCallback ==
  \A d \in Deliveries : "accepted" \in answered[d] =>
    dispatched[d] > 0 \/ d \in Range(background)
=============================================================================
