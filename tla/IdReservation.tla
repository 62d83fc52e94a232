--------------------------- MODULE IdReservation ----------------------------
(***************************************************************************)
(* The allocator of TASK and FEAT numbers (scripts/sdd/reserve_ids.py and  *)
(* id_ledger.py).  A ledger file on the base branch holds the next number  *)
(* of each kind; an allocator reads it at some commit of the branch,       *)
(* builds a commit on top of it that advances the ledger, and pushes.  The *)
(* push is the compare-and-swap: the remote takes it only when its head is *)
(* the commit the ledger was read from.                                    *)
(*                                                                         *)
(* The branch is a sequence of commits, each with its ledger and with the  *)
(* numbers its task files and specs use.  A ledger commit is its parent,   *)
(* its order, its author and its second: two clones that build the same    *)
(* build one sha, and git takes the second push for up-to-date.            *)
(***************************************************************************)
EXTENDS Naturals, Sequences, FiniteSets, FiniteSetsExt

CONSTANTS Allocators,   \* clones of the repository, each with one agent
          Untracked,    \* the clones that have no origin/<base> reference yet
          Author,       \* the git identity of each clone
          Seconds,      \* what a clock may show when a commit is built
          Slugs,        \* feature slugs (--label)
          Orders,     \* what agents ask for: a kind, a count and a slug
          InUse,        \* numbers in use when the ledger was bootstrapped
          MaxTries,     \* --max-retries
          MaxCommits    \* bound on the length of the branch

Kinds == {"task", "feature"}
Used == [kind : Kinds, id : Nat, slug : Slugs]

ASSUME ReservationAssumption ==
  /\ Untracked \subseteq Allocators
  /\ InUse \subseteq Used /\ IsFiniteSet(InUse)
  /\ Orders \subseteq [kind : Kinds, count : Nat \ {0}, slug : Slugs]
  /\ MaxTries \in Nat \ {0} /\ MaxCommits \in Nat \ {0}

VARIABLES
  commits,    \* the base branch at the remote
  tree,       \* the commit each clone has checked out
  tracking,   \* what origin/<base> is in each clone, 0 when absent
  own,        \* "clean", "ahead" (unpushed commits) or "dirty", per clone
  call,       \* the reservation each agent is making
  phase,      \* "idle", "resolve" or "push", per agent
  attempt,    \* the attempt of the loop in reserve_ids
  built,      \* the commit of the attempt: what its sha is made from
  grants      \* the reservations returned to agents, in order

reserveVars == <<commits, tree, tracking, own, call, phase, attempt, built, grants>>

NumbersOf(kind, used) == {u.id : u \in {v \in used : v.kind = kind}}

(* The ledger is seeded one past the largest number the index files and the *)
(* specs mention.                                                           *)
bootstrap_ledger(used) == [k \in Kinds |-> Max(NumbersOf(k, used) \cup {0}) + 1]

(* What check_id_collisions reports: numbers that two slugs use. *)
find_collisions(used) ==
  {u \in used : \E v \in used : v.kind = u.kind /\ v.id = u.id /\ v.slug # u.slug}

Tip == Len(commits)
NoMark == [parent |-> 0]
NoCall == [kind |-> "task", count |-> 0, slug |-> CHOOSE s \in Slugs : TRUE]

(* The call is over and its locals are gone. *)
Conclude(a) ==
  /\ phase' = [phase EXCEPT ![a] = "idle"]
  /\ call' = [call EXCEPT ![a] = NoCall]
  /\ attempt' = [attempt EXCEPT ![a] = 0]
  /\ built' = [built EXCEPT ![a] = NoMark]

ReserveInit ==
  /\ commits = <<[next |-> bootstrap_ledger(InUse), used |-> InUse, mark |-> NoMark]>>
  /\ tree = [a \in Allocators |-> 1]
  /\ tracking = [a \in Allocators |-> IF a \in Untracked THEN 0 ELSE 1]
  /\ own = [a \in Allocators |-> "clean"]
  /\ call = [a \in Allocators |-> NoCall]
  /\ phase = [a \in Allocators |-> "idle"]
  /\ attempt = [a \in Allocators |-> 0]
  /\ built = [a \in Allocators |-> NoMark]
  /\ grants = <<>>

(* The spec or the index in the agent's own checkout names an id for the slug. *)
existing_feature_id(a, slug) ==
  \E u \in commits[tree[a]].used : u.kind = "feature" /\ u.slug = slug

(* The clone is on the base branch and has no uncommitted change. *)
_assert_safe_to_reserve(a) == own[a] # "dirty"

(* reserve_ids up to its loop.  A call that is refused changes nothing. *)
Ask(a, request) ==
  /\ phase[a] = "idle"
  /\ request.kind = "feature" => ~existing_feature_id(a, request.slug)
  /\ _assert_safe_to_reserve(a)
  /\ call' = [call EXCEPT ![a] = request]
  /\ phase' = [phase EXCEPT ![a] = "resolve"]
  /\ UNCHANGED <<commits, tree, tracking, own, attempt, built, grants>>

(* The first attempt trusts the origin/<base> the clone has; the later ones, *)
(* and a clone that has none, fetch.                                         *)
_resolve_base_sha(a) ==
  IF attempt[a] = 0 /\ tracking[a] # 0 THEN tracking[a] ELSE Tip

(* The ledger commit on top of it, with the time to the second. *)
CommitOf(a, parent, now) ==
  [author |-> Author[a], second |-> now, parent |-> parent,
   kind |-> call[a].kind, count |-> call[a].count, slug |-> call[a].slug]

ResolveBase(a) ==
  /\ phase[a] = "resolve"
  /\ \E now \in Seconds : built' = [built EXCEPT ![a] = CommitOf(a, _resolve_base_sha(a), now)]
  /\ tracking' = [tracking EXCEPT ![a] = _resolve_base_sha(a)]
  /\ phase' = [phase EXCEPT ![a] = "push"]
  /\ UNCHANGED <<commits, tree, own, call, attempt, grants>>

_read_ledger_at(sha) == commits[sha].next

(* The commit on top of the base whose only change is the ledger. *)
_build_ledger_commit(c) ==
  [next |-> [_read_ledger_at(c.parent) EXCEPT ![c.kind] = @ + c.count],
   used |-> commits[c.parent].used,
   mark |-> c]

(* The numbers an attempt hands out: the ledger's, and the ones after it. *)
ReservedIds(c) ==
  LET first == _read_ledger_at(c.parent)[c.kind] IN first .. (first + c.count - 1)

(* Mutant: a forced push. *)
ForcedPush(a) == built[a] # NoMark

(* The remote's head is the parent of the commit that is pushed. *)
FastForward(a) == built[a].parent = Tip

(* The remote's head is that very commit: "Everything up-to-date", exit 0. *)
UpToDate(a) == commits[Tip].mark = built[a]

(* What a push that is taken does to the branch. *)
Lands(a) ==
  /\ phase[a] = "push"
  /\ \/ FastForward(a) /\ Tip < MaxCommits /\ commits' = Append(commits, _build_ledger_commit(built[a]))
     \/ UpToDate(a) /\ UNCHANGED commits

(* The checkout follows the pushed commit unless it has work of its own. *)
_sync_local_branch(a) ==
  tree' = [tree EXCEPT ![a] = IF own[a] = "clean" THEN Len(commits') ELSE @]

Push(a) ==
  /\ Lands(a)
  /\ tracking' = [tracking EXCEPT ![a] = Len(commits')]
  /\ _sync_local_branch(a)
  /\ grants' = Append(grants, [to |-> a, ids |-> ReservedIds(built[a]), mark |-> built[a]])
  /\ Conclude(a)
  /\ UNCHANGED own

(* The remote took the push and git did not come back in time: the agent gets *)
(* an error, and the numbers are spent.                                       *)
PushTimesOut(a) ==
  /\ Lands(a) /\ Conclude(a)
  /\ UNCHANGED <<tree, tracking, own, grants>>

(* The branch moved first: try again from a fetched head, or give up. *)
PushRejected(a) ==
  /\ phase[a] = "push" /\ ~FastForward(a) /\ ~UpToDate(a)
  /\ \/ /\ attempt[a] + 1 < MaxTries
        /\ attempt' = [attempt EXCEPT ![a] = @ + 1]
        /\ phase' = [phase EXCEPT ![a] = "resolve"]
        /\ UNCHANGED <<call, built>>
     \/ attempt[a] + 1 = MaxTries /\ Conclude(a)
  /\ UNCHANGED <<commits, tree, tracking, own, grants>>

(* git fails for another reason, or times out before it did anything. *)
GitFails(a) ==
  /\ phase[a] # "idle" /\ Conclude(a)
  /\ UNCHANGED <<commits, tree, tracking, own, grants>>

(* The agent's ordinary work, which leaves the ledger alone (external). *)
Work(a) ==
  /\ own[a] = "clean"
  /\ own' \in {[own EXCEPT ![a] = s] : s \in {"ahead", "dirty"}}
  /\ UNCHANGED <<commits, tree, tracking, call, phase, attempt, built, grants>>

(* The agent commits the files that use the numbers it was given, on top of *)
(* the branch, and its clone is up to date (external).                      *)
Publish(a) ==
  /\ Tip < MaxCommits /\ phase[a] = "idle"
  /\ \E n \in DOMAIN grants :
       LET used == {[kind |-> grants[n].mark.kind, id |-> i, slug |-> grants[n].mark.slug] : i \in grants[n].ids} IN
       /\ grants[n].to = a /\ ~ used \subseteq commits[Tip].used
       /\ commits' = Append(commits, [next |-> commits[Tip].next, used |-> commits[Tip].used \cup used, mark |-> NoMark])
  /\ tree' = [tree EXCEPT ![a] = Tip + 1]
  /\ tracking' = [tracking EXCEPT ![a] = Tip + 1]
  /\ own' = [own EXCEPT ![a] = "clean"]
  /\ UNCHANGED <<call, phase, attempt, built, grants>>

ReserveNext ==
  \/ \E a \in Allocators, r \in Orders : Ask(a, r)
  \/ \E a \in Allocators :
       \/ ResolveBase(a) \/ Push(a) \/ PushTimesOut(a) \/ PushRejected(a) \/ GitFails(a)
       \/ Work(a) \/ Publish(a)

ReserveSpec == ReserveInit /\ [][ReserveNext]_reserveVars

-----------------------------------------------------------------------------
(* Two clones of one author that built the same commit, to the second. *)
Twins(m, n) ==
  /\ grants[m].to # grants[n].to /\ Author[grants[m].to] = Author[grants[n].to]
  /\ grants[m].mark = grants[n].mark

(* No number is given out twice, but to clones of one author that asked for   *)
(* the same at the same base in the same second, nor is one that was in use   *)
(* when the ledger was seeded; and no number is ever used by two slugs:       *)
(* neither stale references, nor pushes that lost their answer, nor retries   *)
(* make two allocators agree on a number (reserve_ids.py:478-492, the push is *)
(* the compare-and-swap).                                                     *)
IdsAreUnique ==
  /\ \A m, n \in DOMAIN grants :
       m # n /\ grants[m].mark.kind = grants[n].mark.kind
         => grants[m].ids \cap grants[n].ids = {} \/ Twins(m, n)
  /\ \A n \in DOMAIN grants : grants[n].ids \cap NumbersOf(grants[n].mark.kind, InUse) = {}
  /\ find_collisions(commits[Tip].used) = find_collisions(InUse)

(* "The push IS the compare-and-swap" (reserve_ids.py:481).  Not for twins:   *)
(* both are handed the same numbers.                                          *)
NoTwins == \A m, n \in DOMAIN grants : ~Twins(m, n)

(* "A slug has ONE feature id for its lifetime" (reserve_ids.py:423).  Not so: *)
(* the check reads the caller's own checkout before the first attempt, and     *)
(* two clones whose specs are not pushed yet both pass it.                     *)
OneIdPerSlug ==
  \A m, n \in DOMAIN grants :
    LET a == grants[m].mark
        b == grants[n].mark IN
    a.kind = "feature" /\ b.kind = "feature" /\ a.slug = b.slug => m = n
=============================================================================
