----------------------------- MODULE Worktrees ------------------------------
(***************************************************************************)
(* Provisioning the worktree of a feature or hotfix                        *)
(* (scripts/sdd/ensure_worktree.py): reuse the one git lists, or fetch,    *)
(* refuse a leftover branch, create, drop the upstream, verify that the    *)
(* required files are there, and undo the creation when a check fails.     *)
(* Two agents may provision the same plan in the same clone.               *)
(*                                                                         *)
(* A commit of the base branch is a number; the main clone's HEAD, its     *)
(* origin/<base> and the remote are such numbers.                          *)
(***************************************************************************)
EXTENDS Naturals

CONSTANTS Agents,        \* processes that call ensure() for the same plan
          RequiredSince, \* the commit that brought the required paths, 0 when none is required
          MaxRemote,     \* bound on the commits of the remote branch
          Concurrent,    \* TRUE when calls may overlap
          MaxGlitches    \* bound on git commands that fail and calls that are killed

ASSUME WorktreeAssumption ==
  /\ RequiredSince \in Nat /\ MaxRemote \in Nat /\ MaxGlitches \in Nat
  /\ Concurrent \in BOOLEAN

VARIABLES
  remote,      \* the base branch at origin
  origin,      \* origin/<base> in the clone
  main,        \* HEAD of the main clone
  branch,      \* the commit of branch plan.name, or NoCommit
  dir,         \* the worktree's directory exists
  listed,      \* git worktree list shows it, on branch plan.name
  upstream,    \* the branch tracks origin/<base>
  unchecked,   \* the call that made the worktree listed ended without checking it (history)
  where,       \* where each call is
  given,       \* the agents that were given the worktree
  glitches

worktreeVars == <<remote, origin, main, branch, dir, listed, upstream, unchecked, where, given, glitches>>
laid == <<branch, dir, listed, upstream, unchecked>>

NoCommit == MaxRemote + 1

WorktreeInit ==
  /\ remote = 1 /\ origin = 1 /\ main = 1
  /\ branch = NoCommit /\ dir = FALSE /\ listed = FALSE /\ upstream = FALSE /\ unchecked = FALSE
  /\ where = [a \in Agents |-> "idle"]
  /\ given = {}
  /\ glitches = 0

Step(a, from, to) == where[a] = from /\ where' = [where EXCEPT ![a] = to]

Checking == {"upstream", "verify", "discard"}

Glitch == glitches < MaxGlitches /\ glitches' = glitches + 1

(* Some required path is not in the worktree. *)
_missing_paths == RequiredSince > 0 /\ (~dir \/ branch < RequiredSince)

Ensure(a) ==
  /\ Step(a, "idle", "find")
  /\ Concurrent \/ \A b \in Agents : where[b] = "idle"
  /\ a \notin given
  /\ UNCHANGED <<laid, remote, origin, main, given, glitches>>

(* A worktree git lists is reused when it has the required paths. *)
_find_reusable_worktree(a) ==
  /\ where[a] = "find"
  /\ \/ /\ listed /\ Step(a, "find", "idle")
        /\ given' = IF _missing_paths THEN given ELSE given \cup {a}
     \/ ~listed /\ Step(a, "find", "fetch") /\ UNCHANGED given
  /\ UNCHANGED <<laid, remote, origin, main, glitches>>

(* With --no-sync the fetch is skipped; when git fails the call fails. *)
Sync(a) ==
  /\ Step(a, "fetch", "branch")
  /\ origin' \in {origin, remote}
  /\ UNCHANGED <<laid, remote, main, given, glitches>>

SyncFails(a) ==
  /\ Step(a, "fetch", "idle") /\ Glitch
  /\ UNCHANGED <<laid, remote, origin, main, given>>

(* A branch of that name is refused: the operator decides. *)
_branch_exists(a) ==
  /\ where[a] = "branch"
  /\ \/ branch # NoCommit /\ Step(a, "branch", "idle")
     \/ branch = NoCommit /\ Step(a, "branch", "create")
  /\ UNCHANGED <<laid, remote, origin, main, given, glitches>>

(* git worktree add -b makes branch, directory and registration, with an  *)
(* upstream, or nothing when branch or directory are there already.       *)
_create_worktree(a) ==
  /\ where[a] = "create"
  /\ \/ /\ branch = NoCommit /\ ~dir
        /\ Step(a, "create", "upstream")
        /\ branch' = origin /\ dir' = TRUE /\ listed' = TRUE /\ upstream' = TRUE
        /\ UNCHANGED unchecked
     \/ /\ branch # NoCommit \/ dir
        /\ Step(a, "create", "idle") /\ UNCHANGED laid
  /\ UNCHANGED <<remote, origin, main, given, glitches>>

(* It exits with an error after it has made nothing, the branch, or all of  *)
(* it (a post-checkout hook that fails): prune only forgets a worktree that *)
(* is not there, and nothing is discarded.                                  *)
CreateFails(a) ==
  /\ Step(a, "create", "idle") /\ Glitch
  /\ branch = NoCommit /\ ~dir
  /\ \/ UNCHANGED laid
     \/ /\ branch' = origin /\ upstream' = TRUE
        /\ dir' \in BOOLEAN /\ listed' = dir' /\ unchecked' = dir'
  /\ UNCHANGED <<remote, origin, main, given>>

_clear_upstream(a) ==
  /\ Step(a, "upstream", "verify")
  /\ upstream' = FALSE
  /\ UNCHANGED <<remote, origin, main, branch, dir, listed, unchecked, given, glitches>>

(* Mutant: a failure to clear the upstream is ignored. *)
KeepUpstream(a) ==
  /\ Step(a, "upstream", "verify") /\ Glitch
  /\ UNCHANGED <<laid, remote, origin, main, given>>

ClearUpstreamFails(a) ==
  /\ Step(a, "upstream", "discard") /\ Glitch
  /\ UNCHANGED <<laid, remote, origin, main, given>>

VerifyPaths(a) ==
  /\ where[a] = "verify"
  /\ \/ ~_missing_paths /\ Step(a, "verify", "idle") /\ given' = given \cup {a}
     \/ _missing_paths /\ Step(a, "verify", "discard") /\ UNCHANGED given
  /\ UNCHANGED <<laid, remote, origin, main, glitches>>

(* git branch -d deletes a branch that is merged into its upstream or, when *)
(* it has none, into the HEAD of the clone.                                 *)
BranchDeletable == upstream \/ branch <= main

_discard_new_worktree(a) ==
  /\ Step(a, "discard", "idle")
  /\ dir' = FALSE /\ listed' = FALSE /\ unchecked' = FALSE
  /\ branch' = IF BranchDeletable THEN NoCommit ELSE branch
  /\ upstream' = (upstream /\ ~BranchDeletable)
  /\ UNCHANGED <<remote, origin, main, given, glitches>>

(* Removing the directory fails, or pruning its registration after that,  *)
(* which is only logged.                                                   *)
DiscardFails(a) ==
  /\ Step(a, "discard", "idle") /\ Glitch
  /\ dir' \in {dir, FALSE} /\ unchecked' = listed
  /\ UNCHANGED <<remote, origin, main, branch, listed, upstream, given>>

(* The process of a call is killed. *)
Killed(a) ==
  /\ where[a] # "idle" /\ Step(a, where[a], "idle") /\ Glitch
  /\ unchecked' = (unchecked \/ where[a] \in Checking)
  /\ UNCHANGED <<remote, origin, main, branch, dir, listed, upstream, given>>

(* Somebody pushes to the base branch; the clone's own branch is pulled; the *)
(* operator removes a leftover branch no worktree holds (external).          *)
RemoteMoves ==
  /\ remote < MaxRemote /\ remote' = remote + 1
  /\ UNCHANGED <<laid, origin, main, where, given, glitches>>

Pull ==
  /\ main # remote /\ main' = remote /\ origin' = remote
  /\ UNCHANGED <<laid, remote, where, given, glitches>>

OperatorDeletes ==
  /\ branch # NoCommit /\ ~listed /\ \A a \in Agents : where[a] = "idle"
  /\ branch' = NoCommit /\ upstream' = FALSE
  /\ UNCHANGED <<remote, origin, main, dir, listed, unchecked, where, given, glitches>>

WorktreeNext ==
  \/ \E a \in Agents :
       \/ Ensure(a) \/ _find_reusable_worktree(a) \/ Sync(a) \/ SyncFails(a) \/ _branch_exists(a)
       \/ _create_worktree(a) \/ _clear_upstream(a) \/ ClearUpstreamFails(a) \/ VerifyPaths(a)
       \/ _discard_new_worktree(a) \/ DiscardFails(a) \/ CreateFails(a) \/ Killed(a)
  \/ RemoteMoves \/ Pull \/ OperatorDeletes

WorktreeSpec == WorktreeInit /\ [][WorktreeNext]_worktreeVars

-----------------------------------------------------------------------------
(* A worktree that was handed out is listed, on its branch, with the        *)
(* required files, however calls, fetches, failures, kills and cleanups      *)
(* followed one another; and a bare push from it does not go to the base     *)
(* branch (ensure_worktree.py:57-72, 213-218) unless the call that made it   *)
(* was killed, or had a git command fail, before it could check or discard   *)
(* what it had made: the next call reuses that as it is (91-96).  It takes   *)
(* calls that do not overlap: one that another call is still checking is     *)
(* reused as well.                                                           *)
HandedOutIsUsable ==
  given # {} => /\ listed /\ ~_missing_paths
                /\ unchecked \/ (dir /\ ~upstream)

(* No worktree that was handed out pushes to the base branch.  Not so: the   *)
(* worktree of a git worktree add that failed at its end is never discarded. *)
HandedOutCannotPush ==
  given # {} => ~upstream

(* A call that failed leaves nothing behind, so that the next one can create *)
(* the worktree (the docstring of _discard_new_worktree, 245-251).  Not so:  *)
(* the branch starts at a freshly fetched origin/<base>, and git branch -d   *)
(* refuses it when the main clone has not pulled.                            *)
FailureLeavesNothing ==
  (\A a \in Agents : where[a] = "idle") /\ ~listed => branch = NoCommit
=============================================================================
