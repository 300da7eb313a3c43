---------------------------- MODULE GitPreflight ----------------------------
(***************************************************************************)
(* What a run does to the operator's worktree before and after the models  *)
(* work in it: preflight, the git_safety policies it chooses between and   *)
(* the restoration of an autostash (runner_part06.go, runner_part07.go,    *)
(* git_sync_preflight.go, autostash.go).                                   *)
(*                                                                         *)
(* A commit is the set of changes reachable from it, so that "ancestor of" *)
(* is set inclusion, a merge or a rebase is a union, and a branch that     *)
(* does not exist has no change.  Every git command may fail and leave the *)
(* repository as it was; a merge or an application of changes that clash   *)
(* must fail.  A run may be killed between any two commands.  Nothing      *)
(* locks the worktree across commands, so several runs interleave.         *)
(***************************************************************************)
EXTENDS Naturals, Sequences, FiniteSets, SequencesExt

CONSTANTS
    Runs,           \* runs started in the worktree
    Policies,       \* the git_safety policies a run may be started with
    MaxFailures,    \* commands that fail for a reason of their own
    MaxKills        \* runs killed

ASSUME RunsAssumption == "operator" \notin Runs
ASSUME Bounds == MaxFailures \in Nat /\ MaxKills \in Nat

KnownPolicies == {"clean", "autostash", "branch", "allow-dirty", "sync", "integrate"}
ASSUME PoliciesAreKnown == Policies \subseteq KnownPolicies

\* The operator's uncommitted change, a commit of the source branch that is
\* not on its upstream, a commit of the upstream, a change the operator has
\* stashed from a linked worktree, and what every commit holds.
Mine == <<"mine">>
Local == <<"local">>
Theirs == <<"theirs">>
Aside == <<"aside">>
Base == <<"base">>
Edit(r) == <<"edit", r>>

RunBranch(r) == <<"tagteam", r>>
Candidate(r) == <<"tagteam/preflight", r>>
Source == <<"source">>
Branches == {Source} \cup {RunBranch(r) : r \in Runs} \cup {Candidate(r) : r \in Runs}
NoBranch == <<"none">>

VARIABLES
    refs,       \* branch -> the changes reachable from it
    upstream,   \* what the upstream holds, as last fetched and as it is
    head,       \* the branch checked out
    work,       \* uncommitted changes of the worktree
    unmerged,   \* a merge, rebase or stash application stopped on a conflict
    stash,      \* the entries of refs/stash, the newest first
    clashes,    \* pairs of changes that touch the same lines
    pc, run,    \* where each run is, and what it has read
    failures, kills

vars == <<refs, upstream, head, work, unmerged, stash, clashes, pc, run, failures, kills>>
repo == <<refs, upstream, head, work, unmerged, stash>>

\* found and alone are history: what the worktree held when the run began, and
\* whether no other run was between its begin and its end meanwhile.
NewRun == [policy: Policies, source: {NoBranch}, dirty: {FALSE}, advanced: {FALSE},
           stashed: {FALSE}, recovery: {FALSE}, alone: {TRUE}, found: {{}}, foundWork: {{}}]

Init ==
    /\ \E ahead \in SUBSET {Local}, behind \in SUBSET {Theirs}, tracked \in BOOLEAN :
        /\ refs = [b \in Branches |-> IF b = Source THEN {Base} \cup ahead ELSE {}]
        /\ upstream = [set |-> tracked, seen |-> {Base}, is |-> {Base} \cup behind]
    /\ head = Source
    /\ work \in SUBSET {Mine}
    /\ unmerged \in {FALSE, work # {}}
    /\ stash = <<>>
    /\ clashes \in SUBSET ({{Mine, Theirs}} \cup {{Mine, Edit(r)} : r \in Runs})
    /\ pc = [r \in Runs |-> "new"]
    /\ run \in [Runs -> NewRun]
    /\ failures = 0 /\ kills = 0

Clash(a, b) == \E x \in a, y \in b : {x, y} \in clashes
gitDirty == work # {} \/ unmerged

(***************************************************************************)
(* Steps of a run: one git command each, with where the run goes when the  *)
(* command succeeds and when it fails.                                     *)
(***************************************************************************)
goto(r, next) == pc' = [pc EXCEPT ![r] = next]
keepRun == UNCHANGED <<run, clashes, kills>>
\* The command fails for a reason of its own and changes nothing.
breaks(r, next) ==
    /\ failures < MaxFailures
    /\ failures' = failures + 1
    /\ goto(r, next)
    /\ UNCHANGED repo
    /\ keepRun
reads(r, field, value, next) ==
    /\ run' = [run EXCEPT ![r][field] = value]
    /\ goto(r, next)
    /\ UNCHANGED <<repo, clashes, failures, kills>>
does(r, next) == goto(r, next) /\ keepRun /\ UNCHANGED failures

\* git switch carries uncommitted changes along and refuses during a conflict.
gitSwitchBranch(r, from, branch, next) ==
    /\ pc[r] = from
    /\ \/ /\ ~unmerged
          /\ refs[branch] # {}
          /\ head' = branch
          /\ does(r, next)
          /\ UNCHANGED <<refs, upstream, work, unmerged, stash>>
       \/ /\ unmerged \/ refs[branch] = {}
          /\ does(r, "failed")
          /\ UNCHANGED repo
       \/ breaks(r, "failed")

\* git switch -c, or git checkout -b where that is refused.
gitCreateBranch(r, from, branch, next) ==
    /\ pc[r] = from
    /\ \/ /\ refs' = [refs EXCEPT ![branch] = refs[head]]
          /\ head' = branch
          /\ does(r, next)
          /\ UNCHANGED <<upstream, work, unmerged, stash>>
       \/ breaks(r, "failed")

gitCreateBranchAt(r, from, branch, start, next) ==
    /\ pc[r] = from
    /\ \/ /\ refs' = [refs EXCEPT ![branch] = refs[start]]
          /\ does(r, next)
          /\ UNCHANGED <<upstream, head, work, unmerged, stash>>
       \/ breaks(r, "restore")

\* git add -A, git commit and git diff --check.  Adding a conflicted file
\* commits its markers, which diff --check then reports.
gitCheckpoint(r, from, next) ==
    /\ pc[r] = from
    /\ IF gitDirty
       THEN \/ \E checked \in {TRUE, FALSE} :
                /\ unmerged => ~checked
                /\ refs' = [refs EXCEPT ![head] = @ \cup work]
                /\ work' = {} /\ unmerged' = FALSE
                /\ does(r, IF checked THEN next ELSE "failed")
                /\ UNCHANGED <<upstream, head, stash>>
            \/ breaks(r, "failed")
       ELSE does(r, next) /\ UNCHANGED repo

\* git merge --ff-only
gitFastForward(r, from, target, next) ==
    /\ pc[r] = from
    /\ \/ /\ refs[head] \subseteq target
          /\ ~unmerged
          /\ refs' = [refs EXCEPT ![head] = target]
          /\ does(r, next)
          /\ UNCHANGED <<upstream, head, work, unmerged, stash>>
       \/ /\ ~(refs[head] \subseteq target) \/ unmerged
          /\ does(r, "failed")
          /\ UNCHANGED repo
       \/ breaks(r, "failed")

gitFetch(r, from, next, otherwise) ==
    /\ pc[r] = from
    /\ \/ /\ upstream' = [upstream EXCEPT !.seen = upstream.is]
          /\ does(r, next)
          /\ UNCHANGED <<refs, head, work, unmerged, stash>>
       \/ breaks(r, otherwise)

(***************************************************************************)
(* preflight: which policy applies.                                        *)
(***************************************************************************)
Overlaps(r) == \E q \in Runs \ {r} : pc[q] \notin {"new", "failed", "ended", "killed"}

begin(r) ==
    /\ pc[r] = "new"
    /\ goto(r, run[r].policy)
    /\ run' = [q \in Runs |->
                IF q = r THEN [run[r] EXCEPT !.alone = ~Overlaps(r),
                                             !.found = refs[head], !.foundWork = work]
                ELSE [run[q] EXCEPT !.alone = @ /\ pc[q] \in {"new", "failed", "ended", "killed"}]]
    /\ UNCHANGED <<repo, clashes, failures, kills>>

preflightAllowDirty(r) ==
    \/ gitCreateBranch(r, "allow-dirty", RunBranch(r), "allow-dirty checkpoint")
    \/ gitCheckpoint(r, "allow-dirty checkpoint", "running")

preflightBranch(r) == gitCreateBranch(r, "branch", RunBranch(r), "running")

preflightClean(r) ==
    /\ pc[r] = "clean"
    /\ goto(r, IF gitDirty THEN "failed" ELSE "running")
    /\ UNCHANGED <<repo, run, clashes, failures, kills>>

\* git stash push -u refuses a worktree with unmerged paths.
gitAutostash(r) ==
    /\ pc[r] = "autostash"
    /\ IF ~gitDirty THEN does(r, "running") /\ UNCHANGED repo
       ELSE \/ /\ ~unmerged
               /\ stash' = <<[by |-> r, holds |-> work]>> \o stash
               /\ work' = {}
               /\ does(r, "stashed")
               /\ UNCHANGED <<refs, upstream, head, unmerged>>
            \/ unmerged /\ does(r, "failed") /\ UNCHANGED repo
            \/ breaks(r, "failed")

\* The entry is known by its object from here on.
resolveStash(r) ==
    /\ pc[r] = "stashed"
    /\ \/ reads(r, "stashed", TRUE, "running")
       \/ breaks(r, "failed")

(***************************************************************************)
(* git_safety = sync: checkpoint on the run branch, fast-forward the       *)
(* source, rebase the checkpoint.                                          *)
(***************************************************************************)
tracks(branch) == branch = Source /\ upstream.set

\* gitCurrentBranch, gitDirty and gitRejectUnmergedPaths.
inspect(r, policy, ifDirty, ifClean) ==
    /\ pc[r] = policy
    /\ \/ /\ ~unmerged
          /\ run' = [run EXCEPT ![r].source = head, ![r].dirty = gitDirty]
          /\ goto(r, IF gitDirty THEN ifDirty ELSE ifClean)
          /\ UNCHANGED <<repo, clashes, failures, kills>>
       \/ unmerged /\ does(r, "failed") /\ UNCHANGED repo
       \/ breaks(r, "failed")

afterSync(r) == IF run[r].dirty THEN "sync return" ELSE "sync create"

gitFastForwardUpstream(r) ==
    \/ /\ pc[r] = "sync upstream"
       /\ does(r, IF tracks(run[r].source) THEN "sync fetch" ELSE afterSync(r))
       /\ UNCHANGED repo
    \/ gitFetch(r, "sync fetch", "sync compare", "failed")
    \/ /\ pc[r] = "sync compare"
       /\ LET behind == upstream.seen \ refs[head]
              ahead == refs[head] \ upstream.seen
          IN goto(r, CASE ~tracks(head) -> "failed"       \* @{upstream} does not resolve
                       [] tracks(head) /\ behind = {} -> afterSync(r)
                       [] tracks(head) /\ behind # {} /\ ahead # {} -> "failed"
                       [] OTHER -> "sync ff")
       /\ UNCHANGED <<repo, run, clashes, failures, kills>>
    \/ gitFastForward(r, "sync ff", upstream.seen, "sync advanced")
    \/ pc[r] = "sync advanced" /\ reads(r, "advanced", TRUE, afterSync(r))

\* A rebase that stops on a conflict is aborted and the source branch is
\* checked out again. An abort that fails ends the run where it is: with the
\* conflict in place, or because the rebase never began and there is nothing
\* to abort, as in a worktree that is not clean.
gitRebaseCheckpoint(r) ==
    /\ pc[r] = "sync rebase"
    /\ LET onto == refs[run[r].source]
       IN \/ /\ ~Clash(refs[head], onto) /\ ~gitDirty
             /\ refs' = [refs EXCEPT ![head] = @ \cup onto]
             /\ does(r, "running")
             /\ UNCHANGED <<upstream, head, work, unmerged, stash>>
          \/ /\ Clash(refs[head], onto) /\ ~gitDirty
             /\ does(r, "restore")
             /\ UNCHANGED repo
          \/ /\ Clash(refs[head], onto) /\ ~gitDirty /\ failures < MaxFailures
             /\ failures' = failures + 1
             /\ unmerged' = TRUE
             /\ goto(r, "failed")
             /\ keepRun
             /\ UNCHANGED <<refs, upstream, head, work, stash>>
          \/ gitDirty /\ does(r, "failed") /\ UNCHANGED repo
          \/ breaks(r, "restore")
          \/ breaks(r, "failed")

gitPrepareSyncedRun(r) ==
    \/ inspect(r, "sync", "sync branch", "sync upstream")
    \/ gitCreateBranch(r, "sync branch", RunBranch(r), "sync checkpoint")
    \/ gitCheckpoint(r, "sync checkpoint", "sync source")
    \/ gitSwitchBranch(r, "sync source", run[r].source, "sync upstream")
    \/ gitFastForwardUpstream(r)
    \/ gitSwitchBranch(r, "sync return", RunBranch(r),
                       IF run[r].advanced THEN "sync rebase" ELSE "running")
    \/ gitRebaseCheckpoint(r)
    \/ gitCreateBranch(r, "sync create", RunBranch(r), "running")

(***************************************************************************)
(* git_safety = integrate: build the result on a candidate branch, then    *)
(* fast-forward the source branch to it.                                   *)
(***************************************************************************)
gitMergeTrackedUpstream(r) ==
    \/ /\ pc[r] = "int upstream"
       /\ does(r, IF tracks(run[r].source) THEN "int fetch" ELSE "int branch")
       /\ UNCHANGED repo
    \/ gitFetch(r, "int fetch", "int merge", "restore")
    \/ /\ pc[r] = "int merge"
       /\ \/ /\ upstream.seen \subseteq refs[run[r].source]
             /\ does(r, "int branch")
             /\ UNCHANGED repo
          \/ /\ ~(upstream.seen \subseteq refs[run[r].source])
             /\ ~unmerged /\ ~Clash(refs[head] \cup work, upstream.seen)
             /\ refs' = [refs EXCEPT ![head] = @ \cup upstream.seen]
             /\ does(r, "int branch")
             /\ UNCHANGED <<upstream, head, work, unmerged, stash>>
          \/ /\ ~(upstream.seen \subseteq refs[run[r].source])
             /\ unmerged \/ Clash(refs[head] \cup work, upstream.seen)
             /\ unmerged' = ~Clash(work, upstream.seen)
             /\ does(r, "int abort")
             /\ UNCHANGED <<refs, upstream, head, work, stash>>
          \/ breaks(r, "restore")

abortCandidateMerge(r) ==
    /\ pc[r] = "int abort"
    /\ \/ /\ unmerged' = FALSE
          /\ does(r, "restore")
          /\ UNCHANGED <<refs, upstream, head, work, stash>>
       \/ breaks(r, "failed")

restoreSource(r) == gitSwitchBranch(r, "restore", run[r].source, "failed")

\* git branch -d: not what is not merged, and not what is checked out.
gitDeleteBranch(r, from, branch, next) ==
    /\ pc[r] = from
    /\ \/ /\ branch # head /\ refs[branch] \subseteq refs[head]
          /\ refs' = [refs EXCEPT ![branch] = {}]
          /\ does(r, next)
          /\ UNCHANGED <<upstream, head, work, unmerged, stash>>
       \/ /\ branch = head \/ ~(refs[branch] \subseteq refs[head])
          /\ does(r, "failed") /\ UNCHANGED repo
       \/ breaks(r, "failed")

\* Mutant: the source branch is moved before the run branch exists.
sourceFirst(r) ==
    \/ gitSwitchBranch(r, "int branch", run[r].source, "int ff")
    \/ gitFastForward(r, "int ff", refs[Candidate(r)], "int source")
    \/ gitCreateBranchAt(r, "int source", RunBranch(r), Candidate(r), "int run")
    \/ gitSwitchBranch(r, "int run", RunBranch(r), "int drop")
    \/ gitDeleteBranch(r, "int drop", Candidate(r), "running")

\* The run branch is created at the candidate, the source branch moved to it.
applyCandidate(r) ==
    \/ gitCreateBranchAt(r, "int branch", RunBranch(r), Candidate(r), "int source")
    \/ gitSwitchBranch(r, "int source", run[r].source, "int ff")
    \/ gitFastForward(r, "int ff", refs[Candidate(r)], "int run")
    \/ gitSwitchBranch(r, "int run", RunBranch(r), "int drop")
    \/ gitDeleteBranch(r, "int drop", Candidate(r), "running")

gitPrepareIntegratedRun(r) ==
    \/ inspect(r, "integrate", "int create", "int create")
    \/ gitCreateBranch(r, "int create", Candidate(r), "int checkpoint")
    \/ IF run[r].dirty THEN gitCheckpoint(r, "int checkpoint", "int upstream")
       ELSE /\ pc[r] = "int checkpoint"
            /\ does(r, "int upstream") /\ UNCHANGED repo
    \/ gitMergeTrackedUpstream(r)
    \/ abortCandidateMerge(r)
    \/ restoreSource(r)
    \/ applyCandidate(r)

(***************************************************************************)
(* The run itself, its cleanup and what happens around it.                 *)
(***************************************************************************)
edit(r) ==
    /\ pc[r] = "running"
    /\ \E made \in SUBSET {Edit(r)} :
        /\ ~unmerged \/ made = {}
        /\ work' = work \cup made
    /\ does(r, "cleanup")
    /\ UNCHANGED <<refs, upstream, head, unmerged, stash>>

entriesOf(r) == {i \in DOMAIN stash : stash[i].by = r}

\* Mutants: the newest entry is popped; a worktree the run edited is left alone.
popNewest(r) ==
    /\ pc[r] = "cleanup"
    /\ \/ ~run[r].stashed /\ does(r, "ended") /\ UNCHANGED repo
       \/ /\ run[r].stashed /\ ~unmerged
          /\ \E i \in entriesOf(r) :
              /\ ~Clash(stash[i].holds, work \cup refs[head])
              /\ work' = work \cup stash[i].holds
          /\ stash' = Tail(stash)
          /\ does(r, "ended")
          /\ UNCHANGED <<refs, upstream, head, unmerged>>
skipEdited(r) ==
    /\ pc[r] = "cleanup"
    /\ \/ /\ ~run[r].stashed \/ work # {}
          /\ does(r, "ended") /\ UNCHANGED repo
       \/ /\ run[r].stashed /\ work = {} /\ ~unmerged
          /\ \E i \in entriesOf(r) : work' = stash[i].holds
          /\ does(r, "ended")
          /\ UNCHANGED <<refs, upstream, head, unmerged, stash>>

\* git stash apply of the object: the entry stays.  An application over clashing
\* changes is refused, or leaves the conflict in the worktree.
restoreAutostash(r) ==
    /\ pc[r] = "cleanup"
    /\ \/ /\ ~run[r].stashed
          /\ does(r, "ended")
          /\ UNCHANGED repo
       \/ /\ run[r].stashed /\ ~unmerged
          /\ \E i \in entriesOf(r) :
              /\ ~Clash(stash[i].holds, work \cup refs[head])
              /\ work' = work \cup stash[i].holds
          /\ does(r, "ended")
          /\ UNCHANGED <<refs, upstream, head, unmerged, stash>>
       \/ /\ run[r].stashed
          /\ \/ unmerged' = unmerged /\ failures < MaxFailures /\ failures' = failures + 1
             \/ /\ unmerged \/ \E i \in entriesOf(r) : Clash(stash[i].holds, work \cup refs[head])
                /\ unmerged' \in {unmerged, TRUE}
                /\ UNCHANGED failures
          /\ goto(r, "cleanup failed")
          /\ keepRun
          /\ UNCHANGED <<refs, upstream, head, work, stash>>

\* autostashRecoveryError writes the recovery artifact; the run ends failed.
finishPreflightCleanup(r) ==
    pc[r] = "cleanup failed" /\ reads(r, "recovery", TRUE, "failed")

\* refs/stash is shared with linked worktrees, where the operator works on.
stashAside ==
    /\ \A i \in DOMAIN stash : stash[i].by # "operator"
    /\ \E r \in Runs : pc[r] \notin {"new", "failed", "ended", "killed"} /\ run[r].policy = "autostash"
    /\ stash' = <<[by |-> "operator", holds |-> {Aside}]>> \o stash
    /\ UNCHANGED <<refs, upstream, head, work, unmerged, clashes, pc, run, failures, kills>>

kill(r) ==
    /\ pc[r] \notin {"new", "failed", "ended", "killed"}
    /\ kills < MaxKills
    /\ kills' = kills + 1
    /\ goto(r, "killed")
    /\ UNCHANGED <<repo, run, clashes, failures>>

preflight(r) ==
    \/ begin(r) \/ preflightAllowDirty(r) \/ preflightBranch(r) \/ preflightClean(r)
    \/ gitAutostash(r) \/ resolveStash(r)
    \/ gitPrepareSyncedRun(r) \/ gitPrepareIntegratedRun(r)

Next ==
    \/ \E r \in Runs : preflight(r) \/ edit(r) \/ restoreAutostash(r)
                       \/ finishPreflightCleanup(r) \/ kill(r)
    \/ stashAside

Spec == Init /\ [][Next]_vars

(***************************************************************************)
(* Properties                                                              *)
(***************************************************************************)
\* Every change the repository holds somewhere the operator can reach it.
InBranches == UNION {refs[b] : b \in Branches}
InStash == UNION {stash[i].holds : i \in DOMAIN stash}
Held == work \cup InBranches \cup InStash

\* No step of preflight or cleanup, of any interleaving of runs, failures and
\* kills, makes a change unreachable: neither the operator's, nor what they
\* stashed elsewhere, nor what a run edited (git_sync_preflight.go:10-12,
\* autostash.go:62-65).
NothingLost == [][Held \subseteq Held']_vars

\* A run whose preflight succeeded, undisturbed by another one, starts from a
\* baseline that is the whole starting point: a policy that isolates leaves
\* its own branch checked out, a policy that checkpoints carries the source,
\* the operator's changes and the fetched upstream in that branch, and only
\* git_safety=branch carries uncommitted changes into the run.
RunStartsWhole ==
    \A r \in Runs : pc[r] = "running" /\ run[r].alone =>
        /\ run[r].policy \in {"branch", "allow-dirty", "sync", "integrate"} => head = RunBranch(r)
        /\ run[r].policy # "branch" => work = {}
        /\ run[r].policy \in {"allow-dirty", "sync", "integrate"} =>
              run[r].found \cup run[r].foundWork \subseteq refs[head]
        /\ run[r].policy \in {"sync", "integrate"} =>
              /\ tracks(run[r].source) => upstream.seen \subseteq refs[head]
              /\ refs[run[r].source] \subseteq refs[head]

\* Undisturbed by another run, a preflight that fails or is killed leaves the
\* branch it began on as it was, or moved as a whole: to the upstream under
\* sync, to exactly what the run branch holds under integrate.
SourceMovesWhole ==
    \A r \in Runs : pc[r] \in {"failed", "killed"} /\ run[r].alone
                     /\ run[r].source # NoBranch /\ (\A q \in Runs \ {r} : pc[q] = "new") =>
        LET now == refs[run[r].source]
        IN \/ now = run[r].found
           \/ run[r].policy = "sync" /\ now = upstream.seen
           \/ run[r].policy = "integrate" /\ now = refs[RunBranch(r)]

\* When the last run ended, the operator finds what they had in the worktree
\* where it was checked out again, and when it did not, a stash entry the
\* recovery artifact names holds it.
WorkComesBack ==
    \A r \in Runs : run[r].alone /\ (\A q \in Runs \ {r} : pc[q] = "new") =>
        /\ pc[r] = "ended" => run[r].found \cup run[r].foundWork \subseteq refs[head] \cup work
        /\ pc[r] = "failed" /\ run[r].recovery =>
              \E i \in entriesOf(r) : run[r].foundWork \subseteq stash[i].holds

\* What the comment of gitPrepareIntegratedRun says: every conflict or setup
\* failure leaves the source branch unchanged (git_sync_preflight.go:62-64).
FailureLeavesSource ==
    \A r \in Runs : pc[r] = "failed" /\ run[r].alone /\ run[r].policy = "integrate"
                     /\ run[r].source # NoBranch /\ (\A q \in Runs \ {r} : pc[q] = "new") =>
        refs[run[r].source] = run[r].found
=============================================================================
