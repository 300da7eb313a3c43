------------------------------ MODULE RunLoop -------------------------------
(***************************************************************************)
(* The round loop of a reviewed run and how resume re-enters it:           *)
(* runner_part04.go, runner_loop_helpers.go, recovery.go, resume.go,       *)
(* resume_execution.go and resume_phases.go.                               *)
(*                                                                         *)
(* One process at a time works on the run.  It can die, be cancelled or    *)
(* fail between any two steps, and another one resumes what it left.  Each *)
(* transition of state.json is one step here (RunState splits it).         *)
(*                                                                         *)
(* A diff is the content of the worktree relative to the baseline, and a   *)
(* content passes the configured tests or fails them with one identity.    *)
(* Calls that leave the phase and the hash of state.json alone (contract   *)
(* retries, reports) are not steps.  "passed" stands for degraded too.     *)
(* A review with minor findings only counts as "pass", as it does there.    *)
(* Quality gates and the findings ledger never block here.                 *)
(***************************************************************************)
EXTENDS Integers, FiniteSets

CONSTANTS Contents,    \* contents of the worktree
          Clean,       \* the content without a diff
          Failing,     \* the contents that fail the tests
          None,        \* no content, status or verdict: what is not there
          Fallback,    \* a fallback worker is configured
          MaxRounds,   \* opts.Rounds
          MaxProcesses \* bound: processes that work on the run

ASSUME ContentsAssumption == Clean \in Contents /\ Failing \subseteq Contents /\ None \notin Contents
ASSUME FallbackAssumption == Fallback \in BOOLEAN
ASSUME BoundsAssumption == MaxRounds \in Nat \ {0} /\ MaxProcesses \in Nat \ {0}

VARIABLES mode, allowDirty, \* the options the run was started with
          tree,       \* the worktree
          state,      \* state.json
          final,      \* final.json
          patches,    \* diff-round-N.patch, per round
          recoveries, \* the rounds with a recovery-round-N.json
          pc,         \* where the process is; "down" when there is none
          round,      \* its round
          resumedAt,  \* the round it resumed; 0 in the process that started the run
          skipTests,  \* it resumed a review
          before,     \* the worktree before the call of the worker
          verdict,    \* of the last review
          run,        \* the FinalRun in memory
          approved,   \* the content that a reviewer passed last
          delivered,  \* the content that a worker delivered last
          partial,    \* what became of the edits of a call that did not return
          touched,    \* somebody else changed the worktree
          diverged,   \* a resume was refused for changed inputs
          processes

options == <<mode, allowDirty>>
disk    == <<state, final, patches, recoveries>>
memory  == <<pc, round, resumedAt, skipTests, before, verdict, run>>
ghosts  == <<approved, delivered, partial, touched, diverged>>
vars == <<options, tree, disk, memory, ghosts, processes>>

Rounds == 1..(MaxRounds + 1)
Phases == {"planning", "implementing", "testing", "reviewing", "repairing"}
Statuses == {"running", "passed", "blocked", "failed", "cancelled", "quarantined"}
ASSUME NoneAssumption == None \notin Statuses
Hashes == Contents \cup {None}

\* path is the round of LatestDiffPath, 0 when it is empty.
RunStateRecord == [status : Statuses, phase : Phases, round : 0..MaxRounds,
                   path : {0} \cup Rounds, hash : Hashes]

\* baseline and tested: the contents that BaselineTest and the last of Tests ran on.
FinalRun == [baseline : Hashes, tested : Hashes, path : {0} \cup Rounds, hash : Hashes,
             rounds : 0..MaxRounds]
EmptyRun == [baseline |-> None, tested |-> None, path |-> 0, hash |-> None, rounds |-> 0]

Resumed == resumedAt # 0

\* diffHashForState
PatchHash(path) == IF path = 0 THEN None ELSE patches[path]

Transition(phase, r, path) ==
    [status |-> "running", phase |-> phase, round |-> r, path |-> path,
     hash |-> PatchHash(path)]

\* recordInvocationState: the phase of the call and the hash of the live diff.
Invoked(phase) == [state EXCEPT !.status = "running", !.phase = phase, !.hash = tree]

\* compareRegression against the baseline test of the run.
NewFailures(r) == r.tested \in Failing /\ r.baseline \notin Failing

Init ==
    /\ mode \in {"supervisor", "relay"} /\ allowDirty \in BOOLEAN
    /\ tree = Clean
    /\ state = [status |-> "running", phase |-> "planning", round |-> 0, path |-> 0,
                hash |-> None]
    /\ final = [status |-> None, run |-> EmptyRun]
    /\ patches = [r \in Rounds |-> None]
    /\ recoveries = {}
    /\ pc = "baseline" /\ round = 0 /\ resumedAt = 0 /\ skipTests = FALSE
    /\ before = Clean /\ verdict = None /\ run = EmptyRun
    /\ approved = None /\ delivered = None /\ partial = "none"
    /\ touched = FALSE /\ diverged = FALSE
    /\ processes = 1

-----------------------------------------------------------------------------
(* Planning *)

runBaselineTest ==
    /\ pc = "baseline"
    /\ run' = [run EXCEPT !.baseline = tree]
    /\ pc' = "planning"
    /\ UNCHANGED <<options, tree, disk, round, resumedAt, skipTests, before, verdict,
                   ghosts, processes>>

\* Scout, brief, work plan and instructions, or none of them.  A reply that has
\* to be repaired is another call, of which the description says "repair".
plan ==
    /\ pc = "planning"
    /\ \/ \E phase \in {"planning", "repairing"} : state' = Invoked(phase)
       \/ UNCHANGED state
    /\ pc' = IF Resumed THEN "worker" ELSE "round"
    /\ round' = IF Resumed THEN round ELSE 1
    /\ UNCHANGED <<options, tree, final, patches, recoveries, resumedAt, skipTests, before,
                   verdict, run, ghosts, processes>>

-----------------------------------------------------------------------------
(* The worker *)

beginRound ==
    /\ pc = "round"
    /\ state' = Transition("implementing", round, run.path)
    /\ pc' = "worker"
    /\ UNCHANGED <<options, tree, final, patches, recoveries, round, resumedAt, skipTests,
                   before, verdict, run, ghosts, processes>>

\* The calls of a worker: the first one, the one of a fallback that starts from
\* an unchanged worktree, and the one that continues partial work.
calls == [worker |-> [phase |-> "implementing", to |-> "editing"],
          fallback |-> [phase |-> "implementing", to |-> "retrying"],
          continuation |-> [phase |-> "repairing", to |-> "continuing"]]

callWorker ==
    /\ pc \in DOMAIN calls
    /\ state' = Invoked(calls[pc].phase)
    /\ pc' = calls[pc].to
    /\ before' = IF pc = "worker" THEN tree ELSE before
    /\ UNCHANGED <<options, tree, final, patches, recoveries, round, resumedAt, skipTests,
                   verdict, run, ghosts, processes>>

WorkerRuns == pc \in {"editing", "retrying", "continuing"}

workerEdits(content) ==
    /\ WorkerRuns
    /\ tree' = content
    /\ UNCHANGED <<options, disk, memory, ghosts, processes>>

workerDelivers ==
    /\ WorkerRuns
    /\ delivered' = tree
    /\ pc' = "capture" /\ before' = Clean
    /\ UNCHANGED <<options, tree, disk, round, resumedAt, skipTests, verdict, run,
                   approved, partial, touched, diverged, processes>>

-----------------------------------------------------------------------------
(* recoverEditorFailure: the worker failed, or was interrupted earlier *)

retryZeroDeltaEditorWithFallback ==
    /\ pc \in {"editing", "interrupted"}
    /\ tree = before
    /\ Fallback
    /\ recoveries' = recoveries \cup {round}
    /\ pc' = "fallback"
    /\ UNCHANGED <<options, tree, state, final, patches, round, resumedAt, skipTests, before,
                   verdict, run, ghosts, processes>>

\* Mutant: the state still names the diff of the round before.
checkpointKeepsPath ==
    /\ pc \in {"editing", "interrupted"}
    /\ tree # before
    /\ state' = Transition("repairing", round, run.path)
    /\ partial' = "undecided"
    /\ pc' = "checkpointed"
    /\ UNCHANGED <<options, tree, final, patches, recoveries, round, resumedAt, skipTests,
                   before, verdict, run, approved, delivered, touched, diverged, processes>>

checkpoint ==
    /\ pc \in {"editing", "interrupted"}
    /\ tree # before
    /\ state' = Transition("repairing", round, 0)
    /\ partial' = "undecided"
    /\ pc' = "checkpointed"
    /\ UNCHANGED <<options, tree, final, patches, recoveries, round, resumedAt, skipTests,
                   before, verdict, run, approved, delivered, touched, diverged, processes>>

capturePartial ==
    /\ pc = "checkpointed"
    /\ patches' = [patches EXCEPT ![round] = tree]
    /\ pc' = "arbiter"
    /\ UNCHANGED <<options, tree, state, final, recoveries, round, resumedAt, skipTests,
                   before, verdict, run, ghosts, processes>>

callArbiter ==
    /\ pc = "arbiter"
    /\ state' = Invoked("repairing")
    /\ pc' = "deciding"
    /\ UNCHANGED <<options, tree, final, patches, recoveries, round, resumedAt, skipTests,
                   before, verdict, run, ghosts, processes>>

\* The decisions repair and continue_with_fallback.
continuePartial ==
    /\ pc = "deciding"
    /\ recoveries' = recoveries \cup {round}
    /\ partial' = "none"
    /\ pc' = "continuation"
    /\ UNCHANGED <<options, tree, state, final, patches, round, resumedAt, skipTests, before,
                   verdict, run, approved, delivered, touched, diverged, processes>>

\* Nobody is asked about a scope violation.
quarantinePartial ==
    /\ pc \in {"arbiter", "deciding"}
    /\ recoveries' = recoveries \cup {round}
    /\ pc' = "quarantine"
    /\ UNCHANGED <<options, tree, state, final, patches, round, resumedAt, skipTests, before,
                   verdict, run, ghosts, processes>>

\* The second worker fails as well; with an unchanged worktree the run just fails.
secondWorkerFails ==
    /\ \/ pc = "continuing"
       \/ pc = "retrying" /\ tree # before
    /\ partial' = "undecided"
    /\ pc' = "quarantine"
    /\ UNCHANGED <<options, tree, disk, round, resumedAt, skipTests, before, verdict, run,
                   approved, delivered, touched, diverged, processes>>

-----------------------------------------------------------------------------
(* Capture, tests and review of a round *)

captureDiffArtifact ==
    /\ pc = "capture"
    /\ patches' = [patches EXCEPT ![round] = tree]
    /\ run' = [run EXCEPT !.path = round, !.hash = tree]
    /\ pc' = "captured"
    /\ UNCHANGED <<options, tree, state, final, recoveries, round, resumedAt, skipTests,
                   before, verdict, ghosts, processes>>

AfterTests == IF mode = "relay" THEN "scout" ELSE "review"

\* A resumed process records the testing phase at once, even to skip it.
recordCapture ==
    /\ pc = "captured"
    /\ IF Resumed
       THEN /\ state' = Transition("testing", round, run.path)
            /\ pc' = IF skipTests THEN AfterTests ELSE "testing"
       ELSE /\ state' = Transition("implementing", round, run.path)
            /\ pc' = "tests"
    /\ UNCHANGED <<options, tree, final, patches, recoveries, round, resumedAt, skipTests,
                   before, verdict, run, ghosts, processes>>

beginTests ==
    /\ pc = "tests"
    /\ state' = Transition("testing", round, run.path)
    /\ pc' = "testing"
    /\ UNCHANGED <<options, tree, final, patches, recoveries, round, resumedAt, skipTests,
                   before, verdict, run, ghosts, processes>>

\* Mutant: the result of the first test run is kept.
keepFirstTest ==
    /\ pc = "testing"
    /\ run' = [run EXCEPT !.tested = IF @ = None THEN tree ELSE @]
    /\ pc' = AfterTests
    /\ UNCHANGED <<options, tree, disk, round, resumedAt, skipTests, before, verdict,
                   ghosts, processes>>

runTests ==
    /\ pc = "testing"
    /\ run' = [run EXCEPT !.tested = tree]
    /\ pc' = AfterTests
    /\ UNCHANGED <<options, tree, disk, round, resumedAt, skipTests, before, verdict,
                   ghosts, processes>>

\* The scout advises only; a failure of its own degrades the run.
runPostScout ==
    /\ pc = "scout"
    /\ \/ \E phase \in {"planning", "repairing"} : state' = Invoked(phase)
       \/ UNCHANGED state  \* no scout is available
    /\ pc' = "review"
    /\ UNCHANGED <<options, tree, final, patches, recoveries, round, resumedAt, skipTests,
                   before, verdict, run, ghosts, processes>>

callReviewer ==
    /\ pc = "review"
    /\ state' = [Transition("reviewing", round, run.path) EXCEPT !.hash = tree]
    /\ pc' = "reviewing"
    /\ UNCHANGED <<options, tree, final, patches, recoveries, round, resumedAt, skipTests,
                   before, verdict, run, ghosts, processes>>

repairReviewJSON ==
    /\ pc = "reviewing"
    /\ state' = Invoked("repairing")
    /\ UNCHANGED <<options, tree, final, patches, recoveries, memory, ghosts, processes>>

reviewCompleted(v) ==
    /\ pc = "reviewing"
    /\ verdict' = v
    /\ run' = [run EXCEPT !.rounds = round]
    /\ approved' = IF v = "pass" THEN tree ELSE approved
    /\ state' = Transition("reviewing", round, run.path)
    /\ pc' = "reviewed"
    /\ UNCHANGED <<options, tree, final, patches, recoveries, round, resumedAt, skipTests,
                   before, delivered, partial, touched, diverged, processes>>

\* Changes are requested, or another package of the plan is left.
nextRound ==
    /\ pc = "reviewed"
    /\ round < MaxRounds
    /\ verdict = "changes" \/ (mode = "supervisor" /\ ~ Resumed)
    /\ round' = round + 1
    /\ IF Resumed
       THEN /\ state' = Transition("repairing", round + 1, run.path)
            /\ pc' = "worker"
       ELSE UNCHANGED state /\ pc' = "round"
    /\ skipTests' = FALSE
    /\ UNCHANGED <<options, tree, final, patches, recoveries, resumedAt, before, verdict,
                   run, ghosts, processes>>

-----------------------------------------------------------------------------
(* The end of a process *)

\* The process is gone, with what it held in memory.
Down ==
    /\ pc' = "down" /\ round' = 0 /\ resumedAt' = 0 /\ skipTests' = FALSE
    /\ before' = Clean /\ verdict' = None /\ run' = EmptyRun

\* persistTerminalRun: the state and the result.
Persist(status, phase, r, result) ==
    /\ state' = [status |-> status, phase |-> phase, round |-> r, path |-> result.path,
                 hash |-> result.hash]
    /\ final' = [status |-> status, run |-> result]

\* Mutant: the last review is not looked at.
testsDecide == IF NewFailures(run) THEN "failed" ELSE "passed"

\* computeExitCode and finalizeRunState
Outcome ==
    CASE NewFailures(run) -> IF verdict = "changes" THEN "blocked" ELSE "failed"
      [] verdict = "changes" -> "blocked"
      [] OTHER -> "passed"

finalizeReviewedRun ==
    /\ pc = "reviewed"
    /\ verdict = "pass" \/ round = MaxRounds
    /\ Persist(Outcome, "reviewing", run.rounds, run)
    /\ Down
    /\ UNCHANGED <<options, tree, patches, recoveries, ghosts, processes>>

\* A failed run keeps its phase; its round is the last one that was completed,
\* or the one that was resumed.
PersistFailure(status, result) ==
    Persist(status, state.phase, IF Resumed THEN resumedAt ELSE result.rounds, result)

\* What a process that ends leaves in the worktree: the edits of a call that did not
\* return, if it made any since state.json recorded the diff before it, are
\* undecided, and what was undecided stays so.  A clean worktree holds no work.
LeftBehind ==
    partial' = IF tree = Clean THEN "none"
               ELSE IF WorkerRuns /\ tree # state.hash THEN "undecided"
               ELSE partial

\* The deferred handlers.  That of the first process quarantines the run for an
\* integrity violation as well.
fail(status) ==
    /\ pc # "down"
    /\ pc = "quarantine" => status = "quarantined"
    /\ (status = "quarantined" /\ Resumed) => pc = "quarantine"
    /\ PersistFailure(status, run)
    /\ Down
    /\ LeftBehind
    /\ UNCHANGED <<options, tree, patches, recoveries, approved, delivered, touched, diverged,
                   processes>>

\* The first process still captures the diff; one that resumed does not.
cancel ==
    /\ pc # "down"
    /\ IF Resumed
       THEN UNCHANGED patches /\ PersistFailure("cancelled", run)
       ELSE LET r == run.rounds + 1
            IN  /\ patches' = [patches EXCEPT ![r] = tree]
                /\ PersistFailure("cancelled", [run EXCEPT !.path = r, !.hash = tree])
    /\ Down
    /\ LeftBehind
    /\ UNCHANGED <<options, tree, recoveries, approved, delivered, touched, diverged,
                   processes>>

crash ==
    /\ pc # "down"
    /\ Down
    /\ LeftBehind
    /\ UNCHANGED <<options, tree, disk, approved, delivered, touched, diverged, processes>>

-----------------------------------------------------------------------------
(* resumeAtRunDir and resumeExistingRun *)

\* Somebody works in the repository while no process does (bound: once).
outsideEdit(content) ==
    /\ pc = "down" /\ processes < MaxProcesses
    /\ ~ touched /\ content # tree
    /\ tree' = content
    /\ touched' = TRUE
    /\ partial' = IF content = Clean THEN "none" ELSE partial
    /\ UNCHANGED <<options, disk, memory, approved, delivered, diverged, processes>>

Editing == {"implementing", "repairing"}

Verified ==
    /\ state.hash \in {None, tree} \/ state.phase \in Editing
    /\ state.path # 0 => state.hash \in {None, patches[state.path]}

Resuming ==
    /\ pc = "down" /\ processes < MaxProcesses
    /\ final.status # "passed"
    /\ processes' = processes + 1
    /\ UNCHANGED <<options, tree, patches, recoveries, approved, delivered, touched>>

quarantineResume ==
    /\ Resuming
    /\ ~ Verified
    /\ state' = [state EXCEPT !.status = "quarantined"]
    /\ UNCHANGED <<final, memory, partial, diverged>>

ResumedRound == IF state.round > 1 THEN state.round ELSE 1

\* Mutant: the baseline test is run again whenever its result is missing.
refuseChangedInputs == ~ allowDirty

\* Before the first transition: the frozen inputs, of which resume always sets
\* AllowDirty, and the evidence of the baseline test, which only final.json has.
ResumeRefused == ~ allowDirty \/ (final.run.baseline = None /\ state.phase # "planning")

refuseResume ==
    /\ Resuming
    /\ Verified
    /\ ResumeRefused
    /\ diverged' = (diverged \/ ~ allowDirty)
    /\ Persist(IF allowDirty THEN "quarantined" ELSE "failed", state.phase, ResumedRound,
               final.run)
    /\ UNCHANGED <<memory, partial>>

\* Mutant: the hash that was recorded is not compared with the worktree.
editAgain ==
    CASE state.phase = "planning" -> "planning"
      [] state.phase \in {"testing", "reviewing"} -> "capture"
      [] OTHER -> "worker"

\* state.json of an editing phase names the worktree's content as its diff.
Recorded == state.phase \in Editing /\ state.hash = tree

\* Where the first phase of the resumed round begins.  An interrupted editing
\* phase is one whose recorded hash is not that of the worktree, and a round
\* has one recovery decision at most when it is resumed.
EntryPoint ==
    CASE state.phase = "planning" -> "planning"
      [] state.phase \in {"testing", "reviewing"} -> "capture"
      [] Recorded -> "worker"
      [] OTHER -> IF ResumedRound \in recoveries THEN "quarantine" ELSE "interrupted"

resume ==
    /\ Resuming
    /\ Verified
    /\ ~ ResumeRefused
    /\ round' = ResumedRound /\ resumedAt' = ResumedRound
    /\ skipTests' = (state.phase = "reviewing")
    /\ verdict' = None /\ before' = Clean
    /\ run' = [final.run EXCEPT !.baseline = IF @ = None THEN tree ELSE @]
    /\ state' = Transition(state.phase, ResumedRound, state.path)
    /\ pc' = EntryPoint
    /\ partial' = IF Recorded /\ partial = "undecided" THEN "recorded" ELSE partial
    /\ UNCHANGED <<final, diverged>>

-----------------------------------------------------------------------------
Progress ==
    \/ runBaselineTest \/ plan \/ beginRound \/ callWorker \/ workerDelivers
    \/ retryZeroDeltaEditorWithFallback \/ checkpoint \/ capturePartial \/ callArbiter
    \/ continuePartial \/ quarantinePartial \/ secondWorkerFails
    \/ captureDiffArtifact \/ recordCapture \/ beginTests \/ runTests \/ runPostScout
    \/ callReviewer \/ \E v \in {"pass", "changes"} : reviewCompleted(v)
    \/ nextRound \/ finalizeReviewedRun
    \/ \E status \in {"failed", "quarantined"} : fail(status)

Next ==
    \/ Progress
    \/ \E content \in Contents : workerEdits(content) \/ outsideEdit(content)
    \/ repairReviewJSON \/ cancel \/ crash
    \/ quarantineResume \/ refuseResume \/ resume

Spec == Init /\ [][Next]_vars

-----------------------------------------------------------------------------
(* Properties *)

PCs == {"baseline", "planning", "round", "worker", "editing", "interrupted", "fallback",
        "retrying", "checkpointed", "arbiter", "deciding", "continuation", "continuing",
        "capture", "captured", "tests", "testing", "scout", "review", "reviewing",
        "reviewed", "quarantine", "down"}

\* Every variable has the values the Go types and the round limit allow: in
\* particular no round counter passes MaxRounds, through any number of resumes.
TypeOK ==
    /\ mode \in {"supervisor", "relay"} /\ allowDirty \in BOOLEAN
    /\ tree \in Contents
    /\ state \in RunStateRecord
    /\ final \in [status : (Statuses \ {"running"}) \cup {None}, run : FinalRun]
    /\ patches \in [Rounds -> Hashes]
    /\ recoveries \subseteq 1..MaxRounds
    /\ pc \in PCs
    /\ round \in 0..MaxRounds /\ resumedAt \in 0..MaxRounds /\ skipTests \in BOOLEAN
    /\ before \in Contents /\ verdict \in {None, "pass", "changes"}
    /\ run \in FinalRun
    /\ approved \in Hashes /\ delivered \in Hashes
    /\ partial \in {"none", "undecided", "recorded"}
    /\ touched \in BOOLEAN /\ diverged \in BOOLEAN
    /\ processes \in 1..MaxProcesses

Passed == final.status = "passed"

\* The diff fails tests that the baseline passed.
Regressed == final.run.hash \in Failing /\ final.run.baseline \notin Failing

\* The diff of a run that passed is one that a reviewer passed, however many
\* rounds, failures and processes lie between that review and the result.
PassedWasReviewed == Passed => final.run.hash = approved

\* The diff of a run that passed was handed over by a worker that reported
\* success, if nobody else worked in the repository: an edit that was cut short
\* never passes by itself, wherever the run is resumed.
PassedWasDelivered == (Passed /\ ~ touched) => final.run.hash = delivered

\* In whatever process and round a run passes, if that process did not skip the
\* tests of the round, its diff has no failure that the baseline did not have: the
\* results of earlier rounds and processes never stand in for those of this one.
RegressionsBlock ==
    [][(~ Passed /\ Passed' /\ ~ skipTests) => ~ Regressed']_vars

\* When a run stops outside the editing phases, the diff that state.json names is
\* on disk with the recorded hash: resume does not quarantine the run for
\* evidence that a later capture of the run itself replaced.
EvidenceIsKept ==
    (processes = 1 /\ state.path # 0) => state.hash = patches[state.path]

\* What a worker left in the worktree when its call failed, was cancelled or died
\* is not captured, tested or reviewed before a recovery decision let another worker
\* continue it, in that process or in any that resumes the run, and whoever else
\* edits meanwhile.  There is one exception, which the code makes: a process that
\* resumes an editing phase of which state.json names the very content of the
\* worktree hands it to the worker as it is ("recorded"): a cancellation
\* captured it, the process died in the call of the recovery itself, which
\* records the live diff, or the edits went back to the last captured diff.
UnrecordedWorkIsDecided == pc = "captured" => partial # "undecided"

\* Without a scout, the baseline test never runs on a worker's edits: the
\* failures they introduce cannot become part of the baseline.
SupervisorBaselineIsPristine ==
    (mode = "supervisor" /\ ~ touched) => final.run.baseline \in {None, Clean}

-----------------------------------------------------------------------------
(* What the documentation says *)

\* README.md: regressions "remain blocking even when tests are green".
RegressionsStayBlocking == Passed => ~ Regressed

\* README.md: partial work of a cancelled invocation "enters a supervisor
\* recovery decision": the exception above as well.
PartialWorkIsDecided == pc = "captured" => partial = "none"

\* README.md: resume "verifies ... artifact hashes, the final journal
\* transition, current diff" before it continues.
ResumeVerifiesDiff == Passed => final.run.hash = delivered

\* docs/DETERMINISTIC_REPLAY.md: an intact run is resumed "normally".
ReplayableRunsResume == ~ diverged

=============================================================================
