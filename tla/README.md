# TLA+ models of tagteam

tagteam runs coding agents (workers, reviewers, scouts, supervisors) as subprocesses over
a Git repository and keeps a durable record of every run, so that a run can be audited,
replayed and resumed. What is hard about it is what this directory is about: a run is a
sequence of durable writes by processes that may die, be cancelled or fail between any two
of them, around agents whose effects cannot be undone.

The models are translated from the Go sources under `internal/tagteam`. A module models
one component: its state as VARIABLES, one action per operation, the source's names where
TLA+ allows them. An `MC` module gives its constants values for TLC, a `_proofs` module
holds the theorems TLAPS checks for every value of the constants. `PROJECT.json` lists
the runs, the theorems, the lines each definition stands for, and the hazards.

| Module | Models | Checked by | Proved in |
| --- | --- | --- | --- |
| `OperationJournal` | `replay_contract.go`, `runAdapter` and the journal | `OperationJournal` | `OperationJournal_proofs` |
| `AtLeastOnce` | the promise the journal implements | `OperationJournal` | `OperationJournal_proofs` |
| `RunState` | `state_machine.go`, `run_persistence.go`, the state side of `resume.go` | `RunState` | `RunState_proofs` |
| `RunLoop` | the loop of a reviewed run, its recovery, and resume | `RunLoop`, `RunLoopReplay` | `RunLoop_proofs` |
| `ReviewRounds` | gates, findings, review, outcome, transfer | `Rounds` | `Conversations_proofs` |
| `WorkPlans` | topology, scout, packages, scopes, and what a resume finds of them | `Choices`, `WorkPlansResume` | `Preparation_proofs` |
| `Routing`, `Options` | `routing_*.go`; `config*.go` and the team of a run | `Choices` | `Preparation_proofs` |
| `Invocation` | `runAdapter` around one agent process | `Invocation` | `Invocation_proofs` |
| `AcpSession` | `acp_stdio.go`, `adapters_mistral_acp.go` | `Conversations` | `Conversations_proofs` |
| `GitPreflight` | `git_sync_preflight.go`, `autostash.go`, `preflight` | `GitPreflight` | `Preparation_proofs` |
| `PanelBudget`, `RunLock` | `panel_budget.go`; `run_lock.go`, `invocation_lock.go` | `Locks` | `Locks_proofs` |
| `RunOwnership` | the promise `run.lock` implements | `Locks` | `Locks_proofs` |
| `ControlRuntime` | `control_*.go`, `active_run.go` | `ControlRuntime` | `ControlRuntime_proofs` |
| `McpServer` | `mcp_daemon.go`, `mcp_stdio.go` | `Conversations` | `Conversations_proofs` |
| `Steward` | `steward.go`, `steward_model.go`, `control_steward.go` | `Conversations` | `Conversations_proofs` |

`MCLocks`, `MCChoices` and `MCConversations` check several components in one run. These
share no state, so a behaviour exercises one of them while the others are over; each has
its own initial condition, next-state relation and fairness. `Preparation_proofs` and
`Conversations_proofs` likewise hold the proofs of several components, one section each.

## Inventory

### The parts of a run

**Run loop** (`runner_part04.go`, `runner_loop_helpers.go`; solo and review-only loops in
`runner_part02.go`, `runner_part03.go`). One process freezes the inputs, tests the
baseline, plans, and then repeats rounds of edit, capture, test, optional post-scout and
review until a review passes or the round limit is reached. State: the worktree, the
`FinalRun` in memory, the round, the artifacts of each round. It calls agents through
`runAdapter`, writes `state.json` before each phase, and ends in a deferred handler
when anything fails. Hard: the handler decides from partly filled memory what the run
claims. Correct when a run that claims success has a diff that was delivered, tested and
reviewed as it is.

**Editor recovery** (`recovery.go`). A worker that failed with an unchanged worktree is
replaced once; changed work is checkpointed, captured, tested and put to a supervisor,
who lets another worker continue it or quarantines it. Correct when no partial work goes
on without a decision; the code keeps that for work that `state.json` does not record.

**Resume** (`resume.go`, `resume_execution.go`, `resume_phases.go`). Another process
reads `state.json`, `final.json`, `events.jsonl` and the round artifacts, compares them
with the worktree and continues the first phase that was not completed. Hard: the two
files were written by different processes at different times, and each of them may be
behind. Correct when it continues from what was left and never takes interrupted work for
finished work.

**Run state machine and terminal persistence** (`state_machine.go`,
`run_persistence.go`). A transition is appended to `events.jsonl`, then replaces
`state.json`; a terminal result is a transition, `final.json` and `latest.json`, with a
second pass that records a persistence failure. Hard: each write may fail, with or without
effect. Correct when the artifacts never contradict what a caller was told.

**Operation journal** (`replay_contract.go`, the boundary in `runner_part06.go`). Every
adapter call is prepared, dispatched and resolved in `operations/<sequence>.json`, under
the inputs frozen in `execution-snapshot.json`. Hard: an agent acts outside the process,
also after the process has died. Correct when no effect is unrecorded, no duplicate is
silent and no answer is made up.

**Panel budget ledger** (`panel_budget.go`). Panels reserve a cumulative and a concurrent
budget under one mutex. Nothing in production admits a panel yet. Correct when the
counters are what the reservations say, and admission is a promise.

**Run lock and invocation lock** (`run_lock.go`, `invocation_lock.go`). A file with a pid
that a resumer may reclaim, and a kernel lock with a bounded wait. Hard: judging, removing,
creating and writing the file are separate steps. Correct when one live process owns a run
and every wait ends.

**Active-run pointer** (`active_run.go`). `active.json` names the run of a repository; it
is read, compared and rewritten by runs that begin and end, without a lock of its own.

**Worktree protection** (`autostash.go`, `git_sync_preflight.go`, `snapshot.go`,
`integrity.go`, `live_scope_guard.go`, `deterministic_diff.go`). Before the models work,
preflight stashes, checkpoints, rebases or merges under one of six `git_safety` policies,
one git command at a time; at the end the stash is restored. Around every call there are
snapshots of the worktree and of the host's artifacts. Hard: every command may fail, a
process may be killed between two, several runs share refs and stash, and an agent may do
anything while it is looked at. Correct when no change of the operator becomes unreachable
and what a call reports is what happened.

**Gates, findings and outcome** (`quality_gates.go`, `findings.go`, `test_hardening.go`,
`run_state.go`, `transfer.go`). What blocks a run: open findings, gates, regressions
against the baseline; the exit code and status computed from them; the transfer of a
reviewed diff into another checkout. State: `findings.json`, which the operator's commands
write from another process. Correct when nothing blocking is closed by being forgotten.

**Invocation supervision** (`runner_part06.go`, `watchdog.go`, `progress.go`,
`process_unix.go`). One agent process with a deadline, a process group to kill, a monitor and
a guard in goroutines. Correct when the call returns, and returns the truth.

**Configuration and routing** (`config*.go`, `routing_*.go`). Built-in values, two files, the
environment and its file, a profile and flags merge into the options of a run; a job fills
the slots nobody pinned; roles are probed, replaced and lost. Correct when an operator's
choice wins, an untrusted repository decides nothing it must not, and a replacement shows.

**Orchestration and work plans** (`orchestration.go`, `work_plan_budget.go`, the scout in
`runner_part09.go` and `runner_part10.go`). Whether a run keeps its topology, what the scout
adds, how the task is cut into packages, what each may write. State:
`supervisor-work-plan.json`, the checklist, the current scope. Correct when scopes only get narrower and a package
counts as passed only after its review.

### Around a run

**Control plane** (`control_runtime.go`, `control_runtime_lifecycle.go`,
`control_start_runtime.go`, `control_resume_runtime.go`). Starts, resumes and cancels
runs on behalf of MCP clients. State: an approval ledger with nonces and expiry, the jobs
of this process, the active pointer. Hard: several runtimes share one ledger, and some
decisions are made before the lock is taken. Correct when an approval has one effect, starts
exclude each other and `Close` returns when no job is left.

**MCP server and daemon** (`mcp_stdio.go`, `mcp_daemon.go`). Connections that come and go
around one runtime. Correct when clients that hang do not keep the daemon from stopping.

**Run Steward** (`steward.go`, `steward_model.go`). An observer that may ask a model, with a
lease, a call budget and a cache; the model may answer late. Correct when every request is
answered in time with advice about the state it saw.

**ACP adapter** (`acp_stdio.go`, `adapters_mistral_acp.go`). JSON-RPC over two pipes that can
fill up. Correct when the turn ends and a success is the whole answer.

The remaining parts are the other **adapters** (command lines and output formats), the
**model catalog**, **retrieval and code intelligence**, the **artifact store** and
redaction, **types and prompts**, the **CLI** and the **TUI**. `PROJECT.json` says of each
component what is modelled and what is not.

### How they interact

A command or the control plane takes `run.lock` and calls the run loop, or resume.
Preflight comes first and its cleanup last. The loop calls agents through `runAdapter`,
which writes the journal, takes the invocation lock and, before the agent starts, records
the phase of the call and the hash of the live diff in `state.json`. So the journal and the
state machine describe the same call in two ways, and resume reads both.

Each module takes the others at the grain it needs. `RunLoop` takes one transition of
`state.json` as one step, `RunState` splits it into its writes. `RunLoop` takes a call as one
step up to its return; `Invocation` splits it into what the host does around the process,
`OperationJournal` into what is durable when, and both leave the agent free. `RunLoop` and
`RunState` assume one process at a time, which is what `RunLock` is about. `ReviewRounds` and
`WorkPlans` follow the same loop as `RunLoop` without its crashes: what a round decides, and
what it works on. A job of `ControlRuntime` is a run with any outcome. A call that the journal
refuses is `fail` in `RunLoop`.

## What is modelled

### OperationJournal and AtLeastOnce

`journal` is the sequence of `operations/*.json`, `snapshot` the frozen inputs, `running`
and `applied` the attempts whose agent may still act or has acted. `prepareOperation` is
the actions `prepareMismatch`, `prepareInDoubt`, `prepareRetry`, `prepareReplay` and
`prepareNew`, one per return of the function; `runAdapter` is `failBeforeDispatch`,
`dispatch`, `agentSucceeds`, `agentFails`, `commitOperation` and `failOperation`. Every
write may fail before or after it took effect, the process may die anywhere, and an
orphaned agent may act later. A request stands for the digest of its envelope.
`reconcileOperation` asks a provider what became of an operation in flight. Nothing but tests calls
it (`replay_contract.go:423`), so the provider is external: it is taken to answer for the operation
it is asked about. The key it is asked with is made of the run directory, the phase and the role
(`replay_contract.go:448`), so the operations of two rounds can share one; a provider would have to
tell them apart.

`AtLeastOnce` is the promise without files and states: one open request, the last; an
effect that happens twice is flagged first; success needs an effect. The refinement maps
the records to log entries.

Run `OperationJournal`: two requests, two sets of inputs, two operations of three
attempts, enough for a replayed, a retried, a failed and a diverging operation and for two
orphaned agents.

### RunState

`state`, `recorded`/`lastEvent`, `final` and `latest` are the four artifacts. `Persist`
begins a transition, `appendEvent` and `writeState` are its two writes, `writeFinal` the
pair that follows a terminal one, `secondPass` the attempt to mark a failure. `crash`,
`appendFails`, `writeStateFails`, `writeFinalFails` and `secondPassFails` are what goes
wrong. Resume is `quarantineResume`, `returnSaved`, `resume` or `resumeFails`. Run
`RunState` allows two failed writes and three processes: a failure in a first process, one
in its second pass, and a resume and another one after it.

### RunLoop

`tree` is the content of the worktree; `state`, `final`, `patches` (the diff of each
round) and `recoveries` are on disk; `run`, `round`, `pc`, `before` and `verdict` are in
memory and lost with the process. The actions follow the loop: `runBaselineTest`, `plan`,
`beginRound`, `callWorker`, `workerEdits` (any number, any content), `workerDelivers`,
`captureDiffArtifact`, `recordCapture`, `beginTests`, `runTests`, `runPostScout`,
`callReviewer`, `repairReviewJSON`, `reviewCompleted`, `nextRound`, `finalizeReviewedRun`;
recovery is `retryZeroDeltaEditorWithFallback`, `checkpoint`, `capturePartial`,
`callArbiter`, `continuePartial`, `quarantinePartial`, `secondWorkerFails`. `fail`,
`cancel` and `crash` end the process at any step. `outsideEdit` is somebody else in the
repository while no process runs. `quarantineResume`, `refuseResume` and `resume` are the
three outcomes of a resume; `EntryPoint` is where the last one continues.

The start up to the first transition is folded into `Init`: before it, resume has no
state to read. `approved`, `delivered`, `partial`, `touched` and `diverged` are history
variables that no action reads.

Run `RunLoop` has two rounds and three processes in both modes with any combination of
allow-dirty. The diff of a run that passes is one that a reviewer passed
(`PassedWasReviewed`); a tested round lets no regression pass (`RegressionsBlock`); no capture
of the first process replaces a diff that `state.json` names with another hash, so the run
does not quarantine itself (`EvidenceIsKept`); what a worker left when it failed, was
cancelled or died is captured only after a decision, unless a resume found that very content
in `state.json` (`UnrecordedWorkIsDecided`); the baseline test of a supervised run never sees a
worker's edits (`SupervisorBaselineIsPristine`). Two contents besides the clean one, of
which one fails the tests, tell a stale hash or a stale test result from a current one. Two
rounds tell the evidence of a round from that of the one before; three processes are a run,
a resume that fails or dies, and another one. `RunLoopReplay` shows that a run begun without
allow-dirty is refused by every resume.

### ReviewRounds

What a round decides, for the three commands `run`, `solo` and `review`. A worktree is a set
of changes, some of them host-owned, out of scope or breaking a test. `captureAndGate` is the
capture with the gates and the update of the ledger, `runTests` the tests and the comparison
with the baseline, `reviewReplies` a reply that survives validation and the cap on findings,
with its dispositions of earlier ones; `reviewInvalid` and `reviewerFails` are the retry, the
repair by the worker and the fallback. `ExitCode` is `computeExitCode`, `Status`
`finalizeRunState`, `fail` the deferred handlers. `operatorReads` and `operatorWrites` are
`findings defer` and `findings resolve`, which read and rewrite the ledger in another process.
`beginTransfer`, `compareSource`, `checkTarget`, `applyPatch` and `verifyTarget` are
`TransferRun`, with `outsideWork` going on in both checkouts between them. What the parser
recognises in the output of a test command is any member of `Namings` (`TestRun`): a failure may
go unnamed, and a test that passes may be named.

Run `Rounds`: `BlockersAreDecided` (every blocking finding of a gate or an accepted review was
decided about by a reviewer, a complete gate evaluation or the operator, when a run succeeds, but
for those whose entry a stale write of the operator undid: `takenBack`),
`TransferredWasReviewed` and `NamedFailuresBlock` (a success hides nothing that the parser
recognised). Two rounds, two identities of findings, one
command of the operator and at most two changes at a time are enough for a finding that is
raised, forgotten, downgraded, capped or deferred, and for a later round without a review.
The stronger `EveryBlockerIsDecided` and `NewFailuresBlock` are violated in the same run: see
below for both.

### WorkPlans

`resolveOrchestrationDecision` is the bilateral decision about the topology,
`runRelayScoutPhase` and `resumeScout` the scout under its policies, `slice` and
`sliceRefused` the work plan with its validation and its budget, `startRound`,
`editorDelivers` and `review` a round on a package, the last one with the choice of the next.
`disk` is what a resume finds (`supervisor-work-plan.json`, phase and round), `items` the
checklist. Scopes are sets of files and directories; `allowedScopeForRound` and the
intersection are translated as they are.

`ScopeIsNeverWidened` says that a path a round may write is allowed by the operator and by
the package, each where it names something. `PassedPackagesWereReviewed` relates the checklist
to what rounds worked on and reviews accepted, across continuation and resume. Run `Choices`
has the plans of two packages that a supervisor may write (with scopes inside, outside and
across the operator's, an escaping path, none at all), three malformed plans, three rounds
and one resume. `WorkPlansResume` shows that a resume works on a package that passed.

### Routing and Options

`Routing` is the selection as operators over agent cards: eligibility, ranking, diversity,
exclusions, fallbacks. `Options` is what leads to it and from it. `writeSetting` writes one key in one
of the layers or one flag; `LoadConfig` and `ResolveOptions` merge them as `config*.go` do, with
trust, the legacy modes, the profile and the job; `start` takes for each role a target whose
adapter can run; `reviewerLost` and `editorLost` replace a role or end the run. A configuration key stands for its class: a
command, a limit, a loss policy, a fallback list.

`ParsedPinsAreKept`: as long as nothing was replaced, a slot that a flag or the profile names
holds what they name, or what they name does not parse and the router filled the slot.
`AuditIsOfAnotherFamily`: a routed reviewer of a diverse job has a card of another family than
the editor, or the run says that it is degraded; only a pinned editor may be without a card, and
its adapter then stands for its family. `AuthorityIsTrusted`: an untrusted
repository decides no command, limit, loss policy or replacement. Run `Choices` writes any
three of forty settings, pins without a card and pins that do not parse among them; the conflicts
of the code are between two layers and a flag. The claims of the documentation, `PinsAreKept` and
`AuditIsIndependent`, are violated in the same run: see below.

### Invocation

`runAdapter` around one agent process. The host is `prepareCall`, `acquireSlot`, `dispatch`,
`processEnded`, `collect`, `unwind`, `validateInvocationIntegrity` and `settleOperation`;
`agentWrites` is anything the agent does to paths in and out of scope, to the index, to HEAD
(it may commit some of what it changed) and to the host's artifacts; `guardTick` and the two steps
of the monitor are goroutines; `timeout` and `killProcessTree` bound it all. A restoration that
fails may have written back any of the artifacts. A call is a worker's, a reader's or that of a
supervisor who writes a brief and may edit meanwhile without a contract or a scope
(`supervisorBriefRole`); a process or a direct adapter, serialized or not, journaled or not. Each
request of a worker has a contract and a scope (`guarded`), as the callers of `runAdapter` make it.

Run `Invocation`: `HostArtifactsSurvive`, `AnswersAreTrue`, `StatusIsFinal`, `CallReturns`.
Three writes let an agent change a path, change it back and touch something else, between two
looks of the guard; one failing operation of the host is enough to reach every early return.
`AnswersAreTrue` is about what `git status` shows: a path that the agent edited and committed is
shown as clean, and `ScopeIsObserved`, which speaks of its content, is violated (see below).

### GitPreflight

A commit is the set of changes reachable from it, a merge or a rebase is a union, and clashing
changes cannot be combined. Each action of a run is one git command with where the run goes
when it succeeds or fails (after a `rebase --abort` that fails, or that has nothing to abort, the
run ends where it is): the six policies of `preflight`, `gitAutostash`,
`gitPrepareSyncedRun`, `gitPrepareIntegratedRun` and their compensations, `edit` by the models,
`restoreAutostash` and `finishPreflightCleanup`. `stashAside` is a stash pushed from a linked
worktree, `kill` ends a run between two commands.

Run `GitPreflight`, two runs under any two policies, one command that fails for a reason of
its own and one kill: `NothingLost` (no step makes a change unreachable, through any
interleaving), `WorkComesBack` and `SourceMovesWhole` (about a run whose branch nobody else
worked on: two runs that overlap in one worktree do disturb each other, and only `NothingLost`
is claimed for them).

### PanelBudget, RunLock and RunOwnership

Run `Locks` checks both. `PanelBudget` has the four counters and the reservations of
`panel-budget.json`, what each caller holds, the members that really execute and those that
ended and wait to be released. Each operation is one step, as the code holds `panelBudgetMu`;
each write may fail, with or without effect, and a caller whose completion was reported as an
error tries it again, which may release the slot of another member (`doubted` counts those that
had taken effect). An allowance may be shorter than the members. With two panels both limits
bind. `LedgerBalances` is its property: the counters are what the reservations account for,
and what executes has a slot but for the doubted completions.

In `RunLock` each process looks at `run.lock`, removes it if it is stale and it may, creates
it, writes its pid, works, reads it back and removes it: one step each. The invocation lock is
a `flock` that a crash drops. A starter and two resumers of one run, another run that shares the
adapter, and two users of an approval ledger; each process makes one serialized call, since a
later one starts where the first did. A run has one starter (`StartersAssumption`): `createRunDir`
makes its directory with `os.Mkdir`. Nothing in the code keeps two resumers apart, and so they
are not: the history variable `raced` remembers those that were past reading one lock together.

`RunOwnership` is the promise without files: a directory has one owner, who takes it when it is
free, and gives it up or dies; a resumer reclaims it from the dead only. The owner of a directory
is whoever has the pid in its lock (`lockOwner`, nobody while the file is empty), and a process
works from the end of `acquireRunLock` to that of `Release`. Resumers in `raced` may work together
and take the directory from one another (`Join`, `Leave`, `Reclaim`), and only they: whoever has
its pid in the lock before another process reads it is protected from every step of everybody
else (`Protected`, `Contend`). `ImplementsOwnership` is that refinement.

Fairness: weak fairness of every step that a live process takes without waiting for another
one (`Work`): the code polls with a timer and otherwise just runs. None for agents,
cancellation or crashes. `WaitsEnd` holds with an agent that never returns, because the
deadline of the waiter is one of its own steps. `MaxPolls` is the deadline in polls; the count
never resets within a wait, so one poll shows what many do.

### ControlRuntime

`ledger` is `control-approvals.json`, guarded by a lock file that nobody reclaims; `active` is
`active.json`; `disk` has the artifacts of each run that other processes look at; `jobs` is
the registry of a runtime. A call is `beginStart`, `startAdmitted`, `startJob`, or
`PrepareResume`, `resumeAdmitted`, `startJob`, or `controlCancelTarget`, `cancelAdmitted`,
`cancelRun`: what it reads before it takes the ledger lock is a step of its own. A job goes
from `createRunDir` to `activateRun`, `finishRun`, `releaseRunLock`, `deactivateRun` and
`unregisterJob`. `expire`, `crash`, `ledgerWriteFails`, `watchControlCancellation` and
`cliResume` (an operator's shell, which asks no ledger) may come at any time.

Run `ControlRuntime`: two runtimes and a shell with a start, its retry and another start, with
a start and its retry as their approval expires, or with a run that is resumed and cancelled, or
resumed twice. `SingleUseUntilExpiry`: one effect per nonce, but for a call that held the
approval as it expired (`overtaken`), next to a start.
`StartsExclude`: two started runs without a result exist only after an approval expired.
`CloseDrains` and `CloseEnds`: `Close` returns, and not before the last job. Fairness is that a
live process goes on with its jobs, every agent call having a timeout.

### AcpSession, McpServer, Steward

Run `Conversations` checks the three. `AcpSession` has the caller and the reader of one
connection, the mutex they share, the two bounded pipes, and an agent that answers late, twice,
wrongly or never, asks, streams, closes or dies. `AnswersAreWhole`: a success returns all that
was said before the answer to the prompt. `TurnEnds`: also with both pipes full. One message
per pipe is what makes writers block.

`McpServer` has the accept loop, the goroutine that closes listener and connections, one
session per client, and clients that hang. `ShutdownEnds` holds but for a connection that was
accepted before the listener was closed and registered after the others were closed.

`Steward` has `Advise` with the lease in its steps, the wait with its timeout, and the
goroutine that goes on after it with the budget and the cache. `AdviceFits`: what is returned
is valid and about the state the request saw, however late a model answered.

Fairness here: the host's threads run, deadlines pass, a kill succeeds. Nothing is assumed of
agents, clients or models.

## The runs

With two workers TLC explores, in distinct states: `OperationJournal` 1.3 million, `RunState` 1.7
million, `RunLoop` 6.5 million, `Rounds` 2.4 million, `GitPreflight` 5.9 million, `Invocation` 4.8
million, `Choices` 0.8 million, `Conversations` 0.24 and `ControlRuntime` 0.17 million (both check
liveness), `Locks` 0.19 million up to symmetry. Each takes from seconds to three minutes. Symmetry
is used where values are only compared for equality, and in `Locks` only over the constants of
the ledger, which the liveness property does not mention.

## Properties that are stated and not part of a run

The modules state more than the runs list; a run keeps the properties that are hard to get
right. Each of these was checked with the configuration of its module's run and holds there:
the type invariants; `OnlyTailUnresolved`, `EffectsAreJournaled` (`OperationJournal`); `CompletedWasLeft` (`RunState`); `PassedWasDelivered` (`RunLoop`); `ExclusiveUnlessRaced`, `OnRecordUnlessRaced`,
`NoLockLeftBehind`, `OnlyOwnersUnlock` (`RunLock`); `NeverOverbooked`,
`RefusedWhenOverdrawn`, `AccountingIsFinal` (`PanelBudget`); `WorktreeIsFreed`
(`ControlRuntime`); `RunStartsWhole` (`GitPreflight`); `JournalAgrees` (`Invocation`);
`PromptsAreReadOnly`, `RunsOutliveClients`, `CallBudgetHolds`, `LeaseComesBack`, `AdviseEnds`
(`Conversations`); `RejectedLeavesTarget`, `PassedIsUnaided` (`Rounds`); `PackagesFit`,
`TopologyIsAgreed` (`Choices`). All but `LeaseComesBack` and `AdviseEnds` are
also proved.

## What does not agree with the documentation

Two runs show it: `RunLoopReplay` (every resume of a run begun without allow-dirty is refused)
and `WorkPlansResume` (progress over packages does not survive a resume). The others are
reproduced by adding the named property to the configuration of the module's run, with the
constants given.

| Property | Where, with what | What the code does |
| --- | --- | --- |
| `FallbackCanEngage` | `OperationJournal`, no symmetry, `MaxAttempts = 2` | a failed invocation lock returns at `runner_part06.go:362` with the record prepared, and the call of the fallback is refused as a mismatch; the comment at `runner_part06.go:348` promises the fallback |
| `JournalIsDiagnostic` | `RunState`, `MaxTransitions = 1`, `MaxErrors = 0`, `MaxProcesses = 2` | one uncommitted event makes resume quarantine an untouched run (`resume.go:409`); `state_machine.go:94` calls the journal diagnostic |
| `RunExclusion` | `Locks` | both judge the lock stale, and the second removes the lock of the first (`run_lock.go:23`); `resume.go:97` and `README.md:1090` claim exclusive ownership |
| `RegressionsStayBlocking` | `RunLoop`, `MaxRounds = 1` | a resumed review takes the test result of a `final.json` (`resume_phases.go:35`); `README.md:1183` |
| `PartialWorkIsDecided` | `RunLoop`, `MaxRounds = 1`, `MaxProcesses = 2` | a cancelled edit is captured and continued without a decision (`runner_part04.go:139`); `README.md:1093` |
| `ResumeVerifiesDiff` | `RunLoop`, `MaxRounds = 1`, `MaxProcesses = 4` | a resume that fails early rewrites `state.json` with an older hash (`runStateForFinal`); `README.md:1090` |
| `NewFailuresBlock` | `Rounds` | a new failure hides behind a name of the baseline: it goes unnamed next to an old one, or the baseline named it when it passed (`test_hardening.go:248`); `README.md:1183` |
| `EveryBlockerIsDecided` | `Rounds` | `findings.json` is rewritten without a lock (`findings.go:306`): a command of the operator takes back an update of the run |
| `AuditIsIndependent` | `Choices` | a pinned editor without a card has its adapter for a family (`routing_select.go:353`); `README.md:129` |
| `PinsAreKept` | `Choices` | a pin that does not parse counts as no pin while the router fills the slot (`routing_apply.go:80`); `README.md:114` |
| `FailPolicyAborts` | `Choices` | `scout_failure_policy = "fail"` never applies, since the default loss policy of the scout is set (`config.go:52`, `config_part03.go:517`); `README.md:739` |
| `SingleUse` | `ControlRuntime` | an approval that expires between its validation and the pruning launches twice (`control_runtime.go:222`); `control_runtime.go:243` |
| `JobsStayCancellable` | `ControlRuntime` | a job unregisters by run id, and so the job that resumed its run (`control_runtime_lifecycle.go:19`) |
| `FailureLeavesSource` | `GitPreflight` | a failure after the source branch was moved leaves it moved (`git_sync_preflight.go:62`) |
| `ScopeIsObserved` | `Invocation` | what an agent edits out of scope and commits between two looks of the guard is not in the delta (`worker_contract.go:131`); `README.md:541` |
| `NoCallLeftHanging` | `Conversations` | a request registered after the stream ended waits for its deadline (`acp_stdio.go:126`) |
| `ShutdownDrains` | `Conversations` | a connection registered after the others were closed keeps the daemon waiting (`mcp_daemon.go:20`) |
| `AdmittedMembersCanStart` | `Locks` | a panel may ask for less work than members, and the pool is common (`panel_budget.go:89`); `docs/DETERMINISTIC_REPLAY.md` says that admission reserves the whole panel |
| `MembersWithinLimit` | `Locks` | a completion that took effect, was reported as an error and is tried again releases the slot of a member that still runs (`panel_budget.go:123`) |

Seen while modelling, without a property of their own:

- *Resume.* A relay post-scout call records the phase `planning`, so a crash during it makes
  resume plan and edit again and, if no `final.json` exists, take the edited worktree for the
  baseline. A crash during a recovery decision leaves the hash of the live diff in
  `state.json`, with the effect of `PartialWorkIsDecided`. A run interrupted before any
  `final.json`, in any phase but planning, is always quarantined. A run that fails in round N
  records round N-1. The worker call of a resume has another description, and so another
  digest, than the call it repeats. A run whose mode the orchestration changed cannot resume.
- *Plans and scopes.* A work plan that was repaired is followed by the return of the error all
  the same, while the loss is recorded as repaired. After a review with only minor findings,
  or with no round left, the remaining packages stay pending in a plan that passed. A plan that
  was refused and left on disk is taken unvalidated by a resume, and so is a raw scout answer,
  even under a strict scout. A context near its limit under the policy `skip` skips a strict
  scout. `--allow-path ./` allows nothing; two disjoint scopes allow nothing.
- *Findings.* A reviewer that repeats a finding with a lower severity unblocks it. A major
  finding beyond `max_findings` is dropped. `review` without `--fail-on-review` ignores failing
  tests, and counts as failed when it is cancelled. A transfer takes no `run.lock`. A deferral
  after the last update is not counted until the next one.
- *Control.* A cancel by another server that read the owner before the run took its lock marks
  a live run cancelled. `cancel-request.json` stays, so a later resume is cancelled as well.
  A resume failure and a cancellation are persisted without `run.lock`. A process that dies with
  the ledger lock blocks every later call, and a crashed run leaves `active.json` running.
- *Calls.* The guard's last look fails open when git fails. Live progress says `completed`
  before the output is validated. Another process that writes `state.json` during a call looks
  like tampering. The steward's goroutine outlives the lease. The stdio server notices a
  signal only when its input ends.
- *Worktree.* When `git stash list` fails after the push, the work is in the stash only, and no
  recovery artifact names it.
- *Options.* `claude` is accepted as a fallback of a worker, which it may not be. The check
  that `test` and `tests` are not both set cannot fail after the merge.

## What is proved

tlapm checks these for all values of the constants that satisfy the ASSUMEs of the
modules: limits and bounds are natural numbers, names for "nothing" are not values, a set that
is counted or summed over is finite. A hypothesis beyond that stands in the theorem, and is
named below with what happens without it. No theorem is about one instance; the runs are.

**`OperationJournal_proofs`.** `TypeCorrect`, `TailOnly`, `WriteAhead`,
`NoSilentDuplicate`, `DurableAnswers`, `CallIsTail`, `Monotone`, `Refinement`: every
property that run `OperationJournal` checks, and three more. The invariant is `JournalInv` (the
journal against the world: a record that is prepared was never started; an unflagged record was
only started in its last attempt; a committed result was applied; an answer is committed)
with `ProcessInv` (the call in progress is the tail, in the state its step needs) and
types. None of the properties is inductive alone: `DuplicatesAreFlagged` for one needs that
the attempts which may still act are those of the record's last attempt unless it is
flagged. A failed write leaves the old or the new journal, so each writing action is
proved by `JournalInv` of what it writes. `Monotone` and the refinement reduce a step to
six shapes (`StepForms`) first.

**`RunState_proofs`.** `TypeCorrect`, `JournalCorrect`, `SuccessDurable`, `SuccessFinal`,
`FailureShown`, `CompletedLeft`. `JournalLeads` needs that the transition about to replace
`state.json` was recorded; `AcknowledgedIsDurable` and `SuccessIsFinal` are inductive together: a
resume returns the saved success because it is durable, and it stays durable because nothing else
runs. `FailureNeverLooksPassed` needs `LooksInv`: a second pass is made only when `final.json` and
`latest.json` are already clean of a success. `CompletedWasLeft` needs that what is about to be
written is completed in the journal with the event that goes before it (`LeftInv`).

**`RunLoop_proofs`.** `TypeCorrect`, `PassedReviewed`, `PassedDelivered`, `EvidenceKept`,
`FailedWorkDecided`, `SupervisorBaseline`, `RegressionsAreBlocked`: all that run `RunLoop` checks,
for any contents, rounds and processes. The invariant has nine parts, each proved relative to the
ones before: from its capture to the decision the diff of the run is the worktree, and so are the
tested, the reviewed and the delivered one (`CaptureInv`, `DeliveredInv`); while a worker may edit,
`state.json` says so (`PhaseInv`), and so undecided work is in the hands of the recovery or left in
an editing phase, where every resume looks for it (`UndecidedInv`); in the first process no named patch is captured again
(`EvidenceInv`).

**`ControlRuntime_proofs`.** `TypeCorrect`, `SingleUseHolds`, `StartsExcludeHolds`,
`CloseDrainsHolds`, `WorktreeIsFreedHolds`, for any processes, calls and approvals. A call is on
record before it does anything (`LedgerInv`), and what is pruned is an expired start. Hence a
second effect takes a call that held the approval as it expired, and a first one that is a start
(`ApprovalInv`): `SingleUseHolds` has no other exception, and the table above shows this one.

**`Invocation_proofs`.** `TypeCorrect`, `ArtifactsSurvive`, `AnswersTrue`, `JournalTrue`,
`StatusFinal`, for any number of writes and failures. The worktree is compared after the process
has ended (`AnswerInv`), the host's files are compared and written back after that
(`IntegrityInv`). A restoration that fails half-way changes nothing of what was as written.

**`Locks_proofs`.** `TypeCorrect`, `Owned`, `Exclusion`, `OnRecord`, `NothingLeftBehind`,
`OwnersUnlock` of `run.lock`, for any number of runs, processes, resumers and users of other
directories. Creation is exclusive, so the proof shows that nobody removes the lock of another
process (`OwningInv`, `FileInv`, `ResumeInv`), two resumers apart that were both past reading it;
those are in `raced` (`RaceInv`, `NotBoth`), and a process that had its pid in the lock first is
never among them (`NobodySurprised`). With that, and as a lock has no pid before its creator
writes it (`WrittenInv`), each step is one of `RunOwnership` or changes nothing there
(`StepOwns`): writing the pid takes or joins, `removeOwnLock` releases, a crash is a death if the
process worked, and `removeStale` reclaims. `Exclusion` follows from the promise (`OwnersAlone`).
`RunExclusion` itself is false, see the table above.
Of the panel ledger `BudgetTypes`, `LedgerAlwaysBalances`, `LimitsHold`, `AccountingStays`, and
`AdmittedMembersStart`, which says when a member is refused (`RefusedWhenOverdrawn`): the claim of
the documentation is false, see above. The balance is about
sums over any finite set of panels: the sum is shown to be the value of a function that adds one
panel at a time (`AddsExists`, `SumIs`), and changing one panel's share to change the sum by as
much (`SumChanges`). `BudgetInv` adds that no reservation accounts for less than nothing
(`Orderly`; work left apart) and that the counters stay within the limits.

**`Conversations_proofs`.** Of the steward `AdviceAlwaysFits` and `CallBudget`: a goroutine belongs
to one thread and carries what that thread saw (`AwaitInv`, `WorkInv`). Of the ACP turn
`AnswersWhole`: a pipe keeps the order, so the chunks that are unread when the answer is delivered
are none (`WholeInv` counts them in the pipe), and `PromptsReadOnly`: the steps of the handshake wait
for each other's answers, and an agent has read no step that was not reached (`AwaitedInv`,
`ConfirmedInv`, `HeardInv`). Of the daemon `RuntimeOutlives` (`DrainedInv`). Of the rounds `RoundsTypes`, `BlockersDecided`,
`TransferReviewed`, `NewFailuresStop`, `RejectedAndUnaided`, for any changes, findings, settings and
commands: what nobody decided is open in the ledger, which the run counts (`DecidedInv`); a verdict
that passed keeps the diff it is about, through the end of the run and into a transfer
(`ReviewedInv`); the regression that decides compares the baseline with that diff (`ComparedInv`).
They hold with every overlap of the operator's commands and whatever the parser recognises.

**`Preparation_proofs`.** Of the work plans `WorkPlanTypes`, `ScopeNeverWidens`,
`PassedWereReviewed`, `PackagesAlwaysFit`, `TopologyAgreed`, for any requests, plans, paths and
resumes: a round works with the scope of its package (`RoundInv`), a package is marked by the
review of the round that worked on it, in a run that keeps its checklist (`ChecklistInv`), the
decision about the topology stays (`AgreedInv`). Of the worktree `WorktreeTypes`,
`WorktreeLosesNothing`, `SourceMovesAsAWhole`, `WorktreeComesBack`, `StartsWhole`, for any number
of runs. Every git command is first reduced to where the run goes and what it moves (`Outcomes`).
`NothingLost` needs that the branches a run creates did not exist (`GitInv`). `SourceMovesAsAWhole`
and `WorktreeComesBack`, about a run on its own, need, label by label, what is checked out
(`Placed`), where the source branch is (`Grounded`) and where what the run found is (`Carried`).
That invariant failed at first at the removal of the candidate branch: git does not delete the
branch that is checked out, and `gitDeleteBranch` now says so. `StartsWhole` needs in `StartInv`
what the four conjuncts of `RunStartsWhole` become at each label: the branch checked out (`Stands`),
what is committed (`Clears`), what the run carries (`Brings`) and where the upstream that was
fetched is (`Follows`).

Of the options `PinsAreKeptAlways`, `AuthorityIsKept` and `AuditStaysIndependent`, for any rosters,
jobs, adapters and settings in any layers. Everything is claimed of the options that were resolved:
later steps replace a target and say so, or end the run (`SettledStep`), so that what is left is what
one resolution computes. A named target is the last of the values that are set (`LastOfMore`) and its
slot is none of the router's; the configuration of an untrusted repository holds nothing that only its
file or its profiles say (`OwnConfig`); whoever is ranked meets every constraint (`NamedAreEligible`,
for the choice and for its replacements). For that `RankingSorts` says what a ranking is, for any
finite set of cards: a bijection of places and cards that follows the order. The totals it compares
are integers (`TotalInt`), so the order is strict (`RanksOrder`), and total, as no two cards have the
same place in the roster (`RanksTotal`); hence no two cards have as many ahead of them. None of
the three has a hypothesis. `PinsAreKeptAlways` follows a name that does not parse to the router,
which is the only one that may fill its slot (`UnroutedIsTaken`). `AuditStaysIndependent` is about the
families on the cards, which `familyForTarget` takes from the first card of a target
(`FamilyIsOfACard`); what the documentation says of the families themselves is false, see the table.

Every safety property of a passing run is proved, and so are the safety properties that are stated
and in no run. Only model-checked are:

- liveness (`WaitsEnd`, `CloseEnds`, `CallReturns`, `TurnEnds`, `ShutdownEnds`, `LeaseComesBack`,
  `AdviseEnds`), since fairness and ENABLED are out of the prover's reach;
- what the runs that expect a violation and the table above show.

The theorems are about the models. That TLC evaluates the ASSUMEs on each instance, and that the
runs reach every action, is what keeps them from being about nothing.

## Abstractions and bounds

Contents of files are opaque values compared for equality, digests are their identity.
Prompts, formatting, costs, reports and timing are left out. In `RunState` and `RunLoop`
`passed` stands for `degraded` as well. Corruption of artifacts by another program is not
modelled, apart from the worktree and HEAD, and what an agent does during a call. Pids are not
reused. The Windows lock and process files are not modelled. Quality gates and the findings
ledger never block in `RunLoop`, which only has fewer reasons to block there; `Outcome` decides
by the tests and the last review. Whether a pass leads to another package is a free choice in
the first process of `RunLoop`; `WorkPlans` makes that choice as the code does.

In `GitPreflight` a dry run and the option that skips the dirty check are left out. In
`Invocation` the children of an agent that exits by itself are gone with it. In `Options` the
rounds of reviews, the scout's runtime selection and the parsing of files are left out. In
`ControlRuntime` path gating, digests and the capability baseline are left out: they refuse a
call before it changes anything.

`MaxOps`, `MaxAttempts`, `MaxGeneration`, `MaxPolls`, `MaxInvocations`, `MaxTransitions`,
`MaxErrors`, `MaxProcesses`, `MaxMembers`, `MaxWork`, `MaxCrashes`, `MaxWrites`, `MaxFailures`,
`MaxKills`, `MaxSends`, `MaxRequests`, `MaxTree`, `MaxSettings`, `Namings`, `MaxResumes` and
`Casts` are bounds of the models; `MaxRounds`, `WorkLimit`, `LiveLimit`, `MaxCalls`, `MaxFiles`,
`MaxFindings`, `MaxPackages`, `Limit` and `PipeSize` are limits of the program. Deadlock is not
checked where a run really ends: a finished run, used-up budgets, processes that are done. It is
checked in `Invocation` and `Conversations`, where everything must come to an end.

## Not modelled

The command lines and output formats of agents, the model catalog, retrieval and code
intelligence, the artifact store and redaction, prompts and schemas, the CLI and the TUI:
text, discovery and read-only views, whose failures reach a run as an error the models already
allow. The parsers of test output and the rerun of flaky tests are abstract outcomes of
`ReviewRounds`.

## Plan

The modules of the plan are written, every safety property of a passing run is proved, and so are
both refinements. What could come next:

1. What replacements do to the independence of an audit: `NamedAreEligible` says that those the
   router names are of another family than the editor, but configured fallbacks come before them.
2. The panel ledger as an implementation of a budget that has no counters, in the way `RunLock`
   implements `RunOwnership`; `LedgerBalances` is the core of it.
