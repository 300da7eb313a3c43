------------------------------ MODULE WorkPlans ------------------------------
(* What a supervised run does before and between its rounds: whether it keeps *)
(* its topology, what the scout adds, how the task is cut into packages, which *)
(* package a round works on and which paths it may write, and what becomes of *)
(* all that when the run stops and is resumed.                                *)
EXTENDS Integers, Sequences, FiniteSets, SequencesExt, FiniteSetsExt, Functions, TLC

CONSTANTS
    Requests,  \* the options a run may be started with
    Answers,     \* the work plans a supervisor may write
    Paths,       \* the paths of the repository that matter
    MaxPackages, \* the operator's limit on packages
    MaxRounds,   \* rounds of one run
    MaxResumes   \* bound: resumes of one run

\* A scope is given as files and directories, each a path of names.
Items == [path : Seq(STRING), dir : BOOLEAN]

ASSUME RequestsAssumption ==
    Requests \subseteq [mode : {"supervisor", "relay"}, explicit : BOOLEAN, strict : BOOLEAN,
                       failPolicy : BOOLEAN, contextPolicy : {"warn", "skip", "block"},
                       slicing : BOOLEAN, auto : BOOLEAN, requested : STRING,
                       operator : SUBSET Items]
ASSUME AnswersAssumption ==
    Answers \subseteq [packages : Seq([id : STRING, long : BOOLEAN, scope : SUBSET Items]),
                      selected : STRING]
ASSUME PathsAssumption == Paths \subseteq Seq(STRING)

VARIABLES
    request,     \* the options of this run
    mode,     \* the mode in force
    advice,   \* what the worker and the supervisor advised
    step,    \* orchestrate, scout, brief, plan, round, edit, review, failed, done
    round, completed,
    scout,    \* none, skipped, raw (an invalid answer left on disk), context
    plan, selected,
    items,    \* the checklist: package -> status
    scope,    \* the paths this round may write
    disk,     \* what a resume finds: work plan, phase and round
    worked, approved, \* history: packages a round worked on, and a review accepted
    resumes

workVars == <<request, mode, advice, step, round, completed, scout, plan, selected,
              items, scope, disk, worked, approved, resumes>>

-----------------------------------------------------------------------------
(* Scopes are sets of files and of directories; the root contains all.        *)

Root == [path |-> <<>>, dir |-> TRUE]

normalizeAllowedScope(raw) == {i \in raw : ".." \notin Range(i.path)}

Below(i, d) == i = d \/ IsStrictPrefix(d.path, i.path)

pathAllowed(p, allowed) ==
    \E i \in allowed : p = i.path \/ (i.dir /\ IsStrictPrefix(i.path, p))

\* Mutant of intersectAllowedScopePath: the wider of the two.
WiderOfTwo(a, b) ==
    CASE a.dir /\ Below(b, a) -> {a}
      [] b.dir /\ Below(a, b) -> {b}
      [] OTHER -> {a} \cap {b}

intersectAllowedScopePath(a, b) ==
    CASE a.dir /\ Below(b, a) -> {b}
      [] b.dir /\ Below(a, b) -> {a}
      [] OTHER -> {a} \cap {b}

intersectAllowedScopes(left, right) ==
    UNION {intersectAllowedScopePath(a, b) : a \in left, b \in right}

\* Without any scope the round may write everywhere.
allowedScopeForRound(operator, package) ==
    LET mine == normalizeAllowedScope(operator)
        its  == normalizeAllowedScope(package)
    IN  CASE mine # {} /\ its # {} -> intersectAllowedScopes(mine, its)
          [] mine # {} /\ its = {} -> mine
          [] mine = {} /\ its # {} -> its
          [] OTHER -> {Root}

-----------------------------------------------------------------------------
(* Work plans.                                                                *)

NoPlan == [packages |-> <<>>, selected |-> ""]

Ids(p) == {p.packages[i].id : i \in DOMAIN p.packages}
PackageScope(p, id) ==
    UNION {p.packages[i].scope : i \in {j \in DOMAIN p.packages : p.packages[j].id = id}}

\* The operator's choice, then the supervisor's, then the first.
Selection(p) ==
    CASE request.requested # "" -> request.requested
      [] request.requested = "" /\ p.selected # "" -> p.selected
      [] OTHER -> p.packages[1].id

validateWorkPlan(p) ==
    /\ p.packages # <<>> /\ Len(p.packages) <= MaxPackages
    /\ Cardinality(Ids(p)) = Len(p.packages)
    /\ \A i \in DOMAIN p.packages : p.packages[i].scope # {}
    /\ Selection(p) \in Ids(p)

\* Every package that may run has to fit into one call.
validateWorkPlanBudget(p, validateAll) ==
    \A i \in DOMAIN p.packages :
        (validateAll \/ p.packages[i].id = p.selected) => ~p.packages[i].long

nextWorkPackage(p, id) ==
    LET later == {i \in DOMAIN p.packages : i > 1 /\ p.packages[i - 1].id = id}
    IN  IF later = {} THEN "" ELSE p.packages[Min(later)].id

newExecutionPlanFromWorkPlan(p) ==
    [id \in Ids(p) |-> IF id = p.selected THEN "in_progress" ELSE "pending"]

\* One package at a time is in progress.
setPlanItemStatus(its, id, status) ==
    IF \/ id \notin DOMAIN its
       \/ status = "in_progress" /\ \E o \in DOMAIN its \ {id} : its[o] = "in_progress"
    THEN its ELSE [its EXCEPT ![id] = status]

deferRemainingPlanItems(its, id) ==
    [i \in DOMAIN its |-> IF i # id /\ its[i] = "pending" THEN "deferred" ELSE its[i]]

\* A blocking review adds what it found to the checklist, to be arbitrated.
appendReviewFindingPlanItems(its, verdict) ==
    IF verdict = "blocking" /\ its # <<>>
    THEN [id \in DOMAIN its \cup {"R" \o ToString(round)} |->
             IF id \in DOMAIN its THEN its[id] ELSE "needs_arbitration"] ELSE its

\* Mutant of passPackage: the next package is selected before it is marked.
PassNext(its, id, next) == setPlanItemStatus(its, IF next = "" THEN id ELSE next, "passed")
passPackage(its, id, next) == setPlanItemStatus(its, id, "passed")

-----------------------------------------------------------------------------
(* Starting.                                                                  *)

WorkInit ==
    /\ request \in Requests /\ mode = request.mode
    /\ advice = [worker |-> "none", supervisor |-> "none"]
    /\ step = "orchestrate" /\ round = 1 /\ completed = 0 /\ scout = "none"
    /\ plan = NoPlan /\ selected = "" /\ items = <<>> /\ scope = {}
    /\ disk = [plan |-> NoPlan, phase |-> "planning", round |-> 1]
    /\ worked = {} /\ approved = {} /\ resumes = 0

\* A run that stops keeps its phase, and the number of rounds it completed.
stop(phase, done) ==
    /\ step' = "failed"
    /\ disk' = [disk EXCEPT !.phase = phase, !.round = Max({1, done})]

\* An operator who named a scout, or wants its failure to stop the run, has
\* made the relay part of the task.
relaySimplificationConstraint == request.explicit \/ request.strict \/ request.failPolicy

applyRelaySimplificationPolicy(s) == IF s = "simplify" THEN "supervisor" ELSE "relay"

applySupervisorEscalationPolicy(w, s) ==
    IF w = "escalate" /\ s = "escalate" THEN "relay" ELSE "supervisor"

\* An advisory is a call that may fail; then the mode stays. The worker is
\* asked first, and the supervisor only about an escalation.
resolveOrchestrationDecision ==
    /\ step = "orchestrate"
    /\ \E w, s \in {"none", "failed", "keep", "simplify", "escalate"} :
         /\ w = "none" <=> mode = "relay"
         /\ s = "none" <=> IF mode = "relay" THEN relaySimplificationConstraint ELSE w # "escalate"
         /\ advice' = [worker |-> w, supervisor |-> s]
         /\ mode' = CASE mode = "relay" -> applyRelaySimplificationPolicy(s)
                      [] OTHER -> applySupervisorEscalationPolicy(w, s)
    /\ step' = IF mode' = "relay" THEN "scout" ELSE "plan"
    /\ UNCHANGED <<request, round, completed, scout, plan, selected, items, scope, disk,
                   worked, approved, resumes>>

-----------------------------------------------------------------------------
(* The scout of a relay.                                                      *)

shouldBlockScoutFailure(call) == call = "integrity" \/ request.strict

\* How the prompt, after it was compacted, compares with the scout's context.
ScoutFits(budget) ==
    CASE budget = "near" /\ request.contextPolicy = "skip"  -> "skipped"
      [] budget = "near" /\ request.contextPolicy = "block" -> "blocked"
      [] budget = "exceeds" /\ (request.contextPolicy = "block" \/ request.strict) -> "blocked"
      [] budget = "exceeds" /\ request.contextPolicy # "block" /\ ~request.strict  -> "skipped"
      [] OTHER -> "fits"

\* A scout that is missing, too small or failing is done without, unless it
\* is a strict one. An answer that breaks the contract may be repaired.
runRelayScoutPhase ==
    /\ step = "scout" /\ resumes = 0
    /\ \E found \in BOOLEAN, budget \in {"ok", "near", "exceeds"},
          call \in {"answered", "repaired", "contract", "crash", "integrity"} :
         LET failed == call \notin {"answered", "repaired"} IN
         CASE ~found ->
                IF request.strict THEN stop("planning", completed) /\ UNCHANGED scout
                ELSE step' = "brief" /\ scout' = "skipped" /\ UNCHANGED disk
           [] found /\ ScoutFits(budget) = "blocked" -> stop("planning", completed) /\ UNCHANGED scout
           [] found /\ ScoutFits(budget) = "skipped" ->
                step' = "brief" /\ scout' = "skipped" /\ UNCHANGED disk
           [] found /\ ScoutFits(budget) = "fits" /\ failed /\ shouldBlockScoutFailure(call) ->
                stop("planning", completed) /\ scout' = IF call = "contract" THEN "raw" ELSE "none"
           [] found /\ ScoutFits(budget) = "fits" /\ failed /\ ~shouldBlockScoutFailure(call) ->
                step' = "brief" /\ scout' = "skipped" /\ UNCHANGED disk
           [] OTHER -> step' = "brief" /\ scout' = "context" /\ UNCHANGED disk
    /\ UNCHANGED <<request, mode, advice, round, completed, plan, selected, items, scope,
                   worked, approved, resumes>>

\* A resume takes whatever answer the scout left, and asks again otherwise;
\* now its failure stops the run under every policy.
resumeScout ==
    /\ step = "scout" /\ resumes > 0
    /\ step' = "brief"
    /\ scout' = IF scout = "raw" THEN "raw" ELSE "context"
    /\ UNCHANGED <<request, mode, advice, round, completed, plan, selected, items, scope, disk,
                   worked, approved, resumes>>

\* The supervisor's brief, and in a relay its instructions.
brief ==
    /\ \/ step = "brief"
       \/ step = "plan" /\ (~request.slicing \/ plan # NoPlan)
    /\ step' = "round"
    /\ UNCHANGED <<request, mode, advice, round, completed, scout, plan, selected, items, scope,
                   disk, worked, approved, resumes>>

-----------------------------------------------------------------------------
(* Slicing.                                                                   *)

\* The supervisor's answer, or else what the worker made of it; a resume does
\* without the repair.
slice ==
    /\ step = "plan" /\ request.slicing /\ plan = NoPlan
    /\ \E answer \in Answers :
         LET p == [answer EXCEPT !.selected = Selection(answer)] IN
         /\ validateWorkPlan(answer) /\ validateWorkPlanBudget(p, request.auto)
         /\ plan' = p /\ selected' = p.selected
         /\ items' = newExecutionPlanFromWorkPlan(p)
         /\ disk' = [disk EXCEPT !.plan = p]
    /\ step' = "round"
    /\ UNCHANGED <<request, mode, advice, round, completed, scout, scope, worked, approved, resumes>>

\* A plan that is refused stops the run. The adapter may have written its
\* answer where the accepted plan belongs; a failed repair changes the phase.
sliceRefused ==
    /\ step = "plan" /\ request.slicing /\ plan = NoPlan
    /\ \E answer \in Answers :
         LET p == [answer EXCEPT !.selected = Selection(answer)] IN
         /\ ~(validateWorkPlan(answer) /\ validateWorkPlanBudget(p, request.auto))
         /\ \E written \in {answer, NoPlan}, phase \in {"planning", "implementing"} :
              disk' = [plan |-> written, phase |-> phase, round |-> Max({1, completed})]
    /\ step' = "failed"
    /\ UNCHANGED <<request, mode, advice, round, completed, scout, plan, selected, items, scope,
                   worked, approved, resumes>>

-----------------------------------------------------------------------------
(* Rounds. A resumed run does not keep the checklist up to date.              *)

Fresh == resumes = 0

startRound ==
    /\ step = "round" /\ step' = "edit"
    /\ scope' = allowedScopeForRound(request.operator, PackageScope(plan, selected))
    /\ worked' = worked \cup {selected}
    /\ items' = IF Fresh THEN setPlanItemStatus(items, selected, "in_progress") ELSE items
    /\ UNCHANGED <<request, mode, advice, round, completed, scout, plan, selected, disk,
                   approved, resumes>>

editorDelivers ==
    /\ step = "edit" /\ step' = "review"
    /\ UNCHANGED <<request, mode, advice, round, completed, scout, plan, selected, items, scope,
                   disk, worked, approved, resumes>>

\* The end of the round loop: the tests and the last review decide.
finalize(its, accepted) ==
    \E exit \in {"tests_failed", IF accepted THEN "success" ELSE "review_failed"} :
        /\ items' = IF exit = "tests_failed" THEN setPlanItemStatus(its, selected, "failed") ELSE its
        /\ IF exit = "success" THEN step' = "done" /\ UNCHANGED disk ELSE stop("reviewing", round)
        /\ UNCHANGED <<round, selected, plan>>

\* The checklist after the last round of a run that was not resumed.
Closed(its, verdict) ==
    LET passed == passPackage(its, selected, "") IN
    CASE ~Fresh -> its
      [] Fresh /\ verdict = "blocking" -> setPlanItemStatus(its, selected, "failed")
      [] Fresh /\ verdict # "blocking" ->
           IF request.auto THEN passed ELSE deferRemainingPlanItems(passed, selected)

\* With a package accepted the run goes on to the next if it may; a review
\* with minor findings ends it.
review ==
    /\ step = "review"
    /\ \E verdict \in {"pass", "minor", "blocking"} :
         LET its  == appendReviewFindingPlanItems(items, verdict)
             next == IF plan = NoPlan THEN "" ELSE nextWorkPackage(plan, selected)
             advances == /\ verdict = "pass" /\ Fresh /\ mode = "supervisor" /\ request.auto
                         /\ next # "" /\ round < MaxRounds
             repairs == verdict = "blocking" /\ round < MaxRounds
         IN
         /\ completed' = round
         /\ approved' = IF verdict = "blocking" THEN approved ELSE approved \cup {selected}
         /\ CASE advances ->
                   /\ items' = passPackage(its, selected, next)
                   /\ plan' = [plan EXCEPT !.selected = next] /\ selected' = next
                   /\ round' = round + 1 /\ step' = "round" /\ UNCHANGED disk
              [] repairs ->
                   /\ items' = its /\ round' = round + 1 /\ step' = "round"
                   /\ UNCHANGED <<plan, selected, disk>>
              [] OTHER -> finalize(Closed(its, verdict), verdict # "blocking")
    /\ UNCHANGED <<request, mode, advice, scout, scope, worked, resumes>>

-----------------------------------------------------------------------------
(* Stopping and resuming.                                                     *)

\* A call fails for good, or the run is cancelled.
interrupted ==
    /\ step \in {"orchestrate", "scout", "brief", "plan", "edit", "review"}
    /\ stop(CASE step = "edit" -> "implementing" [] step = "review" -> "reviewing"
              [] OTHER -> "planning", completed)
    /\ UNCHANGED <<request, mode, advice, round, completed, scout, plan, selected, items, scope, worked,
                   approved, resumes>>

\* A resume reads the work plan as it was written, whoever wrote it; the
\* package it selects is the one selected first. A run whose mode changed is
\* refused, since its options are not the frozen ones.
resumeExistingRun ==
    /\ step = "failed" /\ resumes < MaxResumes /\ mode = request.mode
    /\ resumes' = resumes + 1 /\ round' = disk.round
    /\ plan' = disk.plan
    /\ selected' = IF disk.plan.selected \in Ids(disk.plan) THEN disk.plan.selected ELSE ""
    /\ scope' = allowedScopeForRound(request.operator, PackageScope(plan', selected'))
    /\ step' = CASE disk.phase = "planning" -> IF mode = "relay" THEN "scout" ELSE "plan"
                  [] disk.phase = "implementing" -> "round"
                  [] disk.phase = "reviewing" -> "review"
    /\ UNCHANGED <<request, mode, advice, completed, scout, items, disk, worked, approved>>

WorkNext ==
    \/ resolveOrchestrationDecision
    \/ runRelayScoutPhase \/ resumeScout \/ brief
    \/ slice \/ sliceRefused
    \/ startRound \/ editorDelivers \/ review
    \/ interrupted \/ resumeExistingRun

WorkSpec == WorkInit /\ [][WorkNext]_workVars

-----------------------------------------------------------------------------
(* Properties.                                                                *)

Working == step \in {"edit", "review"}

\* A plan a model wrote never broadens what the operator allowed, and a round
\* stays inside its package: every path a round may write is allowed by each
\* scope that was given (quality_gates.go:275).
ScopeIsNeverWidened ==
    Working => \A p \in Paths : pathAllowed(p, scope) =>
        \A given \in {normalizeAllowedScope(request.operator),
                      normalizeAllowedScope(PackageScope(plan, selected))} :
            given # {} => pathAllowed(p, given)

\* The checklist counts a package as passed only if a round worked on that
\* package and a review accepted it, also when packages follow each other and
\* when the run was stopped and resumed in between.
PassedPackagesWereReviewed ==
    \A id \in DOMAIN items : items[id] = "passed" => id \in worked \cap approved

\* Every package a run that was not resumed works on fits into one call,
\* those it goes on to by itself too (work_plan_budget.go:12).
PackagesFit ==
    Working /\ Fresh /\ selected # "" =>
        \A i \in DOMAIN plan.packages : plan.packages[i].id = selected => ~plan.packages[i].long

\* The topology changes only by the advice it takes; a relay whose scout was
\* named or is strict stays one, and with a strict scout no round starts
\* without its context unless the operator had small contexts skipped.
TopologyIsAgreed ==
    Working /\ Fresh =>
        /\ mode = "supervisor" /\ request.mode = "relay" =>
             advice.supervisor = "simplify" /\ ~request.explicit /\ ~request.strict
        /\ mode = "relay" /\ request.mode = "supervisor" =>
             advice.worker = "escalate" /\ advice.supervisor = "escalate"
        /\ mode = "relay" /\ request.strict /\ request.contextPolicy # "skip" => scout = "context"

\* A package that passed is not worked on again: package progress survives
\* a resume (docs/V0.1.0_TO_CURRENT.md:142).
ProgressSurvives ==
    Working /\ selected \in DOMAIN items => items[selected] # "passed"

\* scout_failure_policy = "fail" aborts before the first edit when the scout
\* fails (README.md:739).
FailPolicyAborts ==
    Working /\ Fresh /\ mode = "relay" /\ request.failPolicy /\ request.contextPolicy # "skip"
        => scout = "context"
=============================================================================
