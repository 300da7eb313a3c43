---------------------------- MODULE ReviewRounds ----------------------------
(***************************************************************************)
(* What a round decides: the quality gates, the findings ledger, the       *)
(* review with its retries, the outcome of the run and the transfer of its *)
(* diff (quality_gates.go, findings.go, test_hardening.go, runner_part05,  *)
(* runner_part02, runner_part03, run_state.go, transfer.go).               *)
(*                                                                         *)
(* The command is "run" (rounds with a reviewer), "solo" (one round, no    *)
(* reviewer) or "review" (no worker).  The operator defers and resolves    *)
(* findings from another process: findings.json has no lock.               *)
(*                                                                         *)
(* A worktree is the set of changes relative to the baseline.  Crashes and *)
(* resume are those of RunLoop.                                            *)
(***************************************************************************)
EXTENDS Integers, FiniteSets, Sequences

CONSTANTS Changes,     \* changes that a worker can make
          Denied,      \* those of host-owned paths
          Outside,     \* those outside the allowed scope
          Breaking,    \* those that break a test that passed, one each
          Notes,       \* identities of review findings, perhaps that of a gate's
          MaxFiles,    \* churn threshold
          MaxFindings, \* max_findings
          MaxRounds,   \* opts.Rounds
          MaxTree,     \* changes in a worktree that are modelled
          Settings,    \* combinations of the other options, and how many
                       \* commands of the operator are modelled with each
          Namings      \* what the parser may recognise in the output of the tests

ASSUME ChangesAssumption == Denied \subseteq Changes /\ Outside \subseteq Changes /\ Breaking \subseteq Changes
ASSUME NamesAssumption == "churn" \notin Changes
ASSUME LimitsAssumption == MaxRounds \in Nat \ {0} /\ MaxFindings \in Nat /\ MaxFiles \in Nat
                               /\ MaxTree \in Nat
ASSUME FinitenessAssumption == IsFiniteSet(Changes) /\ IsFiniteSet(Notes)
ASSUME SettingsAssumption ==
    Settings \subseteq [reviewers : 1..2, repair : BOOLEAN, packages : 1..2, tests : BOOLEAN,
                        oldFails : BOOLEAN, failOnReview : BOOLEAN, commands : Nat]

VARIABLES command, settings,       \* the options
          tree, pc, round, reviewer, \* worktree, control state, round, attempt of the reviewer
          ledger,                  \* findings.json
          run,                     \* the FinalRun in memory
          final,                   \* final.json
          operator,                \* a findings command under way, with the ledger it read
          transfer, target,        \* transfer.json and the checkout it writes to
          undecided,               \* blocking findings that nobody has decided about
          takenBack,               \* those whose entry a stale write of the operator undid
          approved                 \* what the reviewer passed last

roundsVars == <<command, settings, tree, pc, round, reviewer, ledger, run, final, operator,
                transfer, target, undecided, takenBack, approved>>

Commands == {"run", "solo", "review"}
FindingIds == Denied \cup Outside \cup {"churn"} \cup Notes
Blocking == {"blocker", "major"}
Trees == {content \in SUBSET Changes : Cardinality(content) <= MaxTree}
None == "none"

-----------------------------------------------------------------------------
(* The ledger *)

NoEntry == [source |-> None, severity |-> None, status |-> None]
OpenBlocking(l) == {id \in DOMAIN l : l[id].status = "open" /\ l[id].severity \in Blocking}

evaluateScopeFindings(diff) == diff \cap (Denied \cup Outside)

\* Of the churn thresholds the number of files stands for all.
evaluateChurnFindings(diff) == IF Cardinality(diff) > MaxFiles THEN {"churn"} ELSE {}

\* evaluateQualityGates: a complete evaluation of one diff.
GateFindings(diff) == evaluateScopeFindings(diff) \cup evaluateChurnFindings(diff)

GateSeverity(id) == IF id \in Denied THEN "blocker" ELSE "major"

\* updateFindingsLedger with a gate result: only gate findings close by absence.
UpdateByGates(l, found) ==
    [id \in FindingIds |->
        IF id \in found
        THEN [source |-> "quality_gate", severity |-> GateSeverity(id), status |-> "open"]
        ELSE IF l[id].source = "quality_gate" /\ l[id].status = "open"
        THEN [l[id] EXCEPT !.status = "resolved"] ELSE l[id]]

Severity(findings, id) == (CHOOSE f \in findings : f.id = id).severity
Reported(findings) == {f.id : f \in findings}

\* Mutant: a finding that a review does not repeat is closed.
UpdateByAbsence(l, review) ==
    [id \in FindingIds |->
        IF id \in Reported(review.findings)
        THEN [source |-> "review", severity |-> Severity(review.findings, id), status |-> "open"]
        ELSE IF l[id].source = "review" THEN [l[id] EXCEPT !.status = "fixed"] ELSE l[id]]

\* updateFindingsLedger with a review: dispositions first, then its findings.
UpdateByReview(l, review) ==
    [id \in FindingIds |->
        IF id \in Reported(review.findings)
        THEN [source |-> "review", severity |-> Severity(review.findings, id), status |-> "open"]
        ELSE IF id \in review.closes /\ l[id].status # None
        THEN [l[id] EXCEPT !.status = "fixed"] ELSE l[id]]

\* DeferFinding and ResolveNonBlockingReviewFinding
MayDefer(l, id) == l[id].status # None /\ l[id].severity \in Blocking
MayResolve(l, id) == l[id].status = "open" /\ l[id].source = "review" /\ l[id].severity \notin Blocking

-----------------------------------------------------------------------------
(* Tests *)

Old == "old" \* a test that the baseline may fail already
ASSUME OldAssumption == Old \notin Changes
Identities == Breaking \cup {Old}
ASSUME NamingsAssumption == Namings \subseteq SUBSET Identities

\* What extractFailureIdentities finds in the output is up to the command: a failure
\* may go unnamed (a build, a linter), and a test that passes may be named.
TestRun(failing, named) == [ran |-> TRUE, passed |-> failing = {}, named |-> named]

NoTest == [ran |-> FALSE, passed |-> FALSE, named |-> {}]

\* Mutant: a baseline that failed excuses every failure.
CompareVerdicts(baseline, current) ==
    IF current.passed \/ ~ baseline.passed THEN "no_new_failures" ELSE "new_failures"

compareRegression(baseline, current) ==
    IF current.named \ baseline.named # {} THEN "new_failures"
    ELSE IF ~ current.passed /\ current.named = {} THEN "unknown" ELSE "no_new_failures"

-----------------------------------------------------------------------------
(* Reviews *)

Findings == {fs \in SUBSET [id : Notes, severity : {"major", "minor"}] :
                Cardinality(Reported(fs)) = Cardinality(fs)}

Blocks(findings) == \E f \in findings : f.severity \in Blocking

\* applyReviewCaps keeps the most severe ones; 0 is no limit.
applyReviewCaps(findings) ==
    IF MaxFindings = 0 \/ Cardinality(findings) <= MaxFindings THEN {findings}
    ELSE {kept \in SUBSET findings :
            /\ Cardinality(kept) = MaxFindings
            /\ Blocks(findings \ kept) => \A f \in kept : f.severity \in Blocking}

\* Review.Validate and ValidateCurrent.  Data-loss checks, evidence and the
\* grounding of a finding in the diff fail like any invalid reply.
Validate(review) ==
    IF review.verdict = "pass" THEN ~ Blocks(review.findings) ELSE review.findings # {}

\* validateReviewForDiff: what is left of a reply, if anything.
Accepted(verdict, findings, closes) ==
    {review \in {[verdict |-> verdict, findings |-> kept, closes |-> closes] :
                    kept \in applyReviewCaps(findings)} : Validate(review)}

OnlyMinorOrNit(findings) == ~ Blocks(findings)

NoReview == [verdict |-> None, findings |-> {}, closes |-> {}]

-----------------------------------------------------------------------------
\* "left" counts the commands that the operator may still give.
Idle(left) == [pc |-> "idle", id |-> None, read |-> [id \in FindingIds |-> NoEntry], left |-> left]

EmptyRun == [status |-> None, review |-> NoReview, gates |-> {}, diff |-> {}, open |-> 0,
             baseline |-> NoTest, tested |-> NoTest, regression |-> None, degraded |-> FALSE,
             limit |-> FALSE, repaired |-> FALSE]

RoundsInit ==
    /\ command \in Commands
    /\ settings \in Settings
    /\ command # "review" => ~ settings.failOnReview
    /\ settings.oldFails => settings.tests
    /\ command # "run" => settings.packages = 1
    /\ command = "solo" => settings.reviewers = 1 /\ ~ settings.repair
    /\ tree \in (IF command = "review" THEN Trees ELSE {{}})
    /\ pc = IF command = "review" THEN "capture" ELSE "baseline"
    /\ round = 1
    /\ reviewer = [who |-> 1, attempt |-> "first"]
    /\ ledger = [id \in FindingIds |-> NoEntry]
    /\ run = EmptyRun /\ final = EmptyRun
    /\ operator = Idle(settings.commands)
    /\ transfer = [status |-> None, diff |-> {}, failedRollback |-> FALSE]
    /\ target = [head |-> "baseline", edited |-> FALSE, patch |-> {}]
    /\ undecided = {} /\ takenBack = {} /\ approved = [tree |-> {}, valid |-> FALSE]

\* The failures of all the test commands together.
Failing(diff) == (diff \cap Breaking) \cup (IF settings.oldFails THEN {Old} ELSE {})

\* runBaselineTest: a failing baseline is a baseline.
runBaselineTest ==
    /\ pc = "baseline"
    /\ \E named \in Namings :
          run' = IF settings.tests THEN [run EXCEPT !.baseline = TestRun(Failing({}), named)]
                 ELSE run
    /\ pc' = "worker"
    /\ UNCHANGED <<command, settings, tree, round, reviewer, ledger, final, operator, transfer,
                   target, undecided, takenBack, approved>>

\* The calls of the worker, their contract and their recovery: RunLoop.
workerDelivers(content) ==
    /\ pc = "worker"
    /\ tree' = content
    /\ pc' = "capture"
    /\ UNCHANGED <<command, settings, round, reviewer, ledger, run, final, operator, transfer,
                   target, undecided, takenBack, approved>>

\* captureAndTestRound: diff, gates and ledger.
captureAndGate ==
    /\ pc = "capture"
    /\ LET found == GateFindings(tree)
           updated == UpdateByGates(ledger, found)
       IN  /\ ledger' = updated
           /\ run' = [run EXCEPT !.diff = tree, !.gates = found,
                                 !.open = Cardinality(OpenBlocking(updated))]
           /\ undecided' = (undecided \ {id \in FindingIds : ledger[id].source = "quality_gate"}) \cup found
           /\ takenBack' = takenBack \ found
    /\ pc' = "tests"
    /\ UNCHANGED <<command, settings, tree, round, reviewer, final, operator, transfer, target,
                   approved>>

\* A review has no baseline to compare with.
runTests ==
    /\ pc = "tests"
    /\ \E named \in Namings :
          LET current == TestRun(Failing(tree), named)
          IN  run' = IF ~ settings.tests THEN run
                     ELSE [run EXCEPT !.tested = current,
                                      !.regression = IF ~ run.baseline.ran THEN None
                                                     ELSE compareRegression(run.baseline, current)]
    /\ pc' = IF command = "solo" THEN "finalize" ELSE "review"
    /\ UNCHANGED <<command, settings, tree, round, reviewer, ledger, final, operator, transfer,
                   target, undecided, takenBack, approved>>

-----------------------------------------------------------------------------
(* runAdversary *)

\* What a disposition can be about: unknown identities are passed over.  The
\* reviewer is told of the open blocking ones (reviewFindingsPromptContext).
Known == {id \in FindingIds : ledger[id].status # None}

\* setFinalDegraded: the worker repaired the reply, or a fallback gave it.
Degrades == reviewer.attempt = "repair" \/ reviewer.who > 1

reviewReplies(verdict, findings, closes) ==
    /\ pc = "review"
    /\ \E review \in Accepted(verdict, findings, closes) :
        LET updated == UpdateByReview(ledger, review)
        IN  /\ ledger' = updated
            /\ run' = [run EXCEPT !.review = review, !.open = Cardinality(OpenBlocking(updated)),
                                  !.degraded = @ \/ Degrades,
                                  !.repaired = @ \/ reviewer.attempt = "repair"]
            /\ undecided' = (undecided \ (closes \cup Reported(review.findings)))
                               \cup {f.id : f \in {g \in review.findings : g.severity \in Blocking}}
            /\ takenBack' = takenBack \ Reported(review.findings)
    /\ approved' = [tree |-> run.diff, valid |-> verdict = "pass" /\ ~ Blocks(findings)]
    /\ reviewer' = [who |-> 1, attempt |-> "first"]
    /\ pc' = "decide"
    /\ UNCHANGED <<command, settings, tree, round, final, operator, transfer, target>>

\* One more try, then the worker's repair; then the next reviewer, or none.
reviewInvalid ==
    /\ pc = "review"
    /\ \/ /\ reviewer.attempt = "first"
          /\ reviewer' = [reviewer EXCEPT !.attempt = "retry"] /\ pc' = pc
       \/ /\ reviewer.attempt = "retry" /\ settings.repair
          /\ reviewer' = [reviewer EXCEPT !.attempt = "repair"] /\ pc' = pc
       \/ /\ reviewer.attempt = "repair" \/ (reviewer.attempt = "retry" /\ ~ settings.repair)
          /\ reviewer' = [who |-> reviewer.who + 1, attempt |-> "first"]
          /\ pc' = IF reviewer.who < settings.reviewers THEN pc ELSE "fail"
    /\ UNCHANGED <<command, settings, tree, round, ledger, run, final, operator, transfer,
                   target, undecided, takenBack, approved>>

\* A call that fails otherwise has no second attempt.
reviewerFails ==
    /\ pc = "review"
    /\ reviewer' = [who |-> reviewer.who + 1, attempt |-> "first"]
    /\ pc' = IF reviewer.who < settings.reviewers THEN pc ELSE "fail"
    /\ UNCHANGED <<command, settings, tree, round, ledger, run, final, operator, transfer,
                   target, undecided, takenBack, approved>>

-----------------------------------------------------------------------------
(* The decision of the round and the outcome *)

\* A package passed and another one is left, or changes were requested.
Continues ==
    /\ command = "run" /\ round < MaxRounds
    /\ IF run.review.verdict = "pass" THEN round < settings.packages
       ELSE ~ OnlyMinorOrNit(run.review.findings)

nextRound ==
    /\ pc = "decide" /\ Continues
    /\ round' = round + 1
    /\ pc' = "worker"
    /\ UNCHANGED <<command, settings, tree, reviewer, ledger, run, final, operator, transfer,
                   target, undecided, takenBack, approved>>

decide ==
    /\ pc = "decide" /\ ~ Continues
    /\ run' = [run EXCEPT !.limit = command = "run" /\ run.review.verdict = "needs_changes"
                                        /\ ~ OnlyMinorOrNit(run.review.findings)]
    /\ pc' = "finalize"
    /\ UNCHANGED <<command, settings, tree, round, reviewer, ledger, final, operator, transfer,
                   target, undecided, takenBack, approved>>

\* computeExitCode
ExitCode(r) ==
    IF r.open > 0 \/ r.gates # {} THEN "blocking_findings"
    ELSE IF r.regression \in {"new_failures", "unknown"} THEN "tests_failed"
    ELSE IF r.regression = None /\ r.tested.ran /\ ~ r.tested.passed THEN "tests_failed"
    ELSE IF Blocks(r.review.findings) THEN "blocking_findings" ELSE "success"

\* App.Review looks at the tests only if the operator asked it to fail on reviews.
CommandExit ==
    IF command = "review" /\ ~ settings.failOnReview /\ run.open = 0 /\ run.gates = {}
    THEN "success" ELSE ExitCode(run)

\* finalizeRunState
Status(exit, r) ==
    IF exit = "success"
    THEN IF r.degraded \/ r.review.findings # {} THEN "degraded" ELSE "passed"
    ELSE IF exit = "blocking_findings" \/ Blocks(r.review.findings) \/ r.limit THEN "blocked"
    ELSE "failed"

finalize ==
    /\ pc = "finalize"
    /\ final' = [run EXCEPT !.status = Status(CommandExit, run)]
    /\ pc' = "done"
    /\ UNCHANGED <<command, settings, tree, round, reviewer, ledger, run, operator, transfer,
                   target, undecided, takenBack, approved>>

\* The deferred handlers: an error, a cancellation or an integrity violation.
\* A review that is cancelled counts as failed.
fail(status) ==
    /\ pc \notin {"finalize", "done"}
    /\ command = "review" => status # "cancelled"
    /\ final' = [run EXCEPT !.status = IF status = "failed" /\ Blocks(run.review.findings)
                                       THEN "blocked" ELSE status]
    /\ pc' = "done"
    /\ UNCHANGED <<command, settings, tree, round, reviewer, ledger, run, operator, transfer,
                   target, undecided, takenBack, approved>>

-----------------------------------------------------------------------------
(* The operator: tagteam findings defer, tagteam findings resolve *)

operatorReads(kind, id) ==
    /\ operator.pc = "idle" /\ operator.left > 0
    /\ IF kind = "defer" THEN MayDefer(ledger, id) ELSE MayResolve(ledger, id)
    /\ operator' = [pc |-> kind, id |-> id, read |-> ledger, left |-> operator.left - 1]
    /\ UNCHANGED <<command, settings, tree, pc, round, reviewer, ledger, run, final, transfer,
                   target, undecided, takenBack, approved>>

operatorWrites ==
    /\ operator.pc \in {"defer", "resolve"}
    /\ ledger' = [operator.read EXCEPT ![operator.id].status =
                      IF operator.pc = "defer" THEN "deferred_with_approval" ELSE "fixed"]
    /\ undecided' = IF operator.pc = "defer" THEN undecided \ {operator.id} ELSE undecided
    /\ takenBack' = takenBack \cup {id \in FindingIds : ledger[id] # operator.read[id]}
    /\ operator' = Idle(operator.left)
    /\ UNCHANGED <<command, settings, tree, pc, round, reviewer, run, final, transfer, target,
                   approved>>

-----------------------------------------------------------------------------
(* TransferRun *)

\* Mutant: only a quarantined run is turned away.
QuarantineOnly ==
    /\ final.status # "quarantined"
    /\ final.review.verdict = "pass"
    /\ OpenBlocking(ledger) = {}
    /\ final.regression = "no_new_failures"
    /\ final.gates \cap (Denied \cup Outside) = {}

\* What is asked of final.json and findings.json.  The scope is bounded here.
Transferable ==
    /\ final.status \notin {"cancelled", "quarantined", "failed"} /\ ~ final.limit
    /\ final.review.verdict = "pass"
    /\ OpenBlocking(ledger) = {}
    /\ final.regression = "no_new_failures"
    /\ final.gates \cap (Denied \cup Outside) = {}

\* A check that the transfer passes, or that ends it.
Checked(before, after, condition) ==
    /\ transfer.status = before
    /\ transfer' = [transfer EXCEPT !.status = IF condition THEN after ELSE "rejected"]
    /\ UNCHANGED <<command, settings, tree, pc, round, reviewer, ledger, run, final, operator,
                   target, undecided, takenBack, approved>>

beginTransfer == pc = "done" /\ Checked(None, "checked", Transferable)

compareSource == Checked("checked", "compared", tree = final.diff)

checkTarget == Checked("compared", "testing", target.head = "baseline" /\ ~ target.edited)

\* Focused tests, lint, git apply --check and git apply.
applyPatch ==
    /\ transfer.status = "testing"
    /\ \/ /\ target' = [target EXCEPT !.patch = final.diff]
          /\ transfer' = [transfer EXCEPT !.status = "applied"]
       \/ /\ transfer' = [transfer EXCEPT !.status = "rejected"]
          /\ UNCHANGED target
    /\ UNCHANGED <<command, settings, tree, pc, round, reviewer, ledger, run, final, operator,
                   undecided, takenBack, approved>>

\* The target must hold the reviewed diff and nothing else, or the patch is
\* reversed; it is as well when the diff of the target cannot be captured.
verifyTarget ==
    /\ transfer.status = "applied"
    /\ \/ /\ target.head = "baseline" /\ ~ target.edited
          /\ transfer' = [transfer EXCEPT !.status = "transferred", !.diff = target.patch]
          /\ UNCHANGED target
       \/ /\ transfer' = [transfer EXCEPT !.status = "rejected"]
          /\ target' = [target EXCEPT !.patch = {}]
       \/ /\ transfer' = [transfer EXCEPT !.status = "rejected", !.failedRollback = TRUE]
          /\ UNCHANGED target
    /\ UNCHANGED <<command, settings, tree, pc, round, reviewer, ledger, run, final, operator,
                   undecided, takenBack, approved>>

\* Work goes on in both checkouts before and during the transfer: one change.
outsideWork ==
    /\ pc = "done" /\ final.review.verdict = "pass"
    /\ tree = final.diff /\ target.head = "baseline" /\ ~ target.edited
    /\ \/ \E content \in Trees : tree' = content /\ UNCHANGED target
       \/ target' = [target EXCEPT !.edited = TRUE] /\ UNCHANGED tree
       \/ target' = [target EXCEPT !.head = "moved"] /\ UNCHANGED tree
    /\ transfer.status \notin {"rejected", "transferred"}
    /\ UNCHANGED <<command, settings, pc, round, reviewer, ledger, run, final, operator,
                   transfer, undecided, takenBack, approved>>

-----------------------------------------------------------------------------
RoundsNext ==
    \/ runBaselineTest \/ captureAndGate \/ runTests
    \/ \E content \in Trees : workerDelivers(content)
    \/ \E verdict \in {"pass", "needs_changes"}, findings \in Findings, closes \in SUBSET Known :
           reviewReplies(verdict, findings, closes)
    \/ reviewInvalid \/ reviewerFails
    \/ nextRound \/ decide \/ finalize
    \/ \E status \in {"failed", "cancelled", "quarantined"} : fail(status)
    \/ \E kind \in {"defer", "resolve"}, id \in FindingIds : operatorReads(kind, id)
    \/ operatorWrites
    \/ beginTransfer \/ compareSource \/ checkTarget \/ applyPatch \/ verifyTarget \/ outsideWork

RoundsSpec == RoundsInit /\ [][RoundsNext]_roundsVars

-----------------------------------------------------------------------------
Succeeded == final.status \in {"passed", "degraded"}

(* A run succeeds only when somebody has decided about every blocking finding  *)
(* of a gate or of an accepted review: a reviewer closed or downgraded it, a    *)
(* complete gate evaluation did not find it any more, or the operator deferred  *)
(* it (updateFindingsLedger, computeExitCode, DeferFinding).  The exception is  *)
(* a finding whose entry a command of the operator wrote over with the older    *)
(* one it had read, and which was not found again since: findings.json has no   *)
(* lock.  A command that overlaps with a run forgets nothing else.              *)
BlockersAreDecided == Succeeded => undecided \subseteq takenBack

(* What is transferred is the diff that the last review passed, as it was      *)
(* captured, with nothing left to decide when the transfer began: not the diff *)
(* of a later round whose review never came (TransferRun).                     *)
TransferredWasReviewed ==
    transfer.status \notin {None, "rejected"} =>
        /\ approved.valid /\ final.diff = approved.tree
        /\ transfer.status = "transferred" => transfer.diff = approved.tree

(* A rejected transfer leaves the patch in the target only when the reversal   *)
(* failed, and then it says so (rollbackAppliedPatch).                         *)
RejectedLeavesTarget ==
    transfer.status = "rejected" /\ ~ transfer.failedRollback => target.patch = {}

(* "passed" is said of a review that is the reviewer's own: one that the       *)
(* worker's model rewrote, or another reviewer gave, makes the run "degraded"  *)
(* (repairJSONWithWorker, setFinalDegraded).                                   *)
PassedIsUnaided == final.status = "passed" => ~ final.repaired

(* No success of a run hides what the parser recognised: the tests of the very *)
(* diff of the result name nothing that those of the baseline did not name,     *)
(* through any rounds, also when they pass; and if that diff fails them, they   *)
(* named at least one failure (compareRegression, computeExitCode).             *)
NamedFailuresBlock ==
    Succeeded /\ command # "review" /\ settings.tests =>
        /\ final.tested.passed = (Failing(final.diff) = {})
        /\ final.tested.named \subseteq final.baseline.named
        /\ ~ final.tested.passed => final.tested.named # {}

-----------------------------------------------------------------------------
(* What the documentation says *)

(* README.md: regressions "remain blocking even when tests are green", and a    *)
(* run does not succeed with a test failing that the baseline passed.           *)
NewFailuresBlock == Succeeded /\ command = "run" /\ settings.tests => final.diff \cap Breaking = {}

(* findings.go: a finding is closed by a disposition, a gate or an approval.    *)
EveryBlockerIsDecided == Succeeded => undecided = {}
=============================================================================
