------------------------------ MODULE RunState ------------------------------
(***************************************************************************)
(* The persisted state of one run: state_machine.go, run_persistence.go    *)
(* and the part of resume.go that reads it back.                           *)
(*                                                                         *)
(* A transition is appended to events.jsonl and then replaces state.json.  *)
(* A terminal result is the final transition and then final.json with      *)
(* latest.json; when one of these fails, a second pass records the failure.*)
(* An append and a replacement are each all or nothing, but both can       *)
(* report an error after they took effect.                                 *)
(*                                                                         *)
(* One process at a time works on the run (RunLock); any number of them    *)
(* follow each other, and one can die between any two steps.  "passed"     *)
(* stands for the two successful statuses, passed and degraded, "failed"   *)
(* for cancelled runs and integrity violations too.  A diff is the content *)
(* of the worktree relative to the baseline; the diff and review files     *)
(* that state.json names are taken to be intact.                           *)
(***************************************************************************)
EXTENDS Integers, FiniteSets

CONSTANTS WorkPhases,     \* the phases this run goes through
          Diffs,          \* contents of the worktree
          NoDiff,         \* state.json without a diff hash
          None,           \* a file that does not exist
          MaxRound,       \* bound: rounds
          MaxTransitions, \* bound: running transitions of all processes
          MaxErrors,      \* bound: failed writes
          MaxProcesses    \* bound: processes that work on the run

phases == <<"planning", "implementing", "testing", "reviewing", "repairing">>

ASSUME PhasesAssumption ==
    /\ WorkPhases \subseteq {phases[i] : i \in 1..5}
    /\ "planning" \in WorkPhases
ASSUME DiffsAssumption == NoDiff \notin Diffs
ASSUME BoundsAssumption ==
    /\ MaxRound \in Nat \ {0}
    /\ MaxTransitions \in Nat
    /\ MaxErrors \in Nat
    /\ MaxProcesses \in Nat

VARIABLES state,     \* state.json, or None
          recorded,  \* the events in events.jsonl
          lastEvent, \* the transition in the last of them, or None
          final,     \* the status in final.json, or None
          latest,    \* the status in latest.json, or None
          tree,      \* the live worktree
          moved,     \* HEAD is not at the baseline of the run
          pc,        \* where the process is; "down" when there is none
          writing,   \* the transition being persisted, or None
          outcome,   \* the status of the FinalRun in memory
          stash,     \* the process holds an autostash
          lost,      \* artifacts whose last write by this process failed
          report,    \* what the last process told its caller
          acknowledged, \* some process reported success
          transitions, errors, processes

journal   == <<recorded, lastEvent>>
terminal  == <<final, latest>>
artifacts == <<state, journal, terminal>>
world     == <<tree, moved>>
memory    == <<pc, writing, outcome, stash>>
told      == <<report, acknowledged>>
counts    == <<transitions, errors, processes>>
vars == <<artifacts, world, memory, lost, told, counts>>

Statuses == {"running", "passed", "blocked", "failed", "quarantined"}
Outcomes == {"running", "passed", "blocked", "failed"}
Transition == [status : Statuses, phase : WorkPhases, diff : Diffs \cup {NoDiff},
               round : 0..MaxRound]
RunStateRecord == [transition : Transition, completed : WorkPhases \cup {None}]

\* A file that does not exist claims nothing.
ASSUME NoneAssumption == None \notin RunStateRecord /\ None \notin Outcomes

\* What to do when the write returns.
Continuations == {"work", "terminal", "retry", "quarantine"}
Write == [next : RunStateRecord, then : Continuations, appended : BOOLEAN]

phaseOrder == [p \in {phases[i] : i \in 1..5} \cup {None} |->
                 IF p = None THEN 0 ELSE CHOOSE i \in 1..5 : phases[i] = p]

Later(p, q) == IF phaseOrder[p] > phaseOrder[q] THEN p ELSE q

Init ==
    /\ state = None /\ recorded = {} /\ lastEvent = None
    /\ final = None /\ latest = None
    /\ tree \in Diffs /\ moved = FALSE
    /\ pc = "down" /\ writing = None /\ outcome = "running" /\ stash = FALSE
    /\ lost = {}
    /\ report = "nothing" /\ acknowledged = FALSE
    /\ transitions = 0 /\ errors = 0 /\ processes = 0

-----------------------------------------------------------------------------
(* persistRunState *)

completedPhaseForTransition(previous, next) ==
    LET before == IF previous = None THEN None ELSE previous.completed
    IN  IF next.status \in {"passed", "blocked"} /\ Later(next.phase, before) # before
        THEN next.phase
        ELSE IF previous = None \/ previous.transition.phase = next.phase
             THEN before
             ELSE Later(previous.transition.phase, before)

\* Enter writeRunState: the previous state is read, the record is made, and
\* an unchanged transition is not journaled again.
Persist(next, then) ==
    /\ pc' = "persisting"
    /\ writing' = [next |-> [transition |-> next,
                             completed |-> completedPhaseForTransition(state, next)],
                   then |-> then,
                   appended |-> state # None /\ state.transition = next]

\* What the model remembers of an event once it is not the last one.
EventOf(t) == [status |-> t.status, phase |-> t.phase]

Append ==
    /\ recorded' = recorded \cup {EventOf(writing.next.transition)}
    /\ lastEvent' = writing.next.transition

\* Mutant: state.json is replaced without the event.
appendNothing ==
    /\ pc = "persisting"
    /\ ~ writing.appended
    /\ writing' = [writing EXCEPT !.appended = TRUE]
    /\ UNCHANGED <<artifacts, world, pc, outcome, stash, lost, told, counts>>

appendEvent ==
    /\ pc = "persisting"
    /\ ~ writing.appended
    /\ Append
    /\ writing' = [writing EXCEPT !.appended = TRUE]
    /\ UNCHANGED <<state, terminal, world, pc, outcome, stash, lost, told, counts>>

Replace == state' = writing.next

\* Where a finished writeRunState returns to.
Returned ==
    CASE writing.then = "work" -> pc' = "working" /\ writing' = None
      [] writing.then = "terminal" -> pc' = "final" /\ UNCHANGED writing
      [] writing.then = "retry" -> pc' = "ending" /\ writing' = None
      [] writing.then = "quarantine" -> pc' = "refusing" /\ writing' = None

writeState ==
    /\ pc = "persisting"
    /\ writing.appended
    /\ Replace
    /\ Returned
    /\ lost' = lost \ {"state"}
    /\ UNCHANGED <<journal, terminal, world, outcome, stash, told, counts>>

-----------------------------------------------------------------------------
(* A process that starts and works *)

Running(phase, round, diff) ==
    [status |-> "running", phase |-> phase, diff |-> diff, round |-> round]

start ==
    /\ pc = "down" /\ processes = 0 /\ MaxProcesses > 0
    /\ processes' = 1
    /\ stash' = TRUE
    /\ Persist(Running("planning", 0, NoDiff), "work")
    /\ UNCHANGED <<artifacts, world, outcome, lost, told, transitions, errors>>

\* A running transition of the loop or of a call it makes: the phase of a call
\* follows from its role.  The diff is that of the live tree, or left out.
writeRunState(phase, round) ==
    /\ pc = "working"
    /\ transitions < MaxTransitions
    /\ transitions' = transitions + 1
    /\ round \in {state.transition.round, state.transition.round + 1}
    /\ \E diff \in {tree, NoDiff} : Persist(Running(phase, round, diff), "work")
    /\ UNCHANGED <<artifacts, world, outcome, stash, lost, told, errors, processes>>

Editing == {"implementing", "repairing"}

editorEdits(diff) ==
    /\ pc = "working"
    /\ state.transition.phase \in Editing
    /\ tree' = diff
    /\ UNCHANGED <<artifacts, moved, memory, lost, told, counts>>

\* The state of a failed run keeps the phase of state.json.  Its round is the
\* last completed one and its diff the last captured one, if any.
FailedStates ==
    {[status |-> "failed", phase |-> phase, diff |-> diff, round |-> round] :
        phase \in {IF state = None THEN "planning" ELSE state.transition.phase},
        diff \in {NoDiff, tree, IF state = None THEN NoDiff ELSE state.transition.diff},
        round \in 0..(IF state = None THEN 0 ELSE state.transition.round)}

\* The deferred handler of a run that returns an error: cancellation included.
fail ==
    /\ pc \in {"working", "failing"}
    /\ outcome' = "failed"
    /\ \E failed \in FailedStates : Persist(failed, "terminal")
    /\ UNCHANGED <<artifacts, world, stash, lost, told, counts>>

finish(result) ==
    /\ pc = "working"
    /\ state.transition.phase \notin {"planning"} \cup Editing
    /\ outcome' = result
    /\ Persist([state.transition EXCEPT !.status = result, !.diff = tree], "terminal")
    /\ UNCHANGED <<artifacts, world, stash, lost, told, counts>>

-----------------------------------------------------------------------------
(* persistTerminalRunWith: the rest of it, after the state was written *)

persistFinal(status) == final' = status /\ latest' = status

\* How far it can get when it reports an error or the process dies.
PartOfPersistFinal(status) ==
    \/ UNCHANGED terminal
    \/ final' = status /\ latest' \in {latest, status}

writeFinal ==
    /\ pc = "final"
    /\ persistFinal(outcome)
    /\ pc' = "ending"
    /\ writing' = None
    /\ UNCHANGED <<state, journal, world, outcome, stash, lost, told, counts>>

\* Mutant: the state of the second pass is made before the result is marked.
secondPassUnmarked ==
    /\ pc = "retryFinal"
    /\ outcome' = "failed"
    /\ Persist(writing.next.transition, "retry")
    /\ persistFinal("failed")
    /\ lost' = lost \ {"final", "latest"}
    /\ UNCHANGED <<state, journal, world, stash, told, counts>>

\* markTerminalPersistenceFailure and the state it leads to.
MarkedFailed ==
    /\ outcome' = "failed"
    /\ Persist([writing.next.transition EXCEPT !.status = "failed"], "retry")

secondPass ==
    /\ pc = "retryFinal"
    /\ MarkedFailed
    /\ persistFinal("failed")
    /\ lost' = lost \ {"final", "latest"}
    /\ UNCHANGED <<state, journal, world, stash, told, counts>>

-----------------------------------------------------------------------------
(* Writes that return an error, with or without effect *)

\* What follows a failed writeRunState.
StateWriteFailed ==
    CASE writing.then = "work" -> pc' = "failing" /\ writing' = None
      [] writing.then = "terminal" -> pc' = "retryFinal" /\ UNCHANGED writing
      [] writing.then = "retry" -> pc' = "ending" /\ writing' = None
      [] writing.then = "quarantine" -> pc' = "refusing" /\ writing' = None

OneError == errors < MaxErrors /\ errors' = errors + 1

appendFails ==
    /\ pc = "persisting" /\ ~ writing.appended
    /\ OneError
    /\ Append \/ UNCHANGED journal
    /\ StateWriteFailed
    /\ lost' = lost \cup {"state"}
    /\ UNCHANGED <<state, terminal, world, outcome, stash, told, transitions, processes>>

writeStateFails ==
    /\ pc = "persisting" /\ writing.appended
    /\ OneError
    /\ Replace \/ UNCHANGED state
    /\ StateWriteFailed
    /\ lost' = lost \cup {"state"}
    /\ UNCHANGED <<journal, terminal, world, outcome, stash, told, transitions,
                   processes>>

writeFinalFails ==
    /\ pc = "final"
    /\ OneError
    /\ PartOfPersistFinal(outcome)
    /\ lost' = lost \cup {"final", "latest"}
    /\ pc' = "retryFinal"
    /\ UNCHANGED <<state, journal, world, writing, outcome, stash, told, transitions,
                   processes>>

secondPassFails ==
    /\ pc = "retryFinal"
    /\ OneError
    /\ MarkedFailed
    /\ PartOfPersistFinal("failed")
    /\ lost' = lost \cup {"final", "latest"}
    /\ UNCHANGED <<state, journal, world, stash, told, transitions, processes>>

-----------------------------------------------------------------------------
(* The end of a process *)

\* finishPreflightCleanup: the stash cannot be applied again, and the result
\* that was just persisted becomes a failure.  The phase it is recorded under
\* is that of the role shown last, not that of state.json.
autostashRestoreFails ==
    /\ pc = "ending"
    /\ stash
    /\ stash' = FALSE
    /\ outcome' = "failed"
    /\ \E failed \in FailedStates,
          phase \in WorkPhases \cap {"planning", "implementing", "reviewing"} :
          Persist([failed EXCEPT !.phase = phase], "terminal")
    /\ UNCHANGED <<artifacts, world, lost, told, counts>>

\* The process is gone, with what it held in memory.
Down == pc' = "down" /\ writing' = None /\ outcome' = "running" /\ stash' = FALSE

end ==
    /\ pc = "ending"
    /\ Down
    /\ report' = outcome
    /\ acknowledged' = (acknowledged \/ outcome = "passed")
    /\ UNCHANGED <<artifacts, world, lost, counts>>

endRefused ==
    /\ pc = "refusing"
    /\ Down
    /\ report' = "quarantined"
    /\ UNCHANGED <<artifacts, world, lost, acknowledged, counts>>

\* The write in progress may have taken effect.
crash ==
    /\ pc # "down"
    /\ Down
    /\ report' = "nothing" /\ lost' = {}
    /\ \/ UNCHANGED artifacts
       \/ /\ pc = "persisting" /\ ~ writing.appended /\ Append
          /\ UNCHANGED <<state, terminal>>
       \/ pc = "persisting" /\ writing.appended /\ Replace /\ UNCHANGED <<journal, terminal>>
       \/ pc = "final" /\ PartOfPersistFinal(outcome) /\ UNCHANGED <<state, journal>>
       \/ pc = "retryFinal" /\ PartOfPersistFinal("failed") /\ UNCHANGED <<state, journal>>
    /\ UNCHANGED <<world, acknowledged, counts>>

-----------------------------------------------------------------------------
(* resumeAtRunDir *)

\* Somebody works in the repository while no process does.
outsideChange ==
    /\ pc = "down" /\ processes \in 1..(MaxProcesses - 1)
    /\ tree' \in Diffs /\ moved' \in BOOLEAN
    /\ UNCHANGED <<artifacts, memory, lost, told, counts>>

TreeVerified ==
    /\ ~ moved
    /\ \/ state.transition.diff \in {NoDiff, tree}
       \/ state.transition.phase \in Editing

\* verifyResumeArtifacts: the last event is the transition in state.json.
JournalVerified ==
    /\ lastEvent # None
    /\ lastEvent.phase = state.transition.phase
    /\ lastEvent.status = state.transition.status
    /\ lastEvent.round = state.transition.round
    /\ \/ NoDiff \in {lastEvent.diff, state.transition.diff}
       \/ lastEvent.diff = state.transition.diff

Resuming ==
    /\ pc = "down" /\ processes > 0 /\ processes < MaxProcesses
    /\ state # None
    /\ processes' = processes + 1
    /\ lost' = {}
    /\ UNCHANGED <<artifacts, world, stash, transitions, errors>>

quarantineResume ==
    /\ Resuming
    /\ ~ (TreeVerified /\ JournalVerified)
    /\ Persist([state.transition EXCEPT !.status = "quarantined"], "quarantine")
    /\ report' = "nothing"
    /\ UNCHANGED <<outcome, acknowledged>>

returnSaved ==
    /\ Resuming
    /\ TreeVerified /\ JournalVerified
    /\ final = "passed"
    /\ report' = "passed"
    /\ acknowledged' = TRUE
    /\ UNCHANGED <<pc, writing, outcome>>

\* resumeExistingRun: its round, and the hash of the last captured diff.
ResumedRound == IF state.transition.round > 1 THEN state.transition.round ELSE 1

\* Mutant: the saved result is not looked at.
resumeAnyway ==
    /\ Resuming
    /\ TreeVerified /\ JournalVerified
    /\ Persist(Running(state.transition.phase, ResumedRound, NoDiff), "work")
    /\ report' = "nothing"
    /\ UNCHANGED <<outcome, acknowledged>>

resume ==
    /\ Resuming
    /\ TreeVerified /\ JournalVerified
    /\ final # "passed"
    /\ \E diff \in {state.transition.diff, NoDiff} :
          Persist(Running(state.transition.phase, ResumedRound, diff), "work")
    /\ report' = "nothing"
    /\ UNCHANGED <<outcome, acknowledged>>

\* An error before the first write: adapters, frozen inputs, missing evidence.
resumeFails ==
    /\ Resuming
    /\ TreeVerified /\ JournalVerified
    /\ final # "passed"
    /\ outcome' = "failed"
    /\ \E failed \in FailedStates :
          Persist([failed EXCEPT !.round = ResumedRound], "terminal")
    /\ report' = "nothing"
    /\ UNCHANGED acknowledged

-----------------------------------------------------------------------------

Next ==
    \/ appendEvent \/ appendFails \/ writeState \/ writeStateFails
    \/ start
    \/ \E phase \in WorkPhases, round \in 0..MaxRound : writeRunState(phase, round)
    \/ \E diff \in Diffs : editorEdits(diff)
    \/ fail
    \/ \E result \in {"passed", "blocked"} : finish(result)
    \/ writeFinal \/ writeFinalFails \/ secondPass \/ secondPassFails
    \/ autostashRestoreFails \/ end \/ endRefused \/ crash
    \/ outsideChange \/ quarantineResume \/ returnSaved \/ resume
    \/ resumeFails

Spec == Init /\ [][Next]_vars

-----------------------------------------------------------------------------
(* Properties *)

\* Type invariant of the artifacts and of the process.
TypeOK ==
    /\ state \in RunStateRecord \cup {None}
    /\ recorded \subseteq [status : Statuses, phase : WorkPhases]
    /\ lastEvent \in Transition \cup {None}
    /\ final \in Outcomes \cup {None}
    /\ latest \in Outcomes \cup {None}
    /\ tree \in Diffs /\ moved \in BOOLEAN /\ stash \in BOOLEAN
    /\ pc \in {"down", "working", "failing", "persisting", "final", "retryFinal",
               "ending", "refusing"}
    /\ pc = "working" => state \in RunStateRecord
    /\ writing \in IF pc \in {"persisting", "final", "retryFinal"} THEN Write ELSE {None}
    /\ outcome \in Outcomes
    /\ lost \subseteq {"state", "final", "latest"}
    /\ report \in Outcomes \cup {"nothing", "quarantined"}
    /\ acknowledged \in BOOLEAN
    /\ transitions \in Nat /\ errors \in Nat /\ processes \in Nat

\* state.json never claims a transition whose event was not recorded
\* (state_machine.go:91-94), whatever fails and whenever the process dies.
JournalLeads == state # None => EventOf(state.transition) \in recorded

\* A phase is only called completed after the run has left it, or has ended in
\* it with a verdict: being in a phase does not complete it.
CompletedWasLeft ==
    state # None /\ state.completed # None =>
        /\ \E event \in recorded : event.phase = state.completed
        /\ \E event \in recorded : \/ event.phase # state.completed
                                   \/ event.status \in {"passed", "blocked"}

\* A success that a caller was told of is on disk and stays there: a later
\* crash, resume, quarantine or failed write does not take it back.
AcknowledgedIsDurable == acknowledged => final = "passed"

\* Nothing works again on a run whose success was reported: a resume returns
\* the saved result or quarantines the run.
SuccessIsFinal ==
    acknowledged => \/ pc \in {"down", "refusing"}
                    \/ pc = "persisting" /\ writing.then = "quarantine"

Claims(artifact) ==
    CASE artifact = "state" -> IF state = None THEN None ELSE state.transition.status
      [] artifact = "final" -> final
      [] artifact = "latest" -> latest

\* After a run was reported as failed no readable artifact claims a clean
\* success (persistTerminalRun, run_persistence.go:60-64), unless the last
\* write of that very artifact failed.
FailureNeverLooksPassed ==
    report = "failed" /\ pc = "down" =>
        \A artifact \in {"state", "final", "latest"} \ lost : Claims(artifact) # "passed"

\* "resume use state.json as the source of truth; events.jsonl is diagnostic
\* history that can be rebuilt" (state_machine.go:94-95): resume quarantines a
\* run for a changed worktree or HEAD, never for a journal that is one
\* uncommitted entry ahead.
JournalIsDiagnostic ==
    [][quarantineResume => ~ TreeVerified]_vars

=============================================================================
