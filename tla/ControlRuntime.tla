--------------------------- MODULE ControlRuntime ----------------------------
(***************************************************************************)
(* The control plane: approved starts, resumes and cancels of runs         *)
(* (control_runtime.go, control_start_runtime.go, control_resume_          *)
(* runtime.go), the jobs of a runtime and their shutdown                   *)
(* (control_runtime_lifecycle.go), the assessment that precedes a resume   *)
(* (control_resume_assessment.go) and the active-run pointer               *)
(* (active_run.go), for one worktree.                                      *)
(*                                                                         *)
(* Several processes share the approval ledger, the run directories and    *)
(* active.json.  A runtime process serves calls and owns the jobs they     *)
(* launch; a "cli" call is `tagteam resume` in a process of its own, which *)
(* asks the ledger nothing.  The approval ledger is guarded by a lock file *)
(* that is never reclaimed.  A run is named by the start that reserved it. *)
(*                                                                         *)
(* Digests, paths, the capability baseline and option parsing only refuse  *)
(* a call before it changes anything and are left out.  A job's run is     *)
(* RunLoop with its outcome chosen freely.                                 *)
(***************************************************************************)
EXTENDS FiniteSets, Naturals

CONSTANTS Processes,
          Calls,
          Op,        \* [Calls -> {"start", "resume", "cancel", "cli"}]
          Home,      \* [Calls -> Processes]: who serves the call
          Nonce,     \* [Calls -> approval nonces]; one approval per nonce
          Key,       \* [Calls -> idempotency keys], of starts
          Target,    \* [Calls -> Calls]: the start whose run the call names
          Expiring,  \* the nonces whose approval may expire
          Casts,     \* bound: the sets of calls that one behaviour makes
          MaxCrashes,
          None

Runs == {c \in Calls : Op[c] = "start"}

\* A process either serves the control plane or is a shell.
Servers == {Home[c] : c \in {d \in Calls : Op[d] # "cli"}}

ASSUME OpAssumption == Op \in [Calls -> {"start", "resume", "cancel", "cli"}]
ASSUME HomeAssumption ==
    /\ Home \in [Calls -> Processes]
    /\ \A c \in Calls : Op[c] = "cli" => Home[c] \notin Servers
ASSUME TargetAssumption == Target \in [Calls -> Runs] /\ \A c \in Runs : Target[c] = c
ASSUME NoneAssumption == None \notin Processes \cup Calls
ASSUME BoundsAssumption == MaxCrashes \in Nat /\ Casts \subseteq SUBSET Calls

VARIABLES ledger,     \* control-approvals.json: the consumed approvals
          ledgerLock, \* the call that holds the lock of the ledger, or None
          expired,    \* the nonces whose approval has expired
          overtaken,  \* history: the calls that held an approval as it expired
          active,     \* active.json, or None
          disk,       \* [Runs -> the artifacts of the run]
          call,       \* [Calls -> step of the handler]
          seen,       \* [Calls -> what Cancel read before it took the ledger lock]
          job,        \* [Calls -> step of the job the call launched]
          jobs,       \* [Processes -> [Runs -> the registered job, or None]]
          cancelled,  \* the jobs whose context is cancelled
          runtime,    \* [Processes -> "open", "closing", "closed" or "dead"]
          effective   \* history: the calls that launched or cancelled something

approvals == <<ledger, ledgerLock, expired, overtaken>>
artifacts == <<active, disk>>
workers   == <<job, jobs, cancelled>>
vars      == <<approvals, artifacts, call, seen, workers, runtime, effective>>

Record == [op : {"start", "resume", "cancel"}, nonce : {Nonce[c] : c \in Calls},
           key : {Key[c] : c \in Calls}, run : Runs]

\* request is the owner that cancel-request.json names; None stands for pid 0.
RunArtifacts == [dir : BOOLEAN, state : {"none", "running", "failed", "passed", "cancelled"},
                 final : {"none", "failed", "passed", "cancelled"},
                 lock : Processes \cup {None}, request : SUBSET (Processes \cup {None})]

RecordOf(c) == [op |-> Op[c], nonce |-> Nonce[c], key |-> Key[c], run |-> Target[c]]

Live == {"starting", "created", "running", "finished", "released", "returned"}

processAlive(p) == runtime[p] # "dead"

OwnerDead(r) == \E p \in Processes : disk[r].lock = p /\ ~ processAlive(p)

Here(c, step) == call[c] = step /\ processAlive(Home[c])

Step(c, step) == call' = [call EXCEPT ![c] = step]

Init ==
    /\ ledger = {} /\ ledgerLock = None /\ expired = {} /\ overtaken = {}
    /\ active = None
    /\ disk = [r \in Runs |-> [dir |-> FALSE, state |-> "none", final |-> "none",
                               lock |-> None, request |-> {}]]
    /\ \E cast \in Casts : call = [c \in Calls |-> IF c \in cast THEN "new" ELSE "done"]
    /\ seen = [c \in Calls |-> [owner |-> None, job |-> None]]
    /\ job = [c \in Calls |-> "none"]
    /\ jobs = [p \in Processes |-> [r \in Runs |-> None]]
    /\ cancelled = {}
    /\ runtime = [p \in Processes |-> "open"]
    /\ effective = {}

-----------------------------------------------------------------------------
(* Approvals *)

\* The handlers that hold an approval they have found valid.
InHand(c) == call[c] \in {"valid", "assessed", "targeted"}

expire(n) ==
    /\ n \in Expiring \ expired
    /\ expired' = expired \cup {n}
    /\ overtaken' = overtaken \cup {c \in Calls : Nonce[c] = n /\ InHand(c)}
    /\ UNCHANGED <<ledger, ledgerLock, artifacts, call, seen, workers, runtime, effective>>

validateControlApproval(c)       == Nonce[c] \notin expired
validateControlResumeApproval(c) == Nonce[c] \notin expired
validateControlCancelApproval(c) == Nonce[c] \notin expired

\* Mutant: the ledger forgets every record, not only the expired ones.
pruneAll(records) == {}

pruneControlStartRecords(records) ==
    {r \in records : r.op = "start" => r.nonce \notin expired}

controlLedgerHasNonce(records, n) == \E r \in records : r.nonce = n

\* What Start, and Resume and Cancel for theirs, find in the ledger.
Replayed(c, records) ==
    \E r \in records :
        /\ r.op = Op[c]
        /\ IF Op[c] = "start" THEN r.key = Key[c] ELSE r = RecordOf(c)

Consumed(c, records) ==
    \/ controlLedgerHasNonce(records, Nonce[c])
    \/ (Op[c] # "start" /\ \E r \in records : r.op = Op[c] /\ r.run = Target[c])

\* The handler returns: refused, or with the handle of an earlier call.
refuse(c) ==
    /\ Step(c, "done")
    /\ UNCHANGED <<approvals, artifacts, seen, workers, runtime, effective>>

\* writeJSONDurable may fail with or without effect; the call then ends and
\* releases the lock it held.
ledgerWriteFails(c, records) ==
    /\ ledger' \in {ledger, records}
    /\ Step(c, "done")
    /\ UNCHANGED <<ledgerLock, expired, overtaken, artifacts, seen, workers, runtime, effective>>

-----------------------------------------------------------------------------
(* Start *)

\* Everything Start looks at before it takes the ledger lock; the whole of Start
\* is under lifecycleMu.RLock.
beginStart(c) ==
    /\ Op[c] = "start" /\ Here(c, "new")
    /\ IF runtime[Home[c]] = "open" /\ validateControlApproval(c)
       THEN /\ Step(c, "valid")
            /\ UNCHANGED <<approvals, artifacts, seen, workers, runtime, effective>>
       ELSE refuse(c)

controlStartRecordActive(r) == disk[r.run].final = "none"

\* Mutant: only active.json tells that the worktree is in use.
OnlyPointerBusy(records) == active # None /\ active.status = "running"

Busy(records) ==
    \/ active # None /\ active.status = "running"
    \/ \E r \in records : r.op = "start" /\ controlStartRecordActive(r)

startRefused(c) ==
    /\ Op[c] = "start" /\ Here(c, "valid")
    /\ \/ ledgerLock # None
       \/ LET kept == pruneControlStartRecords(ledger) IN
              Replayed(c, kept) \/ Consumed(c, kept) \/ Busy(kept)
    /\ refuse(c)

\* The lock of the ledger is held until the job is registered.
startAdmitted(c) ==
    LET kept == pruneControlStartRecords(ledger) IN
    /\ Op[c] = "start" /\ Here(c, "valid")
    /\ ledgerLock = None
    /\ ~ Replayed(c, kept) /\ ~ Consumed(c, kept) /\ ~ Busy(kept)
    /\ \/ /\ ledger' = kept \cup {RecordOf(c)}
          /\ ledgerLock' = c
          /\ Step(c, "admitted")
          /\ UNCHANGED <<expired, overtaken, artifacts, seen, workers, runtime, effective>>
       \/ ledgerWriteFails(c, kept \cup {RecordOf(c)})

\* registerJob and the goroutine; a later job of the same run takes the entry.
startJob(c) ==
    /\ Op[c] \in {"start", "resume"} /\ Here(c, "admitted")
    /\ jobs' = [jobs EXCEPT ![Home[c]][Target[c]] = c]
    /\ job' = [job EXCEPT ![c] = "starting"]
    /\ effective' = effective \cup {c}
    /\ ledgerLock' = IF ledgerLock = c THEN None ELSE ledgerLock
    /\ Step(c, "done")
    /\ UNCHANGED <<ledger, expired, overtaken, artifacts, seen, cancelled, runtime>>

-----------------------------------------------------------------------------
(* Resume *)

\* PrepareResume, as far as other processes can change its answer.
Resumable(r) ==
    /\ disk[r].dir /\ disk[r].state # "none"
    /\ active = None \/ active.status # "running"
    /\ disk[r].lock = None
    /\ disk[r].final # "passed"

\* The approval, the ledger and the run are looked at before the ledger lock is taken.
PrepareResume(c) ==
    /\ Op[c] = "resume" /\ Here(c, "new")
    /\ Target[c] \in effective
    /\ IF /\ runtime[Home[c]] = "open" /\ validateControlResumeApproval(c)
          /\ ledgerLock = None /\ ~ Replayed(c, ledger) /\ ~ Consumed(c, ledger)
          /\ Resumable(Target[c])
       THEN /\ Step(c, "assessed")
            /\ UNCHANGED <<approvals, artifacts, seen, workers, runtime, effective>>
       ELSE refuse(c)

resumeRefused(c) ==
    /\ Op[c] = "resume" /\ Here(c, "assessed")
    /\ ledgerLock # None \/ Replayed(c, ledger) \/ Consumed(c, ledger)
    /\ refuse(c)

\* Mutant: the ledger is only consulted before the assessment.
resumeUnchecked(c) ==
    /\ Op[c] = "resume" /\ Here(c, "assessed")
    /\ ledgerLock = None
    /\ ledger' = ledger \cup {RecordOf(c)}
    /\ Step(c, "admitted")
    /\ UNCHANGED <<ledgerLock, expired, overtaken, artifacts, seen, workers, runtime, effective>>

\* Locked, checked again, consumed and unlocked; the job starts after that.
resumeAdmitted(c) ==
    /\ Op[c] = "resume" /\ Here(c, "assessed")
    /\ ledgerLock = None /\ ~ Replayed(c, ledger) /\ ~ Consumed(c, ledger)
    /\ \/ /\ ledger' = ledger \cup {RecordOf(c)}
          /\ Step(c, "admitted")
          /\ UNCHANGED <<ledgerLock, expired, overtaken, artifacts, seen, workers, runtime, effective>>
       \/ ledgerWriteFails(c, ledger \cup {RecordOf(c)})

-----------------------------------------------------------------------------
(* Cancel: not under lifecycleMu *)

\* A run that ended is refused, or reported cancelled without an approval.
controlCancelTarget(c) ==
    LET r == Target[c]
        owner == disk[r].lock
        local == jobs[Home[c]][r]
    IN  /\ Op[c] = "cancel" /\ Here(c, "new")
        /\ r \in effective
        /\ IF /\ validateControlCancelApproval(c)
              /\ disk[r].dir /\ disk[r].final = "none"
              /\ disk[r].state \in {"none", "running"}
              /\ local # None \/ owner = None \/ OwnerDead(r)
           THEN /\ seen' = [seen EXCEPT ![c] = [owner |-> owner, job |-> local]]
                /\ Step(c, "targeted")
                /\ UNCHANGED <<approvals, artifacts, workers, runtime, effective>>
           ELSE refuse(c)

cancelRefused(c) ==
    /\ Op[c] = "cancel" /\ Here(c, "targeted")
    /\ ledgerLock # None \/ Replayed(c, ledger) \/ Consumed(c, ledger)
    /\ refuse(c)

cancelAdmitted(c) ==
    /\ Op[c] = "cancel" /\ Here(c, "targeted")
    /\ ledgerLock = None /\ ~ Replayed(c, ledger) /\ ~ Consumed(c, ledger)
    /\ \/ /\ ledger' = ledger \cup {RecordOf(c)}
          /\ Step(c, "admitted")
          /\ UNCHANGED <<ledgerLock, expired, overtaken, artifacts, seen, workers, runtime, effective>>
       \/ ledgerWriteFails(c, ledger \cup {RecordOf(c)})

\* The request is written first.  A local job is told; the run of a dead owner
\* is marked cancelled, if it has a state, without taking its lock.
cancelRun(c) ==
    LET r == Target[c]
        requested == [disk EXCEPT ![r].request = {seen[c].owner}]
        marks == seen[c].job = None /\ disk[r].state # "none" /\ disk[r].final # "cancelled"
    IN  /\ Op[c] = "cancel" /\ Here(c, "admitted")
        /\ cancelled' = IF seen[c].job = None THEN cancelled ELSE cancelled \cup {seen[c].job}
        /\ disk' = IF marks
                   THEN [requested EXCEPT ![r].state = "cancelled", ![r].final = "cancelled"]
                   ELSE requested
        /\ active' = IF marks /\ active # None /\ active.run = r
                     THEN [active EXCEPT !.status = "cancelled"] ELSE active
        /\ effective' = effective \cup {c}
        /\ Step(c, "done")
        /\ UNCHANGED <<approvals, seen, job, jobs, runtime>>

\* One tick: every registered job whose run has a request for this owner.
watchControlCancellation(p) ==
    LET due == {r \in Runs : jobs[p][r] # None /\ disk[r].request \cap {p, None} # {}} IN
    /\ runtime[p] = "open"
    /\ {jobs[p][r] : r \in due} \ cancelled # {}
    /\ cancelled' = cancelled \cup {jobs[p][r] : r \in due}
    /\ UNCHANGED <<approvals, artifacts, call, seen, job, jobs, runtime, effective>>

-----------------------------------------------------------------------------
(* A job: the run, or its resume *)

At(c, step) == job[c] = step /\ processAlive(Home[c])

JobStep(c, step) ==
    /\ job' = [job EXCEPT ![c] = step]
    /\ UNCHANGED <<approvals, call, seen, jobs, cancelled, runtime, effective>>

\* Preflight fails before there is a run directory.
persistStartFailure(c) ==
    /\ Op[c] = "start" /\ At(c, "starting")
    /\ disk' = [disk EXCEPT ![c].dir = TRUE, ![c].state = "failed", ![c].final = "failed"]
    /\ JobStep(c, "returned")
    /\ UNCHANGED active

createRunDir(c) ==
    /\ Op[c] = "start" /\ At(c, "starting")
    /\ disk' = [disk EXCEPT ![c].dir = TRUE]
    /\ JobStep(c, "created")
    /\ UNCHANGED active

\* The run lock, activateRun and the first state: whoever was active is replaced.
activateRun(c) ==
    LET r == Target[c] IN
    /\ IF Op[c] = "start" THEN At(c, "created") ELSE At(c, "starting")
    /\ disk[r].lock = None \/ (Op[c] # "start" /\ OwnerDead(r))
    /\ disk' = [disk EXCEPT ![r].lock = Home[c], ![r].state = "running"]
    /\ active' = [run |-> r, status |-> "running"]
    /\ JobStep(c, "running")

\* A resume that finds the run locked, or its evidence changed.  runResume then
\* writes a failed result into the run, whoever owns it; the CLI does not.
persistResumeFailure(c) ==
    LET r == Target[c]
        free == disk[r].lock = None \/ OwnerDead(r)
        after == IF free THEN [disk EXCEPT ![r].lock = None] ELSE disk
    IN  /\ Op[c] \in {"resume", "cli"} /\ At(c, "starting")
        /\ disk' = IF Op[c] = "cli" \/ (disk[r].final = "passed" /\ free) THEN after
                   ELSE [after EXCEPT ![r].state = "failed", ![r].final = "failed"]
        /\ JobStep(c, "returned")
        /\ UNCHANGED active

\* The outcome; a cancelled run may still pass if it was about to.
finishRun(c, status) ==
    /\ At(c, "running")
    /\ status = "cancelled" => c \in cancelled
    /\ disk' = [disk EXCEPT ![Target[c]].state = status, ![Target[c]].final = status]
    /\ JobStep(c, "finished")
    /\ UNCHANGED active

releaseRunLock(c) ==
    /\ At(c, "finished")
    /\ disk' = IF disk[Target[c]].lock = Home[c]
               THEN [disk EXCEPT ![Target[c]].lock = None] ELSE disk
    /\ JobStep(c, "released")
    /\ UNCHANGED active

\* After the lock: the pointer is cleared after a success and marked failed
\* otherwise, if it is this run's.  The result that is on disk may by now be
\* another process's.
deactivateRun(c) ==
    LET r == Target[c]
        mine == active # None /\ active.run = r
    IN  /\ At(c, "released")
        /\ \/ /\ disk[r].final # "cancelled"
              /\ active' = IF mine THEN None ELSE active
           \/ /\ disk[r].final # "passed"
              /\ active' = IF mine THEN [active EXCEPT !.status = "failed"] ELSE active
        /\ JobStep(c, "returned")
        /\ UNCHANGED disk

\* By run: the entry may be that of a later job.
unregisterJob(c) ==
    /\ At(c, "returned")
    /\ jobs' = IF Op[c] = "cli" THEN jobs ELSE [jobs EXCEPT ![Home[c]][Target[c]] = None]
    /\ job' = [job EXCEPT ![c] = "done"]
    /\ cancelled' = cancelled \ {c}
    /\ UNCHANGED <<approvals, artifacts, call, seen, runtime, effective>>

\* `tagteam resume` by an operator: no approval, no ledger, no registration.
cliResume(c) ==
    /\ Op[c] = "cli" /\ Here(c, "new")
    /\ disk[Target[c]].state # "none"
    /\ job' = [job EXCEPT ![c] = "starting"]
    /\ Step(c, "done")
    /\ UNCHANGED <<approvals, artifacts, seen, jobs, cancelled, runtime, effective>>

-----------------------------------------------------------------------------
(* Shutdown *)

Owned(p) == {c \in Calls : Home[c] = p /\ job[c] \in Live}

Serving(p) ==
    {c \in Calls : Home[c] = p /\ Op[c] \in {"start", "resume"}
                   /\ call[c] \in {"valid", "assessed", "admitted"}}

\* Mutant: Close does not wait for the calls that are being served.
closeAtOnce(p) ==
    /\ runtime[p] = "open"
    /\ cancelled' = cancelled \cup ({jobs[p][r] : r \in Runs} \ {None})
    /\ jobs' = [jobs EXCEPT ![p] = [r \in Runs |-> None]]
    /\ runtime' = [runtime EXCEPT ![p] = "closing"]
    /\ UNCHANGED <<approvals, artifacts, call, seen, job, effective>>

\* lifecycleMu excludes Start and Resume; the registered jobs are cancelled.
Close(p) ==
    /\ runtime[p] = "open" /\ Serving(p) = {}
    /\ cancelled' = cancelled \cup ({jobs[p][r] : r \in Runs} \ {None})
    /\ jobs' = [jobs EXCEPT ![p] = [r \in Runs |-> None]]
    /\ runtime' = [runtime EXCEPT ![p] = "closing"]
    /\ UNCHANGED <<approvals, artifacts, call, seen, job, effective>>

\* Mutant: the wait group is counted down when the run was released.
waitForReleased(p) ==
    /\ runtime[p] = "closing"
    /\ \A c \in Calls : Home[c] = p => job[c] \notin {"starting", "created", "running"}
    /\ runtime' = [runtime EXCEPT ![p] = "closed"]
    /\ UNCHANGED <<approvals, artifacts, call, seen, workers, effective>>

\* Mutant: Close waits for jobs that were never started.
waitForAll(p) ==
    /\ runtime[p] = "closing"
    /\ \A c \in Calls : Home[c] = p => job[c] = "done"
    /\ runtime' = [runtime EXCEPT ![p] = "closed"]
    /\ UNCHANGED <<approvals, artifacts, call, seen, workers, effective>>

\* workers.Wait: Close returns.
waitForWorkers(p) ==
    /\ runtime[p] = "closing" /\ Owned(p) = {}
    /\ runtime' = [runtime EXCEPT ![p] = "closed"]
    /\ UNCHANGED <<approvals, artifacts, call, seen, workers, effective>>

\* The lock files and the pointer stay as they are.
crash(p) ==
    /\ processAlive(p)
    /\ Cardinality({q \in Processes : ~ processAlive(q)}) < MaxCrashes
    /\ runtime' = [runtime EXCEPT ![p] = "dead"]
    /\ jobs' = [jobs EXCEPT ![p] = [r \in Runs |-> None]]
    /\ job' = [c \in Calls |-> IF c \in Owned(p) THEN "dead" ELSE job[c]]
    /\ cancelled' = cancelled \ Owned(p)
    /\ UNCHANGED <<approvals, artifacts, call, seen, effective>>

-----------------------------------------------------------------------------

Handle(c) ==
    \/ beginStart(c) \/ startRefused(c) \/ startAdmitted(c) \/ startJob(c)
    \/ PrepareResume(c) \/ resumeRefused(c) \/ resumeAdmitted(c)
    \/ controlCancelTarget(c) \/ cancelRefused(c) \/ cancelAdmitted(c) \/ cancelRun(c)
    \/ cliResume(c)

Run(c) ==
    \/ persistStartFailure(c) \/ createRunDir(c) \/ activateRun(c) \/ persistResumeFailure(c)
    \/ \E status \in {"passed", "failed", "cancelled"} : finishRun(c, status)
    \/ releaseRunLock(c) \/ deactivateRun(c) \/ unregisterJob(c)

Next ==
    \/ \E c \in Calls : Handle(c) \/ Run(c) \/ expire(Nonce[c])
    \/ \E p \in Servers : watchControlCancellation(p) \/ Close(p) \/ waitForWorkers(p)
    \/ \E p \in Processes : crash(p)

\* A live process goes on with its jobs: every agent call has a timeout.
Work(p) == (\E c \in Calls : Home[c] = p /\ Run(c)) \/ waitForWorkers(p)

Fairness == \A p \in Servers : WF_vars(Work(p))

Spec == Init /\ [][Next]_vars /\ Fairness

-----------------------------------------------------------------------------
(* Properties *)

\* Every variable has the values that the artifacts and the registry can hold.
TypeOK ==
    /\ ledger \subseteq Record /\ ledgerLock \in Calls \cup {None}
    /\ expired \subseteq {Nonce[c] : c \in Calls} /\ overtaken \subseteq Calls
    /\ active \in [run : Runs, status : {"running", "failed", "cancelled"}] \cup {None}
    /\ disk \in [Runs -> RunArtifacts]
    /\ call \in [Calls -> {"new", "valid", "assessed", "targeted", "admitted", "done"}]
    /\ seen \in [Calls -> [owner : Processes \cup {None}, job : Calls \cup {None}]]
    /\ job \in [Calls -> {"none", "done", "dead"} \cup Live]
    /\ jobs \in [Processes -> [Runs -> Calls \cup {None}]]
    /\ cancelled \subseteq Calls /\ effective \subseteq Calls
    /\ runtime \in [Processes -> {"open", "closing", "closed", "dead"}]

\* Of all calls that carry one nonce, through any processes, retries and failed
\* writes, at most one launches or cancels anything, until the approval expires
\* (controlLedgerHasNonce).  Then only the record of a start is forgotten, and
\* only by a call that held the approval as it expired.
SingleUseUntilExpiry ==
    \A c, d \in effective :
        Nonce[c] = Nonce[d] => \/ c = d
                               \/ Op[c] = "start" /\ d \in overtaken
                               \/ Op[d] = "start" /\ c \in overtaken

\* The comment at control_runtime.go:243: approvals are single-use across every
\* action, whenever they expire.
SingleUse == \A c, d \in effective : Nonce[c] = Nonce[d] => c = d

\* A reserved start excludes another one for as long as its approval is valid
\* (controlStartRecordActive): of two started runs that have no result yet, one
\* has outlived its approval.
StartsExclude ==
    \A c, d \in Runs :
        /\ job[c] \in {"starting", "created", "running"} /\ disk[c].final = "none"
        /\ job[d] \in {"starting", "created", "running"} /\ disk[d].final = "none"
        => c = d \/ Nonce[c] \in expired \/ Nonce[d] \in expired

\* A run that ended does not keep the worktree busy (deactivateRun): while the
\* pointer says that a run goes on, a job of that run does, or died doing it.
WorktreeIsFreed ==
    active # None /\ active.status = "running"
    => \E c \in Calls : /\ Target[c] = active.run
                        /\ job[c] \in {"running", "finished", "released", "dead"}

\* Close does not return while workers can still mutate run state
\* (control_runtime_lifecycle.go:47): no job of a closed runtime is live, also
\* none that a call launched while Close was waiting.
CloseDrains == \A p \in Processes : runtime[p] = "closed" => Owned(p) = {}

\* Close returns, unless the process dies first.
CloseEnds ==
    \A p \in Processes : runtime[p] = "closing" ~> runtime[p] \in {"closed", "dead"}

\* Close cancels every job owned by the runtime, and Cancel finds it
\* (control_runtime_lifecycle.go:43): a live job of an open runtime is registered.
JobsStayCancellable ==
    \A c \in Calls :
        /\ job[c] \in {"starting", "created", "running"}
        /\ Op[c] # "cli"
        /\ runtime[Home[c]] = "open"
        => jobs[Home[c]][Target[c]] = c \/ c \in cancelled

=============================================================================
