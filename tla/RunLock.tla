------------------------------- MODULE RunLock -------------------------------
(***************************************************************************)
(* The two locks a tagteam process holds while it works on a run:          *)
(*   - run.lock in the run directory (run_lock.go), a file created with    *)
(*     O_EXCL that holds the pid of its creator and survives a crash;      *)
(*   - the invocation lock of a serialized adapter (invocation_lock.go),   *)
(*     a kernel flock that a crash releases, waited for with a deadline.   *)
(*                                                                         *)
(* Each process works on one directory, RunOf: the directory of a run, or  *)
(* that of a repository, whose lock guards the approval ledger.  Starting  *)
(* a run and using the ledger refuse any run.lock they find; a resumer     *)
(* reclaims a stale one (allowStale).  Acquiring is not atomic: the file   *)
(* is read and judged, removed, created and written in separate steps, and *)
(* Release reads and removes.                                              *)
(*                                                                         *)
(* Reading and reclaiming a stale lock are separate steps, and nothing     *)
(* keeps two resumers of one run apart in between: those are remembered in *)
(* raced.                                                                  *)
(*                                                                         *)
(* This is the Unix build.  Pids are not reused.                           *)
(***************************************************************************)
EXTENDS Integers, FiniteSets

CONSTANTS Processes,
          Runs,
          RunOf,           \* [Processes -> Runs]
          Resumers,        \* the processes that call Resume
          LedgerUsers,     \* the processes that want the approval ledger
          MaxPolls,        \* bound: polls of 500 ms that fit in maxWait
          MaxInvocations,  \* bound: serialized calls made by one process
          None

\* run.lock: who created it, and whether its pid has been written yet.
RunLockRecord == [owner : Processes, written : BOOLEAN]

ASSUME RunOfAssumption == RunOf \in [Processes -> Runs]
ASSUME RolesAssumption == Resumers \cup LedgerUsers \subseteq Processes
\* Whoever starts a run makes its directory, with os.Mkdir (createRunDir): a run
\* that can be resumed is started by one process.
ASSUME StartersAssumption ==
    \A p \in Resumers, q, r \in Processes \ Resumers :
        RunOf[p] = RunOf[q] /\ RunOf[p] = RunOf[r] => q = r
ASSUME NoneAssumption == None \notin Processes \cup RunLockRecord
ASSUME BoundsAssumption == MaxPolls \in Nat /\ MaxInvocations \in Nat

VARIABLES pc,        \* [Processes -> Steps]
          lockFile,  \* [Runs -> run.lock, or None]
          resumable, \* runs whose state.json has been written
          raced,     \* history: the resumers that were past reading the lock of
                     \* a run while another one was
          flock,     \* the process that holds the invocation lock, or None
          polls,     \* [Processes -> attempts at the invocation lock so far]
          calls      \* [Processes -> serialized calls made so far]

files == <<lockFile, resumable, raced>>
slot  == <<flock, polls, calls>>
lockVars  == <<pc, files, slot>>

Steps == {"out", "clear", "stale", "created", "locked", "waiting", "invoking",
          "releasing", "done", "dead"}

processAlive(p) == pc[p] # "dead"

\* Between a successful acquireRunLock and the end of Release.
Holding == {"locked", "waiting", "invoking", "releasing"}

\* Past reading run.lock, and not over.
Entered == Holding \cup {"clear", "stale", "created"}

LockOf(p) == lockFile[RunOf[p]]

\* The resumers p would run into.
Rivals(p) == IF p \in Resumers
             THEN {q \in Resumers \ {p} : RunOf[q] = RunOf[p] /\ pc[q] \in Entered}
             ELSE {}

Go(p, step) == pc' = [pc EXCEPT ![p] = step]

SetLock(p, lock) == lockFile' = [lockFile EXCEPT ![RunOf[p]] = lock]

LockInit ==
    /\ pc = [p \in Processes |-> "out"]
    /\ lockFile = [r \in Runs |-> None]
    /\ resumable = {}
    /\ raced = {}
    /\ flock = None
    /\ polls = [p \in Processes |-> 0]
    /\ calls = [p \in Processes |-> 0]

-----------------------------------------------------------------------------
(* acquireRunLock *)

Held(lock) == lock.written /\ processAlive(lock.owner)

\* A run can be named to resume once its state has been written.
MayAcquire(p) == p \in Resumers => RunOf[p] \in resumable

Race(p) ==
    raced' = IF Rivals(p) = {} THEN raced ELSE raced \cup {p} \cup Rivals(p)

findNoLock(p) ==
    /\ pc[p] = "out"
    /\ MayAcquire(p)
    /\ LockOf(p) = None
    /\ Go(p, "clear")
    /\ Race(p)
    /\ UNCHANGED <<lockFile, resumable, slot>>

findStaleLock(p) ==
    /\ pc[p] = "out"
    /\ MayAcquire(p)
    /\ LockOf(p) # None
    /\ ~ Held(LockOf(p))
    /\ p \in Resumers
    /\ Go(p, "stale")
    /\ Race(p)
    /\ UNCHANGED <<lockFile, resumable, slot>>

refused(p) ==
    /\ pc[p] = "out"
    /\ MayAcquire(p)
    /\ LockOf(p) # None
    /\ Held(LockOf(p)) \/ p \notin Resumers
    /\ Go(p, "done")
    /\ UNCHANGED <<files, slot>>

\* os.Remove: whatever is there now, which may be nothing.
removeStale(p) ==
    /\ pc[p] = "stale"
    /\ SetLock(p, None)
    /\ Go(p, "clear")
    /\ UNCHANGED <<resumable, raced, slot>>

\* Mutant: created without O_EXCL.
createAnyway(p) ==
    /\ pc[p] = "clear"
    /\ SetLock(p, [owner |-> p, written |-> FALSE])
    /\ Go(p, "created")
    /\ UNCHANGED <<resumable, raced, slot>>

createExclusive(p) ==
    /\ pc[p] = "clear"
    /\ IF LockOf(p) = None
       THEN /\ SetLock(p, [owner |-> p, written |-> FALSE])
            /\ Go(p, "created")
       ELSE /\ Go(p, "done")
            /\ UNCHANGED lockFile
    /\ UNCHANGED <<resumable, raced, slot>>

\* The pid goes into the file that was created, wherever it is by now.
writeRecord(p) ==
    /\ pc[p] = "created"
    /\ IF LockOf(p) # None /\ LockOf(p).owner = p
       THEN SetLock(p, [owner |-> p, written |-> TRUE])
       ELSE UNCHANGED lockFile
    /\ Go(p, "locked")
    /\ UNCHANGED <<resumable, raced, slot>>

\* Write, Sync or Close failed: the path is removed again.
writeRecordFails(p) ==
    /\ pc[p] = "created"
    /\ SetLock(p, None)
    /\ Go(p, "done")
    /\ UNCHANGED <<resumable, raced, slot>>

-----------------------------------------------------------------------------
(* The work done under the run lock *)

\* The first writeRunState of the run: it can be resumed from now on.
persistRunState(p) ==
    /\ pc[p] = "locked"
    /\ p \notin LedgerUsers
    /\ RunOf[p] \notin resumable
    /\ resumable' = resumable \cup {RunOf[p]}
    /\ UNCHANGED <<pc, lockFile, raced, slot>>

\* A process that works on a run makes one serialized call after the other.
MayInvoke(p) ==
    /\ p \notin LedgerUsers
    /\ pc[p] \in {"locked", "waiting"}
    /\ calls[p] < MaxInvocations

\* acquireInvocationSlot, the first try and every later one.
acquireInvocationSlot(p) ==
    /\ MayInvoke(p)
    /\ flock = None
    /\ flock' = p
    /\ polls' = [polls EXCEPT ![p] = 0]
    /\ calls' = [calls EXCEPT ![p] = @ + 1]
    /\ Go(p, "invoking")
    /\ UNCHANGED files

\* Mutant: the deadline is computed again at every poll.
waitForever(p) ==
    /\ MayInvoke(p)
    /\ flock \notin {None, p}
    /\ Go(p, "waiting")
    /\ UNCHANGED <<files, slot>>

waitForSlot(p) ==
    /\ MayInvoke(p)
    /\ flock \notin {None, p}
    /\ polls[p] < MaxPolls
    /\ polls' = [polls EXCEPT ![p] = @ + 1]
    /\ Go(p, "waiting")
    /\ UNCHANGED <<files, flock, calls>>

\* The call fails, closed, and the run goes on to its next call.
SlotRefused(p) ==
    /\ pc[p] = "waiting"
    /\ polls' = [polls EXCEPT ![p] = 0]
    /\ calls' = [calls EXCEPT ![p] = @ + 1]
    /\ Go(p, "locked")
    /\ UNCHANGED <<files, flock>>

slotTimedOut(p) == flock # None /\ polls[p] = MaxPolls /\ SlotRefused(p)

slotCancelled(p) == SlotRefused(p)

\* The agent returned and the deferred release ran.  Nothing bounds an
\* agent that was given no timeout.
finishInvocation(p) ==
    /\ pc[p] = "invoking"
    /\ flock' = None
    /\ Go(p, "locked")
    /\ UNCHANGED <<files, polls, calls>>

-----------------------------------------------------------------------------
(* runLock.Release, and the end of a process *)

readOwnLock(p) ==
    /\ pc[p] = "locked"
    /\ IF LockOf(p) = [owner |-> p, written |-> TRUE]
       THEN Go(p, "releasing")
       ELSE Go(p, "done")
    /\ UNCHANGED <<files, slot>>

removeOwnLock(p) ==
    /\ pc[p] = "releasing"
    /\ SetLock(p, None)
    /\ Go(p, "done")
    /\ UNCHANGED <<resumable, raced, slot>>

\* The kernel drops the flock of a dead process; run.lock stays.
crash(p) ==
    /\ pc[p] \notin {"out", "done", "dead"}
    /\ Go(p, "dead")
    /\ flock' = IF flock = p THEN None ELSE flock
    /\ UNCHANGED <<files, polls, calls>>

-----------------------------------------------------------------------------

\* What a running process does without waiting for anybody else.
Work(p) ==
    \/ findNoLock(p) \/ findStaleLock(p) \/ refused(p)
    \/ removeStale(p) \/ createExclusive(p)
    \/ writeRecord(p) \/ writeRecordFails(p)
    \/ acquireInvocationSlot(p) \/ waitForSlot(p) \/ slotTimedOut(p)
    \/ readOwnLock(p) \/ removeOwnLock(p)

LockNext ==
    \E p \in Processes :
        \/ Work(p)
        \/ persistRunState(p)
        \/ slotCancelled(p)
        \/ finishInvocation(p)
        \/ crash(p)

\* A process that is not waiting for its agent keeps going.  Agents may never
\* return; cancellations and crashes need not happen.
LockFair == \A p \in Processes : WF_lockVars(Work(p))

LockSpec == LockInit /\ [][LockNext]_lockVars /\ LockFair

-----------------------------------------------------------------------------
(* Properties *)

\* Type invariant of the processes and of both locks.
LockTypeOK ==
    /\ pc \in [Processes -> Steps]
    /\ lockFile \in [Runs -> RunLockRecord \cup {None}]
    /\ resumable \subseteq Runs
    /\ raced \subseteq Resumers
    /\ flock \in Processes \cup {None}
    /\ polls \in [Processes -> 0..MaxPolls]
    /\ calls \in [Processes -> 0..MaxInvocations]

\* Exclusive ownership as resume.go:97-98 states it: two live processes are
\* never both past acquireRunLock on the same run directory.  Two resumers that
\* reclaim one stale lock are.
RunExclusion ==
    \A p, q \in Processes :
        /\ pc[p] \in Holding
        /\ pc[q] \in Holding
        /\ RunOf[p] = RunOf[q]
        => p = q

\* What acquireRunLock and Release do achieve: two live processes are past it
\* on one directory only if both are resumers that raced each other to it.
ExclusiveUnlessRaced ==
    \A p, q \in Processes :
        /\ pc[p] \in Holding
        /\ pc[q] \in Holding
        /\ RunOf[p] = RunOf[q]
        => p = q \/ {p, q} \subseteq raced

\* The owner is on record: while a process works on a run, run.lock exists
\* and carries its pid, so that everybody else is refused; a resumer that raced
\* may have lost its record to its rival.
OnRecordUnlessRaced ==
    \A p \in Processes :
        pc[p] \in Holding => \/ LockOf(p) = [owner |-> p, written |-> TRUE]
                             \/ p \in raced

\* Nobody is deprived of a run.lock: the file of a live process that works on
\* a run, and did not race, is only ever removed by that process.
OnlyOwnersUnlock ==
    [][ \A p \in Processes \ raced :
          pc[p] \in Holding /\ pc'[p] \in Holding => UNCHANGED lockFile[RunOf[p]]
      ]_lockVars

\* The lock of a run is not orphaned while its owner lives: a process that
\* has ended normally leaves no run.lock of its own behind.
NoLockLeftBehind ==
    \A p \in Processes :
        pc[p] = "done" => LockOf(p) = None \/ LockOf(p).owner # p

\* Who owns a directory, by its lock: a file without a pid names nobody.
lockOwner ==
    [r \in Runs |-> IF lockFile[r] # None /\ lockFile[r].written
                    THEN lockFile[r].owner
                    ELSE None]

lockWorkers == {p \in Processes : pc[p] \in Holding}

Ownership == INSTANCE RunOwnership WITH owner <- lockOwner, workers <- lockWorkers

\* Exclusive ownership (resume.go:97-98), as far as it goes: the files and the
\* steps of the processes on them implement RunOwnership.  Through every
\* interleaving and crash a directory is taken when it is free, given up by its
\* owner, and reclaimed from the dead only; only resumers that raced each other
\* take it from one another, never from a process that has it on record.
ImplementsOwnership == Ownership!Spec

\* Every wait for the invocation lock ends, even when the agent of the
\* process that holds it never returns.
WaitsEnd ==
    \A p \in Processes : pc[p] = "waiting" ~> pc[p] # "waiting"

=============================================================================
