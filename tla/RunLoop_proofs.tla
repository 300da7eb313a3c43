--------------------------- MODULE RunLoop_proofs ---------------------------
(***************************************************************************)
(* Proofs about RunLoop, for any contents, failing contents, number of     *)
(* rounds and of processes, with a fallback worker or without one.         *)
(*                                                                         *)
(* One inductive invariant (Inv) of nine named parts, each about one thing *)
(* the code relies on across steps and processes.  The parts are proved    *)
(* one after the other, each relative to the ones before it.               *)
(***************************************************************************)
EXTENDS RunLoop, TLAPS

-----------------------------------------------------------------------------
(* The inductive invariant *)

\* Where the work of a worker is being captured, tested or reviewed.
Captured == {"captured", "tests", "testing", "scout", "review", "reviewing", "reviewed"}

\* Where the process belongs to a call of a worker, or decides about one.
Working == {"worker", "editing", "interrupted", "fallback", "retrying", "checkpointed",
            "arbiter", "deciding", "continuation", "continuing", "capture", "quarantine"}

\* A process beyond planning is in a round, and only a run with a scout calls one.
RoundsInv ==
    /\ pc \in Working \cup Captured \cup {"round"} => round \in 1..MaxRounds
    /\ Resumed => round \in 1..MaxRounds
    /\ run.rounds <= MaxRounds
    /\ pc = "scout" => mode = "relay"

\* From its capture to the decision about it, the diff is what the worktree holds.
CaptureInv ==
    /\ pc \in Captured => (run.path = round /\ run.hash = tree)
    /\ pc \in {"scout", "review", "reviewing", "reviewed"} /\ ~ skipTests => run.tested = tree
    /\ pc = "reviewed" => verdict \in {"pass", "changes"}
    /\ pc = "reviewed" /\ verdict = "pass" => approved = tree

\* A run that passed is over, and its result is that of the last review.
PassedInv ==
    /\ Passed => pc = "down"
    /\ PassedWasReviewed

\* What is tested or reviewed, or was when the run stopped, a worker handed over.
DeliveredInv ==
    /\ ~ touched /\ (pc \in Captured \cup {"capture"} \/ state.phase \in {"testing", "reviewing"})
           => tree = delivered
    /\ PassedWasDelivered

\* While a worker may edit, and while its failure is decided, state.json says so.
PhaseInv ==
    pc \in {"editing", "retrying", "continuing", "interrupted", "checkpointed", "arbiter",
            "deciding", "continuation", "fallback", "quarantine"}
        => state.phase \in Editing

\* Undecided work is in the hands of the recovery, or an editing phase stopped
\* and left it in the worktree.
UndecidedInv ==
    /\ partial = "undecided" =>
           \/ pc \in {"interrupted", "checkpointed", "arbiter", "deciding", "quarantine"}
           \/ pc = "down" /\ state.phase \in Editing /\ tree # Clean
    /\ pc = "interrupted" => before = Clean
    /\ pc = "interrupted" /\ partial = "undecided" => tree # Clean

\* The baseline test sees the clean worktree.
BaselineInv ==
    mode = "supervisor" /\ ~ touched =>
        /\ pc \in {"baseline", "planning"} \/ state.phase = "planning" => tree = Clean
        /\ run.baseline \in {None, Clean}
        /\ final.run.baseline \in {None, Clean}

\* The first process: the patch that state.json or the FinalRun names is not
\* captured again, and the worktree is that patch until a worker edits.
EvidenceInv ==
    processes = 1 =>
        /\ resumedAt = 0
        /\ run.path # 0 => run.hash = patches[run.path]
        /\ state.path # 0 => state.hash = patches[state.path]
        /\ pc \in Working => run.path < round /\ state.path < round
        /\ pc \in Captured \ {"captured"} => state.path \in {0, round}
        /\ pc \in {"baseline", "planning"} => run.path = 0 /\ state.path = 0
        /\ pc = "round" => run.path < round
        /\ pc \in {"round", "worker"} /\ run.path # 0 => run.hash = tree
        /\ pc \in {"round", "worker"} /\ state.path # 0 => state.hash = tree
        /\ pc \in {"editing", "fallback", "retrying"} /\ state.path # 0
               => before = patches[state.path]
        /\ pc = "fallback" => tree = before
        /\ pc \in {"checkpointed", "arbiter", "deciding", "continuation", "continuing"}
               => state.path = 0
        /\ pc # "interrupted"

\* The whole of it.
Inv == /\ TypeOK /\ RoundsInv /\ CaptureInv /\ PassedInv /\ DeliveredInv /\ PhaseInv
       /\ UndecidedInv /\ BaselineInv /\ EvidenceInv

-----------------------------------------------------------------------------
(* Records *)

\* Types of the fields of state.json, final.json and the FinalRun.
LEMMA RecordFacts ==
    /\ \A s \in RunStateRecord :
          /\ s.status \in Statuses /\ s.phase \in Phases /\ s.round \in 0..MaxRounds
          /\ s.path \in {0} \cup Rounds /\ s.hash \in Hashes
    /\ \A r \in FinalRun :
          /\ r.baseline \in Hashes /\ r.tested \in Hashes /\ r.path \in {0} \cup Rounds
          /\ r.hash \in Hashes /\ r.rounds \in 0..MaxRounds
    /\ EmptyRun \in FinalRun
    /\ MaxRounds \in Nat /\ 1 \in Rounds /\ 1..MaxRounds \subseteq Rounds
  BY BoundsAssumption DEF RunStateRecord, FinalRun, EmptyRun, Rounds, Hashes

\* The records of a transition and of a call.
LEMMA MadeFacts ==
    ASSUME TypeOK, NEW phase \in Phases
    PROVE  /\ \A r \in 0..MaxRounds, path \in {0} \cup Rounds :
                LET t == Transition(phase, r, path)
                IN  /\ t \in RunStateRecord
                    /\ t.phase = phase /\ t.round = r /\ t.path = path
                    /\ t.hash = PatchHash(path)
           /\ LET i == Invoked(phase)
              IN  /\ i \in RunStateRecord
                  /\ i.phase = phase /\ i.round = state.round /\ i.path = state.path
                  /\ i.hash = tree
<1>1. \A path \in {0} \cup Rounds : PatchHash(path) \in Hashes
  BY DEF TypeOK, PatchHash, Hashes
<1>2. "running" \in Statuses /\ tree \in Hashes
  BY DEF TypeOK, Statuses, Hashes
<1> QED BY <1>1, <1>2 DEF Transition, Invoked, RunStateRecord, TypeOK

\* What persistTerminalRun leaves.
LEMMA PersistFacts ==
    ASSUME NEW status \in Statuses \ {"running"}, NEW phase \in Phases,
           NEW r \in 0..MaxRounds, NEW result \in FinalRun, Persist(status, phase, r, result)
    PROVE  /\ state' \in RunStateRecord
           /\ state'.phase = phase /\ state'.path = result.path /\ state'.hash = result.hash
           /\ final' \in [status : (Statuses \ {"running"}) \cup {None}, run : FinalRun]
           /\ final'.status = status /\ final'.run = result
  BY DEF Persist, RunStateRecord, FinalRun

\* The process is gone.
LEMMA DownFacts ==
    ASSUME Down
    PROVE  /\ pc' = "down" /\ round' = 0 /\ resumedAt' = 0 /\ skipTests' = FALSE
           /\ before' = Clean /\ verdict' = None /\ run' = EmptyRun
  BY DEF Down

\* What it leaves behind.
LEMMA LeftFacts ==
    ASSUME LeftBehind
    PROVE  /\ partial' \in {partial, "none", "undecided"}
           /\ partial' = "undecided" => tree # Clean /\ (partial = "undecided" \/ WorkerRuns)
  BY DEF LeftBehind

-----------------------------------------------------------------------------
(* Types *)

TypeInv == TypeOK /\ RoundsInv

\* Every step keeps the types, the round and the number of completed rounds
\* within the limit the run was started with.
LEMMA TypeStep == TypeInv /\ [Next]_vars => TypeInv'
<1> SUFFICES ASSUME TypeInv, [Next]_vars PROVE TypeInv'
  OBVIOUS
<1> USE RecordFacts, BoundsAssumption, ContentsAssumption
    DEF TypeInv, TypeOK, RoundsInv, Resumed, PCs, Working, Captured, options, disk, memory, ghosts
<1>0. /\ state \in RunStateRecord /\ run \in FinalRun /\ TypeOK /\ final.run \in FinalRun
      /\ \A r \in FinalRun, t \in Hashes :
            /\ [r EXCEPT !.baseline = t] \in FinalRun /\ [r EXCEPT !.baseline = t].rounds = r.rounds
            /\ [r EXCEPT !.tested = t] \in FinalRun /\ [r EXCEPT !.tested = t].rounds = r.rounds
      /\ \A r \in FinalRun, t \in Hashes, p \in Rounds :
            /\ [r EXCEPT !.path = p, !.hash = t] \in FinalRun
            /\ [r EXCEPT !.path = p, !.hash = t].rounds = r.rounds
      /\ \A r \in FinalRun, n \in 0..MaxRounds :
            /\ [r EXCEPT !.rounds = n] \in FinalRun /\ [r EXCEPT !.rounds = n].rounds = n
  BY DEF FinalRun
<1>v. /\ tree \in Hashes /\ None \in Hashes /\ Contents \subseteq Hashes
      /\ run.path \in {0} \cup Rounds /\ run.rounds \in 0..MaxRounds
      /\ state.path \in {0} \cup Rounds /\ state.phase \in Phases
      /\ {"planning", "implementing", "testing", "reviewing", "repairing"} = Phases
      /\ 1..MaxRounds \subseteq Rounds /\ 1..MaxRounds \subseteq 0..MaxRounds
  BY DEF Hashes, Phases
<1>m. \A phase \in Phases :
         /\ \A r \in 0..MaxRounds, path \in {0} \cup Rounds :
               Transition(phase, r, path) \in RunStateRecord
         /\ Invoked(phase) \in RunStateRecord
  BY <1>0, MadeFacts
<1>r. ResumedRound \in 1..MaxRounds
  BY DEF ResumedRound
<1>1. CASE runBaselineTest
  <2>1. run' \in FinalRun /\ run'.rounds = run.rounds
    BY <1>1, <1>0, <1>v DEF runBaselineTest
  <2> QED BY <1>1, <2>1 DEF runBaselineTest
<1>2. CASE plan
  <2>1. state' \in RunStateRecord
    BY <1>2, <1>v, <1>m DEF plan
  <2> QED BY <1>2, <2>1 DEF plan
<1>3. CASE beginRound
  <2>1. state' \in RunStateRecord
    BY <1>3, <1>v, <1>m DEF beginRound
  <2> QED BY <1>3, <2>1 DEF beginRound
<1>4. CASE callWorker
  <2>1. state' \in RunStateRecord
    BY <1>4, <1>v, <1>m DEF callWorker, calls
  <2> QED BY <1>4, <2>1 DEF callWorker, calls
<1>5. CASE workerDelivers
  BY <1>5 DEF workerDelivers, WorkerRuns, Hashes
<1>6. CASE retryZeroDeltaEditorWithFallback
  BY <1>6 DEF retryZeroDeltaEditorWithFallback
<1>7. CASE checkpoint
  <2>1. state' \in RunStateRecord
    BY <1>7, <1>v, <1>m DEF checkpoint
  <2> QED BY <1>7, <2>1 DEF checkpoint
<1>8. CASE capturePartial
  BY <1>8 DEF capturePartial, Hashes
<1>9. CASE callArbiter
  <2>1. state' \in RunStateRecord
    BY <1>9, <1>v, <1>m DEF callArbiter
  <2> QED BY <1>9, <2>1 DEF callArbiter
<1>10. CASE continuePartial
  BY <1>10 DEF continuePartial
<1>11. CASE quarantinePartial
  BY <1>11 DEF quarantinePartial
<1>12. CASE secondWorkerFails
  BY <1>12 DEF secondWorkerFails
<1>13. CASE captureDiffArtifact
  <2>1. round \in Rounds /\ tree \in Hashes
    BY <1>13, <1>v DEF captureDiffArtifact
  <2>2. run' \in FinalRun /\ run'.rounds = run.rounds
    BY <1>13, <1>0, <2>1 DEF captureDiffArtifact
  <2> QED BY <1>13, <2>1, <2>2 DEF captureDiffArtifact
<1>14. CASE recordCapture
  <2>1. state' \in {Transition("testing", round, run.path),
                     Transition("implementing", round, run.path)}
    BY <1>14 DEF recordCapture
  <2>2. /\ Transition("testing", round, run.path) \in RunStateRecord
        /\ Transition("implementing", round, run.path) \in RunStateRecord
    BY <1>v, <1>m
  <2>3. state' \in RunStateRecord
    BY <2>1, <2>2
  <2> QED BY <1>14, <2>3 DEF recordCapture, AfterTests
<1>15. CASE beginTests
  <2>1. state' \in RunStateRecord
    BY <1>15, <1>v, <1>m DEF beginTests
  <2> QED BY <1>15, <2>1 DEF beginTests
<1>16. CASE runTests
  <2>1. tree \in Hashes
    BY DEF Hashes
  <2>2. run' \in FinalRun /\ run'.rounds = run.rounds
    BY <1>16, <1>0, <2>1 DEF runTests
  <2>3. UNCHANGED <<options, tree, disk, round, resumedAt, skipTests, before, verdict, ghosts,
                    processes>>
    BY <1>16 DEF runTests
  <2>4. pc = "testing" /\ pc' = IF mode = "relay" THEN "scout" ELSE "review"
    BY <1>16 DEF runTests, AfterTests
  <2> QED BY <2>2, <2>3, <2>4
<1>17. CASE runPostScout
  <2>1. state' \in RunStateRecord
    BY <1>17, <1>v, <1>m DEF runPostScout
  <2> QED BY <1>17, <2>1 DEF runPostScout
<1>18. CASE callReviewer
  <2>1. state' \in RunStateRecord
    <3>1. Transition("reviewing", round, run.path) \in RunStateRecord
      BY <1>0, MadeFacts DEF Phases
    <3> QED BY <1>18, <3>1 DEF callReviewer, RunStateRecord, Hashes
  <2> QED BY <1>18, <2>1 DEF callReviewer
<1>19. ASSUME NEW v \in {"pass", "changes"}, reviewCompleted(v) PROVE TypeInv'
  <2>1. state' \in RunStateRecord
    BY <1>19, <1>v, <1>m DEF reviewCompleted
  <2>2. run' \in FinalRun /\ run'.rounds = round
    BY <1>19, <1>0 DEF reviewCompleted
  <2>3. approved' \in Hashes
    BY <1>19, <1>v DEF reviewCompleted
  <2> QED BY <1>19, <2>1, <2>2, <2>3 DEF reviewCompleted
<1>20. CASE nextRound
  <2>1. round \in 0..MaxRounds /\ round + 1 \in 1..MaxRounds
    BY <1>20 DEF nextRound
  <2>2. Transition("repairing", round + 1, run.path) \in RunStateRecord
    BY <2>1, <1>v, <1>m
  <2>3. state' \in RunStateRecord
    BY <1>20, <2>2 DEF nextRound
  <2>4. pc' \in {"worker", "round"} /\ round' \in 1..MaxRounds
    BY <1>20, <2>1 DEF nextRound
  <2>5. /\ skipTests' = FALSE
        /\ UNCHANGED <<options, tree, final, patches, recoveries, resumedAt, before, verdict,
                       run, ghosts, processes>>
    BY <1>20 DEF nextRound
  <2>6. TypeOK'
    <3>1. round' \in 0..MaxRounds /\ pc' \in PCs
      BY <2>4
    <3> QED BY ZenonT(30), <2>3, <3>1, <2>5
  <2>7. RoundsInv'
    BY <2>4, <2>5
  <2> QED BY <2>6, <2>7
<1>21. CASE finalizeReviewedRun
  <2>1. Outcome \in Statuses \ {"running"}
    BY DEF Outcome, Statuses
  <2>2. /\ state' \in RunStateRecord
        /\ final' \in [status : (Statuses \ {"running"}) \cup {None}, run : FinalRun]
    BY <1>21, <1>0, <2>1, PersistFacts DEF finalizeReviewedRun, Phases
  <2> QED BY <1>21, <2>2, DownFacts DEF finalizeReviewedRun
<1>22. ASSUME NEW status \in {"failed", "quarantined"}, fail(status) PROVE TypeInv'
  <2>1. /\ state' \in RunStateRecord
        /\ final' \in [status : (Statuses \ {"running"}) \cup {None}, run : FinalRun]
    BY <1>22, <1>0, PersistFacts DEF fail, PersistFailure, Statuses
  <2> QED BY <1>22, <2>1, DownFacts, LeftFacts DEF fail
<1>23. ASSUME NEW content \in Contents, workerEdits(content) PROVE TypeInv'
  BY <1>23 DEF workerEdits
<1>24. ASSUME NEW content \in Contents, outsideEdit(content) PROVE TypeInv'
  BY <1>24 DEF outsideEdit
<1>25. CASE repairReviewJSON
  <2>1. state' \in RunStateRecord
    BY <1>25, <1>v, <1>m DEF repairReviewJSON
  <2> QED BY <1>25, <2>1 DEF repairReviewJSON
<1>26. CASE cancel
  <2>1. run.rounds + 1 \in Rounds /\ tree \in Hashes
    BY <1>v DEF Rounds
  <2>2. /\ state' \in RunStateRecord
        /\ final' \in [status : (Statuses \ {"running"}) \cup {None}, run : FinalRun]
    BY <1>26, <1>0, <2>1, PersistFacts DEF cancel, PersistFailure, Statuses
  <2> QED BY <1>26, <2>1, <2>2, DownFacts, LeftFacts DEF cancel
<1>27. CASE crash
  BY <1>27, DownFacts, LeftFacts DEF crash
<1>28. CASE quarantineResume
  <2>1. state' \in RunStateRecord
    BY <1>28 DEF quarantineResume, RunStateRecord, Statuses
  <2> QED BY <1>28, <2>1 DEF quarantineResume, Resuming
<1>29. CASE refuseResume
  <2>1. /\ state' \in RunStateRecord
        /\ final' \in [status : (Statuses \ {"running"}) \cup {None}, run : FinalRun]
    <3>1. /\ (IF allowDirty THEN "quarantined" ELSE "failed") \in Statuses \ {"running"}
          /\ ResumedRound \in 0..MaxRounds
      BY <1>r DEF Statuses
    <3> QED BY <1>29, <1>0, <1>v, <3>1, PersistFacts DEF refuseResume
  <2> QED BY <1>29, <2>1 DEF refuseResume, Resuming
<1>30. CASE resume
  <2>1. state' \in RunStateRecord
    BY <1>30, <1>r, <1>v, <1>m DEF resume
  <2>2. run' \in FinalRun /\ run'.rounds = final.run.rounds
    <3>1. (IF final.run.baseline = None THEN tree ELSE final.run.baseline) \in Hashes
      BY <1>0, <1>v
    <3>2. run' = [final.run EXCEPT !.baseline =
                     IF final.run.baseline = None THEN tree ELSE final.run.baseline]
      BY <1>30 DEF resume
    <3> QED BY ZenonT(30), <1>0, <3>1, <3>2
  <2>3. EntryPoint \in {"planning", "capture", "worker", "quarantine", "interrupted"}
    BY DEF EntryPoint
  <2> QED BY <1>30, <1>r, <2>1, <2>2, <2>3 DEF resume, Resuming
<1>31. CASE UNCHANGED vars
  BY <1>31 DEF vars
<1> QED
  BY <1>1, <1>2, <1>3, <1>4, <1>5, <1>6, <1>7, <1>8, <1>9, <1>10, <1>11, <1>12, <1>13, <1>14,
     <1>15, <1>16, <1>17, <1>18, <1>19, <1>20, <1>21, <1>22, <1>23, <1>24, <1>25, <1>26, <1>27,
     <1>28, <1>29, <1>30, <1>31
  DEF Next, Progress
-----------------------------------------------------------------------------
(* What the steps record *)

\* A call records its phase and the hash of the live diff, and keeps the path.
LEMMA CallFacts ==
    ASSUME TypeInv
    PROVE  /\ plan => \/ UNCHANGED state
                      \/ /\ state'.phase \in {"planning", "repairing"}
                         /\ state'.path = state.path /\ state'.hash = tree
           /\ callWorker => /\ state'.phase \in {"implementing", "repairing"}
                            /\ state'.path = state.path /\ state'.hash = tree
           /\ callArbiter => /\ state'.phase = "repairing"
                             /\ state'.path = state.path /\ state'.hash = tree
           /\ runPostScout => \/ UNCHANGED state
                              \/ /\ state'.phase \in {"planning", "repairing"}
                                 /\ state'.path = state.path /\ state'.hash = tree
           /\ repairReviewJSON => /\ state'.phase = "repairing"
                                  /\ state'.path = state.path /\ state'.hash = tree
<1> USE DEF TypeInv, Phases
<1>1. plan => \/ UNCHANGED state
              \/ state' \in {Invoked("planning"), Invoked("repairing")}
  BY DEF plan
<1>2. callWorker => state' \in {Invoked("implementing"), Invoked("repairing")}
  BY DEF callWorker, calls
<1>3. callArbiter => state' = Invoked("repairing")
  BY DEF callArbiter
<1>4. runPostScout => \/ UNCHANGED state
                      \/ state' \in {Invoked("planning"), Invoked("repairing")}
  BY DEF runPostScout
<1>5. repairReviewJSON => state' = Invoked("repairing")
  BY DEF repairReviewJSON
<1>6. \A phase \in Phases : /\ Invoked(phase).phase = phase /\ Invoked(phase).path = state.path
                            /\ Invoked(phase).hash = tree
  BY MadeFacts
<1> QED BY <1>1, <1>2, <1>3, <1>4, <1>5, <1>6

\* A transition records its phase and a path, and the hash of the patch there.
LEMMA TransitionFacts ==
    /\ beginRound => /\ state'.phase = "implementing"
                     /\ state'.path = run.path /\ state'.hash = PatchHash(run.path)
    /\ checkpoint => state'.phase = "repairing" /\ state'.path = 0 /\ state'.hash = None
    /\ recordCapture => /\ state'.phase = IF Resumed THEN "testing" ELSE "implementing"
                        /\ state'.path = run.path /\ state'.hash = PatchHash(run.path)
    /\ beginTests => /\ state'.phase = "testing"
                     /\ state'.path = run.path /\ state'.hash = PatchHash(run.path)
    /\ callReviewer => /\ state'.phase = "reviewing"
                       /\ state'.path = run.path /\ state'.hash = tree
    /\ \A v : reviewCompleted(v) =>
                 /\ state'.phase = "reviewing"
                 /\ state'.path = run.path /\ state'.hash = PatchHash(run.path)
    /\ nextRound => \/ ~ Resumed /\ UNCHANGED state
                    \/ /\ Resumed /\ state'.phase = "repairing"
                       /\ state'.path = run.path /\ state'.hash = PatchHash(run.path)
    /\ resume => /\ state'.phase = state.phase
                 /\ state'.path = state.path /\ state'.hash = PatchHash(state.path)
<1>0. PatchHash(0) = None
  BY DEF PatchHash
<1>1. beginRound => /\ state'.phase = "implementing"
                    /\ state'.path = run.path /\ state'.hash = PatchHash(run.path)
  BY DEF beginRound, Transition
<1>2. checkpoint => state'.phase = "repairing" /\ state'.path = 0 /\ state'.hash = None
  BY <1>0 DEF checkpoint, Transition
<1>3. recordCapture => /\ state'.phase = IF Resumed THEN "testing" ELSE "implementing"
                       /\ state'.path = run.path /\ state'.hash = PatchHash(run.path)
  BY DEF recordCapture, Transition
<1>4. beginTests => /\ state'.phase = "testing"
                    /\ state'.path = run.path /\ state'.hash = PatchHash(run.path)
  BY DEF beginTests, Transition
<1>5. callReviewer => /\ state'.phase = "reviewing"
                      /\ state'.path = run.path /\ state'.hash = tree
  BY DEF callReviewer, Transition
<1>6. \A v : reviewCompleted(v) =>
               /\ state'.phase = "reviewing"
               /\ state'.path = run.path /\ state'.hash = PatchHash(run.path)
  BY DEF reviewCompleted, Transition
<1>7. nextRound => \/ ~ Resumed /\ UNCHANGED state
                   \/ /\ Resumed /\ state'.phase = "repairing"
                      /\ state'.path = run.path /\ state'.hash = PatchHash(run.path)
  BY DEF nextRound, Transition
<1>8. resume => /\ state'.phase = state.phase
                /\ state'.path = state.path /\ state'.hash = PatchHash(state.path)
  BY DEF resume, Transition
<1> QED BY <1>1, <1>2, <1>3, <1>4, <1>5, <1>6, <1>7, <1>8

\* What the steps of a process change in the FinalRun.
LEMMA RunFacts ==
    ASSUME TypeInv
    PROVE  /\ runBaselineTest => /\ run'.baseline = tree
                                 /\ run'.path = run.path /\ run'.hash = run.hash
           /\ captureDiffArtifact => /\ run'.baseline = run.baseline
                                     /\ run'.path = round /\ run'.hash = tree
           /\ runTests => /\ run'.baseline = run.baseline
                          /\ run'.path = run.path /\ run'.hash = run.hash
           /\ \A v : reviewCompleted(v) => /\ run'.baseline = run.baseline
                                           /\ run'.path = run.path /\ run'.hash = run.hash
           /\ resume => run'.baseline = IF final.run.baseline = None THEN tree
                                        ELSE final.run.baseline
<1>1. run \in FinalRun /\ final.run \in FinalRun
  BY DEF TypeInv, TypeOK
<1> QED
  BY <1>1 DEF FinalRun, runBaselineTest, captureDiffArtifact, runTests, reviewCompleted, resume

\* How a process ends: what final.json and state.json hold then.
LEMMA EndFacts ==
    ASSUME TypeInv
    PROVE  /\ finalizeReviewedRun =>
                 /\ final'.status = Outcome /\ final'.run = run /\ state'.phase = "reviewing"
                 /\ state'.path = run.path /\ state'.hash = run.hash
           /\ \A status \in {"failed", "quarantined"} : fail(status) =>
                 /\ final'.status = status /\ final'.run = run /\ state'.phase = state.phase
                 /\ state'.path = run.path /\ state'.hash = run.hash
           /\ cancel =>
                 /\ final'.status = "cancelled" /\ state'.phase = state.phase
                 /\ final'.run.baseline = run.baseline
                 /\ state'.path = final'.run.path /\ state'.hash = final'.run.hash
                 /\ Resumed => final'.run = run /\ patches' = patches
                 /\ ~ Resumed => /\ final'.run.path \in Rounds /\ final'.run.hash = tree
                                 /\ patches' = [patches EXCEPT ![final'.run.path] = tree]
           /\ refuseResume =>
                 /\ final'.status \in {"failed", "quarantined"} /\ final'.run = final.run
                 /\ state'.phase = state.phase
                 /\ state'.path = final.run.path /\ state'.hash = final.run.hash
<1> USE DEF TypeInv
<1>1. \A s, phase, r, result : Persist(s, phase, r, result) =>
         /\ final'.status = s /\ final'.run = result
         /\ state'.phase = phase /\ state'.path = result.path /\ state'.hash = result.hash
  BY DEF Persist
<1>2. /\ run \in FinalRun /\ run.rounds + 1 \in Rounds
      /\ \A p \in Rounds : LET r == [run EXCEPT !.path = p, !.hash = tree]
                           IN  r.baseline = run.baseline /\ r.path = p /\ r.hash = tree
  BY RecordFacts DEF TypeOK, FinalRun, Rounds
<1>3. ASSUME cancel, ~ Resumed
      PROVE  /\ Persist("cancelled", state.phase, run.rounds,
                        [run EXCEPT !.path = run.rounds + 1, !.hash = tree])
             /\ patches' = [patches EXCEPT ![run.rounds + 1] = tree]
  BY <1>3, <1>2, RecordFacts DEF cancel, PersistFailure, TypeOK, FinalRun
<1>4. cancel /\ Resumed => Persist("cancelled", state.phase, resumedAt, run) /\ patches' = patches
  BY DEF cancel, PersistFailure
<1>5. finalizeReviewedRun => Persist(Outcome, "reviewing", run.rounds, run)
  BY DEF finalizeReviewedRun
<1>6. \A s : fail(s) => \E r : Persist(s, state.phase, r, run)
  BY DEF fail, PersistFailure
<1>7. refuseResume => \E s \in {"failed", "quarantined"} :
                         Persist(s, state.phase, ResumedRound, final.run)
  BY DEF refuseResume
<1>8. ASSUME cancel, Resumed
      PROVE  /\ final'.status = "cancelled" /\ state'.phase = state.phase
             /\ final'.run = run /\ patches' = patches
             /\ state'.path = final'.run.path /\ state'.hash = final'.run.hash
  BY <1>8, <1>1, <1>4
<1>9. ASSUME cancel, ~ Resumed
      PROVE  /\ final'.status = "cancelled" /\ state'.phase = state.phase
             /\ final'.run.baseline = run.baseline
             /\ state'.path = final'.run.path /\ state'.hash = final'.run.hash
             /\ final'.run.path \in Rounds /\ final'.run.hash = tree
             /\ patches' = [patches EXCEPT ![final'.run.path] = tree]
  <2> DEFINE r == [run EXCEPT !.path = run.rounds + 1, !.hash = tree]
  <2>1. /\ final'.status = "cancelled" /\ state'.phase = state.phase /\ final'.run = r
        /\ state'.path = r.path /\ state'.hash = r.hash
    BY <1>9, <1>3 DEF Persist
  <2>2. r.baseline = run.baseline /\ r.path = run.rounds + 1 /\ r.hash = tree
    BY <1>2
  <2> QED BY <1>9, <1>2, <1>3, <2>1, <2>2
<1>10. refuseResume => /\ final'.status \in {"failed", "quarantined"} /\ final'.run = final.run
                       /\ state'.phase = state.phase
                       /\ state'.path = final.run.path /\ state'.hash = final.run.hash
  BY <1>1, <1>7
<1>11. \A status \in {"failed", "quarantined"} : fail(status) =>
          /\ final'.status = status /\ final'.run = run /\ state'.phase = state.phase
          /\ state'.path = run.path /\ state'.hash = run.hash
  BY <1>1, <1>6
<1> QED BY <1>1, <1>5, <1>8, <1>9, <1>10, <1>11

-----------------------------------------------------------------------------
(* The diff, from its capture to the decision about it *)

\* Every step keeps the captured diff that of the worktree, the test result that
\* of the diff, and the approval that of the diff (CaptureInv): only a worker
\* edits while a process is there, and a worker has no diff captured.
LEMMA CaptureStep == TypeInv /\ CaptureInv /\ [Next]_vars => CaptureInv'
<1> SUFFICES ASSUME TypeOK, RoundsInv, CaptureInv, [Next]_vars PROVE CaptureInv'
  BY DEF TypeInv
<1> USE DEF CaptureInv, Captured, options, disk, memory, ghosts
<1>1. CASE runBaselineTest \/ plan \/ beginRound
  BY <1>1 DEF runBaselineTest, plan, beginRound
<1>2. CASE callWorker \/ retryZeroDeltaEditorWithFallback \/ checkpoint \/ capturePartial
          \/ callArbiter \/ continuePartial \/ quarantinePartial \/ secondWorkerFails
  BY <1>2
  DEF callWorker, calls, retryZeroDeltaEditorWithFallback, checkpoint, capturePartial,
     callArbiter, continuePartial, quarantinePartial, secondWorkerFails
<1>3. CASE workerDelivers
  BY <1>3 DEF workerDelivers, WorkerRuns
<1>4. CASE captureDiffArtifact
  BY <1>4 DEF captureDiffArtifact
<1>5. CASE recordCapture \/ runPostScout
  BY <1>5 DEF recordCapture, AfterTests, runPostScout
<1>6. CASE beginTests \/ callReviewer \/ repairReviewJSON
  BY <1>6 DEF beginTests, callReviewer, repairReviewJSON
<1>7. CASE runTests
  BY <1>7 DEF runTests, AfterTests
<1>8. ASSUME NEW v \in {"pass", "changes"}, reviewCompleted(v) PROVE CaptureInv'
  BY <1>8 DEF reviewCompleted
<1>9. CASE nextRound
  BY <1>9 DEF nextRound
<1>10. CASE finalizeReviewedRun \/ (\E status \in {"failed", "quarantined"} : fail(status))
          \/ cancel \/ crash
  BY <1>10, DownFacts DEF finalizeReviewedRun, fail, PersistFailure, cancel, crash
<1>11. ASSUME NEW content \in Contents, workerEdits(content) PROVE CaptureInv'
  BY <1>11 DEF workerEdits, WorkerRuns
<1>12. ASSUME NEW content \in Contents, outsideEdit(content) PROVE CaptureInv'
  BY <1>12 DEF outsideEdit
<1>13. CASE quarantineResume \/ refuseResume
  BY <1>13 DEF quarantineResume, Resuming, refuseResume
<1>14. CASE resume
  <2>1. EntryPoint \notin Captured
    BY DEF EntryPoint
  <2> QED BY <1>14, <2>1 DEF resume, Resuming
<1>15. CASE UNCHANGED vars
  BY <1>15 DEF vars
<1> QED
  BY <1>1, <1>2, <1>3, <1>4, <1>5, <1>6, <1>7, <1>8, <1>9, <1>10, <1>11, <1>12, <1>13, <1>14,
     <1>15
  DEF Next, Progress

\* A run that passed is over, with the diff that a reviewer passed last
\* (PassedInv): what fails, is cancelled or refused never reports success, and
\* no process starts on a run that passed.
LEMMA PassedStep == TypeInv /\ CaptureInv /\ PassedInv /\ [Next]_vars => PassedInv'
<1> SUFFICES ASSUME TypeInv, CaptureInv, PassedInv, [Next]_vars PROVE PassedInv'
  OBVIOUS
<1> USE DEF PassedInv, Passed, PassedWasReviewed, options, disk, memory, ghosts
<1>1. CASE runBaselineTest \/ plan \/ beginRound \/ callWorker \/ workerDelivers
  BY <1>1 DEF runBaselineTest, plan, beginRound, callWorker, calls, workerDelivers, WorkerRuns
<1>2. CASE retryZeroDeltaEditorWithFallback \/ checkpoint \/ capturePartial \/ callArbiter
          \/ continuePartial \/ quarantinePartial \/ secondWorkerFails
  BY <1>2
  DEF retryZeroDeltaEditorWithFallback, checkpoint, capturePartial, callArbiter, continuePartial,
     quarantinePartial, secondWorkerFails
<1>3. CASE captureDiffArtifact \/ recordCapture \/ beginTests \/ runTests \/ runPostScout
          \/ callReviewer
  BY <1>3
  DEF captureDiffArtifact, recordCapture, AfterTests, beginTests, runTests, runPostScout,
     callReviewer
<1>4. ASSUME NEW v \in {"pass", "changes"}, reviewCompleted(v) PROVE PassedInv'
  BY <1>4 DEF reviewCompleted
<1>5. CASE nextRound
  BY <1>5 DEF nextRound
<1>6. CASE finalizeReviewedRun
  <2>1. Outcome = "passed" => verdict # "changes"
    BY DEF Outcome
  <2>2. Outcome = "passed" => run.hash = approved
    BY <1>6, <2>1 DEF CaptureInv, Captured, finalizeReviewedRun
  <2> QED BY <1>6, <2>2, EndFacts, DownFacts DEF finalizeReviewedRun
<1>7. CASE (\E status \in {"failed", "quarantined"} : fail(status)) \/ cancel
  BY <1>7, EndFacts, DownFacts DEF fail, PersistFailure, cancel
<1>8. CASE (\E content \in Contents : workerEdits(content))
          \/ (\E content \in Contents : outsideEdit(content)) \/ repairReviewJSON
  BY <1>8 DEF workerEdits, WorkerRuns, outsideEdit, repairReviewJSON
<1>9. CASE crash
  BY <1>9, DownFacts DEF crash
<1>10. CASE quarantineResume \/ resume
  BY <1>10 DEF quarantineResume, Resuming, resume
<1>11. CASE refuseResume
  BY <1>11, EndFacts DEF refuseResume, Resuming
<1>12. CASE UNCHANGED vars
  BY <1>12 DEF vars
<1> QED
  BY <1>1, <1>2, <1>3, <1>4, <1>5, <1>6, <1>7, <1>8, <1>9, <1>10, <1>11, <1>12
  DEF Next, Progress

\* While a worker may edit, and until its failure is decided, state.json is in an
\* editing phase (PhaseInv).
LEMMA PhaseStep == TypeInv /\ PhaseInv /\ [Next]_vars => PhaseInv'
<1> SUFFICES ASSUME TypeInv, PhaseInv, [Next]_vars PROVE PhaseInv'
  OBVIOUS
<1> USE DEF PhaseInv, Editing, options, disk, memory, ghosts
<1>1. CASE runBaselineTest \/ plan \/ beginRound
  BY <1>1 DEF runBaselineTest, plan, beginRound
<1>2. CASE callWorker
  BY <1>2, CallFacts DEF callWorker, calls
<1>3. CASE workerDelivers \/ captureDiffArtifact \/ recordCapture \/ beginTests \/ runTests
          \/ runPostScout \/ callReviewer \/ (\E v \in {"pass", "changes"} : reviewCompleted(v))
          \/ nextRound
  BY <1>3
  DEF workerDelivers, WorkerRuns, captureDiffArtifact, recordCapture, AfterTests, beginTests,
     runTests, runPostScout, callReviewer, reviewCompleted, nextRound
<1>4. CASE retryZeroDeltaEditorWithFallback \/ capturePartial \/ continuePartial
          \/ quarantinePartial \/ secondWorkerFails
  BY <1>4
  DEF retryZeroDeltaEditorWithFallback, capturePartial, continuePartial, quarantinePartial,
     secondWorkerFails
<1>5. CASE checkpoint
  BY <1>5, TransitionFacts DEF checkpoint
<1>6. CASE callArbiter
  BY <1>6, CallFacts DEF callArbiter
<1>7. CASE finalizeReviewedRun \/ (\E status \in {"failed", "quarantined"} : fail(status))
          \/ cancel \/ crash
  BY <1>7, DownFacts DEF finalizeReviewedRun, fail, PersistFailure, cancel, crash
<1>8. CASE (\E content \in Contents : workerEdits(content))
          \/ (\E content \in Contents : outsideEdit(content)) \/ repairReviewJSON
  BY <1>8, CallFacts DEF workerEdits, WorkerRuns, outsideEdit, repairReviewJSON
<1>9. CASE quarantineResume \/ refuseResume
  BY <1>9 DEF quarantineResume, Resuming, refuseResume
<1>10. CASE resume
  <2>1. EntryPoint \in {"interrupted", "quarantine"} => state.phase \in Editing
    BY DEF EntryPoint, TypeInv, TypeOK, RunStateRecord, Phases
  <2>2. EntryPoint \in {"planning", "capture", "worker", "interrupted", "quarantine"}
    BY DEF EntryPoint
  <2> QED BY <1>10, <2>1, <2>2, TransitionFacts DEF resume
<1>11. CASE UNCHANGED vars
  BY <1>11 DEF vars
<1> QED
  BY <1>1, <1>2, <1>3, <1>4, <1>5, <1>6, <1>7, <1>8, <1>9, <1>10, <1>11
  DEF Next, Progress

\* What is tested or reviewed, a worker that reported success handed over
\* (DeliveredInv), also when another process takes up the tests or the review.
LEMMA DeliveredStep ==
    TypeInv /\ CaptureInv /\ PassedInv /\ PhaseInv /\ DeliveredInv /\ [Next]_vars => DeliveredInv'
<1> SUFFICES ASSUME TypeInv, CaptureInv, PassedInv, PhaseInv, DeliveredInv, [Next]_vars
             PROVE  DeliveredInv'
  OBVIOUS
<1> USE DEF DeliveredInv, PassedWasDelivered, Passed, Captured, options, disk, memory, ghosts
<1>1. CASE runBaselineTest \/ plan \/ beginRound
  BY <1>1, CallFacts, TransitionFacts DEF runBaselineTest, plan, beginRound
<1>2. CASE callWorker \/ retryZeroDeltaEditorWithFallback \/ checkpoint \/ capturePartial
          \/ callArbiter \/ continuePartial \/ quarantinePartial \/ secondWorkerFails
  BY <1>2, CallFacts, TransitionFacts
  DEF callWorker, calls, retryZeroDeltaEditorWithFallback, checkpoint, capturePartial,
     callArbiter, continuePartial, quarantinePartial, secondWorkerFails
<1>3. CASE workerDelivers
  BY <1>3 DEF workerDelivers, WorkerRuns, PhaseInv, Editing, PassedInv
<1>4. CASE captureDiffArtifact \/ recordCapture \/ beginTests \/ runTests \/ runPostScout
          \/ callReviewer
  BY <1>4, CallFacts, TransitionFacts
  DEF captureDiffArtifact, recordCapture, AfterTests, beginTests, runTests, runPostScout,
     callReviewer
<1>5. ASSUME NEW v \in {"pass", "changes"}, reviewCompleted(v) PROVE DeliveredInv'
  BY <1>5, TransitionFacts DEF reviewCompleted
<1>6. CASE nextRound
  BY <1>6, TransitionFacts DEF nextRound
<1>7. CASE finalizeReviewedRun
  <2>1. run.hash = tree
    BY <1>7 DEF CaptureInv, finalizeReviewedRun
  <2> QED BY <1>7, <2>1, EndFacts, DownFacts DEF finalizeReviewedRun
<1>8. CASE (\E status \in {"failed", "quarantined"} : fail(status)) \/ cancel \/ crash
  BY <1>8, EndFacts, DownFacts DEF fail, PersistFailure, cancel, crash
<1>9. ASSUME NEW content \in Contents, workerEdits(content) PROVE DeliveredInv'
  BY <1>9 DEF workerEdits, WorkerRuns, PhaseInv, Editing
<1>10. CASE (\E content \in Contents : outsideEdit(content)) \/ repairReviewJSON
  BY <1>10, CallFacts DEF outsideEdit, repairReviewJSON
<1>11. CASE quarantineResume
  BY <1>11 DEF quarantineResume, Resuming
<1>12. CASE refuseResume
  BY <1>12, EndFacts DEF refuseResume, Resuming
<1>13. CASE resume
  <2>1. EntryPoint = "capture" => state.phase \in {"testing", "reviewing"}
    BY DEF EntryPoint, TypeInv, TypeOK, RunStateRecord, Phases
  <2>2. EntryPoint \in {"planning", "capture", "worker", "interrupted", "quarantine"}
    BY DEF EntryPoint
  <2> QED BY <1>13, <2>1, <2>2, TransitionFacts DEF resume, Resuming
<1>14. CASE UNCHANGED vars
  BY <1>14 DEF vars
<1> QED
  BY <1>1, <1>2, <1>3, <1>4, <1>5, <1>6, <1>7, <1>8, <1>9, <1>10, <1>11, <1>12, <1>13, <1>14
  DEF Next, Progress

-----------------------------------------------------------------------------
(* Work that nobody decided about *)

\* Every step keeps undecided work in the hands of the recovery, or in the worktree
\* of an editing phase that stopped (UndecidedInv): the next process enters the
\* recovery, unless state.json names that very content.
LEMMA UndecidedStep == TypeInv /\ PhaseInv /\ UndecidedInv /\ [Next]_vars => UndecidedInv'
<1> SUFFICES ASSUME TypeInv, PhaseInv, UndecidedInv, [Next]_vars PROVE UndecidedInv'
  OBVIOUS
<1> USE DEF UndecidedInv, options, disk, memory, ghosts
<1>1. CASE runBaselineTest \/ plan \/ beginRound \/ callWorker \/ workerDelivers
  BY <1>1 DEF runBaselineTest, plan, beginRound, callWorker, calls, workerDelivers, WorkerRuns
<1>2. CASE retryZeroDeltaEditorWithFallback
  BY <1>2 DEF retryZeroDeltaEditorWithFallback
<1>3. CASE checkpoint \/ capturePartial \/ callArbiter \/ continuePartial \/ quarantinePartial
          \/ secondWorkerFails
  BY <1>3
  DEF checkpoint, capturePartial, callArbiter, continuePartial, quarantinePartial,
     secondWorkerFails
<1>4. CASE captureDiffArtifact \/ recordCapture \/ beginTests \/ runTests \/ runPostScout
          \/ callReviewer \/ (\E v \in {"pass", "changes"} : reviewCompleted(v)) \/ nextRound
  BY <1>4
  DEF captureDiffArtifact, recordCapture, AfterTests, beginTests, runTests, runPostScout,
     callReviewer, reviewCompleted, nextRound
<1>5. CASE finalizeReviewedRun
  BY <1>5, EndFacts, DownFacts DEF finalizeReviewedRun
<1>6. ASSUME NEW status \in {"failed", "quarantined"}, fail(status) PROVE UndecidedInv'
  BY <1>6, EndFacts, DownFacts, LeftFacts DEF fail, PhaseInv, WorkerRuns
<1>7. ASSUME NEW content \in Contents, workerEdits(content) PROVE UndecidedInv'
  BY <1>7 DEF workerEdits, WorkerRuns
<1>8. CASE (\E content \in Contents : outsideEdit(content)) \/ repairReviewJSON
  BY <1>8 DEF outsideEdit, repairReviewJSON
<1>9. CASE cancel \/ crash
  BY <1>9, EndFacts, DownFacts, LeftFacts DEF cancel, crash, PhaseInv, WorkerRuns
<1>10. CASE quarantineResume
  BY <1>10 DEF quarantineResume, Resuming
<1>11. CASE refuseResume
  BY <1>11, EndFacts DEF refuseResume, Resuming
<1>12. CASE resume
  <2>1. EntryPoint \in {"planning", "capture", "worker", "interrupted", "quarantine"}
    BY DEF EntryPoint
  <2>2. state.phase \in Editing /\ ~ Recorded => EntryPoint \in {"interrupted", "quarantine"}
    BY DEF EntryPoint, Editing
  <2>3. partial = "undecided" => state.phase \in Editing /\ tree # Clean
    BY <1>12 DEF resume, Resuming
  <2>4. partial' = "undecided" => partial = "undecided" /\ ~ Recorded
    BY <1>12 DEF resume
  <2> QED BY <2>4, <1>12, <2>1, <2>2, <2>3 DEF resume, Resuming
<1>13. CASE UNCHANGED vars
  BY <1>13 DEF vars
<1> QED
  BY <1>1, <1>2, <1>3, <1>4, <1>5, <1>6, <1>7, <1>8, <1>9, <1>10, <1>11, <1>12, <1>13
  DEF Next, Progress

-----------------------------------------------------------------------------
(* The baseline *)

\* In a run without a scout, every step keeps the worktree clean until the
\* baseline was tested, and the result of that test (BaselineInv).
LEMMA BaselineStep == TypeInv /\ PhaseInv /\ BaselineInv /\ [Next]_vars => BaselineInv'
<1> SUFFICES ASSUME TypeInv, PhaseInv, BaselineInv, [Next]_vars PROVE BaselineInv'
  OBVIOUS
<1> USE DEF BaselineInv, options, disk, memory, ghosts
<1>1. CASE runBaselineTest
  BY <1>1, RunFacts DEF runBaselineTest
<1>2. CASE plan \/ beginRound \/ callWorker
  BY <1>2, CallFacts, TransitionFacts DEF plan, beginRound, callWorker, calls
<1>3. CASE workerDelivers \/ retryZeroDeltaEditorWithFallback \/ checkpoint \/ capturePartial
          \/ callArbiter \/ continuePartial \/ quarantinePartial \/ secondWorkerFails
  BY <1>3, CallFacts, TransitionFacts
  DEF workerDelivers, WorkerRuns, retryZeroDeltaEditorWithFallback, checkpoint, capturePartial,
     callArbiter, continuePartial, quarantinePartial, secondWorkerFails
<1>4. CASE captureDiffArtifact \/ runTests
  BY <1>4, RunFacts DEF captureDiffArtifact, runTests, AfterTests
<1>5. CASE recordCapture \/ beginTests
  BY <1>5, TransitionFacts DEF recordCapture, AfterTests, beginTests
<1>6. CASE runPostScout
  BY <1>6, CallFacts DEF runPostScout, TypeInv, RoundsInv
<1>7. CASE callReviewer
  BY <1>7, TransitionFacts DEF callReviewer
<1>8. ASSUME NEW v \in {"pass", "changes"}, reviewCompleted(v) PROVE BaselineInv'
  BY <1>8, TransitionFacts, RunFacts DEF reviewCompleted
<1>9. CASE nextRound
  BY <1>9, TransitionFacts DEF nextRound
<1>10. CASE finalizeReviewedRun
  BY <1>10, EndFacts, DownFacts DEF finalizeReviewedRun, EmptyRun
<1>11. ASSUME NEW status \in {"failed", "quarantined"}, fail(status) PROVE BaselineInv'
  BY <1>11, EndFacts, DownFacts DEF fail, PersistFailure, EmptyRun
<1>12. ASSUME NEW content \in Contents, workerEdits(content) PROVE BaselineInv'
  BY <1>12 DEF workerEdits, WorkerRuns, PhaseInv, Editing
<1>13. CASE (\E content \in Contents : outsideEdit(content)) \/ repairReviewJSON
  BY <1>13, CallFacts DEF outsideEdit, repairReviewJSON
<1>14. CASE cancel
  BY <1>14, EndFacts, DownFacts DEF cancel, PersistFailure, EmptyRun
<1>15. CASE crash
  BY <1>15, DownFacts DEF crash, EmptyRun
<1>16. CASE quarantineResume
  BY <1>16 DEF quarantineResume, Resuming
<1>17. CASE refuseResume
  BY <1>17, EndFacts DEF refuseResume, Resuming
<1>18. CASE resume
  <2>1. EntryPoint = "planning" => state.phase = "planning"
    BY DEF EntryPoint
  <2>2. EntryPoint # "baseline"
    BY DEF EntryPoint
  <2>3. run'.baseline = IF final.run.baseline = None THEN tree ELSE final.run.baseline
    BY <1>18, RunFacts
  <2>4. final.run.baseline = None => state.phase = "planning"
    BY <1>18 DEF resume, ResumeRefused
  <2> QED BY <1>18, <2>1, <2>2, <2>3, <2>4, TransitionFacts DEF resume, Resuming
<1>19. CASE UNCHANGED vars
  BY <1>19 DEF vars
<1> QED
  BY <1>1, <1>2, <1>3, <1>4, <1>5, <1>6, <1>7, <1>8, <1>9, <1>10, <1>11, <1>12, <1>13, <1>14,
     <1>15, <1>16, <1>17, <1>18, <1>19
  DEF Next, Progress

-----------------------------------------------------------------------------
(* The evidence of the first process *)

\* Every step of the first process keeps the patches that state.json and the
\* FinalRun name (EvidenceInv): a capture goes to a round that neither names.
LEMMA EvidenceStep == TypeInv /\ CaptureInv /\ EvidenceInv /\ [Next]_vars => EvidenceInv'
<1> SUFFICES ASSUME TypeInv, CaptureInv, EvidenceInv, [Next]_vars PROVE EvidenceInv'
  OBVIOUS
<1> USE DEF EvidenceInv, Working, Captured, options, disk, memory, ghosts
<1>0. /\ round \in Nat /\ run.path \in Nat /\ state.path \in Nat
      /\ patches \in [Rounds -> Hashes]
      /\ run.path # 0 => run.path \in Rounds
      /\ state.path # 0 => state.path \in Rounds
      /\ run.path # 0 => PatchHash(run.path) = patches[run.path]
      /\ pc \in Working => round \in Rounds
      /\ processes \in Nat \ {0}
      /\ pc \in Captured => round # 0 /\ run.path = round /\ run.hash = tree
  BY RecordFacts, BoundsAssumption DEF TypeInv, TypeOK, RoundsInv, CaptureInv, Rounds, PatchHash
<1>1. CASE runBaselineTest
  BY <1>1, RunFacts, <1>0 DEF runBaselineTest
<1>2. CASE plan
  BY <1>2, CallFacts, <1>0 DEF plan, Resumed
<1>3. CASE beginRound
  BY <1>3, TransitionFacts, <1>0 DEF beginRound
<1>4. CASE callWorker
  BY <1>4, CallFacts, <1>0 DEF callWorker, calls
<1>5. CASE workerDelivers
  BY <1>5, <1>0 DEF workerDelivers, WorkerRuns
<1>6. CASE retryZeroDeltaEditorWithFallback
  BY <1>6, <1>0 DEF retryZeroDeltaEditorWithFallback
<1>7. CASE checkpoint
  BY <1>7, TransitionFacts, <1>0 DEF checkpoint
<1>8. CASE capturePartial
  BY <1>8, <1>0 DEF capturePartial
<1>9. CASE callArbiter \/ continuePartial \/ quarantinePartial \/ secondWorkerFails
  BY <1>9, CallFacts, <1>0
  DEF callArbiter, continuePartial, quarantinePartial, secondWorkerFails
<1>10. CASE captureDiffArtifact
  BY <1>10, RunFacts, <1>0 DEF captureDiffArtifact
<1>11. CASE beginTests \/ recordCapture
  BY <1>11, TransitionFacts, <1>0 DEF beginTests, recordCapture, AfterTests
<1>12. CASE runTests
  BY <1>12, RunFacts, <1>0 DEF runTests, AfterTests
<1>13. CASE runPostScout \/ repairReviewJSON
  BY <1>13, CallFacts, <1>0 DEF runPostScout, repairReviewJSON
<1>14. CASE callReviewer
  BY <1>14, TransitionFacts, <1>0 DEF callReviewer, Resumed
<1>15. ASSUME NEW v \in {"pass", "changes"}, reviewCompleted(v) PROVE EvidenceInv'
  BY <1>15, TransitionFacts, RunFacts, <1>0 DEF reviewCompleted
<1>16. CASE nextRound
  BY <1>16, TransitionFacts, <1>0 DEF nextRound, Resumed
<1>17. CASE finalizeReviewedRun
  BY <1>17, EndFacts, DownFacts, <1>0 DEF finalizeReviewedRun, EmptyRun
<1>18. ASSUME NEW status \in {"failed", "quarantined"}, fail(status) PROVE EvidenceInv'
  BY <1>18, EndFacts, DownFacts, <1>0 DEF fail, PersistFailure, EmptyRun
<1>19. ASSUME NEW content \in Contents, workerEdits(content) PROVE EvidenceInv'
  BY <1>19, <1>0 DEF workerEdits, WorkerRuns
<1>20. ASSUME NEW content \in Contents, outsideEdit(content) PROVE EvidenceInv'
  BY <1>20, <1>0 DEF outsideEdit
<1>21. CASE cancel
  BY <1>21, EndFacts, DownFacts, <1>0 DEF cancel, PersistFailure, EmptyRun, Resumed
<1>22. CASE crash
  BY <1>22, DownFacts, <1>0 DEF crash, EmptyRun
<1>23. CASE quarantineResume
  BY <1>23, <1>0 DEF quarantineResume, Resuming
<1>24. CASE refuseResume
  BY <1>24, EndFacts, <1>0 DEF refuseResume, Resuming
<1>25. CASE resume
  BY <1>25, TransitionFacts, <1>0 DEF resume, Resuming
<1>26. CASE UNCHANGED vars
  BY <1>26 DEF vars
<1> QED
  BY <1>1, <1>2, <1>3, <1>4, <1>5, <1>6, <1>7, <1>8, <1>9, <1>10, <1>11, <1>12, <1>13, <1>14,
     <1>15, <1>16, <1>17, <1>18, <1>19, <1>20, <1>21, <1>22, <1>23, <1>24, <1>25, <1>26
  DEF Next, Progress

-----------------------------------------------------------------------------
(* The theorems *)

\* A run starts with the invariant.
LEMMA InitInv == Init => Inv
<1> SUFFICES ASSUME Init PROVE Inv
  OBVIOUS
<1>1. TypeOK
  <2>1. state \in RunStateRecord /\ None \in Hashes /\ 0 \in 0..MaxRounds
    BY BoundsAssumption DEF Init, RunStateRecord, Statuses, Phases, Hashes
  <2>2. final \in [status : (Statuses \ {"running"}) \cup {None}, run : FinalRun]
    BY RecordFacts DEF Init
  <2>3. patches \in [Rounds -> Hashes]
    BY <2>1 DEF Init
  <2> QED
    <3>1. /\ tree \in Contents /\ before \in Contents /\ pc \in PCs
          /\ processes \in 1..MaxProcesses /\ round \in 0..MaxRounds
          /\ resumedAt \in 0..MaxRounds /\ recoveries \subseteq 1..MaxRounds
      BY BoundsAssumption, ContentsAssumption DEF Init, PCs
    <3>2. /\ approved \in Hashes /\ delivered \in Hashes /\ run \in FinalRun
          /\ verdict \in {None, "pass", "changes"}
          /\ partial \in {"none", "undecided", "recorded"}
      BY <2>1, RecordFacts DEF Init
    <3>3. /\ mode \in {"supervisor", "relay"} /\ allowDirty \in BOOLEAN
          /\ skipTests \in BOOLEAN /\ touched \in BOOLEAN /\ diverged \in BOOLEAN
      BY DEF Init
    <3> QED BY <2>1, <2>2, <2>3, <3>1, <3>2, <3>3 DEF TypeOK
<1>2. RoundsInv /\ CaptureInv /\ PhaseInv /\ UndecidedInv
  BY BoundsAssumption
  DEF Init, RoundsInv, CaptureInv, PhaseInv, UndecidedInv, Resumed, EmptyRun, Working, Captured
<1>3. PassedInv /\ DeliveredInv
  BY NoneAssumption
  DEF Init, PassedInv, DeliveredInv, Passed, PassedWasReviewed, PassedWasDelivered, EmptyRun,
      Captured, Statuses
<1>4. BaselineInv /\ EvidenceInv
  BY DEF Init, BaselineInv, EvidenceInv, EmptyRun, Working, Captured
<1> QED BY <1>1, <1>2, <1>3, <1>4 DEF Inv

\* Every step of every process keeps all of it.
LEMMA InvStep == Inv /\ [Next]_vars => Inv'
  BY TypeStep, CaptureStep, PassedStep, PhaseStep, DeliveredStep, UndecidedStep, BaselineStep,
     EvidenceStep
  DEF Inv, TypeInv

\* The inductive invariant holds through any number of rounds, failures and processes.
THEOREM Invariant == Spec => []Inv
  BY InitInv, InvStep, PTL DEF Spec

\* Every variable keeps its type (TypeOK), however many processes work on the run.
THEOREM TypeCorrect == Spec => []TypeOK
<1>1. Inv => TypeOK
  BY DEF Inv
<1> QED BY <1>1, Invariant, PTL

\* The diff of a run that passed is one that a reviewer passed (PassedWasReviewed):
\* finalizeReviewedRun persists the hash of the last capture, of which the last
\* review decided.
THEOREM PassedReviewed == Spec => []PassedWasReviewed
<1>1. Inv => PassedWasReviewed
  BY DEF Inv, PassedInv
<1> QED BY <1>1, Invariant, PTL

\* The diff of a run that passed was handed over by a worker that reported success,
\* unless somebody else worked in the repository (PassedWasDelivered).
THEOREM PassedDelivered == Spec => []PassedWasDelivered
<1>1. Inv => PassedWasDelivered
  BY DEF Inv, DeliveredInv
<1> QED BY <1>1, Invariant, PTL

\* When the first process stops, the diff that state.json names is on disk with the
\* recorded hash (EvidenceIsKept).
THEOREM EvidenceKept == Spec => []EvidenceIsKept
<1>1. Inv => EvidenceIsKept
  BY DEF Inv, EvidenceInv, EvidenceIsKept
<1> QED BY <1>1, Invariant, PTL

\* What a worker left behind is not captured before a recovery decision let another
\* worker continue it, in any process, unless a process that resumed found its
\* very content in state.json (UnrecordedWorkIsDecided).
THEOREM UnrecordedWorkDecided == Spec => []UnrecordedWorkIsDecided
<1>1. Inv => UnrecordedWorkIsDecided
  BY DEF Inv, UndecidedInv, UnrecordedWorkIsDecided
<1> QED BY <1>1, Invariant, PTL

\* Without a scout, the baseline test never runs on a worker's edits
\* (SupervisorBaselineIsPristine).
THEOREM SupervisorBaseline == Spec => []SupervisorBaselineIsPristine
<1>1. Inv => SupervisorBaselineIsPristine
  BY DEF Inv, BaselineInv, SupervisorBaselineIsPristine
<1> QED BY <1>1, Invariant, PTL

\* A run passes in one step only, the one that ends its last review, and not with
\* the hash of a diff whose last test has failures the baseline had not.
LEMMA PassStep ==
    ASSUME Inv, Next, ~ Passed, Passed'
    PROVE  /\ pc = "reviewed" /\ ~ NewFailures(run)
           /\ final'.run = run
<1> USE DEF Passed, Inv, TypeInv, options, disk, memory, ghosts
<1>1. CASE finalizeReviewedRun
  <2>1. Outcome = "passed" => ~ NewFailures(run)
    BY DEF Outcome
  <2> QED BY <1>1, <2>1, EndFacts DEF finalizeReviewedRun
<1>2. CASE ~ finalizeReviewedRun
  <2>1. ~ cancel /\ ~ refuseResume /\ ~ \E s \in {"failed", "quarantined"} : fail(s)
    BY EndFacts
  <2>2. ~ UNCHANGED final
    OBVIOUS
  <2>3. ~ (runBaselineTest \/ plan \/ beginRound \/ callWorker \/ workerDelivers)
    BY <2>2 DEF runBaselineTest, plan, beginRound, callWorker, workerDelivers
  <2>4. ~ (\/ retryZeroDeltaEditorWithFallback \/ checkpoint \/ capturePartial \/ callArbiter
           \/ continuePartial \/ quarantinePartial \/ secondWorkerFails)
    BY <2>2 DEF retryZeroDeltaEditorWithFallback, checkpoint, capturePartial, callArbiter,
                continuePartial, quarantinePartial, secondWorkerFails
  <2>5. ~ (\/ captureDiffArtifact \/ recordCapture \/ beginTests \/ runTests \/ runPostScout
           \/ callReviewer \/ nextRound)
    BY <2>2 DEF captureDiffArtifact, recordCapture, beginTests, runTests, runPostScout,
                callReviewer, nextRound
  <2>6. ~ \E v \in {"pass", "changes"} : reviewCompleted(v)
    BY <2>2 DEF reviewCompleted
  <2>7. ~ \E content \in Contents : workerEdits(content) \/ outsideEdit(content)
    BY <2>2 DEF workerEdits, outsideEdit
  <2>8. ~ (repairReviewJSON \/ crash \/ quarantineResume \/ resume)
    BY <2>2 DEF repairReviewJSON, crash, quarantineResume, resume
  <2> QED BY <1>2, <2>1, <2>3, <2>4, <2>5, <2>6, <2>7, <2>8 DEF Next, Progress
<1> QED BY <1>1, <1>2

\* A run passes with a diff that has no failure the baseline did not have, in
\* whatever process and round, if that process did not skip the tests of the round
\* (RegressionsBlock).
THEOREM RegressionsAreBlocked == Spec => RegressionsBlock
<1>1. ASSUME Inv, [Next]_vars, ~ Passed, Passed', ~ skipTests
      PROVE  ~ Regressed'
  <2>1. Next
    BY <1>1 DEF Passed, vars, disk
  <2>2. pc = "reviewed" /\ ~ NewFailures(run) /\ final'.run = run
    BY <1>1, <2>1, PassStep
  <2>3. run.tested = run.hash
    BY <1>1, <2>2 DEF Inv, CaptureInv, Captured
  <2> QED BY <2>2, <2>3 DEF Regressed, NewFailures
<1>2. Inv /\ [Next]_vars => [(~ Passed /\ Passed' /\ ~ skipTests) => ~ Regressed']_vars
  BY <1>1
<1> QED BY <1>2, Invariant, PTL DEF Spec, RegressionsBlock

=============================================================================
