-------------------------- MODULE RunState_proofs --------------------------
(***************************************************************************)
(* Proofs about RunState, for any phases, diffs, rounds and any number of  *)
(* processes, transitions and failed writes.                               *)
(*                                                                         *)
(* Three invariants, each inductive relative to the ones before it: the    *)
(* types; that what is about to replace state.json was recorded            *)
(* (Prepared), from which JournalLeads follows; and how far a success has  *)
(* come before it is reported (Reported), from which AcknowledgedIsDurable *)
(* and SuccessIsFinal follow.                                              *)
(***************************************************************************)
EXTENDS RunState, TLAPS

-----------------------------------------------------------------------------
(* Records *)

\* Types of the records that are persisted and of their fields.
LEMMA RecordFacts ==
    /\ \A t \in Transition : /\ t.status \in Statuses /\ t.phase \in WorkPhases
                             /\ t.diff \in Diffs \cup {NoDiff} /\ t.round \in 0..MaxRound
    /\ \A s \in Statuses, p \in WorkPhases, d \in Diffs \cup {NoDiff}, r \in 0..MaxRound :
          [status |-> s, phase |-> p, diff |-> d, round |-> r] \in Transition
    /\ \A r \in RunStateRecord : r.transition \in Transition
                                 /\ r.completed \in WorkPhases \cup {None}
    /\ \A w \in Write : /\ w.next \in RunStateRecord /\ w.then \in Continuations
                        /\ w.appended \in BOOLEAN
  BY DEF Transition, RunStateRecord, Write

\* Types of the records that are made from an old one.
LEMMA ChangedFacts ==
    /\ \A t \in Transition, s \in Statuses : [t EXCEPT !.status = s] \in Transition
    /\ \A t \in Transition, s \in Statuses, d \in Diffs :
          [t EXCEPT !.status = s, !.diff = d] \in Transition
    /\ \A t \in Transition, p \in WorkPhases : [t EXCEPT !.phase = p] \in Transition
    /\ \A t \in Transition, r \in 0..MaxRound : [t EXCEPT !.round = r] \in Transition
  BY DEF Transition

\* What an append does to the write in progress.
LEMMA AppendedFacts ==
    ASSUME NEW w \in Write
    PROVE  LET done == [w EXCEPT !.appended = TRUE]
           IN  done \in Write /\ done.then = w.then /\ done.next = w.next
  BY DEF Write

\* The completed phase is a phase of the run.
LEMMA CompletedFacts ==
    ASSUME NEW previous \in RunStateRecord \cup {None}, NEW next \in Transition
    PROVE  completedPhaseForTransition(previous, next) \in WorkPhases \cup {None}
<1> HIDE DEF Transition, RunStateRecord
<1>1. previous # None => previous \in RunStateRecord
  OBVIOUS
<1>2. \A p, q : Later(p, q) \in {p, q}
  BY DEF Later
<1>3. \A p, q \in WorkPhases \cup {None} : Later(p, q) \in WorkPhases \cup {None}
  BY <1>2
<1>4. next.phase \in WorkPhases
  BY RecordFacts
<1>5. CASE previous = None
  BY <1>4, <1>5 DEF completedPhaseForTransition
<1>6. CASE previous # None
  <2>1. previous.completed \in WorkPhases \cup {None} /\ previous.transition.phase \in WorkPhases
    BY <1>1, <1>6, RecordFacts
  <2>2. Later(previous.transition.phase, previous.completed) \in WorkPhases \cup {None}
    BY <2>1, <1>3
  <2> QED BY <2>1, <2>2, <1>4, <1>6 DEF completedPhaseForTransition
<1> QED BY <1>5, <1>6

\* Entering writeRunState: what is in memory afterwards.
LEMMA PersistFacts ==
    ASSUME state \in RunStateRecord \cup {None},
           NEW next \in Transition, NEW then \in Continuations, Persist(next, then)
    PROVE  /\ pc' = "persisting"
           /\ writing' \in Write
           /\ writing'.then = then
           /\ writing'.next.transition = next
           /\ writing'.appended => state # None /\ state.transition = next
<1> HIDE DEF Transition, Continuations
<1>1. completedPhaseForTransition(state, next) \in WorkPhases \cup {None}
  BY CompletedFacts
<1> QED BY <1>1 DEF Persist, Write, RunStateRecord

\* The states a failed run may persist.
LEMMA FailedFacts ==
    ASSUME state \in RunStateRecord \cup {None}, tree \in Diffs
    PROVE  FailedStates \subseteq Transition
<1> SUFFICES ASSUME NEW t \in FailedStates PROVE t \in Transition
  OBVIOUS
<1>1. CASE state = None
  <2>1. "planning" \in WorkPhases /\ 0 \in 0..MaxRound
    BY PhasesAssumption, BoundsAssumption
  <2>2. PICK d \in {NoDiff, tree} :
           t = [status |-> "failed", phase |-> "planning", diff |-> d, round |-> 0]
    BY <1>1 DEF FailedStates
  <2> QED BY <2>1, <2>2, RecordFacts DEF Statuses
<1>2. CASE state # None
  <2> HIDE DEF Transition, RunStateRecord
  <2>1. state.transition \in Transition
    BY <1>2, RecordFacts
  <2>2. PICK d \in {NoDiff, tree, state.transition.diff}, r \in 0..state.transition.round :
           t = [status |-> "failed", phase |-> state.transition.phase, diff |-> d, round |-> r]
    BY <1>2 DEF FailedStates
  <2>3. r \in 0..MaxRound /\ d \in Diffs \cup {NoDiff} /\ state.transition.phase \in WorkPhases
    BY <2>1, <2>2, RecordFacts, BoundsAssumption
  <2> QED BY <2>2, <2>3, RecordFacts DEF Statuses
<1> QED BY <1>1, <1>2

-----------------------------------------------------------------------------
(* Types *)

\* Every step keeps the types (TypeOK): what is written to state.json is a
\* complete record, whatever fails and whoever resumes.
LEMMA TypeStep == TypeOK /\ [Next]_vars => TypeOK'
<1> SUFFICES ASSUME TypeOK, [Next]_vars PROVE TypeOK'
  OBVIOUS
<1> USE DEF TypeOK
<1>s. state \in RunStateRecord \cup {None} /\ tree \in Diffs
  OBVIOUS
<1>w. ASSUME pc \in {"persisting", "final", "retryFinal"}
      PROVE  /\ writing \in Write /\ writing.next \in RunStateRecord
             /\ writing.next.transition \in Transition /\ writing.then \in Continuations
             /\ EventOf(writing.next.transition) \in [status : Statuses, phase : WorkPhases]
  <2> HIDE DEF Write, RunStateRecord, Transition
  <2>1. writing \in Write /\ writing.next \in RunStateRecord
        /\ writing.next.transition \in Transition /\ writing.then \in Continuations
    BY <1>w, RecordFacts
  <2> QED BY <2>1, RecordFacts DEF EventOf
<1>p. \A next \in Transition, then \in Continuations :
         Persist(next, then) => pc' = "persisting" /\ writing' \in Write
  BY <1>s, PersistFacts
<1>f. FailedStates \subseteq Transition
  BY <1>s, FailedFacts
<1>m. ASSUME MarkedFailed, pc = "retryFinal"
      PROVE  outcome' = "failed" /\ pc' = "persisting" /\ writing' \in Write
  BY <1>m, <1>p, <1>w, ChangedFacts DEF MarkedFailed, Continuations, Statuses
<1>g. ASSUME pc = "persisting", StateWriteFailed
      PROVE  /\ pc' \in {"failing", "retryFinal", "ending", "refusing"}
             /\ writing' \in IF pc' = "retryFinal" THEN Write ELSE {None}
  <2> HIDE DEF Write, RunStateRecord, Transition
  <2> QED BY <1>g, <1>w DEF StateWriteFailed, Continuations
<1>h. ASSUME pc = "persisting", Returned
      PROVE  /\ pc' \in {"working", "final", "ending", "refusing"}
             /\ writing' \in IF pc' = "final" THEN Write ELSE {None}
  <2> HIDE DEF Write, RunStateRecord, Transition
  <2> QED BY <1>h, <1>w DEF Returned, Continuations
<1>a. ASSUME pc = "persisting", Append
      PROVE  recorded' \subseteq [status : Statuses, phase : WorkPhases]
             /\ lastEvent' \in Transition \cup {None}
  BY <1>a, <1>w DEF Append
<1>t. ASSUME state # None
      PROVE  state \in RunStateRecord /\ state.transition \in Transition
             /\ state.transition.phase \in WorkPhases /\ state.transition.round \in 0..MaxRound
             /\ state.transition.diff \in Diffs \cup {NoDiff}
  <2> HIDE DEF RunStateRecord, Transition
  <2> QED BY <1>s, <1>t, RecordFacts
<1>r. ASSUME state # None PROVE ResumedRound \in 0..MaxRound
  BY <1>t, <1>r, BoundsAssumption DEF ResumedRound
<1> HIDE DEF Write, RunStateRecord, Transition, Statuses, FailedStates
<1> USE DEF Outcomes
<1>1. CASE appendEvent
  BY <1>1, <1>a, <1>w, AppendedFacts DEF appendEvent, world, told, counts, terminal
<1>2. CASE appendFails
  BY <1>2, <1>a, <1>g DEF appendFails, OneError, world, told, counts, terminal, journal
<1>3. CASE writeState
  BY <1>3, <1>w, <1>h DEF writeState, Replace, world, told, counts, terminal, journal
<1>4. CASE writeStateFails
  BY <1>4, <1>w, <1>g
      DEF writeStateFails, Replace, OneError, world, told, counts, terminal, journal
<1>5. CASE start
  <2>1. Running("planning", 0, NoDiff) \in Transition
    BY RecordFacts, PhasesAssumption, BoundsAssumption DEF Running, Statuses
  <2> QED BY <1>5, <2>1, <1>p
      DEF start, Continuations, world, told, counts, artifacts, terminal, journal
<1>6. ASSUME NEW phase \in WorkPhases, NEW round \in 0..MaxRound, writeRunState(phase, round)
      PROVE  TypeOK'
  <2>1. \A diff \in {tree, NoDiff} : Running(phase, round, diff) \in Transition
    BY RecordFacts DEF Running, Statuses
  <2> QED BY <1>6, <2>1, <1>p
          DEF writeRunState, Continuations, world, told, counts, artifacts, terminal, journal
<1>7. ASSUME NEW diff \in Diffs, editorEdits(diff) PROVE TypeOK'
  BY <1>7 DEF editorEdits, told, counts, artifacts, terminal, journal, memory
<1>8. CASE fail
  BY <1>8, <1>f, <1>p DEF fail, Continuations, world, told, counts, artifacts, terminal, journal
<1>9. ASSUME NEW result \in {"passed", "blocked"}, finish(result) PROVE TypeOK'
  <2>1. state \in RunStateRecord
    BY <1>9 DEF finish
  <2>2. state.transition \in Transition
    BY <2>1, RecordFacts
  <2>3. [state.transition EXCEPT !.status = result, !.diff = tree] \in Transition
    BY <2>2, ChangedFacts DEF Statuses
  <2> QED BY <1>9, <2>3, <1>p
      DEF finish, Continuations, world, told, counts, artifacts, terminal, journal
<1>10. CASE writeFinal
  BY <1>10 DEF writeFinal, persistFinal, world, told, counts, journal
<1>11. CASE writeFinalFails
  BY <1>11
      DEF writeFinalFails, PartOfPersistFinal, OneError, world, told, counts, journal, terminal
<1>12. CASE secondPass
  BY <1>12, <1>m DEF secondPass, persistFinal, world, told, counts, journal
<1>13. CASE secondPassFails
  BY <1>13, <1>m
      DEF secondPassFails, PartOfPersistFinal, OneError, world, told, counts, journal, terminal
<1>14. CASE autostashRestoreFails
  <2>1. \A failed \in FailedStates, phase \in WorkPhases :
           [failed EXCEPT !.phase = phase] \in Transition
    BY <1>f, ChangedFacts
  <2> QED BY ZenonT(60), <1>14, <2>1, <1>p
          DEF autostashRestoreFails, Continuations, world, told, counts, artifacts, terminal, journal
<1>15. CASE end
  BY ZenonT(30), <1>15 DEF end, Down, world, counts, artifacts, terminal, journal
<1>16. CASE endRefused
  BY ZenonT(30), <1>16 DEF endRefused, Down, world, counts, artifacts, terminal, journal
<1>17. CASE crash
  BY ZenonT(30), <1>17, <1>a, <1>w
  DEF crash, Down, Replace, PartOfPersistFinal, world, counts, artifacts, terminal, journal
<1>18. CASE outsideChange
  BY <1>18 DEF outsideChange, told, counts, artifacts, terminal, journal, memory
<1>19. CASE quarantineResume
  <2>1. [state.transition EXCEPT !.status = "quarantined"] \in Transition
    BY <1>19, <1>t, ChangedFacts DEF quarantineResume, Resuming, Statuses
  <2> QED BY <1>19, <2>1, <1>p
          DEF quarantineResume, Resuming, Continuations, world, artifacts, terminal, journal
<1>20. CASE returnSaved
  BY <1>20 DEF returnSaved, Resuming, world, artifacts, terminal, journal
<1>21. CASE resume
  <2>1. \A diff \in {state.transition.diff, NoDiff} :
           Running(state.transition.phase, ResumedRound, diff) \in Transition
    BY <1>21, <1>t, <1>r, RecordFacts DEF resume, Resuming, Running, Statuses
  <2> QED BY <1>21, <2>1, <1>p
      DEF resume, Resuming, Continuations, world, artifacts, terminal, journal
<1>22. CASE resumeFails
  <2>1. \A failed \in FailedStates : [failed EXCEPT !.round = ResumedRound] \in Transition
    BY <1>22, <1>f, <1>r, ChangedFacts DEF resumeFails, Resuming
  <2> QED BY <1>22, <2>1, <1>p
      DEF resumeFails, Resuming, Continuations, world, artifacts, terminal, journal
<1>23. CASE UNCHANGED vars
  BY <1>23 DEF vars, world, told, counts, artifacts, terminal, journal, memory
<1> QED
  BY <1>1, <1>2, <1>3, <1>4, <1>5, <1>6, <1>7, <1>8, <1>9, <1>10, <1>11, <1>12, <1>13, <1>14,
     <1>15, <1>16, <1>17, <1>18, <1>19, <1>20, <1>21, <1>22, <1>23 DEF Next

\* The artifacts of a run and the memory of its process have their types.
THEOREM TypeCorrect == Spec => []TypeOK
<1>1. Init => TypeOK
  <2> SUFFICES ASSUME Init PROVE TypeOK
    OBVIOUS
  <2>1. moved \in BOOLEAN /\ stash \in BOOLEAN /\ acknowledged \in BOOLEAN
    BY Zenon DEF Init
  <2>2. /\ state \in RunStateRecord \cup {None}
        /\ recorded \subseteq [status : Statuses, phase : WorkPhases]
        /\ lastEvent \in Transition \cup {None}
        /\ final \in Outcomes \cup {None} /\ latest \in Outcomes \cup {None}
        /\ tree \in Diffs /\ outcome \in Outcomes
        /\ lost \subseteq {"state", "final", "latest"}
    BY DEF Init, Outcomes
  <2>3. /\ pc = "down" /\ writing = None /\ report = "nothing"
        /\ transitions \in Nat /\ errors \in Nat /\ processes \in Nat
    BY DEF Init
  <2> QED BY <2>1, <2>2, <2>3 DEF TypeOK
<1> QED BY <1>1, TypeStep, PTL DEF Spec

-----------------------------------------------------------------------------
(* The journal leads *)

\* The event of a transition that is about to replace state.json is recorded.
Prepared ==
    pc = "persisting" /\ writing.appended => EventOf(writing.next.transition) \in recorded

JournalInv == JournalLeads /\ Prepared

\* Entering writeRunState, whatever the transition.
LEMMA PersistShape ==
    ASSUME NEW next, NEW then, Persist(next, then)
    PROVE  /\ pc' = "persisting"
           /\ writing'.then = then
           /\ writing'.next.transition = next
           /\ writing'.appended => state # None /\ state.transition = next
  BY DEF Persist

\* Every step keeps JournalInv: a transition becomes the state only after its
\* event was appended, or when it already is the state.
LEMMA JournalStep == TypeOK /\ JournalInv /\ [Next]_vars => JournalInv'
<1> SUFFICES ASSUME TypeOK, JournalInv, [Next]_vars PROVE JournalInv'
  OBVIOUS
<1> USE DEF JournalInv, JournalLeads, Prepared
<1>p. ASSUME NEW next, NEW then, Persist(next, then),
             state' = state, recorded \subseteq recorded'
      PROVE  JournalInv'
  BY <1>p, PersistShape
<1>q. ASSUME pc' # "persisting", state' = state, recorded \subseteq recorded'
      PROVE  JournalInv'
  BY <1>q
<1>r. ASSUME pc = "persisting", writing.appended, Replace, recorded' = recorded,
             pc' # "persisting"
      PROVE  JournalInv'
  BY <1>r DEF Replace
<1>m. ASSUME MarkedFailed, state' = state, recorded' = recorded PROVE JournalInv'
  BY <1>m, <1>p DEF MarkedFailed
<1>a. Append => recorded \subseteq recorded'
  BY DEF Append
<1>w. pc = "persisting" => writing \in Write /\ writing.then \in Continuations
  <2> HIDE DEF Write
  <2> QED BY RecordFacts DEF TypeOK
<1>g. pc = "persisting" /\ StateWriteFailed => pc' # "persisting"
  BY <1>w DEF StateWriteFailed, Continuations
<1>1. CASE appendEvent
  <2>1. writing'.next = writing.next
    BY <1>1, <1>w, AppendedFacts DEF appendEvent
  <2> QED BY <1>1, <2>1 DEF appendEvent, Append
<1>2. CASE appendFails
  BY <1>2, <1>a, <1>g, <1>q DEF appendFails, journal
<1>3. CASE writeState
  <2>1. pc' # "persisting"
    BY <1>3, <1>w DEF writeState, Returned, Continuations
  <2> QED BY <1>3, <2>1, <1>r DEF writeState, journal
<1>4. CASE writeStateFails
  BY <1>4, <1>g, <1>q, <1>r DEF writeStateFails, journal
<1>5. CASE start
  BY <1>5, <1>p DEF start, artifacts, journal
<1>6. ASSUME NEW phase \in WorkPhases, NEW round \in 0..MaxRound, writeRunState(phase, round)
      PROVE  JournalInv'
  BY <1>6, <1>p DEF writeRunState, artifacts, journal
<1>7. ASSUME NEW diff \in Diffs, editorEdits(diff) PROVE JournalInv'
  BY <1>7 DEF editorEdits, artifacts, journal, memory
<1>8. CASE fail
  BY <1>8, <1>p DEF fail, artifacts, journal
<1>9. ASSUME NEW result \in {"passed", "blocked"}, finish(result) PROVE JournalInv'
  BY <1>9, <1>p DEF finish, artifacts, journal
<1>10. CASE writeFinal
  BY <1>10, <1>q DEF writeFinal, journal
<1>11. CASE writeFinalFails
  BY <1>11, <1>q DEF writeFinalFails, journal
<1>12. CASE secondPass
  BY <1>12, <1>m DEF secondPass, journal
<1>13. CASE secondPassFails
  BY <1>13, <1>m DEF secondPassFails, journal
<1>14. CASE autostashRestoreFails
  BY <1>14, <1>p DEF autostashRestoreFails, artifacts, journal
<1>15. CASE end
  BY <1>15, <1>q DEF end, Down, artifacts, journal
<1>16. CASE endRefused
  BY <1>16, <1>q DEF endRefused, Down, artifacts, journal
<1>17. CASE crash
  <2>1. pc' # "persisting"
    BY <1>17 DEF crash, Down
  <2>2. CASE pc = "persisting" /\ writing.appended /\ Replace /\ UNCHANGED <<journal, terminal>>
    BY <2>1, <2>2, <1>r DEF journal
  <2>3. CASE state' = state /\ recorded \subseteq recorded'
    BY <2>1, <2>3, <1>q
  <2> QED BY <1>17, <2>2, <2>3, <1>a DEF crash, artifacts, journal
<1>18. CASE outsideChange
  BY <1>18 DEF outsideChange, artifacts, journal, memory
<1>19. CASE quarantineResume
  BY <1>19, <1>p DEF quarantineResume, Resuming, artifacts, journal
<1>20. CASE returnSaved
  BY <1>20, <1>q DEF returnSaved, Resuming, artifacts, journal
<1>21. CASE resume
  BY <1>21, <1>p DEF resume, Resuming, artifacts, journal
<1>22. CASE resumeFails
  BY <1>22, <1>p DEF resumeFails, Resuming, artifacts, journal
<1>23. CASE UNCHANGED vars
  BY <1>23 DEF vars, artifacts, journal, memory
<1> QED
  BY <1>1, <1>2, <1>3, <1>4, <1>5, <1>6, <1>7, <1>8, <1>9, <1>10, <1>11, <1>12, <1>13, <1>14,
     <1>15, <1>16, <1>17, <1>18, <1>19, <1>20, <1>21, <1>22, <1>23 DEF Next

\* state.json never claims a transition whose event was not recorded, through
\* every crash and every failed write (state_machine.go:91-94).
THEOREM JournalCorrect == Spec => []JournalLeads
<1>1. Init => JournalInv
  BY DEF Init, JournalInv, JournalLeads, Prepared
<1>2. Spec => [](TypeOK /\ JournalInv)
  BY <1>1, JournalStep, TypeCorrect, PTL DEF Spec
<1> QED BY <1>2, PTL DEF JournalInv

-----------------------------------------------------------------------------
(* A reported success *)

\* A run ends as passed only with final.json written, a second pass ends as
\* failed, and once a success was told nothing but a quarantine is under way.
Reported ==
    /\ pc = "ending" /\ outcome = "passed" => final = "passed"
    /\ pc = "persisting" /\ writing.then = "retry" => outcome = "failed"
    /\ pc # "down" => processes > 0
    /\ acknowledged => processes > 0
    /\ AcknowledgedIsDurable
    /\ SuccessIsFinal

\* Every step keeps Reported.
LEMMA ReportedStep == TypeOK /\ Reported /\ [Next]_vars => Reported'
<1> SUFFICES ASSUME TypeOK, Reported, [Next]_vars PROVE Reported'
  OBVIOUS
<1> USE DEF Reported, AcknowledgedIsDurable, SuccessIsFinal
<1>n. processes \in Nat
  BY DEF TypeOK
<1>w. pc = "persisting" => writing.then \in Continuations
  <2> HIDE DEF Write
  <2> QED BY RecordFacts DEF TypeOK
<1>p. ASSUME NEW next, NEW then \in {"work", "terminal"}, Persist(next, then), processes' > 0,
             ~ acknowledged, acknowledged' = acknowledged
      PROVE  Reported'
  BY <1>p, PersistShape
<1>m. ASSUME pc = "retryFinal", MarkedFailed, UNCHANGED <<told, counts>> PROVE Reported'
  <2>1. PICK next : Persist(next, "retry")
    BY <1>m DEF MarkedFailed
  <2> QED BY <1>m, <2>1, PersistShape DEF MarkedFailed, told, counts
<1>g. ASSUME pc = "persisting", StateWriteFailed, UNCHANGED <<terminal, outcome, told, processes>>
      PROVE  Reported'
  BY <1>g, <1>w DEF StateWriteFailed, Continuations, terminal, told
<1>1. CASE appendEvent
  <2>1. writing'.then = writing.then
    <3> HIDE DEF Write
    <3>1. writing \in Write
      BY <1>1 DEF appendEvent, TypeOK
    <3> QED BY <1>1, <3>1, AppendedFacts DEF appendEvent
  <2> QED BY <1>1, <2>1 DEF appendEvent, terminal, told, counts
<1>2. CASE appendFails
  BY <1>2, <1>g DEF appendFails
<1>3. CASE writeState
  BY <1>3, <1>w DEF writeState, Returned, Continuations, terminal, told, counts
<1>4. CASE writeStateFails
  BY <1>4, <1>g DEF writeStateFails
<1>5. CASE start
  BY <1>5, <1>p DEF start, told
<1>6. ASSUME NEW phase \in WorkPhases, NEW round \in 0..MaxRound, writeRunState(phase, round)
      PROVE  Reported'
  BY <1>6, <1>p DEF writeRunState, told
<1>7. ASSUME NEW diff \in Diffs, editorEdits(diff) PROVE Reported'
  BY <1>7 DEF editorEdits, artifacts, terminal, memory, told, counts
<1>8. CASE fail
  BY <1>8, <1>p DEF fail, told, counts
<1>9. ASSUME NEW result \in {"passed", "blocked"}, finish(result) PROVE Reported'
  BY <1>9, <1>p DEF finish, told, counts
<1>10. CASE writeFinal
  BY <1>10 DEF writeFinal, persistFinal, told, counts
<1>11. CASE writeFinalFails
  BY <1>11 DEF writeFinalFails, told
<1>12. CASE secondPass
  BY <1>12, <1>m DEF secondPass
<1>13. CASE secondPassFails
  <2>1. PICK next : Persist(next, "retry")
    BY <1>13 DEF secondPassFails, MarkedFailed
  <2> QED BY <1>13, <2>1, PersistShape DEF secondPassFails, MarkedFailed, told
<1>14. CASE autostashRestoreFails
  BY <1>14, <1>p DEF autostashRestoreFails, told, counts
<1>15. CASE end
  BY <1>15 DEF end, Down, artifacts, terminal, counts
<1>16. CASE endRefused
  BY <1>16 DEF endRefused, Down, artifacts, terminal, counts
<1>17. CASE crash
  <2>1. acknowledged => terminal' = terminal
    BY <1>17 DEF crash, artifacts, terminal
  <2> QED BY <1>17, <2>1 DEF crash, Down, counts, terminal
<1>18. CASE outsideChange
  BY <1>18 DEF outsideChange, artifacts, terminal, memory, told, counts
<1>19. CASE quarantineResume
  <2>1. PICK next : Persist(next, "quarantine")
    BY <1>19 DEF quarantineResume
  <2> QED BY <1>19, <1>n, <2>1, PersistShape DEF quarantineResume, Resuming, artifacts, terminal
<1>20. CASE returnSaved
  BY <1>20, <1>n DEF returnSaved, Resuming, artifacts, terminal
<1>21. CASE resume
  BY <1>21, <1>n, <1>p DEF resume, Resuming
<1>22. CASE resumeFails
  BY <1>22, <1>n, <1>p DEF resumeFails, Resuming
<1>23. CASE UNCHANGED vars
  BY <1>23 DEF vars, artifacts, terminal, memory, told, counts
<1> QED
  BY <1>1, <1>2, <1>3, <1>4, <1>5, <1>6, <1>7, <1>8, <1>9, <1>10, <1>11, <1>12, <1>13, <1>14,
     <1>15, <1>16, <1>17, <1>18, <1>19, <1>20, <1>21, <1>22, <1>23 DEF Next

\* A success is only reported once final.json holds it, and then nobody works on
\* the run.
LEMMA ReportedCorrect == Spec => []Reported
<1>1. Init => Reported
  BY DEF Init, Reported, AcknowledgedIsDurable, SuccessIsFinal
<1> QED BY <1>1, ReportedStep, TypeCorrect, PTL DEF Spec

\* A success that was reported stays in final.json, whatever crashes, fails or
\* is resumed later.
THEOREM SuccessDurable == Spec => []AcknowledgedIsDurable
  BY ReportedCorrect, PTL DEF Reported

\* No process works again on a run whose success was reported.
THEOREM SuccessFinal == Spec => []SuccessIsFinal
  BY ReportedCorrect, PTL DEF Reported

-----------------------------------------------------------------------------
(* A reported failure *)

Clean(names) == \A artifact \in names \ lost : Claims(artifact) # "passed"

\* A result that failed is written as one, and a second pass covers what the first
\* one may have left in final.json and latest.json.
LooksInv ==
    /\ pc = "persisting" /\ writing.then \in {"terminal", "retry"} /\ outcome = "failed" =>
          writing.next.transition.status = "failed"
    /\ pc = "persisting" /\ writing.then = "retry" =>
          outcome = "failed" /\ Clean({"final", "latest"})
    /\ pc = "final" /\ outcome = "failed" => state # None /\ state.transition.status = "failed"
    /\ pc = "ending" /\ outcome = "failed" => Clean({"state", "final", "latest"})
    /\ FailureNeverLooksPassed

\* Every step keeps LooksInv.
LEMMA LooksStep == TypeOK /\ LooksInv /\ [Next]_vars => LooksInv'
<1> SUFFICES ASSUME TypeOK, LooksInv, [Next]_vars PROVE LooksInv'
  OBVIOUS
<1> USE DEF LooksInv, Clean, Claims, FailureNeverLooksPassed
<1>w. pc = "persisting" => writing.then \in Continuations
  <2> HIDE DEF Write
  <2> QED BY RecordFacts DEF TypeOK
<1>f. \A failed \in FailedStates :
         /\ failed.status = "failed"
         /\ \A phase : [failed EXCEPT !.phase = phase].status = "failed"
         /\ \A round : [failed EXCEPT !.round = round].status = "failed"
  BY DEF FailedStates
<1>p. ASSUME NEW next, NEW then \in {"work", "terminal", "quarantine"}, Persist(next, then),
             then = "terminal" /\ outcome' = "failed" => next.status = "failed"
      PROVE  LooksInv'
  BY <1>p, PersistShape
<1>m. ASSUME pc = "retryFinal", MarkedFailed,
             \/ final' = "failed" /\ latest' = "failed"
             \/ lost' = lost \cup {"final", "latest"}
      PROVE  LooksInv'
  <2> DEFINE next == [writing.next.transition EXCEPT !.status = "failed"]
  <2>1. Persist(next, "retry") /\ outcome' = "failed"
    BY <1>m DEF MarkedFailed
  <2>2. next.status = "failed"
    <3> HIDE DEF Write, Transition
    <3>1. writing \in Write /\ writing.next.transition \in Transition
      BY <1>m, RecordFacts DEF TypeOK
    <3> QED BY <3>1 DEF Transition
  <2>3. /\ pc' = "persisting" /\ writing'.then = "retry" /\ writing'.next.transition = next
    BY <2>1, PersistShape
  <2> HIDE DEF next
  <2> QED BY <1>m, <2>1, <2>2, <2>3
<1>g. ASSUME pc = "persisting", StateWriteFailed, lost' = lost \cup {"state"},
             UNCHANGED <<terminal, outcome, told>>
      PROVE  LooksInv'
  <2>1. CASE writing.then \in {"work", "terminal", "quarantine"}
    BY <1>g, <2>1 DEF StateWriteFailed, told
  <2>2. CASE writing.then = "retry"
    BY <1>g, <2>2 DEF StateWriteFailed, told, terminal
  <2> QED BY <1>g, <2>1, <2>2, <1>w DEF Continuations
<1>1. CASE appendEvent
  <2>1. writing'.then = writing.then /\ writing'.next = writing.next
    <3> HIDE DEF Write
    <3>1. writing \in Write
      BY <1>1 DEF appendEvent, TypeOK
    <3> QED BY <1>1, <3>1, AppendedFacts DEF appendEvent
  <2> QED BY <1>1, <2>1 DEF appendEvent, terminal, told
<1>2. CASE appendFails
  <2>1. UNCHANGED <<terminal, outcome, told>>
        /\ StateWriteFailed /\ pc = "persisting" /\ lost' = lost \cup {"state"}
    BY <1>2 DEF appendFails
  <2> QED BY <2>1, <1>g
<1>3. CASE writeState
  <2>1. /\ pc = "persisting" /\ state' = writing.next /\ Returned
        /\ UNCHANGED <<terminal, outcome, told>> /\ lost' = lost \ {"state"}
    BY <1>3 DEF writeState, Replace
  <2>2. state' # None
    <3> HIDE DEF Write
    <3>1. writing \in Write /\ writing.next \in RunStateRecord
      BY <2>1, RecordFacts DEF TypeOK
    <3> QED BY <2>1, <3>1, NoneAssumption
  <2>3. CASE writing.then \in {"work", "quarantine"}
    BY <2>1, <2>3 DEF Returned, told
  <2>4. CASE writing.then = "terminal"
    BY <2>1, <2>2, <2>4 DEF Returned
  <2>5. CASE writing.then = "retry"
    BY <2>1, <2>2, <2>5 DEF Returned, terminal
  <2> QED BY <2>1, <2>3, <2>4, <2>5, <1>w DEF Continuations
<1>4. CASE writeStateFails
  <2>1. UNCHANGED <<terminal, outcome, told>>
        /\ StateWriteFailed /\ pc = "persisting" /\ lost' = lost \cup {"state"}
    BY <1>4 DEF writeStateFails
  <2> QED BY <2>1, <1>g
<1>5. CASE start
  BY <1>5, <1>p DEF start
<1>6. ASSUME NEW phase \in WorkPhases, NEW round \in 0..MaxRound, writeRunState(phase, round)
      PROVE  LooksInv'
  BY <1>6, <1>p DEF writeRunState
<1>7. ASSUME NEW diff \in Diffs, editorEdits(diff) PROVE LooksInv'
  BY <1>7 DEF editorEdits, artifacts, terminal, memory, told
<1>8. CASE fail
  <2>1. PICK failed \in FailedStates : Persist(failed, "terminal")
    BY <1>8 DEF fail
  <2> QED BY <2>1, <1>f, <1>p
<1>9. ASSUME NEW result \in {"passed", "blocked"}, finish(result) PROVE LooksInv'
  BY <1>9, <1>p DEF finish
<1>10. CASE writeFinal
  BY <1>10 DEF writeFinal, persistFinal, told
<1>11. CASE writeFinalFails
  BY <1>11 DEF writeFinalFails, told
<1>12. CASE secondPass
  BY <1>12, <1>m DEF secondPass, persistFinal
<1>13. CASE secondPassFails
  BY <1>13, <1>m DEF secondPassFails
<1>14. CASE autostashRestoreFails
  <2>1. PICK failed \in FailedStates, phase \in WorkPhases :
           Persist([failed EXCEPT !.phase = phase], "terminal")
    BY <1>14 DEF autostashRestoreFails
  <2>2. [failed EXCEPT !.phase = phase].status = "failed"
    BY <1>f
  <2> QED BY <2>1, <2>2, <1>p
<1>15. CASE end
  BY <1>15 DEF end, Down, artifacts, terminal
<1>16. CASE endRefused
  BY <1>16 DEF endRefused, Down
<1>17. CASE crash
  BY <1>17 DEF crash, Down
<1>18. CASE outsideChange
  BY <1>18 DEF outsideChange, artifacts, terminal, memory, told
<1>19. CASE quarantineResume
  BY <1>19, <1>p DEF quarantineResume
<1>20. CASE returnSaved
  BY <1>20 DEF returnSaved, Resuming
<1>21. CASE resume
  BY <1>21, <1>p DEF resume
<1>22. CASE resumeFails
  <2>1. PICK failed \in FailedStates : Persist([failed EXCEPT !.round = ResumedRound], "terminal")
    BY <1>22 DEF resumeFails
  <2>2. [failed EXCEPT !.round = ResumedRound].status = "failed"
    BY <1>f
  <2> QED BY <2>1, <2>2, <1>p
<1>23. CASE UNCHANGED vars
  BY <1>23 DEF vars, artifacts, journal, terminal, memory, told
<1> QED
  BY <1>1, <1>2, <1>3, <1>4, <1>5, <1>6, <1>7, <1>8, <1>9, <1>10, <1>11, <1>12, <1>13, <1>14,
     <1>15, <1>16, <1>17, <1>18, <1>19, <1>20, <1>21, <1>22, <1>23
  DEF Next

\* After a run was reported as failed no readable artifact claims a clean success
\* (run_persistence.go:60-64), whatever fails and whoever died or resumed before.
THEOREM FailureShown == Spec => []FailureNeverLooksPassed
<1>1. Init => LooksInv
  BY DEF Init, LooksInv, FailureNeverLooksPassed
<1>2. LooksInv => FailureNeverLooksPassed
  BY DEF LooksInv
<1> QED BY <1>1, <1>2, LooksStep, TypeCorrect, PTL DEF Spec

-----------------------------------------------------------------------------
(* Completed phases *)

\* The run was in that phase, and elsewhere or at a verdict.
LeftIn(phase, events) ==
    phase # None =>
        /\ \E event \in events : event.phase = phase
        /\ \E event \in events : event.phase # phase \/ event.status \in {"passed", "blocked"}

\* What is about to replace state.json has a completed phase that the journal shows.
LeftInv ==
    /\ state # None => LeftIn(state.completed, recorded)
    /\ pc = "persisting" =>
          LeftIn(writing.next.completed, recorded \cup {EventOf(writing.next.transition)})

LEMMA LeftMonotone ==
    ASSUME NEW phase, NEW events, NEW more, events \subseteq more, LeftIn(phase, events)
    PROVE  LeftIn(phase, more)
  BY DEF LeftIn

\* The completed phase of a new record, from that of the old one.
LEMMA LeftFacts ==
    ASSUME NEW next, state # None => LeftIn(state.completed, recorded), JournalLeads
    PROVE  LeftIn(completedPhaseForTransition(state, next), recorded \cup {EventOf(next)})
<1> DEFINE before == IF state = None THEN None ELSE state.completed
           events == recorded \cup {EventOf(next)}
<1>1. LeftIn(before, events)
  BY LeftMonotone DEF LeftIn
<1>2. EventOf(next).phase = next.phase /\ EventOf(next).status = next.status
  BY DEF EventOf
<1>3. next.status \in {"passed", "blocked"} => LeftIn(next.phase, events)
  BY <1>2 DEF LeftIn
<1>4. ASSUME state # None, state.transition.phase # next.phase
      PROVE  LeftIn(state.transition.phase, events)
  <2>1. EventOf(state.transition) \in events /\ EventOf(state.transition).phase = state.transition.phase
    BY <1>4 DEF JournalLeads, EventOf
  <2> QED BY <1>2, <1>4, <2>1 DEF LeftIn
<1>5. ASSUME state # None, state.transition.phase # next.phase
      PROVE  LeftIn(Later(state.transition.phase, before), events)
  <2>1. Later(state.transition.phase, before) \in {state.transition.phase, before}
    BY DEF Later
  <2> QED BY <1>1, <1>4, <1>5, <2>1
<1> QED BY <1>1, <1>3, <1>5 DEF completedPhaseForTransition

\* Every step keeps LeftInv.
LEMMA LeftStep == TypeOK /\ JournalInv /\ LeftInv /\ [Next]_vars => LeftInv'
<1> SUFFICES ASSUME TypeOK, JournalInv, LeftInv, [Next]_vars PROVE LeftInv'
  OBVIOUS
<1> USE DEF LeftInv
<1>p. ASSUME NEW next, NEW then, Persist(next, then), state' = state, recorded' = recorded
      PROVE  LeftInv'
  <2>1. writing'.next.transition = next
        /\ writing'.next.completed = completedPhaseForTransition(state, next)
    BY <1>p DEF Persist
  <2>2. LeftIn(completedPhaseForTransition(state, next), recorded \cup {EventOf(next)})
    BY LeftFacts DEF JournalInv
  <2> QED BY <1>p, <2>1, <2>2
<1>q. ASSUME pc' # "persisting", state' = state, recorded \subseteq recorded' PROVE LeftInv'
  BY <1>q, LeftMonotone
<1>r. ASSUME pc = "persisting", writing.appended, Replace, recorded' = recorded,
             pc' # "persisting"
      PROVE  LeftInv'
  <2>1. recorded \cup {EventOf(writing.next.transition)} = recorded
    BY <1>r DEF JournalInv, Prepared
  <2> QED BY <1>r, <2>1 DEF Replace
<1>a. ASSUME Append, writing'.next = writing.next, pc = "persisting", state' = state
      PROVE  LeftInv'
  <2>1. recorded' = recorded \cup {EventOf(writing.next.transition)}
    BY <1>a DEF Append
  <2>2. recorded' \cup {EventOf(writing'.next.transition)} = recorded'
    BY <1>a, <2>1
  <2> QED BY <1>a, <2>1, <2>2, LeftMonotone
<1>w. pc = "persisting" => writing \in Write /\ writing.then \in Continuations
  <2> HIDE DEF Write
  <2> QED BY RecordFacts DEF TypeOK
<1>g. pc = "persisting" /\ StateWriteFailed => pc' # "persisting"
  BY <1>w DEF StateWriteFailed, Continuations
<1>1. CASE appendEvent
  <2>1. writing'.next = writing.next
    <3> HIDE DEF Write
    <3>1. writing \in Write
      BY <1>1 DEF appendEvent, TypeOK
    <3> QED BY <1>1, <3>1, AppendedFacts DEF appendEvent
  <2> QED BY <1>1, <2>1, <1>a DEF appendEvent
<1>2. CASE appendFails
  <2>1. recorded \subseteq recorded'
    BY <1>2 DEF appendFails, Append, journal
  <2> QED BY <1>2, <2>1, <1>g, <1>q DEF appendFails
<1>3. CASE writeState
  <2>1. pc' # "persisting"
    BY <1>3, <1>w DEF writeState, Returned, Continuations
  <2> QED BY <1>3, <2>1, <1>r DEF writeState, journal
<1>4. CASE writeStateFails
  BY <1>4, <1>g, <1>q, <1>r DEF writeStateFails, journal
<1>5. CASE start
  BY <1>5, <1>p DEF start, artifacts, journal
<1>6. ASSUME NEW phase \in WorkPhases, NEW round \in 0..MaxRound, writeRunState(phase, round)
      PROVE  LeftInv'
  BY <1>6, <1>p DEF writeRunState, artifacts, journal
<1>7. ASSUME NEW diff \in Diffs, editorEdits(diff) PROVE LeftInv'
  BY <1>7 DEF editorEdits, artifacts, journal, memory
<1>8. CASE fail
  BY <1>8, <1>p DEF fail, artifacts, journal
<1>9. ASSUME NEW result \in {"passed", "blocked"}, finish(result) PROVE LeftInv'
  BY <1>9, <1>p DEF finish, artifacts, journal
<1>10. CASE writeFinal
  BY <1>10, <1>q DEF writeFinal, journal
<1>11. CASE writeFinalFails
  BY <1>11, <1>q DEF writeFinalFails, journal
<1>12. CASE secondPass
  BY <1>12, <1>p DEF secondPass, MarkedFailed, journal
<1>13. CASE secondPassFails
  BY <1>13, <1>p DEF secondPassFails, MarkedFailed, journal
<1>14. CASE autostashRestoreFails
  BY <1>14, <1>p DEF autostashRestoreFails, artifacts, journal
<1>15. CASE end
  BY <1>15, <1>q DEF end, Down, artifacts, journal
<1>16. CASE endRefused
  BY <1>16, <1>q DEF endRefused, Down, artifacts, journal
<1>17. CASE crash
  <2>1. pc' # "persisting"
    BY <1>17 DEF crash, Down
  <2>2. CASE pc = "persisting" /\ writing.appended /\ Replace /\ UNCHANGED <<journal, terminal>>
    BY <2>1, <2>2, <1>r DEF journal
  <2>3. CASE state' = state /\ recorded \subseteq recorded'
    BY <2>1, <2>3, <1>q
  <2>4. Append => recorded \subseteq recorded'
    BY DEF Append
  <2> QED BY <1>17, <2>2, <2>3, <2>4 DEF crash, artifacts, journal
<1>18. CASE outsideChange
  BY <1>18 DEF outsideChange, artifacts, journal, memory
<1>19. CASE quarantineResume
  BY <1>19, <1>p DEF quarantineResume, Resuming, artifacts, journal
<1>20. CASE returnSaved
  BY <1>20, <1>q DEF returnSaved, Resuming, artifacts, journal
<1>21. CASE resume
  BY <1>21, <1>p DEF resume, Resuming, artifacts, journal
<1>22. CASE resumeFails
  BY <1>22, <1>p DEF resumeFails, Resuming, artifacts, journal
<1>23. CASE UNCHANGED vars
  BY <1>23 DEF vars, artifacts, journal, memory
<1> QED
  BY <1>1, <1>2, <1>3, <1>4, <1>5, <1>6, <1>7, <1>8, <1>9, <1>10, <1>11, <1>12, <1>13, <1>14,
     <1>15, <1>16, <1>17, <1>18, <1>19, <1>20, <1>21, <1>22, <1>23
  DEF Next

\* A phase is called completed only after the run has left it or ended in it with a
\* verdict, and the journal shows both.
THEOREM CompletedLeft == Spec => []CompletedWasLeft
<1>1. Init => JournalInv /\ LeftInv
  BY DEF Init, JournalInv, JournalLeads, Prepared, LeftInv
<1>2. LeftInv => CompletedWasLeft
  BY DEF LeftInv, LeftIn, CompletedWasLeft
<1> QED BY <1>1, <1>2, LeftStep, JournalStep, TypeCorrect, PTL DEF Spec

=============================================================================
