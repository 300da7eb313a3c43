--------------------------- MODULE ControlRuntime_proofs -------------------------
(***************************************************************************)
(* What the control plane keeps for every set of processes, calls and      *)
(* approvals.                                                              *)
(*                                                                         *)
(* The ledger is why an approval is used once: a call is on record before  *)
(* it does anything (LedgerInv), and what is pruned from the ledger is an  *)
(* expired start, whose approval only a call can present that held it as   *)
(* it expired (ApprovalInv).  That starts exclude each other rests on the  *)
(* ledger, too: a start is admitted when no start on record lacks a result *)
(* (StartsInv).                                                            *)
(***************************************************************************)
EXTENDS ControlRuntime, TLAPS

-----------------------------------------------------------------------------
(* The inductive invariants *)

\* The calls that were admitted: what they do, or did, their approval paid for.
Spent == effective \cup {c \in Calls : call[c] = "admitted"}

\* Who was admitted, in which handler.
SpentInv ==
    /\ \A c \in effective : call[c] = "done"
    /\ \A c \in Spent : Op[c] # "cli"
    /\ \A c \in Calls : job[c] # "none" => call[c] = "done" /\ (Op[c] = "cli" \/ c \in effective)
    /\ \A c \in Calls : /\ call[c] = "valid" => Op[c] = "start"
                        /\ call[c] = "assessed" => Op[c] = "resume"
                        /\ call[c] = "targeted" => Op[c] = "cancel"

\* The ledger has the record of every admitted call, but for the expired starts.
LedgerInv == \A c \in Spent : RecordOf(c) \in ledger \/ (Op[c] = "start" /\ Nonce[c] \in expired)

\* An approval that is being served has not expired, or it did so in hand; and it
\* was spent at most once, but for calls that outlived it next to a start.
ApprovalInv ==
    /\ \A c \in Calls : InHand(c) => Nonce[c] \notin expired \/ c \in overtaken
    /\ \A c, d \in Spent :
          Nonce[c] = Nonce[d] => \/ c = d
                                 \/ Op[c] = "start" /\ d \in overtaken
                                 \/ Op[d] = "start" /\ c \in overtaken

\* Of the admitted starts whose runs have no result, one at most has a valid approval.
StartsInv ==
    \A c, d \in Runs \cap Spent :
        disk[c].final = "none" /\ disk[d].final = "none"
        => c = d \/ Nonce[c] \in expired \/ Nonce[d] \in expired

\* A runtime that closes serves no start and no resume, and when it is closed it
\* has no job.
CloseInv ==
    /\ \A p \in Processes : runtime[p] \in {"closing", "closed"} => p \in Servers /\ Serving(p) = {}
    /\ CloseDrains

-----------------------------------------------------------------------------
(* Records *)

\* The artifacts of a run with one of them replaced.
LEMMA ArtifactFacts ==
    ASSUME NEW a \in RunArtifacts
    PROVE  /\ a.lock \in Processes \cup {None} /\ a.request \subseteq Processes \cup {None}
           /\ [a EXCEPT !.dir = TRUE] \in RunArtifacts
           /\ [a EXCEPT !.lock = None] \in RunArtifacts
           /\ \A p \in Processes : [a EXCEPT !.lock = p, !.state = "running"] \in RunArtifacts
           /\ \A x \in {"passed", "failed", "cancelled"} :
                 /\ [a EXCEPT !.state = x, !.final = x] \in RunArtifacts
                 /\ [a EXCEPT !.dir = TRUE, !.state = x, !.final = x] \in RunArtifacts
           /\ \A x \in SUBSET (Processes \cup {None}) : [a EXCEPT !.request = x] \in RunArtifacts
  BY DEF RunArtifacts

\* The artifacts that a step leaves are those of one run, replaced.
LEMMA DiskFacts ==
    ASSUME TypeOK, NEW c \in Calls
    PROVE  /\ persistStartFailure(c) \/ createRunDir(c) \/ activateRun(c)
              \/ persistResumeFailure(c) \/ releaseRunLock(c)
              \/ (\E status \in {"passed", "failed", "cancelled"} : finishRun(c, status))
              \/ cancelRun(c)
              => disk' \in [Runs -> RunArtifacts]
<1> DEFINE r == Target[c]
           a == disk[r]
           with(b) == [disk EXCEPT ![r] = b]
<1>1. r \in Runs /\ (Op[c] = "start" => r = c) /\ disk \in [Runs -> RunArtifacts]
  BY TargetAssumption DEF TypeOK, Runs
<1>2. a \in RunArtifacts
  BY <1>1
<1>3. \A b \in RunArtifacts : with(b) \in [Runs -> RunArtifacts] /\ with(b)[r] = b
  BY <1>1
<1>4. Home[c] \in Processes /\ seen[c].owner \in Processes \cup {None}
  BY HomeAssumption DEF TypeOK
<1> HIDE DEF r
<1>5. CASE persistStartFailure(c)
  <2>1. disk' = with([a EXCEPT !.dir = TRUE, !.state = "failed", !.final = "failed"])
    BY <1>5, <1>1 DEF persistStartFailure
  <2>2. [a EXCEPT !.dir = TRUE, !.state = "failed", !.final = "failed"] \in RunArtifacts
    BY <1>2, ArtifactFacts
  <2> QED BY <2>1, <2>2, <1>3
<1>6. CASE createRunDir(c)
  <2>1. disk' = with([a EXCEPT !.dir = TRUE])
    BY SMTT(60), <1>6, <1>1 DEF createRunDir
  <2>2. [a EXCEPT !.dir = TRUE] \in RunArtifacts
    BY ZenonT(60), <1>2, ArtifactFacts
  <2> QED BY <2>1, <2>2, <1>3
<1>7. CASE activateRun(c)
  <2>1. disk' = with([a EXCEPT !.lock = Home[c], !.state = "running"])
    BY <1>7, <1>1 DEF activateRun, r
  <2> QED BY <2>1, <1>2, <1>3, <1>4, ArtifactFacts
<1>8. CASE persistResumeFailure(c)
  <2>1. PICK b \in {a, [a EXCEPT !.lock = None]} :
           disk' \in {disk, with(b), with([b EXCEPT !.state = "failed", !.final = "failed"])}
    BY ZenonT(60), <1>8, <1>1 DEF persistResumeFailure, r
  <2>2. b \in RunArtifacts
    BY <2>1, <1>2, ArtifactFacts
  <2>3. [b EXCEPT !.state = "failed", !.final = "failed"] \in RunArtifacts
    BY <2>2, ArtifactFacts
  <2> QED BY <2>1, <2>2, <2>3, <1>1, <1>3
<1>9. CASE releaseRunLock(c)
  <2>1. disk' \in {disk, with([a EXCEPT !.lock = None])}
    BY <1>9, <1>1 DEF releaseRunLock, r
  <2>2. [a EXCEPT !.lock = None] \in RunArtifacts
    BY <1>2, ArtifactFacts
  <2> QED BY <2>1, <2>2, <1>1, <1>3
<1>10. ASSUME NEW status \in {"passed", "failed", "cancelled"}, finishRun(c, status)
       PROVE  disk' \in [Runs -> RunArtifacts]
  <2>1. disk' = with([a EXCEPT !.state = status, !.final = status])
    BY <1>10, <1>1 DEF finishRun, r
  <2> QED BY <2>1, <1>2, <1>3, ArtifactFacts
<1>11. CASE cancelRun(c)
  <2> DEFINE b == [a EXCEPT !.request = {seen[c].owner}]
  <2>1. disk' \in {with(b), with([b EXCEPT !.state = "cancelled", !.final = "cancelled"])}
    BY <1>11, <1>1 DEF cancelRun, r
  <2>2. b \in RunArtifacts
    <3>1. {seen[c].owner} \in SUBSET (Processes \cup {None})
      BY <1>4
    <3> QED BY <1>2, <3>1, ArtifactFacts
  <2> QED BY ZenonT(60), <2>1, <2>2, <1>3, ArtifactFacts
<1> QED BY <1>5, <1>6, <1>7, <1>8, <1>9, <1>10, <1>11

\* The record of a call, and that it carries the approval of the call.
LEMMA RecordFacts ==
    ASSUME NEW c \in Calls
    PROVE  /\ Op[c] \in {"start", "resume", "cancel"} => RecordOf(c) \in Record
           /\ RecordOf(c).op = Op[c] /\ RecordOf(c).nonce = Nonce[c] /\ RecordOf(c).run = Target[c]
           /\ Target[c] \in Runs /\ (c \in Runs <=> Op[c] = "start")
           /\ c \in Runs => Target[c] = c
  BY TargetAssumption DEF RecordOf, Record, Runs

\* The ledger check under the lock of the ledger: no approval that is on record and
\* was not pruned admits a call, what is pruned are expired starts, and the call is
\* on record before it does anything.
LEMMA AdmitFacts ==
    ASSUME TypeOK, NEW c \in Calls, startAdmitted(c) \/ resumeAdmitted(c) \/ cancelAdmitted(c)
    PROVE  /\ call[c] \in {"valid", "assessed", "targeted"}
           /\ Op[c] \in {"start", "resume", "cancel"}
           /\ \/ call' = [call EXCEPT ![c] = "admitted"] /\ RecordOf(c) \in ledger'
              \/ call' = [call EXCEPT ![c] = "done"]
           /\ \A r \in ledger : (r.op = "start" /\ r.nonce \in expired) \/ r \in ledger'
           /\ \A r \in ledger : (r.op = "start" /\ r.nonce \in expired) \/ r.nonce # Nonce[c]
           /\ Op[c] = "start" =>
                 \A r \in ledger : r.op = "start" =>
                     r.nonce \in expired \/ disk[r.run].final # "none"
           /\ ledger' \subseteq ledger \cup {RecordOf(c)}
           /\ ledgerLock' \in {ledgerLock, c}
           /\ UNCHANGED <<expired, overtaken, artifacts, seen, workers, runtime, effective>>
<1> DEFINE kept == pruneControlStartRecords(ledger)
<1> USE DEF artifacts, workers
<1>1. /\ kept \subseteq ledger
      /\ \A r \in ledger : (r.op = "start" /\ r.nonce \in expired) \/ r \in kept
  BY DEF pruneControlStartRecords
<1>2. \A records : ~ Consumed(c, records) => \A r \in records : r.nonce # Nonce[c]
  BY DEF Consumed, controlLedgerHasNonce
<1>3. CASE startAdmitted(c)
  <2>0. \A r \in kept : r.op = "start" => disk[r.run].final # "none"
    BY <1>3 DEF startAdmitted, Busy, controlStartRecordActive
  <2> HIDE DEF kept
  <2>1. /\ Op[c] = "start" /\ call[c] = "valid" /\ ~ Consumed(c, kept)
        /\ UNCHANGED <<expired, overtaken, artifacts, seen, workers, runtime, effective>>
        /\ \/ ledger' = kept \cup {RecordOf(c)} /\ ledgerLock' = c
              /\ call' = [call EXCEPT ![c] = "admitted"]
           \/ ledger' \in {ledger, kept \cup {RecordOf(c)}} /\ ledgerLock' = ledgerLock
              /\ call' = [call EXCEPT ![c] = "done"]
    BY <1>3 DEF kept, startAdmitted, ledgerWriteFails, Here, Step
  <2> QED BY <1>1, <1>2, <2>0, <2>1
<1>4. CASE resumeAdmitted(c) \/ cancelAdmitted(c)
  <2>1. /\ Op[c] \in {"resume", "cancel"} /\ call[c] \in {"assessed", "targeted"}
        /\ ~ Consumed(c, ledger) /\ ledgerLock' = ledgerLock
        /\ UNCHANGED <<expired, overtaken, artifacts, seen, workers, runtime, effective>>
        /\ \/ ledger' = ledger \cup {RecordOf(c)} /\ call' = [call EXCEPT ![c] = "admitted"]
           \/ ledger' \in {ledger, ledger \cup {RecordOf(c)}} /\ call' = [call EXCEPT ![c] = "done"]
    BY <1>4 DEF resumeAdmitted, cancelAdmitted, ledgerWriteFails, Here, Step
  <2> QED BY <1>2, <2>1
<1> QED BY <1>3, <1>4


-----------------------------------------------------------------------------
(* Types *)

\* Every step keeps the types.
LEMMA TypeStep == TypeOK /\ [Next]_vars => TypeOK'
<1> SUFFICES ASSUME TypeOK, [Next]_vars PROVE TypeOK'
  OBVIOUS
<1> USE OpAssumption, HomeAssumption, TargetAssumption
    DEF TypeOK, approvals, artifacts, workers, Live
<1>r. /\ disk \in [Runs -> RunArtifacts]
      /\ \A c \in Calls : Target[c] \in Runs /\ Home[c] \in Processes
      /\ \A c \in Calls : Op[c] = "start" => c \in Runs /\ Target[c] = c
  BY RecordFacts
<1>d. \A c \in Calls : disk[Target[c]].lock \in Processes \cup {None}
  <2> SUFFICES ASSUME NEW c \in Calls PROVE disk[Target[c]].lock \in Processes \cup {None}
    OBVIOUS
  <2>1. disk[Target[c]] \in RunArtifacts
    BY <1>r
  <2> QED BY <2>1, ArtifactFacts
<1>j. /\ \A p \in Processes, r \in Runs : jobs[p][r] \in Calls \cup {None}
      /\ \A c \in Calls : /\ seen[c].owner \in Processes \cup {None}
                          /\ seen[c].job \in Calls \cup {None}
  OBVIOUS
<1>1. ASSUME NEW c \in Calls, beginStart(c) PROVE TypeOK'
  BY ZenonT(60), <1>1 DEF beginStart, refuse, Here, Step
<1>2. ASSUME NEW c \in Calls, startRefused(c) PROVE TypeOK'
  BY <1>2 DEF startRefused, refuse, Here, Step
<1>3. ASSUME NEW c \in Calls, startAdmitted(c) \/ resumeAdmitted(c) \/ cancelAdmitted(c)
      PROVE  TypeOK'
  <2>1. ledger' \subseteq Record
    BY <1>3, AdmitFacts, RecordFacts
  <2>2. call' \in [Calls -> {"new", "valid", "assessed", "targeted", "admitted", "done"}]
    <3>1. call' \in {[call EXCEPT ![c] = "admitted"], [call EXCEPT ![c] = "done"]}
      BY <1>3, AdmitFacts
    <3>2. call \in [Calls -> {"new", "valid", "assessed", "targeted", "admitted", "done"}]
      OBVIOUS
    <3> QED BY SMTT(30), <3>1, <3>2
  <2>3. ledgerLock' \in Calls \cup {None}
    BY SMTT(30), <1>3, AdmitFacts
  <2>4. UNCHANGED <<expired, overtaken, artifacts, seen, workers, runtime, effective>>
    BY <1>3, AdmitFacts
  <2> QED BY <2>1, <2>2, <2>3, <2>4
<1>4. ASSUME NEW c \in Calls, startJob(c) PROVE TypeOK'
  BY <1>4 DEF startJob, Here, Step
<1>5. ASSUME NEW c \in Calls, PrepareResume(c) PROVE TypeOK'
  BY ZenonT(60), <1>5 DEF PrepareResume, refuse, Here, Step
<1>6. ASSUME NEW c \in Calls, resumeRefused(c) PROVE TypeOK'
  BY <1>6 DEF resumeRefused, refuse, Here, Step
<1>7. ASSUME NEW c \in Calls, controlCancelTarget(c) PROVE TypeOK'
  <2>1. /\ disk[Target[c]].lock \in Processes \cup {None}
        /\ jobs[Home[c]][Target[c]] \in Calls \cup {None}
    BY <1>r, <1>d, <1>j
  <2>0. [owner |-> disk[Target[c]].lock, job |-> jobs[Home[c]][Target[c]]]
           \in [owner : Processes \cup {None}, job : Calls \cup {None}]
    BY <2>1
  <2>2. seen' \in [Calls -> [owner : Processes \cup {None}, job : Calls \cup {None}]]
    BY ZenonT(60), <1>7, <2>0 DEF controlCancelTarget, refuse
  <2>3. call' \in [Calls -> {"new", "valid", "assessed", "targeted", "admitted", "done"}]
    BY ZenonT(60), <1>7 DEF controlCancelTarget, refuse, Step
  <2> QED BY <1>7, <2>2, <2>3 DEF controlCancelTarget, refuse
<1>8. ASSUME NEW c \in Calls, cancelRefused(c) PROVE TypeOK'
  BY <1>8 DEF cancelRefused, refuse, Here, Step
<1>9. ASSUME NEW c \in Calls, cancelRun(c) PROVE TypeOK'
  <2>1. active' \in [run : Runs, status : {"running", "failed", "cancelled"}] \cup {None}
    BY <1>9 DEF cancelRun
  <2>2. cancelled' \subseteq Calls /\ effective' \subseteq Calls
    BY <1>9, <1>j DEF cancelRun
  <2>3. /\ call' \in [Calls -> {"new", "valid", "assessed", "targeted", "admitted", "done"}]
        /\ UNCHANGED <<approvals, seen, job, jobs, runtime>>
    BY <1>9 DEF cancelRun, Step
  <2> QED BY <1>9, DiskFacts, <2>1, <2>2, <2>3
<1>10. ASSUME NEW c \in Calls, cliResume(c) PROVE TypeOK'
  BY <1>10 DEF cliResume, Here, Step
<1>11. ASSUME NEW c \in Calls, persistStartFailure(c) \/ createRunDir(c) \/ releaseRunLock(c)
      PROVE  TypeOK'
  BY ZenonT(30), <1>11, DiskFacts DEF persistStartFailure, createRunDir, releaseRunLock, JobStep
<1>12. ASSUME NEW c \in Calls, activateRun(c) PROVE TypeOK'
  <2>1. active' \in [run : Runs, status : {"running", "failed", "cancelled"}] \cup {None}
    BY <1>12, <1>r DEF activateRun
  <2> QED BY <1>12, <2>1, DiskFacts DEF activateRun, JobStep
<1>13. ASSUME NEW c \in Calls, persistResumeFailure(c) PROVE TypeOK'
  BY <1>13, DiskFacts DEF persistResumeFailure, JobStep
<1>14. ASSUME NEW c \in Calls,
               (\E status \in {"passed", "failed", "cancelled"} : finishRun(c, status))
      PROVE  TypeOK'
  <2>1. disk' \in [Runs -> RunArtifacts]
    BY <1>14, DiskFacts
  <2> QED BY <1>14, <2>1 DEF finishRun, JobStep
<1>15. ASSUME NEW c \in Calls, deactivateRun(c) PROVE TypeOK'
  <2>1. \A x \in {"failed"} : active # None => [active EXCEPT !.status = x]
                                \in [run : Runs, status : {"running", "failed", "cancelled"}]
    OBVIOUS
  <2>2. active' \in [run : Runs, status : {"running", "failed", "cancelled"}] \cup {None}
    BY <1>15, <2>1 DEF deactivateRun
  <2>3. job' \in [Calls -> {"none", "done", "dead"} \cup Live]
    BY <1>15 DEF deactivateRun, JobStep
  <2> QED BY <1>15, <2>2, <2>3 DEF deactivateRun, JobStep
<1>16. ASSUME NEW c \in Calls, unregisterJob(c) PROVE TypeOK'
  BY <1>16 DEF unregisterJob, At
<1>17. ASSUME NEW c \in Calls, expire(Nonce[c]) PROVE TypeOK'
  BY <1>17 DEF expire
<1>18. ASSUME NEW p \in Servers, watchControlCancellation(p) PROVE TypeOK'
  <2>1. \A r \in Runs : jobs[p][r] \in Calls \cup {None}
    BY DEF Servers
  <2> QED BY <1>18, <2>1 DEF watchControlCancellation
<1>19. ASSUME NEW p \in Servers, Close(p) PROVE TypeOK'
  <2>1. \A r \in Runs : jobs[p][r] \in Calls \cup {None}
    BY DEF Servers
  <2>2. cancelled' \subseteq Calls
    BY <1>19, <2>1 DEF Close
  <2>3. jobs' \in [Processes -> [Runs -> Calls \cup {None}]]
    BY <1>19 DEF Close
  <2>4. runtime' \in [Processes -> {"open", "closing", "closed", "dead"}]
    BY <1>19 DEF Close
  <2> QED BY <1>19, <2>2, <2>3, <2>4 DEF Close
<1>20. ASSUME NEW p \in Servers, waitForWorkers(p) PROVE TypeOK'
  BY <1>20 DEF waitForWorkers
<1>21. ASSUME NEW p \in Processes, crash(p) PROVE TypeOK'
  BY <1>21 DEF crash
<1>22. CASE UNCHANGED vars
  BY <1>22 DEF vars
<1> QED
  BY SMTT(60), <1>1, <1>2, <1>3, <1>4, <1>5, <1>6, <1>7, <1>8, <1>9, <1>10, <1>11, <1>12, <1>13, <1>14,
     <1>15, <1>16, <1>17, <1>18, <1>19, <1>20, <1>21, <1>22
  DEF Next, Handle, Run

-----------------------------------------------------------------------------
(* Steps *)

\* Only a handler that was admitted ends with an effect, and only such a call has a job.
LEMMA SpentStep == TypeOK /\ SpentInv /\ [Next]_vars => SpentInv'
<1> SUFFICES ASSUME TypeOK, SpentInv, [Next]_vars PROVE SpentInv'
  OBVIOUS
<1> USE DEF TypeOK, SpentInv, Spent, approvals, artifacts, workers, Live
<1>1. ASSUME NEW c \in Calls, beginStart(c) PROVE SpentInv'
  BY <1>1 DEF beginStart, refuse, Here, Step
<1>2. ASSUME NEW c \in Calls, startRefused(c) \/ resumeRefused(c) \/ cancelRefused(c)
      PROVE  SpentInv'
  BY <1>2 DEF startRefused, refuse, Here, Step, resumeRefused, cancelRefused
<1>3. ASSUME NEW c \in Calls, startAdmitted(c) \/ resumeAdmitted(c) \/ cancelAdmitted(c)
      PROVE  SpentInv'
  BY <1>3, AdmitFacts
<1>4. ASSUME NEW c \in Calls, startJob(c) PROVE SpentInv'
  BY <1>4 DEF startJob, Here, Step
<1>5. ASSUME NEW c \in Calls, PrepareResume(c) PROVE SpentInv'
  BY <1>5 DEF PrepareResume, refuse, Here, Step
<1>6. ASSUME NEW c \in Calls, controlCancelTarget(c) PROVE SpentInv'
  BY <1>6 DEF controlCancelTarget, refuse, Here, Step
<1>7. ASSUME NEW c \in Calls, cancelRun(c) PROVE SpentInv'
  BY <1>7 DEF cancelRun, Here, Step
<1>8. ASSUME NEW c \in Calls, cliResume(c) PROVE SpentInv'
  BY <1>8 DEF cliResume, Here, Step
<1>9. ASSUME NEW c \in Calls, persistStartFailure(c) PROVE SpentInv'
  BY <1>9 DEF persistStartFailure, At, JobStep
<1>10. ASSUME NEW c \in Calls, createRunDir(c) PROVE SpentInv'
  BY <1>10 DEF createRunDir, At, JobStep
<1>11. ASSUME NEW c \in Calls, activateRun(c) PROVE SpentInv'
  BY <1>11 DEF activateRun, At, JobStep
<1>12. ASSUME NEW c \in Calls, persistResumeFailure(c) PROVE SpentInv'
  BY <1>12 DEF persistResumeFailure, At, JobStep
<1>13. ASSUME NEW c \in Calls,
               (\E status \in {"passed", "failed", "cancelled"} : finishRun(c, status))
      PROVE  SpentInv'
  BY <1>13 DEF finishRun, At, JobStep
<1>14. ASSUME NEW c \in Calls, releaseRunLock(c) PROVE SpentInv'
  BY <1>14 DEF releaseRunLock, At, JobStep
<1>15. ASSUME NEW c \in Calls, deactivateRun(c) PROVE SpentInv'
  BY <1>15 DEF deactivateRun, At, JobStep
<1>16. ASSUME NEW c \in Calls, unregisterJob(c) PROVE SpentInv'
  BY <1>16 DEF unregisterJob, At
<1>17. ASSUME NEW c \in Calls, expire(Nonce[c]) PROVE SpentInv'
  BY <1>17 DEF expire
<1>18. ASSUME NEW p \in Servers, watchControlCancellation(p) PROVE SpentInv'
  BY <1>18 DEF watchControlCancellation
<1>19. ASSUME NEW p \in Servers, Close(p) PROVE SpentInv'
  BY <1>19 DEF Close
<1>20. ASSUME NEW p \in Servers, waitForWorkers(p) PROVE SpentInv'
  BY <1>20 DEF waitForWorkers
<1>21. ASSUME NEW p \in Processes, crash(p) PROVE SpentInv'
  BY <1>21 DEF crash, Owned
<1>22. CASE UNCHANGED vars
  BY <1>22 DEF vars
<1> QED
  BY <1>1, <1>2, <1>3, <1>4, <1>5, <1>6, <1>7, <1>8, <1>9, <1>10, <1>11, <1>12, <1>13, <1>14,
     <1>15, <1>16, <1>17, <1>18, <1>19, <1>20, <1>21, <1>22
  DEF Next, Handle, Run

\* The record is written before the effect, and the ledger forgets expired starts only.
LEMMA LedgerStep == TypeOK /\ SpentInv /\ LedgerInv /\ [Next]_vars => LedgerInv'
<1> SUFFICES ASSUME TypeOK, SpentInv, LedgerInv, [Next]_vars PROVE LedgerInv'
  OBVIOUS
<1> USE DEF TypeOK, LedgerInv, Spent, approvals, artifacts, workers
<1>1. ASSUME NEW c \in Calls, beginStart(c) PROVE LedgerInv'
  BY <1>1 DEF beginStart, refuse, Here, Step
<1>2. ASSUME NEW c \in Calls, startRefused(c) \/ resumeRefused(c) \/ cancelRefused(c)
      PROVE  LedgerInv'
  BY <1>2 DEF startRefused, refuse, Here, Step, resumeRefused, cancelRefused
<1>3. ASSUME NEW c \in Calls, startAdmitted(c) \/ resumeAdmitted(c) \/ cancelAdmitted(c)
      PROVE  LedgerInv'
  BY <1>3, AdmitFacts, RecordFacts
<1>4. ASSUME NEW c \in Calls, startJob(c) PROVE LedgerInv'
  BY <1>4 DEF startJob, Here, Step
<1>5. ASSUME NEW c \in Calls, PrepareResume(c) PROVE LedgerInv'
  BY <1>5 DEF PrepareResume, refuse, Here, Step
<1>6. ASSUME NEW c \in Calls, controlCancelTarget(c) PROVE LedgerInv'
  BY <1>6 DEF controlCancelTarget, refuse, Here, Step
<1>7. ASSUME NEW c \in Calls, cancelRun(c) PROVE LedgerInv'
  BY <1>7 DEF cancelRun, Here, Step
<1>8. ASSUME NEW c \in Calls, cliResume(c) PROVE LedgerInv'
  BY <1>8 DEF cliResume, Here, Step
<1>9. ASSUME NEW c \in Calls, persistStartFailure(c) PROVE LedgerInv'
  BY <1>9 DEF persistStartFailure, At, JobStep
<1>10. ASSUME NEW c \in Calls, createRunDir(c) PROVE LedgerInv'
  BY <1>10 DEF createRunDir, At, JobStep
<1>11. ASSUME NEW c \in Calls, activateRun(c) PROVE LedgerInv'
  BY <1>11 DEF activateRun, At, JobStep
<1>12. ASSUME NEW c \in Calls, persistResumeFailure(c) PROVE LedgerInv'
  BY <1>12 DEF persistResumeFailure, At, JobStep
<1>13. ASSUME NEW c \in Calls,
               (\E status \in {"passed", "failed", "cancelled"} : finishRun(c, status))
      PROVE  LedgerInv'
  BY <1>13 DEF finishRun, At, JobStep
<1>14. ASSUME NEW c \in Calls, releaseRunLock(c) PROVE LedgerInv'
  BY <1>14 DEF releaseRunLock, At, JobStep
<1>15. ASSUME NEW c \in Calls, deactivateRun(c) PROVE LedgerInv'
  BY <1>15 DEF deactivateRun, At, JobStep
<1>16. ASSUME NEW c \in Calls, unregisterJob(c) PROVE LedgerInv'
  BY <1>16 DEF unregisterJob, At
<1>17. ASSUME NEW c \in Calls, expire(Nonce[c]) PROVE LedgerInv'
  BY <1>17 DEF expire
<1>18. ASSUME NEW p \in Servers, watchControlCancellation(p) PROVE LedgerInv'
  BY <1>18 DEF watchControlCancellation
<1>19. ASSUME NEW p \in Servers, Close(p) PROVE LedgerInv'
  BY <1>19 DEF Close
<1>20. ASSUME NEW p \in Servers, waitForWorkers(p) PROVE LedgerInv'
  BY <1>20 DEF waitForWorkers
<1>21. ASSUME NEW p \in Processes, crash(p) PROVE LedgerInv'
  BY <1>21 DEF crash
<1>22. CASE UNCHANGED vars
  BY <1>22 DEF vars
<1> QED
  BY <1>1, <1>2, <1>3, <1>4, <1>5, <1>6, <1>7, <1>8, <1>9, <1>10, <1>11, <1>12, <1>13, <1>14,
     <1>15, <1>16, <1>17, <1>18, <1>19, <1>20, <1>21, <1>22
  DEF Next, Handle, Run

\* What the ledger forgets is presented again only by who held it as it expired.
LEMMA ApprovalStep == TypeOK /\ SpentInv /\ LedgerInv /\ ApprovalInv /\ [Next]_vars => ApprovalInv'
<1> SUFFICES ASSUME TypeOK, SpentInv, LedgerInv, ApprovalInv, [Next]_vars PROVE ApprovalInv'
  OBVIOUS
<1> USE DEF TypeOK, ApprovalInv, Spent, InHand, approvals, artifacts, workers
<1>1. ASSUME NEW c \in Calls, beginStart(c) PROVE ApprovalInv'
  BY SMTT(30), <1>1 DEF beginStart, refuse, Here, Step, validateControlApproval
<1>2. ASSUME NEW c \in Calls, startRefused(c) \/ resumeRefused(c) \/ cancelRefused(c)
      PROVE  ApprovalInv'
  BY <1>2 DEF startRefused, refuse, Here, Step, resumeRefused, cancelRefused
<1>3. ASSUME NEW c \in Calls, startAdmitted(c) \/ resumeAdmitted(c) \/ cancelAdmitted(c)
      PROVE  ApprovalInv'
  <2>1. ASSUME NEW d \in Spent, Nonce[d] = Nonce[c] PROVE Op[d] = "start" /\ c \in overtaken
    <3>1. d \in Calls /\ RecordOf(d).nonce = Nonce[c] /\ RecordOf(d).op = Op[d]
      BY <2>1, RecordFacts
    <3>2. Op[d] = "start" /\ Nonce[d] \in expired
      BY <1>3, <2>1, <3>1, AdmitFacts DEF LedgerInv
    <3>3. InHand(c)
      BY <1>3, AdmitFacts
    <3> QED BY <2>1, <3>2, <3>3
  <2>2. Spent' \subseteq Spent \cup {c}
    BY <1>3, AdmitFacts
  <2>3. /\ \A d \in Calls : InHand(d)' => InHand(d)
        /\ UNCHANGED <<expired, overtaken>>
    BY <1>3, AdmitFacts
  <2> QED BY <2>1, <2>2, <2>3
<1>4. ASSUME NEW c \in Calls, startJob(c) PROVE ApprovalInv'
  BY <1>4 DEF startJob, Here, Step
<1>5. ASSUME NEW c \in Calls, PrepareResume(c) PROVE ApprovalInv'
  BY <1>5 DEF PrepareResume, refuse, Here, Step, validateControlResumeApproval
<1>6. ASSUME NEW c \in Calls, controlCancelTarget(c) PROVE ApprovalInv'
  BY <1>6 DEF controlCancelTarget, refuse, Here, Step, validateControlCancelApproval
<1>7. ASSUME NEW c \in Calls, cancelRun(c) PROVE ApprovalInv'
  BY <1>7 DEF cancelRun, Here, Step
<1>8. ASSUME NEW c \in Calls, cliResume(c) PROVE ApprovalInv'
  BY <1>8 DEF cliResume, Here, Step
<1>9. ASSUME NEW c \in Calls, persistStartFailure(c) PROVE ApprovalInv'
  BY <1>9 DEF persistStartFailure, At, JobStep
<1>10. ASSUME NEW c \in Calls, createRunDir(c) PROVE ApprovalInv'
  BY <1>10 DEF createRunDir, At, JobStep
<1>11. ASSUME NEW c \in Calls, activateRun(c) PROVE ApprovalInv'
  BY <1>11 DEF activateRun, At, JobStep
<1>12. ASSUME NEW c \in Calls, persistResumeFailure(c) PROVE ApprovalInv'
  BY <1>12 DEF persistResumeFailure, At, JobStep
<1>13. ASSUME NEW c \in Calls,
               (\E status \in {"passed", "failed", "cancelled"} : finishRun(c, status))
      PROVE  ApprovalInv'
  BY <1>13 DEF finishRun, At, JobStep
<1>14. ASSUME NEW c \in Calls, releaseRunLock(c) PROVE ApprovalInv'
  BY <1>14 DEF releaseRunLock, At, JobStep
<1>15. ASSUME NEW c \in Calls, deactivateRun(c) PROVE ApprovalInv'
  BY <1>15 DEF deactivateRun, At, JobStep
<1>16. ASSUME NEW c \in Calls, unregisterJob(c) PROVE ApprovalInv'
  BY <1>16 DEF unregisterJob, At
<1>17. ASSUME NEW c \in Calls, expire(Nonce[c]) PROVE ApprovalInv'
  BY <1>17 DEF expire
<1>18. ASSUME NEW p \in Servers, watchControlCancellation(p) PROVE ApprovalInv'
  BY <1>18 DEF watchControlCancellation
<1>19. ASSUME NEW p \in Servers, Close(p) PROVE ApprovalInv'
  BY <1>19 DEF Close
<1>20. ASSUME NEW p \in Servers, waitForWorkers(p) PROVE ApprovalInv'
  BY <1>20 DEF waitForWorkers
<1>21. ASSUME NEW p \in Processes, crash(p) PROVE ApprovalInv'
  BY <1>21 DEF crash
<1>22. CASE UNCHANGED vars
  BY <1>22 DEF vars
<1> QED
  BY <1>1, <1>2, <1>3, <1>4, <1>5, <1>6, <1>7, <1>8, <1>9, <1>10, <1>11, <1>12, <1>13, <1>14,
     <1>15, <1>16, <1>17, <1>18, <1>19, <1>20, <1>21, <1>22
  DEF Next, Handle, Run

\* A start is admitted when no start on record is active.
LEMMA StartsStep ==
    TypeOK /\ SpentInv /\ LedgerInv /\ StartsInv /\ [Next]_vars => StartsInv'
<1> SUFFICES ASSUME TypeOK, SpentInv, LedgerInv, StartsInv, [Next]_vars PROVE StartsInv'
  OBVIOUS
<1> USE DEF TypeOK, StartsInv, Spent, approvals, artifacts, workers
<1>1. ASSUME NEW c \in Calls, beginStart(c) PROVE StartsInv'
  BY <1>1 DEF beginStart, refuse, Here, Step
<1>2. ASSUME NEW c \in Calls, startRefused(c) \/ resumeRefused(c) \/ cancelRefused(c)
      PROVE  StartsInv'
  BY <1>2 DEF startRefused, refuse, Here, Step, resumeRefused, cancelRefused
<1>3. ASSUME NEW c \in Calls, startAdmitted(c) \/ resumeAdmitted(c) \/ cancelAdmitted(c)
      PROVE  StartsInv'
  <2>1. \A d \in Runs \cap Spent :
           disk[d].final = "none" /\ Op[c] = "start" => Nonce[d] \in expired
    <3> SUFFICES ASSUME NEW d \in Runs \cap Spent, disk[d].final = "none", Op[c] = "start"
                 PROVE  Nonce[d] \in expired
      OBVIOUS
    <3>1. RecordOf(d).op = "start" /\ RecordOf(d).nonce = Nonce[d] /\ RecordOf(d).run = d
      BY RecordFacts DEF Runs
    <3> QED BY <1>3, <3>1, AdmitFacts DEF LedgerInv
  <2>2. Runs \cap Spent' \subseteq (Runs \cap Spent) \cup {c}
    BY <1>3, AdmitFacts
  <2>3. Op[c] # "start" => c \notin Runs
    BY DEF Runs
  <2>4. disk' = disk /\ expired' = expired
    BY <1>3, AdmitFacts
  <2> QED BY <2>1, <2>2, <2>3, <2>4
<1>4. ASSUME NEW c \in Calls, startJob(c) PROVE StartsInv'
  BY <1>4 DEF startJob, Here, Step
<1>5. ASSUME NEW c \in Calls, PrepareResume(c) PROVE StartsInv'
  BY <1>5 DEF PrepareResume, refuse, Here, Step
<1>6. ASSUME NEW c \in Calls, controlCancelTarget(c) PROVE StartsInv'
  BY <1>6 DEF controlCancelTarget, refuse, Here, Step
<1>7. ASSUME NEW c \in Calls, cancelRun(c) PROVE StartsInv'
  BY <1>7 DEF cancelRun, Here, Step
<1>8. ASSUME NEW c \in Calls, cliResume(c) PROVE StartsInv'
  BY <1>8 DEF cliResume, Here, Step
<1>9. ASSUME NEW c \in Calls, persistStartFailure(c) PROVE StartsInv'
  BY <1>9 DEF persistStartFailure, At, JobStep
<1>10. ASSUME NEW c \in Calls, createRunDir(c) PROVE StartsInv'
  BY <1>10 DEF createRunDir, At, JobStep
<1>11. ASSUME NEW c \in Calls, activateRun(c) PROVE StartsInv'
  BY <1>11 DEF activateRun, At, JobStep
<1>12. ASSUME NEW c \in Calls, persistResumeFailure(c) PROVE StartsInv'
  BY <1>12 DEF persistResumeFailure, At, JobStep
<1>13. ASSUME NEW c \in Calls,
               (\E status \in {"passed", "failed", "cancelled"} : finishRun(c, status))
      PROVE  StartsInv'
  BY SMTT(30), <1>13 DEF finishRun, At, JobStep
<1>14. ASSUME NEW c \in Calls, releaseRunLock(c) PROVE StartsInv'
  BY <1>14 DEF releaseRunLock, At, JobStep
<1>15. ASSUME NEW c \in Calls, deactivateRun(c) PROVE StartsInv'
  BY <1>15 DEF deactivateRun, At, JobStep
<1>16. ASSUME NEW c \in Calls, unregisterJob(c) PROVE StartsInv'
  BY <1>16 DEF unregisterJob, At
<1>17. ASSUME NEW c \in Calls, expire(Nonce[c]) PROVE StartsInv'
  BY <1>17 DEF expire
<1>18. ASSUME NEW p \in Servers, watchControlCancellation(p) PROVE StartsInv'
  BY <1>18 DEF watchControlCancellation
<1>19. ASSUME NEW p \in Servers, Close(p) PROVE StartsInv'
  BY <1>19 DEF Close
<1>20. ASSUME NEW p \in Servers, waitForWorkers(p) PROVE StartsInv'
  BY <1>20 DEF waitForWorkers
<1>21. ASSUME NEW p \in Processes, crash(p) PROVE StartsInv'
  BY <1>21 DEF crash
<1>22. CASE UNCHANGED vars
  BY <1>22 DEF vars
<1> QED
  BY <1>1, <1>2, <1>3, <1>4, <1>5, <1>6, <1>7, <1>8, <1>9, <1>10, <1>11, <1>12, <1>13, <1>14,
     <1>15, <1>16, <1>17, <1>18, <1>19, <1>20, <1>21, <1>22
  DEF Next, Handle, Run

\* lifecycleMu: nothing is launched on behalf of a runtime that closes.
LEMMA CloseStep == TypeOK /\ SpentInv /\ CloseInv /\ [Next]_vars => CloseInv'
<1> SUFFICES ASSUME TypeOK, SpentInv, CloseInv, [Next]_vars PROVE CloseInv'
  OBVIOUS
<1> USE DEF TypeOK, CloseInv, CloseDrains, Owned, Serving, Live, approvals, artifacts, workers
<1>h. \A c \in Calls : Home[c] \in Processes
  BY HomeAssumption
<1>1. ASSUME NEW c \in Calls, beginStart(c) PROVE CloseInv'
  BY <1>1 DEF beginStart, refuse, Here, Step
<1>2. ASSUME NEW c \in Calls, startRefused(c) \/ resumeRefused(c) \/ cancelRefused(c)
      PROVE  CloseInv'
  BY <1>2 DEF startRefused, refuse, Here, Step, resumeRefused, cancelRefused
<1>3. ASSUME NEW c \in Calls, startAdmitted(c) PROVE CloseInv'
  BY <1>3 DEF startAdmitted, ledgerWriteFails, Here, Step
<1>4. ASSUME NEW c \in Calls, startJob(c) PROVE CloseInv'
  BY <1>4, <1>h DEF startJob, Here, Step
<1>5. ASSUME NEW c \in Calls, PrepareResume(c) PROVE CloseInv'
  BY <1>5 DEF PrepareResume, refuse, Here, Step
<1>6. ASSUME NEW c \in Calls, resumeAdmitted(c) PROVE CloseInv'
  BY <1>6 DEF resumeAdmitted, ledgerWriteFails, Here, Step
<1>7. ASSUME NEW c \in Calls, controlCancelTarget(c) PROVE CloseInv'
  BY <1>7 DEF controlCancelTarget, refuse, Here, Step
<1>8. ASSUME NEW c \in Calls, cancelAdmitted(c) PROVE CloseInv'
  BY <1>8 DEF cancelAdmitted, ledgerWriteFails, Here, Step
<1>9. ASSUME NEW c \in Calls, cancelRun(c) PROVE CloseInv'
  BY <1>9 DEF cancelRun, Here, Step
<1>10. ASSUME NEW c \in Calls, cliResume(c) PROVE CloseInv'
  BY <1>10, HomeAssumption, <1>h DEF cliResume, Here, Step
<1>11. ASSUME NEW c \in Calls, persistStartFailure(c) PROVE CloseInv'
  BY <1>11 DEF persistStartFailure, At, JobStep
<1>12. ASSUME NEW c \in Calls, createRunDir(c) PROVE CloseInv'
  BY <1>12 DEF createRunDir, At, JobStep
<1>13. ASSUME NEW c \in Calls, activateRun(c) PROVE CloseInv'
  BY <1>13, <1>h DEF activateRun, At, JobStep
<1>14. ASSUME NEW c \in Calls, persistResumeFailure(c) PROVE CloseInv'
  BY <1>14 DEF persistResumeFailure, At, JobStep
<1>15. ASSUME NEW c \in Calls,
               (\E status \in {"passed", "failed", "cancelled"} : finishRun(c, status))
      PROVE  CloseInv'
  BY <1>15 DEF finishRun, At, JobStep
<1>16. ASSUME NEW c \in Calls, releaseRunLock(c) PROVE CloseInv'
  BY <1>16 DEF releaseRunLock, At, JobStep
<1>17. ASSUME NEW c \in Calls, deactivateRun(c) PROVE CloseInv'
  BY <1>17 DEF deactivateRun, At, JobStep
<1>18. ASSUME NEW c \in Calls, unregisterJob(c) PROVE CloseInv'
  BY <1>18 DEF unregisterJob, At
<1>19. ASSUME NEW c \in Calls, expire(Nonce[c]) PROVE CloseInv'
  BY <1>19 DEF expire
<1>20. ASSUME NEW p \in Servers, watchControlCancellation(p) PROVE CloseInv'
  BY <1>20 DEF watchControlCancellation
<1>21. ASSUME NEW p \in Servers, Close(p) PROVE CloseInv'
  BY <1>21 DEF Close
<1>22. ASSUME NEW p \in Servers, waitForWorkers(p) PROVE CloseInv'
  BY <1>22 DEF waitForWorkers
<1>23. ASSUME NEW p \in Processes, crash(p) PROVE CloseInv'
  BY <1>23 DEF crash
<1>24. CASE UNCHANGED vars
  BY <1>24 DEF vars
<1> QED
  BY <1>1, <1>2, <1>3, <1>4, <1>5, <1>6, <1>7, <1>8, <1>9, <1>10, <1>11, <1>12, <1>13, <1>14,
     <1>15, <1>16, <1>17, <1>18, <1>19, <1>20, <1>21, <1>22, <1>23, <1>24
  DEF Next, Handle, Run

\* The pointer is written by the run that becomes active and by its job after that.
LEMMA FreedStep == TypeOK /\ SpentInv /\ WorktreeIsFreed /\ [Next]_vars => WorktreeIsFreed'
<1> SUFFICES ASSUME TypeOK, SpentInv, WorktreeIsFreed, [Next]_vars PROVE WorktreeIsFreed'
  OBVIOUS
<1> USE DEF TypeOK, SpentInv, WorktreeIsFreed, approvals, artifacts, workers
<1>1. ASSUME NEW c \in Calls, beginStart(c) PROVE WorktreeIsFreed'
  BY <1>1 DEF beginStart, refuse, Here, Step
<1>2. ASSUME NEW c \in Calls, startRefused(c) \/ resumeRefused(c) \/ cancelRefused(c)
      PROVE  WorktreeIsFreed'
  BY <1>2 DEF startRefused, refuse, Here, Step, resumeRefused, cancelRefused
<1>3. ASSUME NEW c \in Calls, startAdmitted(c) PROVE WorktreeIsFreed'
  BY <1>3 DEF startAdmitted, ledgerWriteFails, Here, Step
<1>4. ASSUME NEW c \in Calls, startJob(c) PROVE WorktreeIsFreed'
  BY <1>4 DEF startJob, Here, Step
<1>5. ASSUME NEW c \in Calls, PrepareResume(c) PROVE WorktreeIsFreed'
  BY <1>5 DEF PrepareResume, refuse, Here, Step
<1>6. ASSUME NEW c \in Calls, resumeAdmitted(c) PROVE WorktreeIsFreed'
  BY <1>6 DEF resumeAdmitted, ledgerWriteFails, Here, Step
<1>7. ASSUME NEW c \in Calls, controlCancelTarget(c) PROVE WorktreeIsFreed'
  BY <1>7 DEF controlCancelTarget, refuse, Here, Step
<1>8. ASSUME NEW c \in Calls, cancelAdmitted(c) PROVE WorktreeIsFreed'
  BY <1>8 DEF cancelAdmitted, ledgerWriteFails, Here, Step
<1>9. ASSUME NEW c \in Calls, cancelRun(c) PROVE WorktreeIsFreed'
  BY <1>9 DEF cancelRun, Here, Step
<1>10. ASSUME NEW c \in Calls, cliResume(c) PROVE WorktreeIsFreed'
  BY <1>10 DEF cliResume, Here, Step
<1>11. ASSUME NEW c \in Calls, persistStartFailure(c) PROVE WorktreeIsFreed'
  BY <1>11 DEF persistStartFailure, At, JobStep
<1>12. ASSUME NEW c \in Calls, createRunDir(c) PROVE WorktreeIsFreed'
  BY <1>12 DEF createRunDir, At, JobStep
<1>13. ASSUME NEW c \in Calls, activateRun(c) PROVE WorktreeIsFreed'
  BY <1>13 DEF activateRun, At, JobStep
<1>14. ASSUME NEW c \in Calls, persistResumeFailure(c) PROVE WorktreeIsFreed'
  BY <1>14 DEF persistResumeFailure, At, JobStep
<1>15. ASSUME NEW c \in Calls,
               (\E status \in {"passed", "failed", "cancelled"} : finishRun(c, status))
      PROVE  WorktreeIsFreed'
  BY <1>15 DEF finishRun, At, JobStep
<1>16. ASSUME NEW c \in Calls, releaseRunLock(c) PROVE WorktreeIsFreed'
  BY <1>16 DEF releaseRunLock, At, JobStep
<1>17. ASSUME NEW c \in Calls, deactivateRun(c) PROVE WorktreeIsFreed'
  BY <1>17 DEF deactivateRun, At, JobStep
<1>18. ASSUME NEW c \in Calls, unregisterJob(c) PROVE WorktreeIsFreed'
  BY <1>18 DEF unregisterJob, At
<1>19. ASSUME NEW c \in Calls, expire(Nonce[c]) PROVE WorktreeIsFreed'
  BY <1>19 DEF expire
<1>20. ASSUME NEW p \in Servers, watchControlCancellation(p) PROVE WorktreeIsFreed'
  BY <1>20 DEF watchControlCancellation
<1>21. ASSUME NEW p \in Servers, Close(p) PROVE WorktreeIsFreed'
  BY <1>21 DEF Close
<1>22. ASSUME NEW p \in Servers, waitForWorkers(p) PROVE WorktreeIsFreed'
  BY <1>22 DEF waitForWorkers
<1>23. ASSUME NEW p \in Processes, crash(p) PROVE WorktreeIsFreed'
  BY <1>23 DEF crash
<1>24. CASE UNCHANGED vars
  BY <1>24 DEF vars
<1> QED
  BY <1>1, <1>2, <1>3, <1>4, <1>5, <1>6, <1>7, <1>8, <1>9, <1>10, <1>11, <1>12, <1>13, <1>14,
     <1>15, <1>16, <1>17, <1>18, <1>19, <1>20, <1>21, <1>22, <1>23, <1>24
  DEF Next, Handle, Run

-----------------------------------------------------------------------------
(* Theorems *)

LEMMA Initially ==
    Init => /\ TypeOK /\ SpentInv /\ LedgerInv /\ ApprovalInv /\ StartsInv /\ CloseInv
            /\ WorktreeIsFreed
<1> SUFFICES ASSUME Init
             PROVE  /\ TypeOK /\ SpentInv /\ LedgerInv /\ ApprovalInv /\ StartsInv /\ CloseInv
                    /\ WorktreeIsFreed
  OBVIOUS
<1>1. TypeOK
  BY DEF Init, TypeOK, RunArtifacts
<1>2. SpentInv
  BY DEF Init, SpentInv, Spent
<1>3. effective = {} /\ Spent = {}
  BY DEF Init, Spent
<1>4. LedgerInv /\ ApprovalInv /\ StartsInv
  BY <1>3 DEF Init, LedgerInv, ApprovalInv, StartsInv, InHand
<1>5. CloseInv
  BY DEF Init, CloseInv, CloseDrains
<1>6. WorktreeIsFreed
  BY DEF Init, WorktreeIsFreed
<1> QED BY <1>1, <1>2, <1>4, <1>5, <1>6

\* Every variable keeps its type.
THEOREM TypeCorrect == Spec => []TypeOK
  BY Initially, TypeStep, PTL DEF Spec

\* What every behaviour keeps, also one in which approvals expire while they are served.
LEMMA Admission == Spec => [](TypeOK /\ SpentInv /\ LedgerInv /\ ApprovalInv /\ StartsInv)
<1>1. TypeOK /\ SpentInv /\ LedgerInv /\ ApprovalInv /\ StartsInv /\ [Next]_vars
      => (TypeOK /\ SpentInv /\ LedgerInv /\ ApprovalInv /\ StartsInv)'
  BY TypeStep, SpentStep, LedgerStep, ApprovalStep, StartsStep
<1> QED BY <1>1, Initially, PTL DEF Spec

\* Approvals are single-use until they expire, in every number of processes and
\* calls; after that only a call that held one as it expired can use it again, next
\* to a start (controlLedgerHasNonce, pruneControlStartRecords).
THEOREM SingleUseHolds == Spec => []SingleUseUntilExpiry
<1>1. ApprovalInv => SingleUseUntilExpiry
  BY DEF ApprovalInv, SingleUseUntilExpiry, Spent
<1> QED BY <1>1, Admission, PTL

\* Of two started runs without a result, one has outlived its approval
\* (controlStartRecordActive), also when approvals expire while they are served.
THEOREM StartsExcludeHolds == Spec => []StartsExclude
<1>1. SpentInv /\ StartsInv => StartsExclude
  BY DEF SpentInv, StartsInv, StartsExclude, Spent, Runs
<1> QED BY <1>1, Admission, PTL

\* Close does not return while a job of the runtime can still write
\* (control_runtime_lifecycle.go:47).
THEOREM CloseDrainsHolds == Spec => []CloseDrains
<1>1. TypeOK /\ SpentInv /\ CloseInv /\ [Next]_vars => (TypeOK /\ SpentInv /\ CloseInv)'
  BY TypeStep, SpentStep, CloseStep
<1>2. CloseInv => CloseDrains
  BY DEF CloseInv
<1> QED BY <1>1, <1>2, Initially, PTL DEF Spec

\* While the pointer says that a run goes on, a job of that run does, or died doing
\* it (deactivateRun).
THEOREM WorktreeIsFreedHolds == Spec => []WorktreeIsFreed
<1>1. TypeOK /\ SpentInv /\ WorktreeIsFreed /\ [Next]_vars
      => (TypeOK /\ SpentInv /\ WorktreeIsFreed)'
  BY TypeStep, SpentStep, FreedStep
<1> QED BY <1>1, Initially, PTL DEF Spec

=============================================================================
