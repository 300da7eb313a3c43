-------------------------- MODULE Invocation_proofs -------------------------
(***************************************************************************)
(* What an adapter call keeps for every number of writes of the agent and  *)
(* of failing operations.                                                  *)
(*                                                                         *)
(* The answer of a call is compared with the worktree after the process    *)
(* ended, and nobody but the agent writes there: so what the guard saw at  *)
(* its last look (AnswerInv) is still there when the call returns.  The    *)
(* host's files are compared and written back after that (IntegrityInv).   *)
(***************************************************************************)
EXTENDS Invocation, TLAPS

-----------------------------------------------------------------------------
(* The inductive invariant *)

\* The agent runs while the call awaits it, at no other time.
AgentInv ==
    /\ pc \in {"prepare", "slot", "dispatch"} =>
          /\ agent = "idle" /\ monitor = "off" /\ ~ guard.runs
          /\ before = tree /\ host = AsWritten
    /\ agent = "running" => pc = "awaiting"
    /\ pc \in {"awaiting", "collect"} => agent # "idle"
    /\ agent = "idle" => host = AsWritten

\* The worktree and the host's files at the last look of the guard stay as they are.
AnswerInv ==
    /\ guard.runs => call.role = "coder" /\ pc # "collect"
    /\ pc = "collect" /\ call.role = "coder" /\ guard.violation = {} =>
          guard.blind \/ outOfScopeDeltaPaths(before, tree) = {}
    /\ result.ok =>
          /\ pc \in {"unwind", "integrity", "settle", "returned"}
          /\ agent = "exited" /\ ~ guard.runs
          /\ IF call.role = "coder"
             THEN /\ result.files = worktreeContentDelta(before, tree)
                  /\ guard.blind \/ result.files \subseteq {Inside}
             ELSE result.files = {}

\* After the integrity check.
IntegrityInv ==
    pc \in {"settle", "returned"} =>
        /\ host # AsWritten => ~ result.ok /\ failures > 0
        /\ result.ok /\ call.role = "reader" => worktreeContentDelta(before, tree) = {}

\* The record of the call is in flight from the dispatch on, until it is settled.
JournalInv ==
    /\ op = "committed" => pc = "returned" /\ result.ok
    /\ op = "failed" => pc = "returned" /\ ~ result.ok
    /\ agent = "idle" => op # "in_flight"
    /\ agent # "idle" /\ pc # "returned" => op = IF call.journaled THEN "in_flight" ELSE "none"
    /\ pc = "returned" /\ agent # "idle" /\ call.journaled /\ op # "in_flight" =>
          op \in {"committed", "failed"}
    /\ op = "in_flight" => call.journaled
    /\ pc = "returned" /\ op = "in_flight" => ~ result.ok /\ failures > 0

\* A final status is published when the monitor has ended.
MonitorInv == progress \in {"completed", "failed"} => monitor = "off"

Inv == TypeOK /\ AgentInv /\ AnswerInv /\ IntegrityInv /\ JournalInv /\ MonitorInv

-----------------------------------------------------------------------------
(* Steps *)

\* The agent changes one path, commits several, or writes one of the host's files.
LEMMA AgentWritesType ==
    ASSUME TypeOK, agentWrites
    PROVE  tree' \in Snapshots /\ host' \in [Artifacts -> {"host", "agent", "absent"}]
<1> DEFINE Files == [content: Contents, staged: BOOLEAN, head: Contents]
<1>0. /\ tree \in [Paths -> Files]
      /\ host \in [Artifacts -> {"host", "agent", "absent"}]
  BY DEF TypeOK, Snapshots
<1>1. ASSUME NEW p \in Paths, NEW c \in Contents,
             tree' = [tree EXCEPT ![p].content = c, ![p].staged = FALSE]
      PROVE  tree' \in Snapshots
  <2>1. tree[p] \in Files
    BY <1>0
  <2>2. [[tree[p] EXCEPT !.content = c] EXCEPT !.staged = FALSE] \in Files
    BY <2>1
  <2>3. tree' = [tree EXCEPT ![p] = [[tree[p] EXCEPT !.content = c] EXCEPT !.staged = FALSE]]
    BY <1>0, <1>1
  <2> HIDE DEF Files
  <2>4. tree' \in [Paths -> Files]
    BY <1>0, <2>2, <2>3
  <2> QED BY <2>4 DEF Snapshots, Files
<1>2. ASSUME NEW p \in Paths, tree' = [tree EXCEPT ![p].staged = ~@]
      PROVE  tree' \in Snapshots
  <2>1. tree[p] \in Files
    BY <1>0
  <2>2. [tree[p] EXCEPT !.staged = ~@] \in Files
    BY <2>1
  <2> QED BY <1>0, <1>2, <2>2 DEF Snapshots
<1>3. ASSUME NEW ps \in SUBSET Paths,
             tree' = [p \in Paths |-> IF p \in ps THEN Committed(tree[p]) ELSE tree[p]]
      PROVE  tree' \in Snapshots
  <2>1. \A p \in Paths : tree[p] \in Files /\ Committed(tree[p]) \in Files
    BY <1>0 DEF Committed
  <2> HIDE DEF Files
  <2>2. tree' \in [Paths -> Files]
    BY <1>3, <2>1
  <2> QED BY <2>2 DEF Snapshots, Files
<1>4. ASSUME NEW a \in Artifacts, NEW by \in {"agent", "absent"}, host' = [host EXCEPT ![a] = by]
      PROVE  host' \in [Artifacts -> {"host", "agent", "absent"}]
  BY <1>0, <1>4
<1>5. tree' \in Snapshots
  <2>1. listed(tree) \subseteq Paths /\ Contents = {"base", "dirty", "edited"}
    BY DEF listed, Contents
  <2> QED BY <1>1, <1>2, <1>3, <2>1 DEF agentWrites, TypeOK
<1>6. host' \in [Artifacts -> {"host", "agent", "absent"}]
  BY <1>0, <1>4 DEF agentWrites
<1> QED BY <1>5, <1>6

\* What the guard keeps.
LEMMA GuardFacts ==
    ASSUME NEW g \in Guards
    PROVE  /\ \A b \in BOOLEAN : [g EXCEPT !.runs = b] \in Guards
           /\ [g EXCEPT !.runs = FALSE, !.blind = TRUE] \in Guards
           /\ \A out \in SUBSET Paths :
                 /\ [g EXCEPT !.pending = out] \in Guards
                 /\ [g EXCEPT !.violation = out, !.runs = FALSE] \in Guards
                 /\ [g EXCEPT !.runs = FALSE, !.violation = IF @ = {} THEN out ELSE @] \in Guards
  BY DEF Guards

\* Every step that touches the guard keeps its type, and so does the answer.
LEMMA GuardType ==
    ASSUME TypeOK, dispatch \/ processEnded \/ unwind \/ guardTick
    PROVE  guard' \in Guards
<1>1. guard \in Guards /\ outOfScopeDeltaPaths(before, tree) \in SUBSET Paths
  BY DEF TypeOK, outOfScopeDeltaPaths, worktreeDelta
<1>2. guard.pending \in SUBSET Paths
  BY SMTT(30), <1>1 DEF Guards
<1>3. CASE dispatch
  BY ZenonT(30), <1>1, <1>3, GuardFacts DEF dispatch, guarded
<1>4. CASE processEnded
  BY ZenonT(30), <1>1, <1>4, GuardFacts DEF processEnded, stopScopeGuard
<1>5. CASE unwind
  BY ZenonT(30), <1>1, <1>5, GuardFacts DEF unwind
<1>6. CASE guardTick
  <2>1. \/ guard' = [guard EXCEPT !.pending = outOfScopeDeltaPaths(before, tree)]
        \/ guard' = [guard EXCEPT !.violation = outOfScopeDeltaPaths(before, tree)
                                                  \cap guard.pending, !.runs = FALSE]
    BY <1>6 DEF guardTick
  <2> QED BY <1>1, <1>2, <2>1, GuardFacts
<1> QED BY <1>3, <1>4, <1>5, <1>6

\* A call that is refused has no files.
LEMMA RefusalType == [ok |-> FALSE, files |-> {}] \in Results
  BY DEF Results

\* Every step keeps the types.
LEMMA TypeStep == TypeOK /\ [Next]_vars => TypeOK'
<1> SUFFICES ASSUME TypeOK, [Next]_vars PROVE TypeOK'
  OBVIOUS
<1> USE Bounds DEF TypeOK, agentVars, guardVars
<1>1. CASE prepareCall
  BY <1>1 DEF prepareCall, breaks, keeps
<1>2. CASE acquireSlot
  BY <1>2 DEF acquireSlot, breaks, keeps
<1>3. CASE dispatch
  BY <1>3, GuardType DEF dispatch, guarded, breaks, keeps
<1>4. CASE processEnded
  BY <1>4, GuardType DEF processEnded, stopProgress, stopScopeGuard, guarded, breaks, keeps
<1>5. CASE collect
  <2>1. claim # NotAnAnswer => claim \in SUBSET Paths
    BY DEF Claims
  <2>2. \/ result' = result
        \/ /\ claim # NotAnAnswer
           /\ result' = [ok |-> TRUE,
                         files |-> IF guarded THEN normalizeCumulativeWorkerClaims(claim) ELSE {}]
    BY <1>5 DEF collect
  <2>3. result' \in Results
    <3>1. claim # NotAnAnswer => normalizeCumulativeWorkerClaims(claim) \in SUBSET Paths
      BY <2>1 DEF normalizeCumulativeWorkerClaims
    <3>2. \A f \in SUBSET Paths : [ok |-> TRUE, files |-> f] \in Results
      BY DEF Results
    <3> QED BY <2>2, <3>1, <3>2
  <2> QED BY <1>5, <2>3 DEF collect, breaks, keeps
<1>6. CASE unwind
  BY <1>6, GuardType DEF unwind, stopProgress
<1>7. CASE validateInvocationIntegrity
  <2>1. result' \in {result, [ok |-> FALSE, files |-> {}]}
    BY <1>7 DEF validateInvocationIntegrity
  <2>2. result' \in Results
    BY <2>1, RefusalType
  <2>3. host' \in [Artifacts -> {"host", "agent", "absent"}]
    BY <1>7 DEF validateInvocationIntegrity, verifyAndRestoreIntegrity, restoredInPart, AsWritten
  <2> QED BY <1>7, <2>2, <2>3 DEF validateInvocationIntegrity, breaks, keeps
<1>8. CASE settleOperation
  <2>1. result' \in {result, [ok |-> FALSE, files |-> {}]}
    BY <1>8 DEF settleOperation
  <2>2. result' \in Results
    BY <2>1, RefusalType
  <2> QED BY <1>8, <2>2 DEF settleOperation, breaks, keeps
<1>9. CASE agentWrites
  BY <1>9, AgentWritesType DEF agentWrites
<1>10. CASE agentExits
  BY <1>10 DEF agentExits
<1>11. CASE timeout
  BY <1>11 DEF timeout
<1>12. CASE killProcessTree
  BY <1>12 DEF killProcessTree
<1>13. CASE guardTick
  BY <1>13, GuardType DEF guardTick
<1>14. CASE monitorMeasures
  BY <1>14 DEF monitorMeasures
<1>15. CASE monitorWrites
  BY <1>15 DEF monitorWrites
<1>16. CASE returned
  BY <1>16 DEF returned, vars
<1>17. CASE UNCHANGED vars
  BY <1>17 DEF vars
<1> QED
  BY <1>1, <1>2, <1>3, <1>4, <1>5, <1>6, <1>7, <1>8, <1>9, <1>10, <1>11, <1>12, <1>13, <1>14,
     <1>15, <1>16, <1>17
  DEF Next, runAdapter

\* A guard that was stopped has looked, or git failed.
LEMMA GuardStopped ==
    ASSUME guard \in Guards, guarded, stopScopeGuard("collect")
    PROVE  /\ ~ guard'.runs
           /\ guard'.violation = {} => guard'.blind \/ outOfScopeDeltaPaths(before, tree) = {}
  BY DEF stopScopeGuard, Guards

\* The agent is started once, and the call goes on when it has ended.
LEMMA AgentStep == TypeOK /\ AgentInv /\ [Next]_vars => AgentInv'
<1> SUFFICES ASSUME TypeOK, AgentInv, [Next]_vars PROVE AgentInv'
  OBVIOUS
<1> USE DEF TypeOK, AgentInv, agentVars, guardVars
<1>1. CASE prepareCall
  BY <1>1 DEF prepareCall, breaks, keeps
<1>2. CASE acquireSlot
  BY <1>2 DEF acquireSlot, breaks, keeps
<1>3. CASE dispatch
  BY <1>3 DEF dispatch, guarded, breaks, keeps
<1>4. CASE processEnded
  BY <1>4 DEF processEnded, stopProgress, stopScopeGuard, guarded, breaks, keeps
<1>5. CASE collect
  BY <1>5 DEF collect, guarded, breaks, keeps
<1>6. CASE unwind
  BY <1>6 DEF unwind, stopProgress
<1>7. CASE validateInvocationIntegrity
  <2>1. ASSUME host = AsWritten, NEW h \in restoredInPart(host) PROVE h = AsWritten
    BY <2>1 DEF restoredInPart, AsWritten
  <2>2. pc = "integrity" /\ pc' = "settle" /\ UNCHANGED agent
    BY <1>7 DEF validateInvocationIntegrity
  <2>3. host' = AsWritten \/ host' \in restoredInPart(host)
    BY <1>7 DEF validateInvocationIntegrity, verifyAndRestoreIntegrity
  <2>4. agent = "idle" => host' = AsWritten
    BY <2>1, <2>3
  <2> QED BY <2>2, <2>4
<1>8. CASE settleOperation
  BY <1>8 DEF settleOperation, breaks, keeps
<1>9. CASE agentWrites
  BY <1>9 DEF agentWrites
<1>10. CASE agentExits
  BY <1>10 DEF agentExits
<1>11. CASE timeout
  BY <1>11 DEF timeout
<1>12. CASE killProcessTree
  BY <1>12 DEF killProcessTree
<1>13. CASE guardTick
  BY <1>13 DEF guardTick
<1>14. CASE monitorMeasures \/ monitorWrites
  BY <1>14 DEF monitorMeasures, monitorWrites
<1>15. CASE returned
  BY <1>15 DEF returned, vars
<1>16. CASE UNCHANGED vars
  BY <1>16 DEF vars
<1> QED
  BY <1>1, <1>2, <1>3, <1>4, <1>5, <1>6, <1>7, <1>8, <1>9, <1>10, <1>11, <1>12, <1>13, <1>14,
     <1>15, <1>16
  DEF Next, runAdapter

\* What is answered was compared with what is there.
LEMMA AnswerStep == TypeOK /\ AgentInv /\ AnswerInv /\ [Next]_vars => AnswerInv'
<1> SUFFICES ASSUME TypeOK, AgentInv, AnswerInv, [Next]_vars PROVE AnswerInv'
  OBVIOUS
<1> USE DEF TypeOK, AgentInv, AnswerInv, agentVars, guardVars
<1>1. CASE prepareCall
  BY <1>1 DEF prepareCall, breaks, keeps
<1>2. CASE acquireSlot
  BY <1>2 DEF acquireSlot, breaks, keeps
<1>3. CASE dispatch
  BY <1>3 DEF dispatch, guarded, breaks, keeps, Guards
<1>4. CASE processEnded
  <2> DEFINE outside == outOfScopeDeltaPaths(before, tree)
  <2>1. /\ pc' = "collect" /\ UNCHANGED <<call, before, tree, agent, result>>
        /\ pc = "awaiting" /\ agent \in {"exited", "failed"}
    BY <1>4 DEF processEnded, stopScopeGuard
  <2>2. ~ result.ok
    BY <2>1
  <2>3. ~ guard'.runs /\ (call.role = "coder" /\ guard'.violation = {}
                           => guard'.blind \/ outside = {})
    <3>0. guard \in Guards
      OBVIOUS
    <3>1. CASE ~ guarded
      BY <1>4, <3>1, <2>1 DEF processEnded, stopScopeGuard, guarded
    <3>2. CASE guarded
      BY <1>4, <3>0, <3>2, GuardStopped DEF processEnded
    <3> QED BY <3>1, <3>2
  <2>4. outOfScopeDeltaPaths(before, tree)' = outside
    BY <2>1 DEF outOfScopeDeltaPaths, worktreeDelta
  <2> QED BY <2>1, <2>2, <2>3, <2>4
<1>5. CASE collect
  <2> DEFINE changed == worktreeContentDelta(before, tree)
  <2>1. /\ pc = "collect" /\ pc' = "unwind" /\ ~ guard.runs /\ ~ result.ok
        /\ UNCHANGED <<call, before, tree, agent, guard>>
    BY <1>5 DEF collect
  <2>2. changed' = changed
    BY <2>1 DEF worktreeContentDelta
  <2>3. changed \subseteq outOfScopeDeltaPaths(before, tree) \cup {Inside}
    BY DEF worktreeContentDelta, outOfScopeDeltaPaths, worktreeDelta, contentFingerprint
  <2>4. result'.ok =>
           /\ guard.violation = {} /\ agent = "exited"
           /\ result'.files = IF call.role = "coder" THEN changed ELSE {}
    <3>1. changed \subseteq claim => claim \cap changed = changed
      OBVIOUS
    <3>2. result'.ok =>
             /\ guard.violation = {} /\ agent = "exited"
             /\ IF guarded THEN /\ validateWorkerGitClaim(claim)
                                /\ result'.files = normalizeCumulativeWorkerClaims(claim)
                           ELSE result'.files = {}
      BY <1>5, <2>1 DEF collect
    <3> QED
      BY <3>1, <3>2 DEF guarded, validateWorkerGitClaim, normalizeCumulativeWorkerClaims
  <2>5. result'.ok /\ call.role = "coder" => guard.blind \/ changed \subseteq {Inside}
    BY <2>1, <2>3, <2>4
  <2> HIDE DEF changed
  <2>6. result'.ok =>
           /\ agent' = "exited" /\ ~ guard'.runs
           /\ IF call'.role = "coder" THEN /\ result'.files = changed'
                                           /\ guard'.blind \/ result'.files \subseteq {Inside}
                                      ELSE result'.files = {}
    BY <2>1, <2>2, <2>4, <2>5
  <2> QED BY <2>1, <2>6 DEF changed
<1>6. CASE unwind
  BY <1>6 DEF unwind, stopProgress
<1>7. CASE validateInvocationIntegrity
  BY <1>7 DEF validateInvocationIntegrity, verifyAndRestoreIntegrity, breaks, keeps
<1>8. CASE settleOperation
  BY <1>8 DEF settleOperation, breaks, keeps
<1>9. CASE agentWrites
  BY <1>9 DEF agentWrites
<1>10. CASE agentExits
  BY <1>10 DEF agentExits
<1>11. CASE timeout
  BY <1>11 DEF timeout
<1>12. CASE killProcessTree
  BY <1>12 DEF killProcessTree
<1>13. CASE guardTick
  BY <1>13 DEF guardTick
<1>14. CASE monitorMeasures \/ monitorWrites
  BY <1>14 DEF monitorMeasures, monitorWrites
<1>15. CASE returned
  BY <1>15 DEF returned, vars
<1>16. CASE UNCHANGED vars
  BY <1>16 DEF vars
<1> QED
  BY <1>1, <1>2, <1>3, <1>4, <1>5, <1>6, <1>7, <1>8, <1>9, <1>10, <1>11, <1>12, <1>13, <1>14,
     <1>15, <1>16
  DEF Next, runAdapter

\* The host's files are as they were written, or the call is an error.
LEMMA IntegrityStep ==
    TypeOK /\ AgentInv /\ AnswerInv /\ IntegrityInv /\ [Next]_vars => IntegrityInv'
<1> SUFFICES ASSUME TypeOK, AgentInv, AnswerInv, IntegrityInv, [Next]_vars PROVE IntegrityInv'
  OBVIOUS
<1> USE DEF TypeOK, AgentInv, AnswerInv, IntegrityInv, agentVars, guardVars
<1>1. CASE prepareCall
  BY <1>1 DEF prepareCall, breaks, keeps
<1>2. CASE acquireSlot
  BY <1>2 DEF acquireSlot, breaks, keeps
<1>3. CASE dispatch
  BY <1>3 DEF dispatch, guarded, breaks, keeps
<1>4. CASE processEnded
  BY <1>4 DEF processEnded, stopProgress, stopScopeGuard, guarded, breaks, keeps
<1>5. CASE collect
  BY <1>5 DEF collect, guarded, breaks, keeps
<1>6. CASE unwind
  BY <1>6 DEF unwind, stopProgress
<1>7. CASE validateInvocationIntegrity
  BY <1>7, Bounds DEF validateInvocationIntegrity, verifyAndRestoreIntegrity, breaks, keeps
<1>8. CASE settleOperation
  BY <1>8, Bounds DEF settleOperation, breaks, keeps
<1>9. CASE agentWrites
  BY <1>9 DEF agentWrites
<1>10. CASE agentExits
  BY <1>10 DEF agentExits
<1>11. CASE timeout
  BY <1>11 DEF timeout
<1>12. CASE killProcessTree
  BY <1>12 DEF killProcessTree
<1>13. CASE guardTick
  BY <1>13 DEF guardTick
<1>14. CASE monitorMeasures \/ monitorWrites
  BY <1>14 DEF monitorMeasures, monitorWrites
<1>15. CASE returned
  BY <1>15 DEF returned, vars
<1>16. CASE UNCHANGED vars
  BY <1>16 DEF vars
<1> QED
  BY <1>1, <1>2, <1>3, <1>4, <1>5, <1>6, <1>7, <1>8, <1>9, <1>10, <1>11, <1>12, <1>13, <1>14,
     <1>15, <1>16
  DEF Next, runAdapter

\* The record follows the call.
LEMMA JournalStep == TypeOK /\ AgentInv /\ AnswerInv /\ JournalInv /\ [Next]_vars => JournalInv'
<1> SUFFICES ASSUME TypeOK, AgentInv, AnswerInv, JournalInv, [Next]_vars PROVE JournalInv'
  OBVIOUS
<1> USE DEF TypeOK, AgentInv, AnswerInv, JournalInv, agentVars, guardVars
<1>1. CASE prepareCall
  BY <1>1 DEF prepareCall, breaks, keeps
<1>2. CASE acquireSlot
  BY <1>2 DEF acquireSlot, breaks, keeps
<1>3. CASE dispatch
  BY <1>3 DEF dispatch, guarded, breaks, keeps
<1>4. CASE processEnded
  BY <1>4 DEF processEnded, stopProgress, stopScopeGuard, guarded, breaks, keeps
<1>5. CASE collect
  BY <1>5 DEF collect, guarded, breaks, keeps
<1>6. CASE unwind
  BY <1>6 DEF unwind, stopProgress
<1>7. CASE validateInvocationIntegrity
  BY <1>7 DEF validateInvocationIntegrity, verifyAndRestoreIntegrity, breaks, keeps
<1>8. CASE settleOperation
  BY <1>8, Bounds DEF settleOperation, breaks, keeps
<1>9. CASE agentWrites
  BY <1>9 DEF agentWrites
<1>10. CASE agentExits
  BY <1>10 DEF agentExits
<1>11. CASE timeout
  BY <1>11 DEF timeout
<1>12. CASE killProcessTree
  BY <1>12 DEF killProcessTree
<1>13. CASE guardTick
  BY <1>13 DEF guardTick
<1>14. CASE monitorMeasures \/ monitorWrites
  BY <1>14 DEF monitorMeasures, monitorWrites
<1>15. CASE returned
  BY <1>15 DEF returned, vars
<1>16. CASE UNCHANGED vars
  BY <1>16 DEF vars
<1> QED
  BY <1>1, <1>2, <1>3, <1>4, <1>5, <1>6, <1>7, <1>8, <1>9, <1>10, <1>11, <1>12, <1>13, <1>14,
     <1>15, <1>16
  DEF Next, runAdapter

\* The monitor is stopped before the status is published.
LEMMA MonitorStep == TypeOK /\ AgentInv /\ MonitorInv /\ [Next]_vars => MonitorInv'
<1> SUFFICES ASSUME TypeOK, AgentInv, MonitorInv, [Next]_vars PROVE MonitorInv'
  OBVIOUS
<1> USE DEF TypeOK, AgentInv, MonitorInv, agentVars, guardVars
<1>1. CASE prepareCall
  BY <1>1 DEF prepareCall, breaks, keeps
<1>2. CASE acquireSlot
  BY <1>2 DEF acquireSlot, breaks, keeps
<1>3. CASE dispatch
  BY <1>3 DEF dispatch, guarded, breaks, keeps
<1>4. CASE processEnded
  BY <1>4 DEF processEnded, stopProgress, stopScopeGuard, guarded, breaks, keeps
<1>5. CASE collect
  BY <1>5 DEF collect, guarded, breaks, keeps
<1>6. CASE unwind
  BY <1>6 DEF unwind, stopProgress
<1>7. CASE validateInvocationIntegrity
  BY <1>7 DEF validateInvocationIntegrity, verifyAndRestoreIntegrity, breaks, keeps
<1>8. CASE settleOperation
  BY <1>8 DEF settleOperation, breaks, keeps
<1>9. CASE agentWrites
  BY <1>9 DEF agentWrites
<1>10. CASE agentExits
  BY <1>10 DEF agentExits
<1>11. CASE timeout
  BY <1>11 DEF timeout
<1>12. CASE killProcessTree
  BY <1>12 DEF killProcessTree
<1>13. CASE guardTick
  BY <1>13 DEF guardTick
<1>14. CASE monitorMeasures \/ monitorWrites
  BY <1>14 DEF monitorMeasures, monitorWrites
<1>15. CASE returned
  BY <1>15 DEF returned, vars
<1>16. CASE UNCHANGED vars
  BY <1>16 DEF vars
<1> QED
  BY <1>1, <1>2, <1>3, <1>4, <1>5, <1>6, <1>7, <1>8, <1>9, <1>10, <1>11, <1>12, <1>13, <1>14,
     <1>15, <1>16
  DEF Next, runAdapter

\* A call begins with a clean slate.
LEMMA Initially == Init => Inv
<1> SUFFICES ASSUME Init PROVE Inv
  OBVIOUS
<1>1. TypeOK
  <2>1. tree \in Snapshots /\ before \in Snapshots
    <3>1. \A c \in {"base", "dirty"} :
             [p \in Paths |-> [content |-> c, staged |-> FALSE, head |-> "base"]] \in Snapshots
      BY DEF Snapshots, Contents
    <3> QED BY <3>1 DEF Init
  <2>2. guard \in Guards
    BY DEF Init, Guards
  <2>3. result \in Results
    BY DEF Init, Results
  <2>4. claim \in Claims
    BY DEF Init, Claims
  <2>6. AsWritten \in [Artifacts -> {"host", "agent", "absent"}] /\ host = AsWritten
    BY DEF Init, AsWritten
  <2>5. writes \in 0..MaxWrites /\ failures \in 0..MaxFailures
    BY Bounds DEF Init
  <2> QED BY <2>1, <2>2, <2>3, <2>4, <2>5, <2>6 DEF Init, TypeOK
<1>2. AgentInv /\ AnswerInv /\ IntegrityInv /\ JournalInv /\ MonitorInv
  BY DEF Init, AgentInv, AnswerInv, IntegrityInv, JournalInv, MonitorInv
<1> QED BY <1>1, <1>2 DEF Inv

LEMMA Invariant == Spec => []Inv
<1>1. Inv /\ [Next]_vars => Inv'
  BY TypeStep, AgentStep, AnswerStep, IntegrityStep, JournalStep, MonitorStep DEF Inv
<1> QED BY <1>1, Initially, PTL DEF Spec

-----------------------------------------------------------------------------
(* Theorems *)

\* Every variable keeps its type.
THEOREM TypeCorrect == Spec => []TypeOK
<1>1. Inv => TypeOK
  BY DEF Inv
<1> QED BY <1>1, Invariant, PTL

\* A call that returned left the host's artifacts as the host wrote them, or is an
\* error (integrity.go:147-174).
THEOREM ArtifactsSurvive == Spec => []HostArtifactsSurvive
<1>1. Inv => HostArtifactsSurvive
  BY DEF Inv, IntegrityInv, HostArtifactsSurvive
<1> QED BY <1>1, Invariant, PTL

\* What a successful call reports is what happened in the worktree
\* (worker_contract.go:265-284, live_scope_guard.go:74-96).
THEOREM AnswersTrue == Spec => []AnswersAreTrue
<1>1. Inv => AnswersAreTrue
  BY DEF Inv, TypeOK, AnswerInv, IntegrityInv, AnswersAreTrue, Callers
<1> QED BY <1>1, Invariant, PTL

\* A committed operation is one whose result was handed over, and one is left in
\* flight only by a journal that could not be written (runner_part06.go:41-55).
THEOREM JournalTrue == Spec => []JournalAgrees
<1>1. Inv => JournalAgrees
  BY DEF Inv, TypeOK, AnswerInv, JournalInv, JournalAgrees
<1> QED BY <1>1, Invariant, PTL

\* No tick of the monitor overwrites a final status (watchdog.go:115-120).
THEOREM StatusFinal == Spec => StatusIsFinal
<1>1. Inv /\ [Next]_vars
      => [(agent \in {"exited", "failed"} /\ progress \in {"completed", "failed"})
           => progress' \notin {"running", "awaiting_telemetry"}]_vars
  <2> SUFFICES ASSUME Inv, [Next]_vars,
                      agent \in {"exited", "failed"}, progress \in {"completed", "failed"}
               PROVE  progress' \notin {"running", "awaiting_telemetry"}
    OBVIOUS
  <2>1. monitor = "off" /\ pc # "dispatch"
    BY DEF Inv, MonitorInv, AgentInv
  <2> QED
    BY <2>1
        DEF Next, runAdapter, prepareCall, acquireSlot, dispatch, processEnded, collect, unwind,
      validateInvocationIntegrity, settleOperation, agentWrites, agentExits, timeout,
      killProcessTree, guardTick, monitorMeasures, monitorWrites, returned, vars
<1> QED BY <1>1, Invariant, PTL DEF Spec, StatusIsFinal

=============================================================================
