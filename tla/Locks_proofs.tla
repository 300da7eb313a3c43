---------------------------- MODULE Locks_proofs ---------------------------
(***************************************************************************)
(* What keeps the processes of a repository out of each other's way, for   *)
(* every set of processes, runs, callers and panels.                       *)
(*                                                                         *)
(* Who owns run.lock.  Creation is exclusive, so what has to be shown is   *)
(* that nobody removes the lock of another process.  Only a resumer does   *)
(* that, and by then whoever started the run is over: it wrote its pid     *)
(* before the run could be resumed (ResumeInv), and a lock with the pid of *)
(* a live process is not stale.  Two resumers of one run may both be past  *)
(* reading its lock, and then the one removes the lock of the other; those *)
(* are the ones in raced (RaceInv), and none is who had its pid in the     *)
(* lock first (NobodySurprised).  So the lock implements RunOwnership      *)
(* (StepOwns), and what follows from that, follows of the files.           *)
(*                                                                         *)
(* The panel ledger: its counters are the sums of what its reservations    *)
(* account for.  A step changes the reservation of one panel and the       *)
(* counters by the same amount (BalanceKept, from SumChanges), and no      *)
(* panel has fewer slots or work used than none (Orderly), so no live      *)
(* counter is negative and each bounds what any one panel still claims.    *)
(***************************************************************************)
EXTENDS RunLock, PanelBudget, FiniteSetTheorems, NaturalsInduction, WellFoundedInduction,
        TLAPS

-----------------------------------------------------------------------------
(* The run lock: the inductive invariant *)

Owning == Holding \cup {"created"}

\* run.lock names the process that is past its creation, unless it raced.
OwningInv ==
    \A p \in Processes \ raced :
        pc[p] \in Owning =>
            /\ LockOf(p) # None /\ LockOf(p).owner = p
            /\ pc[p] \in Holding => LockOf(p).written

\* A process whose run.lock it still is has written its pid when it works.
WrittenInv ==
    \A p \in Processes :
        LockOf(p) # None /\ LockOf(p).owner = p =>
            /\ pc[p] \in Holding => LockOf(p).written
            /\ pc[p] = "created" => ~ LockOf(p).written

\* A run.lock is that of a process that got it and has not released it.
FileInv ==
    \A r \in Runs : lockFile[r] # None =>
        /\ RunOf[lockFile[r].owner] = r
        /\ pc[lockFile[r].owner] \in Owning \cup {"dead"}

\* A run is resumed after it was started, and a resumer gets past reading its
\* lock when whoever started it is over.
ResumeInv ==
    /\ \A p \in Processes : pc[p] = "stale" => p \in Resumers
    /\ \A p \in Resumers : pc[p] # "out" => RunOf[p] \in resumable
    /\ \A p \in Resumers, q \in Processes \ Resumers : RunOf[p] = RunOf[q] =>
          /\ RunOf[p] \in resumable => pc[q] \in Holding \cup {"done", "dead"}
          /\ pc[p] \in Entered => pc[q] \in {"done", "dead"}

\* Two resumers that are both past reading the lock of a run raced.
RaceInv ==
    \A p, q \in Resumers :
        /\ p # q /\ RunOf[p] = RunOf[q]
        /\ {pc[p], pc[q]} \subseteq Entered
        => {p, q} \subseteq raced

-----------------------------------------------------------------------------
(* Steps *)

\* A lock with an owner is a file.
LEMMA RecordFacts ==
    ASSUME NEW p \in Processes, NEW b \in BOOLEAN
    PROVE  /\ [owner |-> p, written |-> b] \in RunLockRecord
           /\ [owner |-> p, written |-> b] # None
           /\ [owner |-> p, written |-> b].owner = p
           /\ [owner |-> p, written |-> b].written = b
  BY NoneAssumption DEF RunLockRecord

\* Setting the lock of one directory.
LEMMA SetFacts ==
    ASSUME LockTypeOK, NEW p \in Processes, NEW x \in RunLockRecord \cup {None}, SetLock(p, x)
    PROVE  /\ lockFile' \in [Runs -> RunLockRecord \cup {None}]
           /\ lockFile'[RunOf[p]] = x
           /\ \A r \in Runs : r # RunOf[p] => lockFile'[r] = lockFile[r]
  BY RunOfAssumption DEF LockTypeOK, SetLock

LEMMA FileFacts ==
    ASSUME LockTypeOK, NEW r \in Runs, lockFile[r] # None
    PROVE  lockFile[r].owner \in Processes /\ lockFile[r].written \in BOOLEAN
  BY DEF LockTypeOK, RunLockRecord

\* The processes that wait have a call left.
WaitInv == \A p \in Processes : pc[p] = "waiting" => calls[p] < MaxInvocations

\* Every step keeps the types.
LEMMA TypeStep == LockTypeOK /\ WaitInv /\ [LockNext]_lockVars => LockTypeOK' /\ WaitInv'
<1> SUFFICES ASSUME LockTypeOK, WaitInv, [LockNext]_lockVars PROVE LockTypeOK' /\ WaitInv'
  OBVIOUS
<1> USE RunOfAssumption, RolesAssumption, BoundsAssumption
    DEF LockTypeOK, WaitInv, files, slot, LockOf, Steps
<1>1. ASSUME NEW p \in Processes, findNoLock(p) PROVE LockTypeOK' /\ WaitInv'
  <2>1. Race(p) => raced' \subseteq Resumers
    BY DEF Race, Rivals
  <2> QED BY <1>1, <2>1 DEF findNoLock, Go
<1>2. ASSUME NEW p \in Processes, findStaleLock(p) PROVE LockTypeOK' /\ WaitInv'
  <2>1. Race(p) => raced' \subseteq Resumers
    BY DEF Race, Rivals
  <2> QED BY <1>2, <2>1 DEF findStaleLock, Go
<1>3. ASSUME NEW p \in Processes, refused(p) PROVE LockTypeOK' /\ WaitInv'
  BY <1>3 DEF refused, Go
<1>4. ASSUME NEW p \in Processes, removeStale(p) PROVE LockTypeOK' /\ WaitInv'
  <2>1. lockFile' \in [Runs -> RunLockRecord \cup {None}]
    BY <1>4, RecordFacts, SetFacts DEF removeStale
  <2>2. pc' \in [Processes -> Steps] /\ UNCHANGED <<resumable, raced, slot>>
    BY <1>4 DEF removeStale, Go
  <2>3. WaitInv'
    BY <1>4, <2>2 DEF removeStale, Go
  <2> QED BY <2>1, <2>2, <2>3
<1>5. ASSUME NEW p \in Processes, createExclusive(p) PROVE LockTypeOK' /\ WaitInv'
  <2>1. lockFile' \in [Runs -> RunLockRecord \cup {None}]
    BY <1>5, RecordFacts, SetFacts DEF createExclusive
  <2>2. pc' \in [Processes -> Steps] /\ UNCHANGED <<resumable, raced, slot>>
    BY <1>5 DEF createExclusive, Go
  <2>3. WaitInv'
    BY <1>5, <2>2 DEF createExclusive, Go
  <2> QED BY <2>1, <2>2, <2>3
<1>6. ASSUME NEW p \in Processes, writeRecord(p) PROVE LockTypeOK' /\ WaitInv'
  <2>1. lockFile' \in [Runs -> RunLockRecord \cup {None}]
    BY <1>6, RecordFacts, SetFacts DEF writeRecord
  <2>2. pc' \in [Processes -> Steps] /\ UNCHANGED <<resumable, raced, slot>>
    BY <1>6 DEF writeRecord, Go
  <2>3. WaitInv'
    BY <1>6, <2>2 DEF writeRecord, Go
  <2> QED BY <2>1, <2>2, <2>3
<1>7. ASSUME NEW p \in Processes, writeRecordFails(p) PROVE LockTypeOK' /\ WaitInv'
  <2>1. lockFile' \in [Runs -> RunLockRecord \cup {None}]
    BY <1>7, RecordFacts, SetFacts DEF writeRecordFails
  <2>2. pc' \in [Processes -> Steps] /\ UNCHANGED <<resumable, raced, slot>>
    BY <1>7 DEF writeRecordFails, Go
  <2>3. WaitInv'
    BY <1>7, <2>2 DEF writeRecordFails, Go
  <2> QED BY <2>1, <2>2, <2>3
<1>8. ASSUME NEW p \in Processes, acquireInvocationSlot(p) PROVE LockTypeOK' /\ WaitInv'
  BY <1>8 DEF acquireInvocationSlot, Go, MayInvoke
<1>9. ASSUME NEW p \in Processes, waitForSlot(p) PROVE LockTypeOK' /\ WaitInv'
  BY <1>9 DEF waitForSlot, Go, MayInvoke
<1>10. ASSUME NEW p \in Processes, slotTimedOut(p) PROVE LockTypeOK' /\ WaitInv'
  BY <1>10 DEF slotTimedOut, Go, SlotRefused
<1>11. ASSUME NEW p \in Processes, readOwnLock(p) PROVE LockTypeOK' /\ WaitInv'
  BY <1>11 DEF readOwnLock, Go
<1>12. ASSUME NEW p \in Processes, removeOwnLock(p) PROVE LockTypeOK' /\ WaitInv'
  <2>1. lockFile' \in [Runs -> RunLockRecord \cup {None}]
    BY <1>12, RecordFacts, SetFacts DEF removeOwnLock
  <2>2. pc' \in [Processes -> Steps] /\ UNCHANGED <<resumable, raced, slot>>
    BY <1>12 DEF removeOwnLock, Go
  <2>3. WaitInv'
    BY <1>12, <2>2 DEF removeOwnLock, Go
  <2> QED BY <2>1, <2>2, <2>3
<1>13. ASSUME NEW p \in Processes, persistRunState(p) PROVE LockTypeOK' /\ WaitInv'
  BY <1>13 DEF persistRunState, Go
<1>14. ASSUME NEW p \in Processes, slotCancelled(p) PROVE LockTypeOK' /\ WaitInv'
  BY <1>14 DEF slotCancelled, Go, SlotRefused
<1>15. ASSUME NEW p \in Processes, finishInvocation(p) PROVE LockTypeOK' /\ WaitInv'
  BY <1>15 DEF finishInvocation, Go
<1>16. ASSUME NEW p \in Processes, crash(p) PROVE LockTypeOK' /\ WaitInv'
  BY <1>16 DEF crash, Go
<1>17. CASE UNCHANGED lockVars
  BY <1>17 DEF lockVars
<1> QED
  BY <1>1, <1>2, <1>3, <1>4, <1>5, <1>6, <1>7, <1>8, <1>9, <1>10, <1>11, <1>12, <1>13, <1>14,
     <1>15, <1>16, <1>17
  DEF LockNext, Work

\* Two processes that are both past the creation of one run.lock, or one past it
\* and one about to remove it, are resumers that raced.
LEMMA NotBoth ==
    ASSUME LockTypeOK, OwningInv, ResumeInv, RaceInv,
           NEW p \in Processes, NEW q \in Processes, p # q, RunOf[p] = RunOf[q],
           pc[p] \in Owning \cup {"stale"}, pc[q] \in Owning
    PROVE  {p, q} \subseteq raced
<1> USE RolesAssumption DEF Entered, Owning, Holding
<1>1. CASE p \in Resumers /\ q \in Resumers
  BY <1>1 DEF RaceInv
<1>2. CASE p \notin Resumers \/ q \notin Resumers
  <2>1. p \notin Resumers /\ q \notin Resumers
    BY <1>2 DEF ResumeInv
  <2>2. pc[p] \in Owning /\ p \notin raced /\ q \notin raced
    BY <2>1 DEF ResumeInv, LockTypeOK
  <2> QED BY <2>2 DEF OwningInv, LockOf
<1> QED BY <1>1, <1>2

\* The lock of a process that is not over, and did not race, is removed by that
\* process only.
LEMMA OwningStep ==
    LockTypeOK /\ OwningInv /\ ResumeInv /\ RaceInv /\ [LockNext]_lockVars => OwningInv'
<1> SUFFICES ASSUME LockTypeOK, OwningInv, ResumeInv, RaceInv, [LockNext]_lockVars,
                    NEW q \in Processes, q \notin raced', pc'[q] \in Owning
             PROVE  /\ LockOf(q)' # None /\ LockOf(q)'.owner = q
                    /\ pc'[q] \in Holding => LockOf(q)'.written
  BY DEF OwningInv
<1> DEFINE Mine == /\ LockOf(q)' # None /\ LockOf(q)'.owner = q
                   /\ pc'[q] \in Holding => LockOf(q)'.written
<1>g. raced \subseteq raced'
  BY DEF LockNext, Work, findNoLock, findStaleLock, Race, refused, removeStale, createExclusive,
     writeRecord, writeRecordFails, acquireInvocationSlot, waitForSlot, slotTimedOut,
     slotCancelled, SlotRefused, readOwnLock, removeOwnLock, persistRunState, finishInvocation,
     crash, lockVars, files
<1>o. pc[q] \in Owning => /\ LockOf(q) # None /\ LockOf(q).owner = q
                          /\ pc[q] \in Holding => LockOf(q).written
  BY <1>g DEF OwningInv
<1>b. ASSUME NEW p \in Processes, p # q, RunOf[p] = RunOf[q],
             pc[p] \in Owning \cup {"stale"}, pc[q] \in Owning
      PROVE  FALSE
  BY <1>b, <1>g, NotBoth
<1> USE RunOfAssumption, RolesAssumption, NoneAssumption
    DEF LockTypeOK, files, slot, LockOf, Owning, Holding
<1>1. ASSUME NEW p \in Processes, findNoLock(p) \/ findStaleLock(p) \/ refused(p) PROVE Mine
  BY <1>1, <1>o DEF findNoLock, findStaleLock, Go, refused
<1>2. ASSUME NEW p \in Processes, removeStale(p) PROVE Mine
  BY <1>2, <1>o, <1>b DEF removeStale, Go, SetLock
<1>3. ASSUME NEW p \in Processes, createExclusive(p) PROVE Mine
  <2> DEFINE mine == [owner |-> p, written |-> FALSE]
  <2>1. CASE LockOf(p) = None
    <3>1. LockOf(p)' = mine /\ \A r \in Runs : r # RunOf[p] => lockFile'[r] = lockFile[r]
      <4>1. mine \in RunLockRecord
        BY RecordFacts
      <4>2. SetLock(p, mine)
        BY <1>3, <2>1 DEF createExclusive
      <4> HIDE DEF mine
      <4> QED BY <4>1, <4>2, SetFacts
    <3>2. pc' = [pc EXCEPT ![p] = "created"]
      BY <1>3, <2>1 DEF createExclusive, Go
    <3>3. mine # None /\ mine.owner = p
      BY RecordFacts
    <3> HIDE DEF mine
    <3> QED BY <2>1, <3>1, <3>2, <3>3, <1>o
  <2>2. CASE LockOf(p) # None
    BY <1>3, <2>2, <1>o DEF createExclusive, Go
  <2> QED BY <2>1, <2>2
<1>4. ASSUME NEW p \in Processes, writeRecord(p) PROVE Mine
  <2> DEFINE mine == [owner |-> p, written |-> TRUE]
  <2>1. pc[p] = "created" /\ pc' = [pc EXCEPT ![p] = "locked"]
    BY <1>4 DEF writeRecord, Go
  <2>2. CASE p = q
    <3>1. SetLock(p, mine)
      BY <1>4, <1>o, <2>1, <2>2 DEF writeRecord
    <3>2. mine \in RunLockRecord /\ mine # None /\ mine.owner = p /\ mine.written
      BY RecordFacts
    <3> HIDE DEF mine
    <3>3. LockOf(p)' = mine
      BY <3>1, <3>2, SetFacts
    <3> QED BY <2>2, <3>2, <3>3
  <2>3. CASE p # q
    <3>1. RunOf[p] # RunOf[q] /\ pc'[q] = pc[q]
      BY <1>b, <2>1, <2>3
    <3>2. LockOf(q)' = LockOf(q)
      BY <1>4, <3>1 DEF writeRecord, SetLock
    <3> QED BY <3>1, <3>2, <1>o
  <2> QED BY <2>2, <2>3
<1>5. ASSUME NEW p \in Processes, writeRecordFails(p) PROVE Mine
  BY <1>5, <1>o, <1>b DEF writeRecordFails, Go, SetLock
<1>6. ASSUME NEW p \in Processes, acquireInvocationSlot(p) \/ waitForSlot(p)
               \/ slotTimedOut(p) \/ slotCancelled(p) \/ finishInvocation(p)
      PROVE  Mine
  BY <1>6, <1>o
  DEF acquireInvocationSlot, Go, MayInvoke, waitForSlot, slotTimedOut, SlotRefused, slotCancelled,
     finishInvocation
<1>7. ASSUME NEW p \in Processes, readOwnLock(p) PROVE Mine
  BY <1>7, <1>o DEF readOwnLock, Go
<1>8. ASSUME NEW p \in Processes, removeOwnLock(p) PROVE Mine
  BY <1>8, <1>o, <1>b DEF removeOwnLock, Go, SetLock
<1>9. ASSUME NEW p \in Processes, persistRunState(p) PROVE Mine
  BY <1>9, <1>o DEF persistRunState, Go
<1>10. ASSUME NEW p \in Processes, crash(p) PROVE Mine
  BY <1>10, <1>o DEF crash, Go
<1>11. CASE UNCHANGED lockVars
  BY <1>11, <1>o DEF lockVars
<1> QED
  BY <1>1, <1>2, <1>3, <1>4, <1>5, <1>6, <1>7, <1>8, <1>9, <1>10, <1>11
  DEF LockNext, Work

LEMMA OwnRecord ==
    ASSUME LockTypeOK, NEW p \in Processes, LockOf(p) # None, LockOf(p).owner = p,
           LockOf(p).written
    PROVE  LockOf(p) = [owner |-> p, written |-> TRUE]
<1>1. LockOf(p) \in RunLockRecord
  BY RunOfAssumption DEF LockTypeOK, LockOf
<1> QED BY <1>1 DEF RunLockRecord

\* The pid is in a lock that is still its creator's exactly when it was written.
LEMMA WrittenStep == LockTypeOK /\ WrittenInv /\ [LockNext]_lockVars => WrittenInv'
<1> SUFFICES ASSUME LockTypeOK, WrittenInv, [LockNext]_lockVars,
                    NEW q \in Processes, LockOf(q)' # None, LockOf(q)'.owner = q
             PROVE  /\ pc'[q] \in Holding => LockOf(q)'.written
                    /\ pc'[q] = "created" => ~ LockOf(q)'.written
  BY DEF WrittenInv
<1> DEFINE Right == /\ pc'[q] \in Holding => LockOf(q)'.written
                    /\ pc'[q] = "created" => ~ LockOf(q)'.written
<1> USE RunOfAssumption DEF LockTypeOK, files, slot, LockOf, WrittenInv, Holding
<1>1. ASSUME NEW p \in Processes,
             findNoLock(p) \/ findStaleLock(p) \/ refused(p) \/ readOwnLock(p)
               \/ persistRunState(p) \/ crash(p)
      PROVE  Right
  BY <1>1 DEF findNoLock, findStaleLock, refused, readOwnLock, persistRunState, crash, Go
<1>2. ASSUME NEW p \in Processes, removeStale(p) \/ writeRecordFails(p) \/ removeOwnLock(p)
      PROVE  Right
  <2>1. SetLock(p, None) /\ (pc'[q] = pc[q] \/ q = p)
    BY <1>2 DEF removeStale, writeRecordFails, removeOwnLock, Go
  <2>2. RunOf[q] # RunOf[p]
    BY <2>1 DEF SetLock
  <2> QED BY <2>1, <2>2 DEF SetLock
<1>3. ASSUME NEW p \in Processes, createExclusive(p) PROVE Right
  <2> DEFINE mine == [owner |-> p, written |-> FALSE]
  <2>1. CASE LockOf(p) = None
    <3>1. mine \in RunLockRecord /\ mine.owner = p /\ ~ mine.written
      BY RecordFacts
    <3>2. SetLock(p, mine) /\ pc' = [pc EXCEPT ![p] = "created"]
      BY <1>3, <2>1 DEF createExclusive, Go
    <3> HIDE DEF mine
    <3>3. LockOf(p)' = mine /\ \A r \in Runs : r # RunOf[p] => lockFile'[r] = lockFile[r]
      BY <3>1, <3>2, SetFacts
    <3> QED BY <3>1, <3>2, <3>3
  <2>2. CASE LockOf(p) # None
    BY <1>3, <2>2 DEF createExclusive, Go
  <2> QED BY <2>1, <2>2
<1>4. ASSUME NEW p \in Processes, writeRecord(p) PROVE Right
  <2> DEFINE mine == [owner |-> p, written |-> TRUE]
  <2>1. pc' = [pc EXCEPT ![p] = "locked"]
    BY <1>4 DEF writeRecord, Go
  <2>2. CASE LockOf(p) # None /\ LockOf(p).owner = p
    <3>1. mine \in RunLockRecord /\ mine.owner = p /\ mine.written
      BY RecordFacts
    <3>2. SetLock(p, mine)
      BY <1>4, <2>2 DEF writeRecord
    <3> HIDE DEF mine
    <3>3. LockOf(p)' = mine /\ \A r \in Runs : r # RunOf[p] => lockFile'[r] = lockFile[r]
      BY <3>1, <3>2, SetFacts
    <3> QED BY <2>1, <3>1, <3>3
  <2>3. CASE ~ (LockOf(p) # None /\ LockOf(p).owner = p)
    BY <1>4, <2>1, <2>3 DEF writeRecord
  <2> QED BY <2>2, <2>3
<1>5. ASSUME NEW p \in Processes, acquireInvocationSlot(p) \/ waitForSlot(p)
               \/ slotTimedOut(p) \/ slotCancelled(p) \/ finishInvocation(p)
      PROVE  Right
  BY <1>5
  DEF acquireInvocationSlot, Go, MayInvoke, waitForSlot, slotTimedOut, SlotRefused, slotCancelled,
     finishInvocation
<1>6. CASE UNCHANGED lockVars
  BY <1>6 DEF lockVars
<1> QED BY <1>1, <1>2, <1>3, <1>4, <1>5, <1>6 DEF LockNext, Work

\* What is written into a lock is its owner.
LEMMA FileStep == LockTypeOK /\ WrittenInv /\ FileInv /\ [LockNext]_lockVars => FileInv'
<1> SUFFICES ASSUME LockTypeOK, WrittenInv, FileInv, [LockNext]_lockVars PROVE FileInv'
  OBVIOUS
<1> USE RunOfAssumption, RolesAssumption, NoneAssumption
    DEF LockTypeOK, files, slot, LockOf, Owning, Holding, FileInv
<1>t. \A r \in Runs : lockFile[r] # None =>
          lockFile[r].owner \in Processes /\ lockFile[r].written \in BOOLEAN
  BY FileFacts
<1>1. ASSUME NEW p \in Processes, findNoLock(p) \/ refused(p) PROVE FileInv'
  BY <1>1, <1>t DEF findNoLock, Go, refused
<1>2. ASSUME NEW p \in Processes, findStaleLock(p) PROVE FileInv'
  BY <1>2, <1>t DEF findStaleLock, Go
<1>3. ASSUME NEW p \in Processes, removeStale(p) PROVE FileInv'
  BY <1>3, <1>t DEF removeStale, Go, SetLock
<1>4. ASSUME NEW p \in Processes, createExclusive(p) PROVE FileInv'
  <2> DEFINE mine == [owner |-> p, written |-> FALSE]
  <2>1. CASE LockOf(p) = None
    <3>1. LockOf(p)' = mine /\ \A r \in Runs : r # RunOf[p] => lockFile'[r] = lockFile[r]
      <4>1. mine \in RunLockRecord
        BY RecordFacts
      <4>2. SetLock(p, mine)
        BY <1>4, <2>1 DEF createExclusive
      <4> HIDE DEF mine
      <4> QED BY <4>1, <4>2, SetFacts
    <3>2. pc[p] = "clear" /\ pc' = [pc EXCEPT ![p] = "created"]
      BY <1>4, <2>1 DEF createExclusive, Go
    <3>3. mine # None /\ mine.owner = p
      BY RecordFacts
    <3> HIDE DEF mine
    <3> QED BY <3>1, <3>2, <3>3, <1>t
  <2>2. CASE LockOf(p) # None
    BY <1>4, <2>2, <1>t DEF createExclusive, Go
  <2> QED BY <2>1, <2>2
<1>5. ASSUME NEW p \in Processes, writeRecord(p) PROVE FileInv'
  <2> DEFINE mine == [owner |-> p, written |-> TRUE]
  <2>1. pc[p] = "created" /\ pc' = [pc EXCEPT ![p] = "locked"]
    BY <1>5 DEF writeRecord, Go
  <2>2. CASE LockOf(p) # None /\ LockOf(p).owner = p
    <3>1. mine \in RunLockRecord /\ mine # None /\ mine.owner = p
      BY RecordFacts
    <3>2. SetLock(p, mine)
      BY <1>5, <2>2 DEF writeRecord
    <3> HIDE DEF mine
    <3>3. LockOf(p)' = mine /\ \A r \in Runs : r # RunOf[p] => lockFile'[r] = lockFile[r]
      BY <3>1, <3>2, SetFacts
    <3> QED BY <2>1, <3>1, <3>3, <1>t
  <2>3. CASE ~ (LockOf(p) # None /\ LockOf(p).owner = p)
    BY <1>5, <2>1, <2>3, <1>t DEF writeRecord
  <2> QED BY <2>2, <2>3
<1>6. ASSUME NEW p \in Processes, writeRecordFails(p) PROVE FileInv'
  BY <1>6, <1>t DEF writeRecordFails, Go, SetLock
<1>7. ASSUME NEW p \in Processes, acquireInvocationSlot(p) \/ waitForSlot(p)
               \/ slotTimedOut(p) \/ slotCancelled(p) \/ finishInvocation(p)
      PROVE  FileInv'
  BY <1>7, <1>t
  DEF acquireInvocationSlot, Go, MayInvoke, waitForSlot, slotTimedOut, SlotRefused, slotCancelled,
     finishInvocation
<1>8. ASSUME NEW p \in Processes, readOwnLock(p) PROVE FileInv'
  <2>1. LockOf(p) # None /\ LockOf(p).owner = p => LockOf(p) = [owner |-> p, written |-> TRUE]
    BY <1>8, OwnRecord DEF readOwnLock, WrittenInv
  <2> QED BY <1>8, <1>t, <2>1 DEF readOwnLock, Go
<1>9. ASSUME NEW p \in Processes, removeOwnLock(p) PROVE FileInv'
  BY <1>9, <1>t DEF removeOwnLock, Go, SetLock
<1>10. ASSUME NEW p \in Processes, persistRunState(p) PROVE FileInv'
  BY <1>10, <1>t DEF persistRunState, Go
<1>11. ASSUME NEW p \in Processes, crash(p) PROVE FileInv'
  BY <1>11, <1>t DEF crash, Go
<1>12. CASE UNCHANGED lockVars
  BY <1>12 DEF lockVars
<1> QED
  BY <1>1, <1>2, <1>3, <1>4, <1>5, <1>6, <1>7, <1>8, <1>9, <1>10, <1>11, <1>12
  DEF LockNext, Work

\* A resumer reads a lock that is stale, or finds none, when whoever started the
\* run is over.
LEMMA ResumeStep ==
    LockTypeOK /\ OwningInv /\ ResumeInv /\ [LockNext]_lockVars => ResumeInv'
<1> SUFFICES ASSUME LockTypeOK, OwningInv, ResumeInv, [LockNext]_lockVars PROVE ResumeInv'
  OBVIOUS
<1> USE RunOfAssumption, RolesAssumption, NoneAssumption
    DEF LockTypeOK, files, slot, Holding, Entered, ResumeInv
<1>1. ASSUME NEW p \in Processes, findNoLock(p) \/ findStaleLock(p) PROVE ResumeInv'
  <2>1. /\ pc[p] = "out" /\ MayAcquire(p) /\ UNCHANGED resumable
        /\ LockOf(p) = None \/ ~ Held(LockOf(p))
        /\ \E step \in {"clear", "stale"} : pc' = [pc EXCEPT ![p] = step]
        /\ pc'[p] = "stale" => p \in Resumers
    BY <1>1 DEF findNoLock, findStaleLock, Go
  <2>2. CASE p \in Resumers
    <3>1. ASSUME NEW q \in Processes \ Resumers, RunOf[p] = RunOf[q]
          PROVE  pc[q] \in {"done", "dead"}
      <4>1. pc[q] \in Holding \cup {"done", "dead"}
        BY <2>1, <2>2, <3>1 DEF MayAcquire
      <4>2. ASSUME pc[q] \in Holding PROVE FALSE
        <5>1. LockOf(q) # None /\ LockOf(q).owner = q /\ LockOf(q).written
          BY <4>2 DEF OwningInv, Owning
        <5> QED BY <2>1, <3>1, <4>2, <5>1 DEF LockOf, Held, processAlive
      <4> QED BY <4>1, <4>2
    <3>2. RunOf[p] \in resumable
      BY <2>1, <2>2 DEF MayAcquire
    <3> QED BY <2>1, <2>2, <3>1, <3>2
  <2>3. CASE p \notin Resumers
    BY <2>1, <2>3
  <2> QED BY <2>2, <2>3
<1>2. ASSUME NEW p \in Processes, refused(p) PROVE ResumeInv'
  BY <1>2 DEF refused, Go, MayAcquire
<1>3. ASSUME NEW p \in Processes, removeStale(p) PROVE ResumeInv'
  BY <1>3 DEF removeStale, Go
<1>4. ASSUME NEW p \in Processes, createExclusive(p) PROVE ResumeInv'
  BY <1>4 DEF createExclusive, Go
<1>5. ASSUME NEW p \in Processes, writeRecord(p) PROVE ResumeInv'
  BY <1>5 DEF writeRecord, Go
<1>6. ASSUME NEW p \in Processes, writeRecordFails(p) PROVE ResumeInv'
  BY <1>6 DEF writeRecordFails, Go
<1>7. ASSUME NEW p \in Processes, acquireInvocationSlot(p) \/ waitForSlot(p)
               \/ slotTimedOut(p) \/ slotCancelled(p) \/ finishInvocation(p)
      PROVE  ResumeInv'
  BY <1>7
  DEF acquireInvocationSlot, Go, MayInvoke, waitForSlot, slotTimedOut, SlotRefused, slotCancelled,
     finishInvocation
<1>8. ASSUME NEW p \in Processes, readOwnLock(p) PROVE ResumeInv'
  BY <1>8 DEF readOwnLock, Go
<1>9. ASSUME NEW p \in Processes, removeOwnLock(p) PROVE ResumeInv'
  BY <1>9 DEF removeOwnLock, Go
<1>10. ASSUME NEW p \in Processes, persistRunState(p) PROVE ResumeInv'
  <2>1. /\ pc[p] = "locked" /\ RunOf[p] \notin resumable
        /\ resumable' = resumable \cup {RunOf[p]} /\ pc' = pc
    BY <1>10 DEF persistRunState
  <2>2. p \notin Resumers
    BY <2>1
  <2>3. ASSUME NEW r \in Resumers, NEW q \in Processes \ Resumers,
             RunOf[r] = RunOf[p], RunOf[q] = RunOf[p]
        PROVE  q = p
    BY <2>2, <2>3, StartersAssumption
  <2> QED BY <2>1, <2>3
<1>11. ASSUME NEW p \in Processes, crash(p) PROVE ResumeInv'
  BY <1>11 DEF crash, Go
<1>12. CASE UNCHANGED lockVars
  BY <1>12 DEF lockVars
<1> QED
  BY <1>1, <1>2, <1>3, <1>4, <1>5, <1>6, <1>7, <1>8, <1>9, <1>10, <1>11, <1>12
  DEF LockNext, Work

\* A resumer that gets past reading the lock races with all that are there.
LEMMA RaceStep == LockTypeOK /\ RaceInv /\ [LockNext]_lockVars => RaceInv'
<1> SUFFICES ASSUME LockTypeOK, RaceInv, [LockNext]_lockVars,
                    NEW s \in Resumers, NEW q \in Resumers, s # q, RunOf[s] = RunOf[q],
                    pc'[s] \in Entered, pc'[q] \in Entered
             PROVE  {s, q} \subseteq raced'
  BY DEF RaceInv
<1>i. pc[s] \in Entered /\ pc[q] \in Entered => {s, q} \subseteq raced
  BY DEF RaceInv
<1> USE RunOfAssumption, RolesAssumption DEF LockTypeOK, files, slot, Holding, Entered
<1>1. ASSUME NEW p \in Processes, findNoLock(p) \/ findStaleLock(p)
      PROVE  {s, q} \subseteq raced'
  <2>1. /\ Race(p) /\ \A r \in Processes : r # p => pc'[r] = pc[r]
        /\ pc[p] = "out"
    BY <1>1 DEF findNoLock, findStaleLock, Go
  <2>2. CASE p \notin {s, q}
    BY <1>i, <2>1, <2>2 DEF Race
  <2>3. ASSUME NEW r \in {s, q}, p \in {s, q}, r # p PROVE {p, r} \subseteq raced'
    <3>1. r \in Rivals(p)
      BY <2>1, <2>3 DEF Rivals
    <3> QED BY <2>1, <3>1 DEF Race
  <2> QED BY <2>2, <2>3
<1>2. ASSUME NEW p \in Processes, refused(p) PROVE {s, q} \subseteq raced'
  BY <1>2, <1>i DEF refused, Go
<1>3. ASSUME NEW p \in Processes, removeStale(p) PROVE {s, q} \subseteq raced'
  BY <1>3, <1>i DEF removeStale, Go
<1>4. ASSUME NEW p \in Processes, createExclusive(p) PROVE {s, q} \subseteq raced'
  BY <1>4, <1>i DEF createExclusive, Go
<1>5. ASSUME NEW p \in Processes, writeRecord(p) PROVE {s, q} \subseteq raced'
  BY <1>5, <1>i DEF writeRecord, Go
<1>6. ASSUME NEW p \in Processes, writeRecordFails(p) PROVE {s, q} \subseteq raced'
  BY <1>6, <1>i DEF writeRecordFails, Go
<1>7. ASSUME NEW p \in Processes, acquireInvocationSlot(p) \/ waitForSlot(p)
               \/ slotTimedOut(p) \/ slotCancelled(p) \/ finishInvocation(p)
      PROVE  {s, q} \subseteq raced'
  BY <1>7, <1>i
  DEF acquireInvocationSlot, Go, MayInvoke, waitForSlot, slotTimedOut, SlotRefused, slotCancelled,
     finishInvocation
<1>8. ASSUME NEW p \in Processes, readOwnLock(p) \/ removeOwnLock(p)
      PROVE  {s, q} \subseteq raced'
  BY <1>8, <1>i DEF readOwnLock, removeOwnLock, Go
<1>9. ASSUME NEW p \in Processes, persistRunState(p) \/ crash(p)
      PROVE  {s, q} \subseteq raced'
  BY <1>9, <1>i DEF persistRunState, crash, Go
<1>10. CASE UNCHANGED lockVars
  BY <1>10, <1>i DEF lockVars
<1> QED
  BY <1>1, <1>2, <1>3, <1>4, <1>5, <1>6, <1>7, <1>8, <1>9, <1>10 DEF LockNext, Work

\* No step of another process touches the lock of a process that holds it and did
\* not race.
LEMMA UnlockStep ==
    ASSUME LockTypeOK, OwningInv, ResumeInv, RaceInv, [LockNext]_lockVars,
           NEW q \in Processes \ raced, pc[q] \in Holding, pc'[q] \in Holding
    PROVE  lockFile'[RunOf[q]] = lockFile[RunOf[q]]
<1> USE RunOfAssumption, RolesAssumption DEF files, slot, LockOf, Owning, Holding
<1>s. /\ \A p \in Processes : RunOf[p] = RunOf[q] /\ pc[p] \in Owning \cup {"stale"} => p = q
      /\ LockOf(q) # None /\ pc \in [Processes -> Steps] /\ RunOf[q] \in Runs
      /\ lockFile \in [Runs -> RunLockRecord \cup {None}]
  BY NotBoth DEF OwningInv, LockTypeOK
<1>1. ASSUME NEW p \in Processes, findNoLock(p) \/ findStaleLock(p) \/ refused(p)
               \/ readOwnLock(p) \/ persistRunState(p)
      PROVE  lockFile'[RunOf[q]] = lockFile[RunOf[q]]
  BY <1>1, <1>s DEF findNoLock, Go, findStaleLock, refused, readOwnLock, persistRunState
<1>2. ASSUME NEW p \in Processes, removeStale(p) PROVE lockFile'[RunOf[q]] = lockFile[RunOf[q]]
  BY <1>2, <1>s DEF removeStale, Go, SetLock
<1>3. ASSUME NEW p \in Processes, createExclusive(p)
      PROVE  lockFile'[RunOf[q]] = lockFile[RunOf[q]]
  BY <1>3, <1>s DEF createExclusive, Go, SetLock
<1>4. ASSUME NEW p \in Processes, writeRecord(p) PROVE lockFile'[RunOf[q]] = lockFile[RunOf[q]]
  BY <1>4, <1>s DEF writeRecord, Go, SetLock
<1>5. ASSUME NEW p \in Processes, writeRecordFails(p)
      PROVE  lockFile'[RunOf[q]] = lockFile[RunOf[q]]
  BY <1>5, <1>s DEF writeRecordFails, Go, SetLock
<1>6. ASSUME NEW p \in Processes, acquireInvocationSlot(p) \/ waitForSlot(p)
               \/ slotTimedOut(p) \/ slotCancelled(p) \/ finishInvocation(p)
      PROVE  lockFile'[RunOf[q]] = lockFile[RunOf[q]]
  BY <1>6, <1>s
  DEF acquireInvocationSlot, Go, MayInvoke, waitForSlot, slotTimedOut, SlotRefused, slotCancelled,
     finishInvocation
<1>7. ASSUME NEW p \in Processes, removeOwnLock(p)
      PROVE  lockFile'[RunOf[q]] = lockFile[RunOf[q]]
  BY <1>7, <1>s DEF removeOwnLock, Go, SetLock
<1>8. ASSUME NEW p \in Processes, crash(p) PROVE lockFile'[RunOf[q]] = lockFile[RunOf[q]]
  BY <1>8, <1>s DEF crash, Go
<1>9. CASE UNCHANGED lockVars
  BY <1>9 DEF lockVars
<1> QED
  BY <1>1, <1>2, <1>3, <1>4, <1>5, <1>6, <1>7, <1>8, <1>9
  DEF LockNext, Work

LEMMA Initially ==
    LockInit => /\ LockTypeOK /\ WaitInv /\ OwningInv /\ WrittenInv
                /\ FileInv /\ ResumeInv /\ RaceInv
<1> SUFFICES ASSUME LockInit
             PROVE  /\ LockTypeOK /\ WaitInv /\ OwningInv /\ WrittenInv
                    /\ FileInv /\ ResumeInv /\ RaceInv
  OBVIOUS
<1>1. LockTypeOK
  BY BoundsAssumption DEF LockInit, LockTypeOK, Steps
<1>2. WaitInv /\ OwningInv /\ WrittenInv /\ FileInv
  BY RunOfAssumption
  DEF LockInit, WaitInv, OwningInv, WrittenInv, FileInv, Owning, Holding, LockOf
<1>3. ResumeInv /\ RaceInv
  BY RunOfAssumption, RolesAssumption DEF LockInit, ResumeInv, RaceInv, Entered, Holding
<1> QED BY <1>1, <1>2, <1>3

LockInv ==
    LockTypeOK /\ WaitInv /\ OwningInv /\ WrittenInv /\ FileInv /\ ResumeInv /\ RaceInv

LEMMA Invariant == LockSpec => []LockInv
<1>1. LockInv /\ [LockNext]_lockVars => LockInv'
  BY TypeStep, OwningStep, WrittenStep, FileStep, ResumeStep, RaceStep DEF LockInv
<1>2. LockInit => LockInv
  BY Initially DEF LockInv
<1> QED BY <1>1, <1>2, PTL DEF LockSpec

-----------------------------------------------------------------------------
(* The lock implements RunOwnership *)

\* What the owners are after a lock was set, and the workers after a process moved.
LEMMA OwnerSet ==
    ASSUME LockTypeOK, NEW p \in Processes, NEW x \in RunLockRecord \cup {None}, SetLock(p, x)
    PROVE  lockOwner' = [lockOwner EXCEPT ![RunOf[p]] = IF x # None /\ x.written
                                                        THEN x.owner
                                                        ELSE None]
<1>1. /\ lockFile'[RunOf[p]] = x
      /\ \A r \in Runs : r # RunOf[p] => lockFile'[r] = lockFile[r]
  BY SetFacts
<1> QED BY <1>1, RunOfAssumption DEF lockOwner

LEMMA WorkersMove ==
    ASSUME LockTypeOK, NEW p \in Processes, NEW step, Go(p, step)
    PROVE  lockWorkers' = IF step \in Holding THEN lockWorkers \cup {p} ELSE lockWorkers \ {p}
  BY DEF LockTypeOK, Go, lockWorkers

LEMMA OwnerKept == UNCHANGED lockFile => UNCHANGED lockOwner
  BY DEF lockOwner

LEMMA WorkersKept ==
    ASSUME LockTypeOK, NEW p \in Processes, NEW step, Go(p, step),
           (step \in Holding) = (pc[p] \in Holding)
    PROVE  UNCHANGED lockWorkers
  BY DEF LockTypeOK, Go, lockWorkers

\* A process that is past creating the lock, or about to remove it, disturbs
\* nobody's work but that of resumers it raced.
LEMMA NobodyDisturbed ==
    ASSUME LockTypeOK, OwningInv, ResumeInv, RaceInv, NEW p \in Processes,
           pc[p] \in Owning \cup {"stale"}
    PROVE  Ownership!Protected(p) = {}
  BY NotBoth DEF Ownership!Protected, lockWorkers, Owning

\* A resumer gets past reading a lock only if nobody has it on record.
LEMMA NobodySurprised ==
    ASSUME LockTypeOK, OwningInv, NEW p \in Processes, NEW q \in Rivals(p),
           LockOf(p) = None \/ ~ Held(LockOf(p)), q \in lockWorkers
    PROVE  q \in raced
<1>1. q \in Processes /\ RunOf[q] = RunOf[p] /\ pc[q] \in Holding
  BY RolesAssumption DEF Rivals, lockWorkers
<1>2. LockOf(q) = LockOf(p) /\ pc[q] # "dead"
  BY <1>1 DEF LockOf, Holding
<1> QED BY <1>1, <1>2 DEF OwningInv, Owning, Held, processAlive

\* Every step on the files is a step of RunOwnership, or changes nothing there.
LEMMA StepOwns == LockInv /\ [LockNext]_lockVars => [Ownership!Next]_(Ownership!vars)
<1> SUFFICES ASSUME LockInv, [LockNext]_lockVars
             PROVE  \/ UNCHANGED <<lockOwner, lockWorkers, raced>>
                    \/ Ownership!Next
  BY DEF Ownership!vars
<1> DEFINE Owns(p) == \/ UNCHANGED <<lockOwner, lockWorkers, raced>>
                      \/ Ownership!Take(p) \/ Ownership!Join(p) \/ Ownership!Release(p)
                      \/ Ownership!Leave(p) \/ Ownership!Die(p) \/ Ownership!Reclaim(p)
                      \/ \E q \in Processes : Ownership!Contend(p, q)
<1>i. LockTypeOK /\ OwningInv /\ WrittenInv /\ FileInv /\ ResumeInv /\ RaceInv
  BY DEF LockInv
<1>r. \A p \in Processes : RunOf[p] \in Runs
  BY RunOfAssumption
<1>c. \A p \in Processes : lockOwner[RunOf[p]] = IF LockOf(p) # None /\ LockOf(p).written
                                                THEN LockOf(p).owner
                                                ELSE None
  BY <1>r DEF lockOwner, LockOf
<1>p. \A p \in Processes :
         pc[p] \in Owning \cup {"stale"} => Ownership!Protected(p) = {}
  BY <1>i, NobodyDisturbed
<1> USE DEF files, slot, Holding
<1>1. ASSUME NEW p \in Processes, findNoLock(p) \/ findStaleLock(p) PROVE Owns(p)
  <2>1. /\ pc[p] \notin Holding /\ UNCHANGED lockFile /\ Race(p)
        /\ LockOf(p) = None \/ ~ Held(LockOf(p))
        /\ \E step \in {"clear", "stale"} : Go(p, step)
    BY <1>1 DEF findNoLock, findStaleLock
  <2>2. UNCHANGED <<lockOwner, lockWorkers>>
    BY <1>i, <2>1, OwnerKept, WorkersKept
  <2>3. CASE Rivals(p) = {}
    BY <2>1, <2>2, <2>3 DEF Race
  <2>4. CASE Rivals(p) # {}
    <3>1. PICK q \in Rivals(p) : TRUE
      BY <2>4
    <3>2. {p, q} \subseteq Resumers /\ p # q /\ RunOf[p] = RunOf[q] /\ q \in Processes
      BY <3>1, RolesAssumption DEF Rivals
    <3>3. \A r \in Rivals(p) : r # q => r \in raced
      BY <1>i, <3>1 DEF RaceInv, Rivals
    <3>4. raced' = raced \cup {p, q}
      BY <2>1, <3>1, <3>3 DEF Race
    <3>5. p \notin lockWorkers /\ (q \in lockWorkers => q \in raced)
      BY <1>i, <2>1, <3>1, NobodySurprised DEF lockWorkers
    <3> QED BY <2>2, <3>2, <3>4, <3>5 DEF Ownership!Contend
  <2> QED BY <2>3, <2>4
<1>2. ASSUME NEW p \in Processes, refused(p) PROVE Owns(p)
  <2>1. pc[p] \notin Holding /\ UNCHANGED <<lockFile, raced>> /\ Go(p, "done")
    BY <1>2 DEF refused
  <2> QED BY <1>i, <2>1, OwnerKept, WorkersKept
<1>3. ASSUME NEW p \in Processes, removeStale(p) PROVE Owns(p)
  <2>1. pc[p] = "stale" /\ SetLock(p, None) /\ Go(p, "clear") /\ UNCHANGED raced
    BY <1>3 DEF removeStale
  <2>2. UNCHANGED lockWorkers
    BY <1>i, <2>1, WorkersKept
  <2>3. lockOwner' = [lockOwner EXCEPT ![RunOf[p]] = None]
    BY <1>i, <2>1, OwnerSet
  <2>4. p \in Resumers
    BY <1>i, <2>1 DEF ResumeInv
  <2> QED BY <1>p, <2>1, <2>2, <2>3, <2>4 DEF Ownership!Reclaim, Ownership!Give, lockWorkers
<1>4. ASSUME NEW p \in Processes, createExclusive(p) PROVE Owns(p)
  <2> DEFINE mine == [owner |-> p, written |-> FALSE]
  <2>1. pc[p] = "clear" /\ UNCHANGED raced
    BY <1>4 DEF createExclusive
  <2>2. CASE LockOf(p) = None
    <3>1. mine \in RunLockRecord /\ ~ mine.written
      BY RecordFacts
    <3>2. SetLock(p, mine) /\ Go(p, "created")
      BY <1>4, <2>2 DEF createExclusive
    <3> HIDE DEF mine
    <3>3. lockOwner' = [lockOwner EXCEPT ![RunOf[p]] = None]
      BY <1>i, <3>1, <3>2, OwnerSet
    <3>4. UNCHANGED lockOwner
      BY <2>2, <3>3, <1>c DEF lockOwner
    <3> QED BY <1>i, <2>1, <3>2, <3>4, WorkersKept
  <2>3. CASE LockOf(p) # None
    <3>1. Go(p, "done") /\ UNCHANGED lockFile
      BY <1>4, <2>3 DEF createExclusive
    <3> QED BY <1>i, <2>1, <3>1, OwnerKept, WorkersKept
  <2> QED BY <2>2, <2>3
<1>5. ASSUME NEW p \in Processes, writeRecord(p) PROVE Owns(p)
  <2> DEFINE mine == [owner |-> p, written |-> TRUE]
  <2>1. pc[p] = "created" /\ Go(p, "locked") /\ UNCHANGED raced
    BY <1>5 DEF writeRecord
  <2>2. lockWorkers' = lockWorkers \cup {p}
    BY <1>i, <2>1, WorkersMove
  <2>3. Ownership!Protected(p) = {}
    BY <1>p, <2>1 DEF Owning
  <2>4. CASE LockOf(p) # None /\ LockOf(p).owner = p
    <3>1. SetLock(p, mine)
      BY <1>5, <2>4 DEF writeRecord
    <3>2. mine \in RunLockRecord /\ mine # None /\ mine.owner = p /\ mine.written
      BY RecordFacts
    <3> HIDE DEF mine
    <3>3. lockOwner' = [lockOwner EXCEPT ![RunOf[p]] = p]
      BY <1>i, <3>1, <3>2, OwnerSet
    <3>4. lockOwner[RunOf[p]] = None
      BY <1>i, <1>c, <2>1, <2>4 DEF WrittenInv
    <3> QED BY <2>1, <2>2, <2>3, <3>3, <3>4
            DEF Ownership!Take, Ownership!Give, Ownership!OwnerOf
  <2>5. CASE ~ (LockOf(p) # None /\ LockOf(p).owner = p)
    <3>1. p \in raced
      BY <1>i, <2>1, <2>5 DEF OwningInv, Owning
    <3>2. UNCHANGED lockOwner
      BY <1>5, <2>5, OwnerKept DEF writeRecord
    <3> QED BY <2>1, <2>2, <2>3, <3>1, <3>2 DEF Ownership!Join
  <2> QED BY <2>4, <2>5
<1>6. ASSUME NEW p \in Processes, writeRecordFails(p) PROVE Owns(p)
  <2>1. pc[p] = "created" /\ SetLock(p, None) /\ Go(p, "done") /\ UNCHANGED raced
    BY <1>6 DEF writeRecordFails
  <2>2. lockOwner' = [lockOwner EXCEPT ![RunOf[p]] = None]
    BY <1>i, <2>1, OwnerSet
  <2>3. UNCHANGED lockWorkers
    BY <1>i, <2>1, WorkersKept
  <2>4. CASE p \in Resumers
    BY <1>p, <2>1, <2>2, <2>3, <2>4 DEF Ownership!Reclaim, Ownership!Give, Owning, lockWorkers
  <2>5. CASE p \notin Resumers
    <3>1. LockOf(p) # None /\ LockOf(p).owner = p
      BY <1>i, <2>1, <2>5 DEF OwningInv, Owning, LockTypeOK
    <3>2. lockOwner[RunOf[p]] = None
      BY <1>i, <1>c, <2>1, <3>1 DEF WrittenInv
    <3>3. UNCHANGED lockOwner
      BY <2>2, <3>2 DEF lockOwner
    <3> QED BY <2>1, <2>3, <3>3
  <2> QED BY <2>4, <2>5
<1>7. ASSUME NEW p \in Processes, persistRunState(p) PROVE Owns(p)
  BY <1>7 DEF persistRunState, lockOwner, lockWorkers
<1>8. ASSUME NEW p \in Processes, acquireInvocationSlot(p) \/ waitForSlot(p)
               \/ slotTimedOut(p) \/ slotCancelled(p) \/ finishInvocation(p)
      PROVE  Owns(p)
  <2>1. /\ pc[p] \in Holding /\ UNCHANGED <<lockFile, raced>>
        /\ \E step \in Holding : Go(p, step)
    BY <1>8
    DEF acquireInvocationSlot, MayInvoke, waitForSlot, slotTimedOut, SlotRefused, slotCancelled,
       finishInvocation
  <2> QED BY <1>i, <2>1, OwnerKept, WorkersKept
<1>9. ASSUME NEW p \in Processes, readOwnLock(p) PROVE Owns(p)
  <2>1. pc[p] \in Holding /\ UNCHANGED <<lockFile, raced>>
    BY <1>9 DEF readOwnLock
  <2>2. UNCHANGED lockOwner
    BY <2>1, OwnerKept
  <2>3. CASE Go(p, "releasing")
    BY <1>i, <2>1, <2>2, <2>3, WorkersKept
  <2>4. CASE Go(p, "done") /\ LockOf(p) # [owner |-> p, written |-> TRUE]
    <3>1. p \in raced
      BY <1>i, <2>1, <2>4, OwnRecord DEF OwningInv, Owning
    <3>2. lockWorkers' = lockWorkers \ {p} /\ p \in lockWorkers
      BY <1>i, <2>1, <2>4, WorkersMove DEF lockWorkers
    <3> QED BY <2>1, <2>2, <3>1, <3>2 DEF Ownership!Leave
  <2> QED BY <1>9, <2>3, <2>4 DEF readOwnLock
<1>10. ASSUME NEW p \in Processes, removeOwnLock(p) PROVE Owns(p)
  <2>1. pc[p] = "releasing" /\ SetLock(p, None) /\ Go(p, "done") /\ UNCHANGED raced
    BY <1>10 DEF removeOwnLock
  <2>2. lockOwner' = [lockOwner EXCEPT ![RunOf[p]] = None]
    BY <1>i, <2>1, OwnerSet
  <2>3. lockWorkers' = lockWorkers \ {p} /\ p \in lockWorkers
    BY <1>i, <2>1, WorkersMove DEF lockWorkers
  <2>4. lockOwner[RunOf[p]] = p \/ p \in raced
    BY <1>i, <1>c, <2>1 DEF OwningInv, Owning
  <2>5. Ownership!Protected(p) = {}
    BY <1>p, <2>1 DEF Owning
  <2> QED BY <2>1, <2>2, <2>3, <2>4, <2>5
          DEF Ownership!Release, Ownership!Give, Ownership!OwnerOf
<1>11. ASSUME NEW p \in Processes, crash(p) PROVE Owns(p)
  <2>1. UNCHANGED <<lockFile, raced>> /\ Go(p, "dead")
    BY <1>11 DEF crash
  <2>2. lockWorkers' = lockWorkers \ {p} /\ UNCHANGED lockOwner
    BY <1>i, <2>1, WorkersMove, OwnerKept
  <2>3. CASE p \in lockWorkers
    BY <2>1, <2>2, <2>3 DEF Ownership!Die
  <2>4. CASE p \notin lockWorkers
    BY <2>1, <2>2, <2>4
  <2> QED BY <2>3, <2>4
<1>12. CASE UNCHANGED lockVars
  BY <1>12 DEF lockVars, lockOwner, lockWorkers
<1> QED
  <2>1. CASE LockNext
    <3>1. PICK p \in Processes : Owns(p)
      BY <2>1, <1>1, <1>2, <1>3, <1>4, <1>5, <1>6, <1>7, <1>8, <1>9, <1>10, <1>11
      DEF LockNext, Work
    <3> QED BY <3>1 DEF Ownership!Next
  <2> QED BY <2>1, <1>12

\* What the promise is worth: whoever works owns its directory, alone, unless it
\* raced.
LEMMA OwnersAlone == Ownership!Spec => []Ownership!OwnersWork
<1> DEFINE Typed == /\ lockOwner \in [Runs -> Processes \cup {None}]
                    /\ lockWorkers \subseteq Processes
                    /\ raced \subseteq Resumers
           Inv == Typed /\ Ownership!OwnersWork
<1>1. Ownership!Init => Inv
  BY DEF Ownership!Init, Ownership!OwnersWork
<1>2. Inv /\ [Ownership!Next]_(Ownership!vars) => Inv'
  <2> SUFFICES ASSUME Inv, [Ownership!Next]_(Ownership!vars) PROVE Inv'
    OBVIOUS
  <2> USE RunOfAssumption, RolesAssumption, NoneAssumption
      DEF Ownership!Give, Ownership!OwnersWork, Ownership!OwnerOf, Ownership!Protected
  <2>1. ASSUME NEW p \in Processes, Ownership!Take(p) PROVE Inv'
    BY <2>1 DEF Ownership!Take
  <2>2. ASSUME NEW p \in Processes, Ownership!Join(p) PROVE Inv'
    BY <2>2 DEF Ownership!Join
  <2>3. ASSUME NEW p \in Processes, Ownership!Release(p) PROVE Inv'
    BY <2>3 DEF Ownership!Release
  <2>4. ASSUME NEW p \in Processes, Ownership!Leave(p) PROVE Inv'
    BY <2>4 DEF Ownership!Leave
  <2>5. ASSUME NEW p \in Processes, Ownership!Die(p) PROVE Inv'
    BY <2>5 DEF Ownership!Die
  <2>6. ASSUME NEW p \in Processes, Ownership!Reclaim(p) PROVE Inv'
    BY <2>6 DEF Ownership!Reclaim
  <2>7. ASSUME NEW p \in Processes, NEW q \in Processes, Ownership!Contend(p, q) PROVE Inv'
    BY <2>7 DEF Ownership!Contend
  <2>8. CASE UNCHANGED <<lockOwner, lockWorkers, raced>>
    BY <2>8
  <2> QED
    BY <2>1, <2>2, <2>3, <2>4, <2>5, <2>6, <2>7, <2>8 DEF Ownership!Next, Ownership!vars
<1>3. Inv => Ownership!OwnersWork
  OBVIOUS
<1> HIDE DEF Inv
<1> QED BY <1>1, <1>2, <1>3, PTL DEF Ownership!Spec

-----------------------------------------------------------------------------
(* Theorems *)

\* Every variable keeps its type, whoever starts and resumes.
THEOREM TypeCorrect == LockSpec => []LockTypeOK
  BY TypeStep, Initially, PTL DEF LockSpec

\* The files of run.lock implement RunOwnership: through every interleaving and
\* crash a directory is taken when it is free, given up by its owner, and
\* reclaimed by a resumer from the dead only (run_lock.go); only resumers that
\* raced each other to a stale lock work there together.
THEOREM Owned == LockSpec => ImplementsOwnership
<1>1. LockInit => Ownership!Init
  BY DEF LockInit, Ownership!Init, lockOwner, lockWorkers, Holding
<1> QED
  BY <1>1, Invariant, StepOwns, PTL DEF LockSpec, ImplementsOwnership, Ownership!Spec

\* Two live processes are both past acquireRunLock on one directory
\* (resume.go:97-98) only if they are resumers that raced each other to it.
THEOREM Exclusion == LockSpec => []ExclusiveUnlessRaced
<1>1. Ownership!OwnersWork => ExclusiveUnlessRaced
  BY DEF Ownership!OwnersWork, ExclusiveUnlessRaced, lockWorkers
<1> QED BY <1>1, Owned, OwnersAlone, PTL DEF ImplementsOwnership

\* While a process works on a run, run.lock carries its pid, unless it raced.
THEOREM OnRecord == LockSpec => []OnRecordUnlessRaced
<1>1. LockInv => OnRecordUnlessRaced
  BY OwnRecord DEF LockInv, OwningInv, Owning, OnRecordUnlessRaced
<1> QED BY <1>1, Invariant, PTL

\* A process that has ended normally leaves no run.lock of its own behind.
THEOREM NothingLeftBehind == LockSpec => []NoLockLeftBehind
<1>1. LockInv => NoLockLeftBehind
  BY RunOfAssumption DEF LockInv, FileInv, NoLockLeftBehind, Owning, Holding, LockOf
<1> QED BY <1>1, Invariant, PTL

\* The run.lock of a process that works on a run, and did not race, is removed by
\* that process only.
THEOREM OwnersUnlock == LockSpec => OnlyOwnersUnlock
<1>1. LockInv /\ [LockNext]_lockVars
      => [\A p \in Processes \ raced :
            pc[p] \in Holding /\ pc'[p] \in Holding => UNCHANGED lockFile[RunOf[p]]]_lockVars
  BY UnlockStep DEF LockInv
<1> QED BY <1>1, Invariant, PTL DEF LockSpec, OnlyOwnersUnlock

-----------------------------------------------------------------------------
(* The panel ledger: sums over panels *)

Pick(s) == CHOOSE p \in s : TRUE
Shares == [Panels -> Int]
\* The function that adds the shares of every set of panels, panel by panel.
Adds(share, g) ==
    g = [s \in SUBSET Panels |-> IF s = {} THEN 0 ELSE share[Pick(s)] + g[s \ {Pick(s)}]]
AddsUpTo(share, g, n) ==
    /\ g \in [SUBSET Panels -> Int]
    /\ \A s \in SUBSET Panels : Cardinality(s) <= n =>
          g[s] = IF s = {} THEN 0 ELSE share[Pick(s)] + g[s \ {Pick(s)}]

\* What such a function says, set by set.
AddsByPick(share, g) ==
    /\ g[{}] = 0
    /\ \A s \in SUBSET Panels : s # {} => g[s] = share[Pick(s)] + g[s \ {Pick(s)}]

LEMMA PickFacts ==
    ASSUME NEW s \in SUBSET Panels, s # {}
    PROVE  /\ Pick(s) \in s /\ Pick(s) \in Panels /\ s \ {Pick(s)} \in SUBSET Panels
           /\ Cardinality(s) \in Nat /\ Cardinality(s) > 0
           /\ Cardinality(s \ {Pick(s)}) = Cardinality(s) - 1
<1>1. Pick(s) \in s
  BY DEF Pick
<1>2. IsFiniteSet(s)
  BY PanelsAssumption, FS_Subset
<1>3. Cardinality(s) \in Nat /\ Cardinality(s) # 0
  BY <1>2, FS_CardinalityType, FS_EmptySet
<1>4. Cardinality(s \ {Pick(s)}) = Cardinality(s) - 1
  BY <1>1, <1>2, FS_RemoveElement
<1> QED BY <1>1, <1>3, <1>4

LEMMA SmallestNat ==
    ASSUME NEW T \in SUBSET Nat, T # {}
    PROVE  \E x \in T : \A n \in T : x <= n
<1>1. \E x \in T : \A y \in T : ~ (<<y, x>> \in OpToRel(<, Nat))
  BY NatLessThanWellFounded, WFMin
<1>2. PICK x \in T : \A y \in T : ~ (<<y, x>> \in OpToRel(<, Nat))
  BY <1>1
<1>3. ASSUME NEW y \in T PROVE x <= y
  <2>1. <<y, x>> \in Nat \X Nat /\ ~ (y < x)
    BY <1>2 DEF OpToRel
  <2> QED BY <2>1
<1> QED BY <1>3

\* What holds of every set of panels if it holds of each that it holds of without
\* the panel picked first: a smallest counterexample has no first panel.
LEMMA SmallestFacts ==
    ASSUME NEW Bad \in SUBSET (SUBSET Panels), Bad # {}
    PROVE  \E s \in Bad : s = {} \/ s \ {Pick(s)} \notin Bad
<1> DEFINE sizes == {Cardinality(s) : s \in Bad}
<1>1. ASSUME NEW s \in Bad PROVE Cardinality(s) \in Nat
  BY PanelsAssumption, FS_Subset, FS_CardinalityType
<1>2. sizes \subseteq Nat /\ sizes # {}
  BY <1>1
<1>3. PICK n \in sizes : \A m \in sizes : n <= m
  <2> HIDE DEF sizes
  <2> QED BY <1>2, SmallestNat
<1>4. PICK s \in Bad : Cardinality(s) = n
  BY <1>3
<1>5. ASSUME s # {}, s \ {Pick(s)} \in Bad PROVE FALSE
  <2>1. Cardinality(s \ {Pick(s)}) = n - 1 /\ n \in Nat
    BY <1>4, <1>5, PickFacts
  <2>2. n - 1 \in sizes
    BY <1>5, <2>1
  <2> QED BY <1>3, <2>1, <2>2
<1> QED BY <1>4, <1>5

LEMMA AddsExists ==
    ASSUME NEW share \in Shares
    PROVE  \E g : Adds(share, g)
<1> DEFINE bad == {n \in Nat : ~ \E g : AddsUpTo(share, g, n)}
<1>1. bad = {}
  <2> SUFFICES ASSUME bad # {} PROVE FALSE
    OBVIOUS
  <2>1. PICK n \in bad : \A m \in bad : n <= m
    <3>1. bad \in SUBSET Nat
      OBVIOUS
    <3> HIDE DEF bad
    <3> QED BY <3>1, SmallestNat
  <2>2. n # 0
    <3> DEFINE g == [s \in SUBSET Panels |-> 0]
    <3>1. ASSUME NEW s \in SUBSET Panels, Cardinality(s) <= 0, s # {} PROVE FALSE
      <4>1. Cardinality(s) \in Nat /\ Cardinality(s) > 0
        BY <3>1, PickFacts
      <4> QED BY <3>1, <4>1
    <3>2. g \in [SUBSET Panels -> Int] /\ \A s \in SUBSET Panels : g[s] = 0
      OBVIOUS
    <3> HIDE DEF g
    <3>3. AddsUpTo(share, g, 0)
      BY <3>1, <3>2 DEF AddsUpTo
    <3> QED BY <3>3
  <2>3. n \in Nat /\ n - 1 \in Nat /\ ~ (n <= n - 1)
    BY <2>2
  <2>4. n - 1 \notin bad
    BY <2>1, <2>3
  <2>5. PICK g : AddsUpTo(share, g, n - 1)
    BY <2>3, <2>4
  <2> DEFINE h == [s \in SUBSET Panels |->
                     IF s = {} THEN 0 ELSE share[Pick(s)] + g[s \ {Pick(s)}]]
  <2>6. h \in [SUBSET Panels -> Int]
    <3> SUFFICES ASSUME NEW s \in SUBSET Panels, s # {}
                 PROVE  share[Pick(s)] + g[s \ {Pick(s)}] \in Int
      OBVIOUS
    <3>1. Pick(s) \in Panels /\ s \ {Pick(s)} \in SUBSET Panels
      BY PickFacts
    <3> QED BY <2>5, <3>1 DEF AddsUpTo, Shares
  <2>7. \A s \in SUBSET Panels : Cardinality(s) <= n - 1 => h[s] = g[s]
    BY <2>5 DEF AddsUpTo
  <2>8. \A s \in SUBSET Panels :
           h[s] = IF s = {} THEN 0 ELSE share[Pick(s)] + g[s \ {Pick(s)}]
    OBVIOUS
  <2> HIDE DEF h
  <2>9. ASSUME NEW s \in SUBSET Panels, s # {}, Cardinality(s) <= n
        PROVE  h[s] = share[Pick(s)] + h[s \ {Pick(s)}]
    <3>0. /\ s \ {Pick(s)} \in SUBSET Panels /\ Cardinality(s) \in Nat
          /\ Cardinality(s \ {Pick(s)}) = Cardinality(s) - 1
      BY <2>9, PickFacts
    <3>1. s \ {Pick(s)} \in SUBSET Panels /\ Cardinality(s \ {Pick(s)}) <= n - 1
      BY <2>3, <2>9, <3>0
    <3> QED BY <2>7, <2>8, <2>9, <3>1
  <2>10. AddsUpTo(share, h, n)
    BY <2>6, <2>8, <2>9 DEF AddsUpTo
  <2> QED BY <2>10
<1>2. Cardinality(Panels) \in Nat
  BY PanelsAssumption, FS_CardinalityType
<1>3. PICK g : AddsUpTo(share, g, Cardinality(Panels))
  BY <1>1, <1>2
<1>4. ASSUME NEW s \in SUBSET Panels PROVE Cardinality(s) <= Cardinality(Panels)
  BY PanelsAssumption, FS_Subset
<1>5. Adds(share, g)
  BY <1>3, <1>4 DEF AddsUpTo, Adds
<1> QED BY <1>5

\* The sum of the shares is what any such function says of all panels.
LEMMA SumIs ==
    ASSUME NEW share \in Shares
    PROVE  \E g : Adds(share, g) /\ Sum(share) = g[Panels]
<1> DEFINE g == CHOOSE h : Adds(share, h)
<1>1. Adds(share, g)
  BY AddsExists, Zenon
<1>2. Sum(share) = g[Panels]
  BY DEF Sum, MapThenSumSet, MapThenFoldSet, Adds, Pick
<1> QED BY <1>1, <1>2

LEMMA AddsFacts ==
    ASSUME NEW share, NEW g, Adds(share, g)
    PROVE  AddsByPick(share, g)
<1>1. \A s \in SUBSET Panels : g[s] = IF s = {} THEN 0 ELSE share[Pick(s)] + g[s \ {Pick(s)}]
  BY Zenon DEF Adds
<1> QED BY <1>1 DEF AddsByPick

LEMMA AddsInt ==
    ASSUME NEW share \in Shares, NEW g, Adds(share, g)
    PROVE  \A s \in SUBSET Panels : g[s] \in Int
<1>0. /\ g[{}] = 0
      /\ \A s \in SUBSET Panels : s # {} => g[s] = share[Pick(s)] + g[s \ {Pick(s)}]
  <2>1. AddsByPick(share, g)
    BY AddsFacts, Zenon
  <2> QED BY <2>1 DEF AddsByPick
<1> DEFINE Bad == {s \in SUBSET Panels : g[s] \notin Int}
<1> SUFFICES ASSUME Bad # {} PROVE FALSE
  OBVIOUS
<1>1. PICK s \in Bad : s = {} \/ s \ {Pick(s)} \notin Bad
  BY SmallestFacts
<1>2. s \in SUBSET Panels /\ g[s] \notin Int
  OBVIOUS
<1>3. s # {}
  <2>1. ASSUME s = {} PROVE g[s] = 0
    BY <1>0, <2>1
  <2> QED BY <1>2, <2>1
<1>4. g[s \ {Pick(s)}] \in Int /\ share[Pick(s)] \in Int
  BY <1>1, <1>2, <1>3, PickFacts DEF Shares
<1>5. g[s] = share[Pick(s)] + g[s \ {Pick(s)}]
  BY <1>0, <1>2, <1>3
<1> QED BY <1>2, <1>4, <1>5

LEMMA SumInt ==
    ASSUME NEW share \in Shares
    PROVE  Sum(share) \in Int
BY SumIs, AddsInt

\* Larger shares have a larger sum.
LEMMA SumGrows ==
    ASSUME NEW share \in Shares, NEW other \in Shares,
           \A p \in Panels : share[p] <= other[p]
    PROVE  Sum(share) <= Sum(other)
<1>1. PICK g : Adds(share, g) /\ Sum(share) = g[Panels]
  BY SumIs
<1>2. PICK h : Adds(other, h) /\ Sum(other) = h[Panels]
  BY SumIs
<1>3. \A s \in SUBSET Panels : g[s] \in Int /\ h[s] \in Int
  BY <1>1, <1>2, AddsInt
<1>0. /\ g[{}] = 0 /\ h[{}] = 0
      /\ \A s \in SUBSET Panels : s # {} => g[s] = share[Pick(s)] + g[s \ {Pick(s)}]
      /\ \A s \in SUBSET Panels : s # {} => h[s] = other[Pick(s)] + h[s \ {Pick(s)}]
  <2>1. Adds(share, g) /\ Adds(other, h)
    BY <1>1, <1>2
  <2>2. AddsByPick(share, g) /\ AddsByPick(other, h)
    BY <2>1, AddsFacts, Zenon
  <2> QED BY <2>2 DEF AddsByPick
<1> DEFINE Bad == {s \in SUBSET Panels : ~ (g[s] <= h[s])}
<1>4. Bad = {}
  <2> SUFFICES ASSUME Bad # {} PROVE FALSE
    OBVIOUS
  <2>1. PICK s \in Bad : s = {} \/ s \ {Pick(s)} \notin Bad
    BY SmallestFacts
  <2>2. s # {}
    <3>1. ~ (g[s] <= h[s])
      OBVIOUS
    <3>2. ~ (0 <= 0) \/ s # {}
      BY <1>0, <3>1
    <3> QED BY <3>2
  <2>3. g[s \ {Pick(s)}] <= h[s \ {Pick(s)}] /\ s \ {Pick(s)} \in SUBSET Panels
    BY <2>1, <2>2, PickFacts
  <2>4. /\ g[s] = share[Pick(s)] + g[s \ {Pick(s)}] /\ h[s] = other[Pick(s)] + h[s \ {Pick(s)}]
        /\ Pick(s) \in Panels
    BY <1>0, <2>2, PickFacts
  <2>5. share[Pick(s)] \in Int /\ other[Pick(s)] \in Int /\ share[Pick(s)] <= other[Pick(s)]
    BY <2>4 DEF Shares
  <2> HIDE DEF Bad
  <2>6. g[s] <= h[s]
    BY <1>3, <2>3, <2>4, <2>5
  <2> QED BY <2>6 DEF Bad
<1> QED BY <1>1, <1>2, <1>4

\* When the share of one panel changes, so does the sum.
LEMMA SumChanges ==
    ASSUME NEW share \in Shares, NEW other \in Shares, NEW q \in Panels,
           \A p \in Panels \ {q} : share[p] = other[p]
    PROVE  Sum(other) = Sum(share) + (other[q] - share[q])
<1>1. PICK g : Adds(share, g) /\ Sum(share) = g[Panels]
  BY SumIs
<1>2. PICK h : Adds(other, h) /\ Sum(other) = h[Panels]
  BY SumIs
<1>3. \A s \in SUBSET Panels : g[s] \in Int /\ h[s] \in Int
  BY <1>1, <1>2, AddsInt
<1>0. /\ g[{}] = 0 /\ h[{}] = 0
      /\ \A s \in SUBSET Panels : s # {} => g[s] = share[Pick(s)] + g[s \ {Pick(s)}]
      /\ \A s \in SUBSET Panels : s # {} => h[s] = other[Pick(s)] + h[s \ {Pick(s)}]
  <2>1. Adds(share, g) /\ Adds(other, h)
    BY <1>1, <1>2
  <2>2. AddsByPick(share, g) /\ AddsByPick(other, h)
    BY <2>1, AddsFacts, Zenon
  <2> QED BY <2>2 DEF AddsByPick
<1> DEFINE More(s) == IF q \in s THEN other[q] - share[q] ELSE 0
           Bad == {s \in SUBSET Panels : h[s] # g[s] + More(s)}
<1>4. Bad = {}
  <2> SUFFICES ASSUME Bad # {} PROVE FALSE
    OBVIOUS
  <2>1. PICK s \in Bad : s = {} \/ s \ {Pick(s)} \notin Bad
    BY SmallestFacts
  <2>2. s # {}
    <3>1. h[s] # g[s] + More(s)
      OBVIOUS
    <3>2. ASSUME s = {} PROVE h[s] = 0 /\ g[s] = 0 /\ More(s) = 0
      BY <1>0, <3>2
    <3> HIDE DEF More
    <3> QED BY <3>1, <3>2
  <2>3. h[s \ {Pick(s)}] = g[s \ {Pick(s)}] + More(s \ {Pick(s)}) /\ s \ {Pick(s)} \in SUBSET Panels
    BY <2>1, <2>2, PickFacts
  <2>4. /\ g[s] = share[Pick(s)] + g[s \ {Pick(s)}] /\ h[s] = other[Pick(s)] + h[s \ {Pick(s)}]
        /\ Pick(s) \in Panels /\ Pick(s) \in s
    BY <1>0, <2>2, PickFacts
  <2>5. /\ share[Pick(s)] \in Int /\ other[Pick(s)] \in Int /\ share[q] \in Int /\ other[q] \in Int
        /\ Pick(s) # q => share[Pick(s)] = other[Pick(s)]
    BY <2>4 DEF Shares
  <2> HIDE DEF Bad
  <2>6. CASE Pick(s) = q
    <3>1. More(s) = other[q] - share[q] /\ More(s \ {Pick(s)}) = 0
      BY <2>4, <2>6
    <3> HIDE DEF More
    <3>2. h[s] = g[s] + More(s)
      BY <1>3, <2>3, <2>4, <2>5, <2>6, <3>1
    <3> QED BY <3>2 DEF Bad
  <2>7. CASE Pick(s) # q
    <3>1. More(s) = More(s \ {Pick(s)}) /\ More(s) \in Int
      BY <2>4, <2>5, <2>7
    <3> HIDE DEF More
    <3>2. h[s] = g[s] + More(s)
      BY <1>3, <2>3, <2>4, <2>5, <2>7, <3>1
    <3> QED BY <3>2 DEF Bad
  <2> QED BY <2>6, <2>7
<1>5. h[Panels] = g[Panels] + More(Panels)
  BY <1>4
<1> QED BY <1>1, <1>2, <1>5

LEMMA SumOfNothing ==
    ASSUME NEW share \in Shares, \A p \in Panels : share[p] = 0
    PROVE  Sum(share) = 0
<1>1. PICK g : Adds(share, g) /\ Sum(share) = g[Panels]
  BY SumIs
<1>0. /\ g[{}] = 0
      /\ \A s \in SUBSET Panels : s # {} => g[s] = share[Pick(s)] + g[s \ {Pick(s)}]
  <2>1. Adds(share, g)
    BY <1>1
  <2>2. AddsByPick(share, g)
    BY <2>1, AddsFacts, Zenon
  <2> QED BY <2>2 DEF AddsByPick
<1> DEFINE Bad == {s \in SUBSET Panels : g[s] # 0}
<1>2. Bad = {}
  <2> SUFFICES ASSUME Bad # {} PROVE FALSE
    OBVIOUS
  <2>1. PICK s \in Bad : s = {} \/ s \ {Pick(s)} \notin Bad
    BY SmallestFacts
  <2>2. s # {}
    BY <1>0, <2>1
  <2>3. g[s \ {Pick(s)}] = 0
    BY <2>1, <2>2, PickFacts
  <2>4. g[s] = share[Pick(s)] + g[s \ {Pick(s)}] /\ share[Pick(s)] = 0
    BY <1>0, <2>2, PickFacts
  <2> HIDE DEF Bad
  <2>5. g[s] = 0
    BY <2>3, <2>4
  <2> QED BY <2>5 DEF Bad
<1> QED BY <1>1, <1>2

-----------------------------------------------------------------------------
(* The panel ledger: the inductive invariant *)

\* What a reservation says of its members, and of those that execute.
Orderly(p) ==
    LET r == reservations[p] IN
    /\ r.started + r.cancelled <= r.members
    /\ r.completed <= r.started
    /\ executing[p] + ended[p] <= r.started - r.completed + doubted[p]
    /\ r.status \in {"completed", "cancelled"} => Finished(r)

AllOrderly == \A p \in Admitted : Orderly(p)

BudgetInv ==
    /\ BudgetTypeOK
    /\ CountersBalance
    /\ AllOrderly
    /\ \A p \in Panels \ Admitted : executing[p] = 0 /\ ended[p] = 0
    /\ liveReserved + liveInUse <= LiveLimit
    /\ workReserved + workConsumed <= WorkLimit

USE LimitsAssumption, NoReservationAssumption

\* The part of the type invariant that the shares of the panels depend on.
ShapesOK ==
    /\ reservations \in [Panels -> PanelReservation \cup {NoReservation}]
    /\ {executing, ended, doubted} \subseteq [Panels -> Nat]

\* An admitted panel has a reservation whose numbers are numbers.
LEMMA ReservationFacts ==
    ASSUME ShapesOK, NEW p \in Admitted
    PROVE  /\ p \in Panels /\ reservations[p] \in PanelReservation
           /\ reservations[p].members \in Nat /\ reservations[p].work \in Nat
           /\ reservations[p].started \in Nat /\ reservations[p].completed \in Nat
           /\ reservations[p].cancelled \in Nat
BY DEF ShapesOK, Admitted, PanelReservation

\* The shares of the panels are numbers.
LEMMA ShareFacts ==
    ShapesOK => /\ slotsReserved \in Shares /\ slotsInUse \in Shares
                /\ workLeft \in Shares /\ workUsed \in Shares
                /\ executing \in Shares /\ doubted \in Shares
<1> SUFFICES ASSUME ShapesOK
             PROVE  /\ slotsReserved \in Shares /\ slotsInUse \in Shares
                    /\ workLeft \in Shares /\ workUsed \in Shares
                /\ executing \in Shares /\ doubted \in Shares
  OBVIOUS
<1>1. ASSUME NEW p \in Panels
      PROVE  /\ slotsReserved[p] \in Int /\ slotsInUse[p] \in Int
             /\ workLeft[p] \in Int /\ workUsed[p] \in Int
  BY ReservationFacts DEF slotsReserved, slotsInUse, workLeft, workUsed
<1> QED BY <1>1 DEF slotsReserved, slotsInUse, workLeft, workUsed, Shares, ShapesOK

LEMMA NextShareFacts ==
    ShapesOK' => (/\ slotsReserved \in Shares /\ slotsInUse \in Shares
                  /\ workLeft \in Shares /\ workUsed \in Shares
                /\ executing \in Shares /\ doubted \in Shares)'
BY ShareFacts, PTL

\* What one panel accounts for is at most what all of them do, since none
\* accounts for less than nothing.
LEMMA ShareOfSum ==
    ASSUME NEW share \in Shares, NEW q \in Panels, \A p \in Panels : share[p] >= 0
    PROVE  share[q] <= Sum(share)
<1> DEFINE only == [p \in Panels |-> IF p = q THEN share[q] ELSE 0]
           zero == [p \in Panels |-> 0]
<1>1. only \in Shares /\ zero \in Shares
  BY DEF Shares
<1>2. \A p \in Panels : only[p] <= share[p]
  BY DEF Shares
<1>3. only[q] = share[q] /\ zero[q] = 0 /\ (\A p \in Panels \ {q} : zero[p] = only[p])
      /\ (\A p \in Panels : zero[p] = 0) /\ share[q] \in Int
  BY DEF Shares
<1> HIDE DEF only, zero
<1>4. Sum(only) <= Sum(share)
  BY <1>1, <1>2, SumGrows
<1>5. Sum(zero) = 0
  BY <1>1, <1>3, SumOfNothing
<1>6. Sum(only) = Sum(zero) + (only[q] - zero[q])
  BY <1>1, <1>3, SumChanges
<1>7. Sum(only) \in Int /\ Sum(share) \in Int
  BY <1>1, SumInt
<1> QED BY <1>3, <1>4, <1>5, <1>6, <1>7

LEMMA SumNotNegative ==
    ASSUME NEW share \in Shares, \A p \in Panels : share[p] >= 0
    PROVE  Sum(share) \in Nat
<1> DEFINE zero == [p \in Panels |-> 0]
<1>1. zero \in Shares /\ (\A p \in Panels : zero[p] <= share[p]) /\ (\A p \in Panels : zero[p] = 0)
  BY DEF Shares
<1> HIDE DEF zero
<1>2. Sum(zero) = 0 /\ Sum(zero) <= Sum(share) /\ Sum(share) \in Int
  BY <1>1, SumOfNothing, SumGrows, SumInt
<1> QED BY <1>2

\* In a state of the invariant no share is negative, the ones of work left apart.
LEMMA ShareSigns ==
    ASSUME ShapesOK, AllOrderly, NEW p \in Panels
    PROVE  slotsReserved[p] >= 0 /\ slotsInUse[p] >= 0 /\ workUsed[p] >= 0
<1>1. CASE p \in Admitted
  <2>1. Orderly(p)
    BY <1>1 DEF AllOrderly
  <2> QED BY <1>1, <2>1, ReservationFacts
          DEF slotsReserved, slotsInUse, workLeft, workUsed, Orderly
<1>2. CASE p \notin Admitted
  BY <1>2 DEF slotsReserved, slotsInUse, workLeft, workUsed
<1> QED BY <1>1, <1>2

\* The live counters are never negative, whatever the counters are said to be.
LEMMA CountersAreNat ==
    ShapesOK /\ CountersBalance /\ AllOrderly =>
        {workConsumed, liveReserved, liveInUse} \subseteq Nat
<1> SUFFICES ASSUME ShapesOK, CountersBalance, AllOrderly
             PROVE  liveReserved \in Nat /\ liveInUse \in Nat /\ workConsumed \in Nat
  OBVIOUS
<1>1. /\ slotsReserved \in Shares /\ slotsInUse \in Shares /\ workUsed \in Shares
  BY ShareFacts
<1>2. \A p \in Panels : slotsReserved[p] >= 0 /\ slotsInUse[p] >= 0 /\ workUsed[p] >= 0
  BY ShareSigns
<1> QED BY <1>1, <1>2, SumNotNegative DEF CountersBalance

LEMMA NextCountersAreNat ==
    ShapesOK' /\ CountersBalance' /\ AllOrderly' =>
        ({workConsumed, liveReserved, liveInUse} \subseteq Nat)'
BY CountersAreNat, PTL

LEMMA BudgetInitInv == BudgetInit => BudgetInv
<1> SUFFICES ASSUME BudgetInit PROVE BudgetInv
  OBVIOUS
<1>1. BudgetTypeOK
  BY DEF BudgetInit, BudgetTypeOK
<1>2. Admitted = {}
  BY DEF BudgetInit, Admitted
<1>3. CountersBalance
  <2>1. \A p \in Panels : /\ slotsReserved[p] = 0 /\ slotsInUse[p] = 0
                          /\ workLeft[p] = 0 /\ workUsed[p] = 0
    BY <1>2 DEF slotsReserved, slotsInUse, workLeft, workUsed
  <2>2. /\ Sum(slotsReserved) = 0 /\ Sum(slotsInUse) = 0 
        /\ Sum(workLeft) = 0 /\ Sum(workUsed) = 0
    BY <1>1, <2>1, ShareFacts, SumOfNothing DEF ShapesOK, BudgetTypeOK
  <2> QED BY <2>2 DEF BudgetInit, CountersBalance
<1> QED BY <1>1, <1>2, <1>3 DEF BudgetInit, BudgetInv, AllOrderly



\* A step that changes the reservation of one panel keeps the balance when it
\* changes the counters by what it changes the shares of that panel.
LEMMA BalanceKept ==
    ASSUME ShapesOK, ShapesOK', CountersBalance, NEW q \in Panels,
           \A p \in Panels \ {q} : reservations'[p] = reservations[p],
           liveReserved' = liveReserved + (slotsReserved'[q] - slotsReserved[q]),
           liveInUse' = liveInUse + (slotsInUse'[q] - slotsInUse[q]),
           workReserved' = workReserved + (workLeft'[q] - workLeft[q]),
           workConsumed' = workConsumed + (workUsed'[q] - workUsed[q])
    PROVE  CountersBalance'
<1>1. \A p \in Panels \ {q} : p \in Admitted' <=> p \in Admitted
  BY DEF Admitted
<1>2. \A p \in Panels \ {q} : /\ slotsReserved[p] = slotsReserved'[p]
                              /\ slotsInUse[p] = slotsInUse'[p]
                              /\ workLeft[p] = workLeft'[p]
                              /\ workUsed[p] = workUsed'[p]
  BY <1>1 DEF slotsReserved, slotsInUse, workLeft, workUsed
<1>3. /\ slotsReserved \in Shares /\ slotsInUse \in Shares
      /\ workLeft \in Shares /\ workUsed \in Shares
      /\ slotsReserved' \in Shares /\ slotsInUse' \in Shares
      /\ workLeft' \in Shares /\ workUsed' \in Shares
  BY ShareFacts, NextShareFacts
<1>4. /\ Sum(slotsReserved') = Sum(slotsReserved) + (slotsReserved'[q] - slotsReserved[q])
      /\ Sum(slotsInUse') = Sum(slotsInUse) + (slotsInUse'[q] - slotsInUse[q])
  BY <1>2, <1>3, SumChanges
<1>5. /\ Sum(workLeft') = Sum(workLeft) + (workLeft'[q] - workLeft[q])
      /\ Sum(workUsed') = Sum(workUsed) + (workUsed'[q] - workUsed[q])
  BY <1>2, <1>3, SumChanges
<1>6. /\ liveReserved' = Sum(slotsReserved') /\ liveInUse' = Sum(slotsInUse')
      /\ workReserved' = Sum(workLeft') /\ workConsumed' = Sum(workUsed')
  BY <1>4, <1>5 DEF CountersBalance
<1> QED BY <1>6 DEF CountersBalance

-----------------------------------------------------------------------------
(* Every operation keeps it *)

Holdings == [Callers -> [Panels -> Nat \cup {NoReservation}]]

\* The parts of the invariant add up to it.
LEMMA BudgetParts ==
    ASSUME ShapesOK', CountersBalance', AllOrderly',
           \A p \in Panels \ Admitted' : executing'[p] = 0 /\ ended'[p] = 0,
           workReserved' \in Int, generation' \in 0..MaxGeneration, held' \in Holdings,
           liveReserved' + liveInUse' <= LiveLimit,
           workReserved' + workConsumed' <= WorkLimit
    PROVE  BudgetInv'
<1>1. ({workConsumed, liveReserved, liveInUse} \subseteq Nat)'
  BY NextCountersAreNat
<1>2. BudgetTypeOK'
  BY <1>1 DEF BudgetTypeOK, ShapesOK, Holdings
<1> QED BY <1>2 DEF BudgetInv

LEMMA BudgetFacts ==
    ASSUME BudgetInv
    PROVE  /\ ShapesOK /\ CountersBalance /\ AllOrderly
           /\ workConsumed \in Nat /\ liveReserved \in Nat /\ liveInUse \in Nat
           /\ workReserved \in Int /\ generation \in 0..MaxGeneration
           /\ held \in Holdings
           /\ liveReserved + liveInUse <= LiveLimit
           /\ workReserved + workConsumed <= WorkLimit
           /\ \A p \in Panels \ Admitted : executing[p] = 0 /\ ended[p] = 0
BY DEF BudgetInv, BudgetTypeOK, ShapesOK, Holdings

\* Members of an admitted panel start, complete and are cancelled; the counters
\* follow.
LEMMA MemberStep ==
    ASSUME BudgetInv, NEW p \in Admitted, NEW new \in PanelReservation,
           reservations' = [reservations EXCEPT ![p] = new],
           generation < MaxGeneration, generation' = generation + 1, held' = held,
           {executing', ended', doubted'} \subseteq [Panels -> Nat],
           \A q \in Panels \ {p} : /\ executing'[q] = executing[q] /\ ended'[q] = ended[q]
                                  /\ doubted'[q] = doubted[q],
           new.members = reservations[p].members, new.work = reservations[p].work,
           new.started >= reservations[p].started,
           new.completed >= reservations[p].completed,
           new.cancelled >= reservations[p].cancelled,
           new.started + new.cancelled <= new.members, new.completed <= new.started,
           executing'[p] + ended'[p] <= new.started - new.completed + doubted'[p],
           new.status \in {"completed", "cancelled"} => Finished(new),
           liveReserved' = liveReserved - (new.started - reservations[p].started)
                                        - (new.cancelled - reservations[p].cancelled),
           liveInUse' = liveInUse + (new.started - reservations[p].started)
                                  - (new.completed - reservations[p].completed),
           workReserved' = workReserved - (new.started - reservations[p].started)
                                        - (new.cancelled - reservations[p].cancelled),
           workConsumed' = workConsumed + (new.started - reservations[p].started)
    PROVE  BudgetInv'
<1> DEFINE r == reservations[p]
<1>1. /\ p \in Panels /\ r \in PanelReservation
      /\ r.members \in Nat /\ r.work \in Nat
      /\ r.started \in Nat /\ r.completed \in Nat /\ r.cancelled \in Nat
  BY BudgetFacts, ReservationFacts
<1>2. /\ new.members \in Nat /\ new.work \in Nat
      /\ new.started \in Nat /\ new.completed \in Nat /\ new.cancelled \in Nat
  BY DEF PanelReservation
<1>3. /\ reservations' \in [Panels -> PanelReservation \cup {NoReservation}]
      /\ reservations'[p] = new /\ \A q \in Panels \ {p} : reservations'[q] = reservations[q]
  BY <1>1, BudgetFacts DEF ShapesOK
<1>4. ShapesOK'
  BY <1>3 DEF ShapesOK
<1>5. p \in Admitted' /\ Admitted' = Admitted
  BY <1>1, <1>3 DEF Admitted
<1>6. CountersBalance'
  <2>1. /\ slotsReserved[p] = r.members - r.started - r.cancelled
        /\ slotsInUse[p] = r.started - r.completed
        /\ workLeft[p] = r.work - r.started - r.cancelled /\ workUsed[p] = r.started
    BY <1>1 DEF slotsReserved, slotsInUse, workLeft, workUsed
  <2>2. /\ slotsReserved'[p] = new.members - new.started - new.cancelled
        /\ slotsInUse'[p] = new.started - new.completed
        /\ workLeft'[p] = new.work - new.started - new.cancelled /\ workUsed'[p] = new.started
    BY <1>1, <1>3, <1>5 DEF slotsReserved, slotsInUse, workLeft, workUsed
  <2>3. ShapesOK /\ CountersBalance /\ /\ workConsumed \in Nat /\ liveReserved \in Nat
        /\ liveInUse \in Nat /\ workReserved \in Int
    BY BudgetFacts
  <2>4. /\ liveReserved' = liveReserved + (slotsReserved'[p] - slotsReserved[p])
        /\ liveInUse' = liveInUse + (slotsInUse'[p] - slotsInUse[p])
        /\ workReserved' = workReserved + (workLeft'[p] - workLeft[p])
        /\ workConsumed' = workConsumed + (workUsed'[p] - workUsed[p])
    BY <1>1, <1>2, <2>1, <2>2, <2>3
  <2> QED BY <1>1, <1>3, <1>4, <2>3, <2>4, BalanceKept
<1>7. AllOrderly'
  <2>0. /\ AllOrderly /\ Orderly(p)
    BY BudgetFacts DEF AllOrderly
  <2> SUFFICES ASSUME NEW q \in Admitted PROVE Orderly(q)'
    BY <1>5 DEF AllOrderly
  <2>1. CASE q = p
    <3> QED BY <1>3, <2>1 DEF Orderly
  <2>2. CASE q # p
    <3>1. /\ q \in Panels /\ reservations'[q] = reservations[q]
          /\ executing'[q] = executing[q] /\ ended'[q] = ended[q] /\ doubted'[q] = doubted[q]
      BY <1>3, <2>2 DEF Admitted
    <3> QED BY <2>0, <3>1 DEF Orderly, AllOrderly
  <2> QED BY <2>1, <2>2
<1>8. \A q \in Panels \ Admitted' : executing'[q] = 0 /\ ended'[q] = 0
  BY <1>5, BudgetFacts
<1>9. /\ workReserved' \in Int /\ generation' \in 0..MaxGeneration /\ held' \in Holdings
      /\ liveReserved' + liveInUse' <= LiveLimit
      /\ workReserved' + workConsumed' <= WorkLimit
  BY <1>1, <1>2, BudgetFacts
<1> QED BY <1>4, <1>6, <1>7, <1>8, <1>9, BudgetParts

\* An operation that leaves the ledger alone keeps it if no member more executes
\* or waits to be released.
LEMMA LedgerUntouched ==
    ASSUME BudgetInv, UNCHANGED ledger, held' \in Holdings,
           {executing', ended'} \subseteq [Panels -> Nat], UNCHANGED doubted,
           \A p \in Panels : executing'[p] + ended'[p] <= executing[p] + ended[p]
    PROVE  BudgetInv'
<1>1. ShapesOK' /\ Admitted' = Admitted
  BY BudgetFacts DEF ShapesOK, ledger, Admitted
<1>2. CountersBalance'
  <2>1. slotsReserved' = slotsReserved /\ slotsInUse' = slotsInUse
        /\ workLeft' = workLeft /\ workUsed' = workUsed
    BY <1>1 DEF ledger, slotsReserved, slotsInUse, workLeft, workUsed
  <2> QED BY <2>1, BudgetFacts DEF CountersBalance, ledger
<1>3. AllOrderly'
  <2> SUFFICES ASSUME NEW p \in Admitted PROVE Orderly(p)'
    BY <1>1 DEF AllOrderly
  <2>1. /\ Orderly(p) /\ p \in Panels /\ reservations'[p] = reservations[p]
        /\ reservations[p].started \in Nat /\ reservations[p].completed \in Nat
        /\ executing[p] \in Nat /\ executing'[p] \in Nat /\ ended[p] \in Nat
        /\ ended'[p] \in Nat /\ doubted[p] \in Nat /\ doubted'[p] = doubted[p]
        /\ executing'[p] + ended'[p] <= executing[p] + ended[p]
    BY BudgetFacts, ReservationFacts DEF AllOrderly, ledger, ShapesOK
  <2> QED BY <2>1 DEF Orderly
<1>4. ASSUME NEW p \in Panels \ Admitted' PROVE executing'[p] = 0 /\ ended'[p] = 0
  <2>1. executing[p] = 0 /\ ended[p] = 0
    BY <1>1, BudgetFacts
  <2>2. executing'[p] \in Nat /\ ended'[p] \in Nat
    BY DEF ShapesOK
  <2>3. executing'[p] + ended'[p] <= 0
    BY <2>1
  <2> QED BY <2>2, <2>3
<1> QED BY <1>1, <1>2, <1>3, <1>4, BudgetFacts, BudgetParts DEF ledger

LEMMA HoldTypes ==
    ASSUME NEW c \in Callers, NEW p \in Panels, NEW n \in Nat, held \in Holdings, Hold(c, p, n)
    PROVE  held' \in Holdings
BY DEF Hold, Holdings

LEMMA AdmitAgainKeeps ==
    ASSUME BudgetInv, NEW c \in Callers, NEW p \in Panels, NEW d \in Digests,
           admitAgain(c, p, d)
    PROVE  BudgetInv'
<1>1. reservations[p].generation \in Nat
  BY BudgetFacts, ReservationFacts DEF admitAgain, PanelReservation
<1>2. held' \in Holdings
  BY <1>1, BudgetFacts, HoldTypes DEF admitAgain
<1> QED BY <1>2, BudgetFacts, LedgerUntouched DEF admitAgain, launched, ShapesOK

LEMMA AdmitKeeps ==
    ASSUME BudgetInv, NEW c \in Callers, NEW p \in Panels, NEW d \in Digests,
           NEW members \in 1..MaxMembers, NEW work \in 0..MaxWork,
           admitPanel(c, p, d, members, work)
    PROVE  BudgetInv'
<1> DEFINE new == [digest |-> d, members |-> members, work |-> work,
                   started |-> 0, completed |-> 0, cancelled |-> 0,
                   status |-> "reserved", generation |-> generation + 1]
<1>1. new \in PanelReservation
  BY BudgetFacts DEF PanelReservation, Status
<1>2. /\ p \notin Admitted /\ reservations' = [reservations EXCEPT ![p] = new]
      /\ liveReserved' = liveReserved + members /\ workReserved' = workReserved + work
      /\ workConsumed' = workConsumed /\ liveInUse' = liveInUse
      /\ executing' = executing /\ ended' = ended /\ doubted' = doubted
      /\ generation' \in 0..MaxGeneration
      /\ HasRoom(members, work)
  BY BudgetFacts DEF admitPanel, launched
<1>3. held' \in Holdings
  <2>1. CASE Hold(c, p, generation + 1)
    <3>1. generation + 1 \in Nat
      BY BudgetFacts
    <3> QED BY <2>1, <3>1, BudgetFacts, HoldTypes
  <2>2. CASE UNCHANGED held
    BY <2>2, BudgetFacts
  <2> QED BY <2>1, <2>2 DEF admitPanel
<1>4. /\ new.members = members /\ new.work = work /\ new.started = 0 /\ new.completed = 0
      /\ new.cancelled = 0 /\ new.status = "reserved"
  OBVIOUS
<1> HIDE DEF new
<1>5. /\ reservations' \in [Panels -> PanelReservation \cup {NoReservation}]
      /\ reservations'[p] = new /\ \A q \in Panels \ {p} : reservations'[q] = reservations[q]
  BY <1>1, <1>2, BudgetFacts DEF ShapesOK
<1>6. ShapesOK'
  BY <1>2, <1>5, BudgetFacts DEF ShapesOK
<1>7. p \in Admitted' /\ Admitted' = Admitted \cup {p}
  BY <1>1, <1>5 DEF Admitted
<1>8. CountersBalance'
  <2>1. slotsReserved[p] = 0 /\ slotsInUse[p] = 0 /\ workLeft[p] = 0 /\ workUsed[p] = 0
    BY <1>2 DEF slotsReserved, slotsInUse, workLeft, workUsed
  <2>2. /\ slotsReserved'[p] = members /\ slotsInUse'[p] = 0
        /\ workLeft'[p] = work /\ workUsed'[p] = 0
    BY <1>4, <1>5, <1>7 DEF slotsReserved, slotsInUse, workLeft, workUsed
  <2>3. /\ liveReserved' = liveReserved + (slotsReserved'[p] - slotsReserved[p])
        /\ liveInUse' = liveInUse + (slotsInUse'[p] - slotsInUse[p])
        /\ workReserved' = workReserved + (workLeft'[p] - workLeft[p])
        /\ workConsumed' = workConsumed + (workUsed'[p] - workUsed[p])
    BY <1>2, <2>1, <2>2, BudgetFacts
  <2> QED BY <1>5, <1>6, <2>3, BudgetFacts, BalanceKept
<1>9. AllOrderly'
  <2> SUFFICES ASSUME NEW q \in Admitted \cup {p} PROVE Orderly(q)'
    BY <1>7 DEF AllOrderly
  <2>1. CASE q = p
    <3>1. executing'[p] = 0 /\ ended'[p] = 0 /\ doubted'[p] \in Nat
      BY <1>2, BudgetFacts DEF ShapesOK
    <3> QED BY <1>4, <1>5, <2>1, <3>1 DEF Orderly
  <2>2. CASE q # p
    <3>1. /\ q \in Panels /\ reservations'[q] = reservations[q]
          /\ executing'[q] = executing[q] /\ ended'[q] = ended[q] /\ doubted'[q] = doubted[q]
      BY <1>2, <1>5, <2>2 DEF Admitted
    <3> QED BY <2>2, <3>1, BudgetFacts DEF Orderly, AllOrderly
  <2> QED BY <2>1, <2>2
<1>10. \A q \in Panels \ Admitted' : executing'[q] = 0 /\ ended'[q] = 0
  BY <1>2, <1>7, BudgetFacts
<1>11. /\ workReserved' \in Int
       /\ liveReserved' + liveInUse' <= LiveLimit
       /\ workReserved' + workConsumed' <= WorkLimit
  BY <1>2, BudgetFacts DEF HasRoom
<1> QED BY <1>2, <1>3, <1>6, <1>8, <1>9, <1>10, <1>11, BudgetParts

LEMMA StartKeeps ==
    ASSUME BudgetInv, NEW c \in Callers, NEW p \in Panels, startPanelMember(c, p)
    PROVE  BudgetInv'
<1> DEFINE r == reservations[p]
           new == [r EXCEPT !.started = @ + 1, !.status = "running"]
<1>1. p \in Admitted
  BY DEF startPanelMember, Fenced
<1>2. /\ r \in PanelReservation /\ r.members \in Nat /\ r.work \in Nat
      /\ r.started \in Nat /\ r.completed \in Nat /\ r.cancelled \in Nat
      /\ Orderly(p) /\ {executing, ended, doubted} \subseteq [Panels -> Nat]
      /\ executing[p] \in Nat /\ ended[p] \in Nat /\ doubted[p] \in Nat
      /\ liveReserved \in Nat /\ liveInUse \in Nat /\ workConsumed \in Nat /\ workReserved \in Int
  BY <1>1, BudgetFacts, ReservationFacts DEF AllOrderly, ShapesOK
<1>3. /\ new \in PanelReservation /\ new.started = r.started + 1
      /\ new.completed = r.completed /\ new.cancelled = r.cancelled
      /\ new.members = r.members /\ new.work = r.work /\ new.status = "running"
  <2>1. r.started + 1 \in Nat /\ "running" \in Status
    BY <1>2 DEF Status
  <2>2. new \in PanelReservation
    BY <1>2, <2>1, Zenon DEF PanelReservation
  <2> QED BY <1>2, <2>2 DEF PanelReservation
<1>4. /\ reservations' = [reservations EXCEPT ![p] = new]
      /\ generation < MaxGeneration /\ generation' = generation + 1 /\ held' = held
      /\ r.started < r.members - r.cancelled
      /\ liveReserved' = liveReserved - 1 /\ liveInUse' = liveInUse + 1
      /\ workReserved' = workReserved - 1 /\ workConsumed' = workConsumed + 1
  BY DEF startPanelMember, updatePanel, MayStart
<1>5. /\ executing' \in [Panels -> Nat] /\ executing'[p] <= executing[p] + 1
      /\ \A q \in Panels \ {p} : executing'[q] = executing[q]
      /\ ended' = ended /\ doubted' = doubted
  BY <1>2 DEF startPanelMember
<1> HIDE DEF new
<1>6. /\ new.started + new.cancelled <= new.members /\ new.completed <= new.started
      /\ executing'[p] + ended'[p] <= new.started - new.completed + doubted'[p]
      /\ new.status \in {"completed", "cancelled"} => Finished(new)
  <2>1. executing[p] + ended[p] <= r.started - r.completed + doubted[p] /\ executing'[p] \in Nat
    BY <1>2, <1>5 DEF Orderly
  <2> QED BY <1>2, <1>3, <1>4, <1>5, <2>1 DEF Orderly
<1>7. /\ new.started - r.started = 1 /\ new.completed - r.completed = 0
      /\ new.cancelled - r.cancelled = 0
  BY <1>2, <1>3
<1>8. /\ liveReserved' = liveReserved - (new.started - r.started) - (new.cancelled - r.cancelled)
      /\ liveInUse' = liveInUse + (new.started - r.started) - (new.completed - r.completed)
      /\ workReserved' = workReserved - (new.started - r.started) - (new.cancelled - r.cancelled)
      /\ workConsumed' = workConsumed + (new.started - r.started)
      /\ new.started >= r.started /\ new.completed >= r.completed /\ new.cancelled >= r.cancelled
  BY <1>2, <1>3, <1>4, <1>7
<1>9. /\ {executing', ended', doubted'} \subseteq [Panels -> Nat]
      /\ \A q \in Panels \ {p} : /\ executing'[q] = executing[q] /\ ended'[q] = ended[q]
                                /\ doubted'[q] = doubted[q]
  BY <1>2, <1>5
<1> QED BY <1>1, <1>3, <1>4, <1>6, <1>8, <1>9, MemberStep

LEMMA CompleteKeeps ==
    ASSUME BudgetInv, NEW c \in Callers, NEW p \in Panels, completePanelMember(c, p)
    PROVE  BudgetInv'
<1> DEFINE r == reservations[p]
           counted == [r EXCEPT !.completed = @ + 1]
           new == IF Finished(counted) THEN [counted EXCEPT !.status = "completed"] ELSE counted
<1>1. p \in Admitted
  BY DEF completePanelMember, Fenced
<1>2. /\ r \in PanelReservation /\ r.members \in Nat /\ r.work \in Nat
      /\ r.started \in Nat /\ r.completed \in Nat /\ r.cancelled \in Nat
      /\ Orderly(p) /\ {executing, ended, doubted} \subseteq [Panels -> Nat]
      /\ executing[p] \in Nat /\ ended[p] \in Nat /\ doubted[p] \in Nat
      /\ liveReserved \in Nat /\ liveInUse \in Nat /\ workConsumed \in Nat /\ workReserved \in Int
  BY <1>1, BudgetFacts, ReservationFacts DEF AllOrderly, ShapesOK
<1>3. /\ new \in PanelReservation /\ new.started = r.started
      /\ new.completed = r.completed + 1 /\ new.cancelled = r.cancelled
      /\ new.members = r.members /\ new.work = r.work
      /\ new.status \in {r.status, "completed"}
      /\ new.status # r.status => Finished(new)
  <2>1. /\ counted \in PanelReservation /\ counted.started = r.started
        /\ counted.completed = r.completed + 1 /\ counted.cancelled = r.cancelled
        /\ counted.members = r.members /\ counted.work = r.work /\ counted.status = r.status
    BY <1>2 DEF PanelReservation
  <2> HIDE DEF counted
  <2>2. CASE Finished(counted)
    <3>1. new = [counted EXCEPT !.status = "completed"] /\ "completed" \in Status
      BY <2>2 DEF Status
    <3>2. /\ new \in PanelReservation /\ new.started = counted.started
          /\ new.completed = counted.completed /\ new.cancelled = counted.cancelled
          /\ new.members = counted.members /\ new.work = counted.work
          /\ new.status = "completed"
      BY <2>1, <3>1 DEF PanelReservation
    <3>3. Finished(new)
      BY <2>2, <3>2 DEF Finished
    <3> HIDE DEF new
    <3> QED BY <2>1, <3>2, <3>3
  <2>3. CASE ~ Finished(counted)
    <3>1. new = counted
      BY <2>3
    <3> HIDE DEF new
    <3> QED BY <2>1, <3>1
  <2> QED BY <2>2, <2>3
<1>4. /\ reservations' = [reservations EXCEPT ![p] = new]
      /\ generation < MaxGeneration /\ generation' = generation + 1 /\ held' = held
      /\ r.completed < r.started
      /\ liveReserved' = liveReserved /\ liveInUse' = liveInUse - 1
      /\ workReserved' = workReserved /\ workConsumed' = workConsumed
      /\ executing' = executing /\ ended[p] > 0
      /\ \/ ended' = [ended EXCEPT ![p] = @ - 1] /\ doubted' = doubted
         \/ doubted' = [doubted EXCEPT ![p] = @ + 1] /\ ended' = ended
  BY DEF completePanelMember, updatePanel
<1>5. /\ {executing', ended', doubted'} \subseteq [Panels -> Nat]
      /\ executing'[p] + ended'[p] - doubted'[p] = executing[p] + ended[p] - doubted[p] - 1
      /\ executing'[p] \in Nat /\ ended'[p] \in Nat /\ doubted'[p] \in Nat
      /\ \A q \in Panels \ {p} : /\ executing'[q] = executing[q] /\ ended'[q] = ended[q]
                                /\ doubted'[q] = doubted[q]
  BY <1>1, <1>2, <1>4 DEF Admitted
<1> HIDE DEF new
<1>6. /\ new.started + new.cancelled <= new.members /\ new.completed <= new.started
      /\ executing'[p] + ended'[p] <= new.started - new.completed + doubted'[p]
      /\ new.status \in {"completed", "cancelled"} => Finished(new)
  <2>1. /\ executing[p] + ended[p] <= r.started - r.completed + doubted[p] /\ r.started + r.cancelled <= r.members
        /\ r.status \in {"completed", "cancelled"} => r.completed + r.cancelled = r.members
    BY <1>2 DEF Orderly, Finished
  <2>2. ~ (r.status \in {"completed", "cancelled"})
    BY <1>2, <1>4, <2>1
  <2>3. new.status \in {"completed", "cancelled"} => Finished(new)
    BY <1>3, <2>2
  <2> QED BY <1>2, <1>3, <1>4, <1>5, <2>1, <2>3
<1>7. /\ new.started - r.started = 0 /\ new.completed - r.completed = 1
      /\ new.cancelled - r.cancelled = 0
  BY <1>2, <1>3
<1>8. /\ liveReserved' = liveReserved - (new.started - r.started) - (new.cancelled - r.cancelled)
      /\ liveInUse' = liveInUse + (new.started - r.started) - (new.completed - r.completed)
      /\ workReserved' = workReserved - (new.started - r.started) - (new.cancelled - r.cancelled)
      /\ workConsumed' = workConsumed + (new.started - r.started)
      /\ new.started >= r.started /\ new.completed >= r.completed /\ new.cancelled >= r.cancelled
  BY <1>2, <1>3, <1>4, <1>7
<1> QED BY <1>1, <1>3, <1>4, <1>5, <1>6, <1>8, MemberStep

LEMMA CancelKeeps ==
    ASSUME BudgetInv, NEW c \in Callers, NEW p \in Panels, cancelNeverStartedMember(c, p)
    PROVE  BudgetInv'
<1> DEFINE r == reservations[p]
           counted == [r EXCEPT !.cancelled = @ + 1]
           new == IF Finished(counted) THEN [counted EXCEPT !.status = "cancelled"] ELSE counted
<1>1. p \in Admitted
  BY DEF cancelNeverStartedMember, Fenced
<1>2. /\ r \in PanelReservation /\ r.members \in Nat /\ r.work \in Nat
      /\ r.started \in Nat /\ r.completed \in Nat /\ r.cancelled \in Nat
      /\ Orderly(p) /\ {executing, ended, doubted} \subseteq [Panels -> Nat]
      /\ executing[p] \in Nat /\ ended[p] \in Nat /\ doubted[p] \in Nat
      /\ liveReserved \in Nat /\ liveInUse \in Nat /\ workConsumed \in Nat /\ workReserved \in Int
  BY <1>1, BudgetFacts, ReservationFacts DEF AllOrderly, ShapesOK
<1>3. /\ new \in PanelReservation /\ new.started = r.started
      /\ new.completed = r.completed /\ new.cancelled = r.cancelled + 1
      /\ new.members = r.members /\ new.work = r.work
      /\ new.status \in {r.status, "cancelled"}
      /\ new.status # r.status => Finished(new)
  <2>1. /\ counted \in PanelReservation /\ counted.started = r.started
        /\ counted.cancelled = r.cancelled + 1 /\ counted.completed = r.completed
        /\ counted.members = r.members /\ counted.work = r.work /\ counted.status = r.status
    BY <1>2 DEF PanelReservation
  <2> HIDE DEF counted
  <2>2. CASE Finished(counted)
    <3>1. new = [counted EXCEPT !.status = "cancelled"] /\ "cancelled" \in Status
      BY <2>2 DEF Status
    <3>2. /\ new \in PanelReservation /\ new.started = counted.started
          /\ new.completed = counted.completed /\ new.cancelled = counted.cancelled
          /\ new.members = counted.members /\ new.work = counted.work
          /\ new.status = "cancelled"
      BY <2>1, <3>1 DEF PanelReservation
    <3>3. Finished(new)
      BY <2>2, <3>2 DEF Finished
    <3> HIDE DEF new
    <3> QED BY <2>1, <3>2, <3>3
  <2>3. CASE ~ Finished(counted)
    <3>1. new = counted
      BY <2>3
    <3> HIDE DEF new
    <3> QED BY <2>1, <3>1
  <2> QED BY <2>2, <2>3
<1>4. /\ reservations' = [reservations EXCEPT ![p] = new]
      /\ generation < MaxGeneration /\ generation' = generation + 1 /\ held' = held
      /\ r.started + r.cancelled < r.members
      /\ liveReserved' = liveReserved - 1 /\ liveInUse' = liveInUse
      /\ workReserved' = workReserved - 1 /\ workConsumed' = workConsumed
      /\ executing' = executing /\ ended' = ended /\ doubted' = doubted
  BY DEF cancelNeverStartedMember, updatePanel, launched
<1> HIDE DEF new
<1>5. /\ new.started + new.cancelled <= new.members /\ new.completed <= new.started
      /\ executing'[p] + ended'[p] <= new.started - new.completed + doubted'[p]
      /\ new.status \in {"completed", "cancelled"} => Finished(new)
  <2>1. /\ executing[p] + ended[p] <= r.started - r.completed + doubted[p] /\ r.completed <= r.started
        /\ r.status \in {"completed", "cancelled"} => r.completed + r.cancelled = r.members
    BY <1>2 DEF Orderly, Finished
  <2>2. ~ (r.status \in {"completed", "cancelled"})
    BY <1>2, <1>4, <2>1
  <2>3. new.status \in {"completed", "cancelled"} => Finished(new)
    BY <1>3, <2>2
  <2> QED BY <1>2, <1>3, <1>4, <2>1, <2>3
<1>6. /\ new.started - r.started = 0 /\ new.completed - r.completed = 0
      /\ new.cancelled - r.cancelled = 1
  BY <1>2, <1>3
<1>7. /\ liveReserved' = liveReserved - (new.started - r.started) - (new.cancelled - r.cancelled)
      /\ liveInUse' = liveInUse + (new.started - r.started) - (new.completed - r.completed)
      /\ workReserved' = workReserved - (new.started - r.started) - (new.cancelled - r.cancelled)
      /\ workConsumed' = workConsumed + (new.started - r.started)
      /\ new.started >= r.started /\ new.completed >= r.completed /\ new.cancelled >= r.cancelled
  BY <1>2, <1>3, <1>4, <1>6
<1>8. /\ {executing', ended', doubted'} \subseteq [Panels -> Nat]
      /\ \A q \in Panels \ {p} : /\ executing'[q] = executing[q] /\ ended'[q] = ended[q]
                                /\ doubted'[q] = doubted[q]
  BY <1>2, <1>4
<1> QED BY <1>1, <1>3, <1>4, <1>5, <1>7, <1>8, MemberStep

\* Every step keeps the invariant.
LEMMA BudgetInvKept ==
    BudgetInv /\ [BudgetNext]_budgetVars => BudgetInv'
<1> SUFFICES ASSUME BudgetInv, [BudgetNext]_budgetVars PROVE BudgetInv'
  OBVIOUS
<1>1. ASSUME NEW c \in Callers, NEW p \in Panels, NEW d \in Digests, admitAgain(c, p, d)
      PROVE  BudgetInv'
  BY <1>1, AdmitAgainKeeps
<1>2. ASSUME NEW c \in Callers, NEW p \in Panels, NEW d \in Digests, NEW mw \in Requirements,
             admitPanel(c, p, d, mw[1], mw[2])
      PROVE  BudgetInv'
  <2>1. mw[1] \in 1..MaxMembers /\ mw[2] \in 0..MaxWork
    BY DEF Requirements
  <2> QED BY <1>2, <2>1, AdmitKeeps
<1>3. ASSUME NEW c \in Callers, NEW p \in Panels, startPanelMember(c, p) PROVE BudgetInv'
  BY <1>3, StartKeeps
<1>4. ASSUME NEW c \in Callers, NEW p \in Panels, completePanelMember(c, p) PROVE BudgetInv'
  BY <1>4, CompleteKeeps
<1>5. ASSUME NEW c \in Callers, NEW p \in Panels, cancelNeverStartedMember(c, p)
      PROVE  BudgetInv'
  BY <1>5, CancelKeeps
<1>6. ASSUME NEW p \in Panels, memberEnds(p) PROVE BudgetInv'
  <2>1. /\ {executing', ended'} \subseteq [Panels -> Nat]
        /\ \A q \in Panels : executing'[q] + ended'[q] <= executing[q] + ended[q]
    BY <1>6, BudgetFacts DEF memberEnds, ShapesOK
  <2> QED BY <1>6, <2>1, BudgetFacts, LedgerUntouched DEF memberEnds
<1>7. ASSUME restart PROVE BudgetInv'
  <2>1. /\ {executing', ended'} \subseteq [Panels -> Nat]
        /\ \A q \in Panels : executing'[q] + ended'[q] <= executing[q] + ended[q]
    BY <1>7, BudgetFacts DEF restart, ShapesOK
  <2>2. held' \in Holdings
    BY <1>7 DEF restart, Holdings
  <2> QED BY <1>7, <2>1, <2>2, LedgerUntouched DEF restart
<1>8. CASE UNCHANGED budgetVars
  <2>1. /\ {executing', ended'} \subseteq [Panels -> Nat] /\ UNCHANGED doubted
        /\ \A q \in Panels : executing'[q] + ended'[q] <= executing[q] + ended[q]
    BY <1>8, BudgetFacts DEF budgetVars, launched, ShapesOK
  <2> QED BY <1>8, <2>1, BudgetFacts, LedgerUntouched DEF budgetVars
<1> QED BY <1>1, <1>2, <1>3, <1>4, <1>5, <1>6, <1>7, <1>8 DEF BudgetNext

LEMMA BudgetInvAlways == BudgetSpec => []BudgetInv
<1>1. BudgetInit => BudgetInv
  BY BudgetInitInv
<1>2. BudgetInv /\ [BudgetNext]_budgetVars => BudgetInv'
  BY BudgetInvKept
<1> QED BY <1>1, <1>2, PTL DEF BudgetSpec

-----------------------------------------------------------------------------
(* The panel ledger: theorems *)

\* The ledger, its reservations and its callers keep their types: the two live
\* counters and the work consumed never become negative.
THEOREM BudgetTypes == BudgetSpec => []BudgetTypeOK
BY BudgetInvAlways, PTL DEF BudgetInv

\* What executes or waits to be released, against the slots of its panel.
LEMMA SlotsHeld ==
    BudgetInv => \A p \in Panels : executing[p] + ended[p] <= slotsInUse[p] + doubted[p]
<1> SUFFICES ASSUME BudgetInv, NEW p \in Panels
             PROVE  executing[p] + ended[p] <= slotsInUse[p] + doubted[p]
  OBVIOUS
<1>1. CASE p \in Admitted
  BY <1>1, BudgetFacts DEF slotsInUse, AllOrderly, Orderly
<1>2. CASE p \notin Admitted
  <2>1. executing[p] = 0 /\ ended[p] = 0 /\ doubted[p] \in Nat /\ slotsInUse[p] = 0
    BY <1>2, BudgetFacts DEF slotsInUse, ShapesOK
  <2> QED BY <2>1
<1> QED BY <1>1, <1>2

\* The four counters of panel-budget.json are always the sums of what the
\* reservations account for, and every member that executes occupies a slot, but
\* for as many as there were completions reported as errors.
THEOREM LedgerAlwaysBalances == BudgetSpec => []LedgerBalances
<1>1. BudgetInv => LedgerBalances
  BY SlotsHeld DEF BudgetInv, LedgerBalances
<1> QED BY <1>1, BudgetInvAlways, PTL

\* The sum of two shares.
LEMMA SumOfBoth ==
    ASSUME NEW share \in Shares, NEW other \in Shares
    PROVE  Sum([p \in Panels |-> share[p] + other[p]]) = Sum(share) + Sum(other)
<1> DEFINE both == [p \in Panels |-> share[p] + other[p]]
<1>0. both \in Shares /\ \A p \in Panels : both[p] = share[p] + other[p]
  BY DEF Shares
<1> HIDE DEF both
<1>1. PICK g : Adds(share, g) /\ Sum(share) = g[Panels]
  BY SumIs
<1>2. PICK h : Adds(other, h) /\ Sum(other) = h[Panels]
  BY SumIs
<1>3. PICK k : Adds(both, k) /\ Sum(both) = k[Panels]
  BY <1>0, SumIs
<1>4. \A s \in SUBSET Panels : g[s] \in Int /\ h[s] \in Int /\ k[s] \in Int
  BY <1>0, <1>1, <1>2, <1>3, AddsInt
<1>5. /\ g[{}] = 0 /\ h[{}] = 0 /\ k[{}] = 0
      /\ \A s \in SUBSET Panels : s # {} => g[s] = share[Pick(s)] + g[s \ {Pick(s)}]
      /\ \A s \in SUBSET Panels : s # {} => h[s] = other[Pick(s)] + h[s \ {Pick(s)}]
      /\ \A s \in SUBSET Panels : s # {} => k[s] = both[Pick(s)] + k[s \ {Pick(s)}]
  <2>1. Adds(share, g) /\ Adds(other, h) /\ Adds(both, k)
    BY <1>1, <1>2, <1>3
  <2>2. AddsByPick(share, g) /\ AddsByPick(other, h) /\ AddsByPick(both, k)
    BY <2>1, AddsFacts, Zenon
  <2> QED BY <2>2 DEF AddsByPick
<1> DEFINE Bad == {s \in SUBSET Panels : k[s] # g[s] + h[s]}
<1>6. Bad = {}
  <2> SUFFICES ASSUME Bad # {} PROVE FALSE
    OBVIOUS
  <2>1. PICK s \in Bad : s = {} \/ s \ {Pick(s)} \notin Bad
    BY SmallestFacts
  <2>2. s # {}
    <3>1. k[s] # g[s] + h[s]
      OBVIOUS
    <3>2. ASSUME s = {} PROVE k[s] = 0 /\ g[s] = 0 /\ h[s] = 0
      BY <1>5, <3>2
    <3> QED BY <3>1, <3>2
  <2>3. /\ k[s \ {Pick(s)}] = g[s \ {Pick(s)}] + h[s \ {Pick(s)}]
        /\ s \ {Pick(s)} \in SUBSET Panels /\ Pick(s) \in Panels /\ s \in SUBSET Panels
    BY <2>1, <2>2, PickFacts
  <2>4. /\ g[s] = share[Pick(s)] + g[s \ {Pick(s)}] /\ h[s] = other[Pick(s)] + h[s \ {Pick(s)}]
        /\ k[s] = both[Pick(s)] + k[s \ {Pick(s)}]
    BY <1>5, <2>2
  <2>5. /\ share[Pick(s)] \in Int /\ other[Pick(s)] \in Int
        /\ both[Pick(s)] = share[Pick(s)] + other[Pick(s)]
    BY <1>0, <2>3 DEF Shares
  <2> HIDE DEF Bad
  <2>6. k[s] = g[s] + h[s]
    BY <1>4, <2>3, <2>4, <2>5
  <2> QED BY <2>6 DEF Bad
<1> QED BY <1>1, <1>2, <1>3, <1>6 DEF both

\* Neither budget is ever overdrawn, and the members that execute exceed the slots
\* in use by no more than the completions that were reported as errors.
THEOREM LimitsHold == BudgetSpec => []NeverOverbooked
<1>1. BudgetInv => NeverOverbooked
  <2> SUFFICES ASSUME BudgetInv PROVE NeverOverbooked
    OBVIOUS
  <2> DEFINE both == [p \in Panels |-> slotsInUse[p] + doubted[p]]
  <2>1. executing \in Shares /\ slotsInUse \in Shares /\ doubted \in Shares
    BY BudgetFacts, ShareFacts
  <2>2. \A p \in Panels : executing[p] <= both[p]
    <3> SUFFICES ASSUME NEW p \in Panels PROVE executing[p] <= slotsInUse[p] + doubted[p]
      OBVIOUS
    <3>1. executing[p] \in Nat /\ ended[p] \in Nat /\ doubted[p] \in Nat
      BY BudgetFacts DEF ShapesOK
    <3> QED BY <2>1, <3>1, SlotsHeld DEF Shares
  <2>3. both \in Shares
    BY <2>1 DEF Shares
  <2>4. Sum(both) = Sum(slotsInUse) + Sum(doubted)
    BY <2>1, SumOfBoth
  <2> HIDE DEF both
  <2>5. Sum(executing) <= Sum(both)
    BY <2>1, <2>2, <2>3, SumGrows
  <2> QED BY <2>4, <2>5, BudgetFacts DEF NeverOverbooked, CountersBalance
<1> QED BY <1>1, BudgetInvAlways, PTL

\* No member of an admitted panel is refused a slot; it is refused work only when
\* its panel has used its own allowance, or another one has used more than its own.
THEOREM AdmittedMembersStart == BudgetSpec => []RefusedWhenOverdrawn
<1>1. BudgetInv => RefusedWhenOverdrawn
  <2> SUFFICES ASSUME BudgetInv, NEW p \in Admitted, MayStart(reservations[p])
               PROVE  /\ liveReserved > 0
                      /\ workReserved > 0 \/ workLeft[p] <= 0
                           \/ \E q \in Admitted : workLeft[q] < 0
    BY DEF RefusedWhenOverdrawn
  <2>1. slotsReserved \in Shares /\ workLeft \in Shares
    BY BudgetFacts, ShareFacts
  <2>2. p \in Panels /\ slotsReserved[p] > 0
    BY BudgetFacts, ReservationFacts DEF slotsReserved, MayStart
  <2>3. liveReserved > 0
    <3>1. \A q \in Panels : slotsReserved[q] >= 0
      BY BudgetFacts, ShareSigns
    <3>2. slotsReserved[p] <= Sum(slotsReserved)
      BY <2>1, <2>2, <3>1, ShareOfSum
    <3>3. slotsReserved[p] \in Int /\ Sum(slotsReserved) \in Int
      BY <2>1, <2>2, SumInt DEF Shares
    <3> QED BY <2>2, <3>2, <3>3, BudgetFacts DEF CountersBalance
  <2>4. ASSUME \A q \in Admitted : ~ (workLeft[q] < 0) PROVE workReserved > 0 \/ workLeft[p] <= 0
    <3>1. \A q \in Panels : workLeft[q] \in Int /\ (q \notin Admitted => workLeft[q] = 0)
      BY <2>1 DEF Shares, workLeft
    <3>2. \A q \in Panels : workLeft[q] >= 0
      BY <2>4, <3>1
    <3>3. workLeft[p] <= Sum(workLeft)
      BY <2>1, <2>2, <3>2, ShareOfSum
    <3>4. Sum(workLeft) \in Int /\ workReserved = Sum(workLeft)
      BY <2>1, SumInt, BudgetFacts DEF CountersBalance
    <3> QED BY <2>2, <3>1, <3>3, <3>4
  <2> QED BY <2>3, <2>4
<1> QED BY <1>1, BudgetInvAlways, PTL

\* Work that was consumed stays consumed, an admitted definition is frozen, and
\* the reservation of a finished panel never changes again.
THEOREM AccountingStays == BudgetSpec => AccountingIsFinal
<1> DEFINE Final ==
      /\ workConsumed' >= workConsumed
      /\ \A p \in Admitted :
            /\ reservations'[p].digest = reservations[p].digest
            /\ reservations[p].status \in {"completed", "cancelled"} =>
                  reservations'[p] = reservations[p]
<1>1. BudgetInv /\ [BudgetNext]_budgetVars => [Final]_budgetVars
  <2> SUFFICES ASSUME BudgetInv, BudgetNext PROVE Final
    OBVIOUS
  <2>0. ASSUME NEW p \in Admitted, reservations[p].status \in {"completed", "cancelled"}
        PROVE  /\ ~ (reservations[p].completed < reservations[p].started)
               /\ ~ (reservations[p].started + reservations[p].cancelled < reservations[p].members)
               /\ ~ (reservations[p].started < reservations[p].members - reservations[p].cancelled)
    <3>1. /\ reservations[p].members \in Nat /\ reservations[p].started \in Nat
          /\ reservations[p].completed \in Nat /\ reservations[p].cancelled \in Nat
          /\ Orderly(p)
      BY BudgetFacts, ReservationFacts DEF AllOrderly
    <3> QED BY <2>0, <3>1 DEF Orderly, Finished
  <2>1. ASSUME NEW c \in Callers, NEW p \in Panels, NEW d \in Digests, admitAgain(c, p, d)
        PROVE  Final
    BY <2>1, BudgetFacts DEF admitAgain, ledger
  <2>2. ASSUME NEW c \in Callers, NEW p \in Panels, NEW d \in Digests, NEW mw \in Requirements,
               admitPanel(c, p, d, mw[1], mw[2])
        PROVE  Final
    <3>1. /\ \A q \in Admitted : reservations'[q] = reservations[q]
          /\ workConsumed' = workConsumed
      BY <2>2, BudgetFacts DEF admitPanel, Admitted, ShapesOK
    <3> QED BY <3>1, BudgetFacts
  <2>3. ASSUME NEW c \in Callers, NEW p \in Panels, startPanelMember(c, p) PROVE Final
    <3>1. /\ p \in Admitted
          /\ reservations[p].started < reservations[p].members - reservations[p].cancelled
          /\ reservations' = [reservations EXCEPT ![p] =
                [reservations[p] EXCEPT !.started = @ + 1, !.status = "running"]]
          /\ workConsumed' = workConsumed + 1
      BY <2>3 DEF startPanelMember, Fenced, updatePanel, MayStart
    <3>2. reservations[p] \in PanelReservation
      BY <3>1, BudgetFacts, ReservationFacts
    <3>3. reservations'[p].digest = reservations[p].digest
          /\ \A q \in Admitted \ {p} : reservations'[q] = reservations[q]
      BY <3>1, <3>2, BudgetFacts DEF ShapesOK, Admitted, PanelReservation
    <3> QED BY <2>0, <3>1, <3>3, BudgetFacts
  <2>4. ASSUME NEW c \in Callers, NEW p \in Panels, completePanelMember(c, p) PROVE Final
    <3> DEFINE counted == [reservations[p] EXCEPT !.completed = @ + 1]
               new == IF Finished(counted) THEN [counted EXCEPT !.status = "completed"]
                                           ELSE counted
    <3>1. /\ p \in Admitted /\ reservations[p].completed < reservations[p].started
          /\ reservations' = [reservations EXCEPT ![p] = new]
          /\ workConsumed' = workConsumed
      BY <2>4 DEF completePanelMember, Fenced, updatePanel
    <3>2. reservations[p] \in PanelReservation
      BY <3>1, BudgetFacts, ReservationFacts
    <3>3. new.digest = reservations[p].digest
      BY <3>2 DEF PanelReservation
    <3> HIDE DEF new
    <3>4. reservations'[p].digest = reservations[p].digest
          /\ \A q \in Admitted \ {p} : reservations'[q] = reservations[q]
      BY <3>1, <3>3, BudgetFacts DEF ShapesOK, Admitted
    <3> QED BY <2>0, <3>1, <3>4, BudgetFacts
  <2>5. ASSUME NEW c \in Callers, NEW p \in Panels, cancelNeverStartedMember(c, p) PROVE Final
    <3> DEFINE counted == [reservations[p] EXCEPT !.cancelled = @ + 1]
               new == IF Finished(counted) THEN [counted EXCEPT !.status = "cancelled"]
                                           ELSE counted
    <3>1. /\ p \in Admitted
          /\ reservations[p].started + reservations[p].cancelled < reservations[p].members
          /\ reservations' = [reservations EXCEPT ![p] = new]
          /\ workConsumed' = workConsumed
      BY <2>5 DEF cancelNeverStartedMember, Fenced, updatePanel
    <3>2. reservations[p] \in PanelReservation
      BY <3>1, BudgetFacts, ReservationFacts
    <3>3. new.digest = reservations[p].digest
      BY <3>2 DEF PanelReservation
    <3> HIDE DEF new
    <3>4. reservations'[p].digest = reservations[p].digest
          /\ \A q \in Admitted \ {p} : reservations'[q] = reservations[q]
      BY <3>1, <3>3, BudgetFacts DEF ShapesOK, Admitted
    <3> QED BY <2>0, <3>1, <3>4, BudgetFacts
  <2>6. ASSUME NEW p \in Panels, memberEnds(p) PROVE Final
    BY <2>6, BudgetFacts DEF memberEnds, ledger
  <2>7. ASSUME restart PROVE Final
    BY <2>7, BudgetFacts DEF restart, ledger
  <2> HIDE DEF Final
  <2> QED BY <2>1, <2>2, <2>3, <2>4, <2>5, <2>6, <2>7 DEF BudgetNext
<1> QED BY <1>1, BudgetInvAlways, PTL DEF BudgetSpec, AccountingIsFinal

=============================================================================
