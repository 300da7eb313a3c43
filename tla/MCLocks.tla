------------------------------ MODULE MCLocks ------------------------------
(* What keeps the processes of a repository out of each other's way: the two  *)
(* locks of a run, and the ledger of its panels. They share no state, so a    *)
(* behaviour has one of them; the other is over.                              *)
EXTENDS PanelBudget, RunLock, TLC

CONSTANTS p1, p2, d1, d2, c1, c2,            \* the ledger
          a, b, b2, c, d, e, run1, run2, approvals  \* the locks

MCPanels == {p1, p2}
MCDigests == {d1, d2}
MCCallers == {c1, c2}

\* Panels, their definitions and their callers are only compared for equality,
\* and the one liveness property is about the locks.
Symmetric == Permutations(MCPanels) \cup Permutations(MCDigests)
               \cup Permutations(MCCallers)

\* A run with the process that starts it and two that resume it, another run,
\* and two users of an approval ledger.
MCProcesses == {a, b, b2, c, d, e}
MCRuns == {run1, run2, approvals}
MCRunOf == [p \in MCProcesses |->
              CASE p \in {a, b, b2} -> run1 [] p = c -> run2 [] OTHER -> approvals]
MCResumers == {b, b2}
MCLedgerUsers == {d, e}

\* LockInit for the processes of one lane: the users of the ledger and the
\* others touch no file and no slot in common.
LockStart(ps) ==
    /\ pc = [p \in Processes |-> IF p \in ps THEN "out" ELSE "done"]
    /\ lockFile = [r \in Runs |-> None]
    /\ resumable = {} /\ raced = {} /\ flock = None
    /\ polls = [p \in Processes |-> 0] /\ calls = [p \in Processes |-> 0]

BudgetOver ==
    /\ workReserved = 0 /\ workConsumed = 0 /\ liveReserved = 0 /\ liveInUse = 0
    /\ generation = MaxGeneration
    /\ reservations = [p \in Panels |-> NoReservation]
    /\ held = [k \in Callers |-> [p \in Panels |-> NoReservation]]
    /\ executing = [p \in Panels |-> 0]
    /\ ended = [p \in Panels |-> 0] /\ doubted = [p \in Panels |-> 0]

Init ==
    \/ BudgetInit /\ LockStart({})
    \/ BudgetOver /\ LockStart(LedgerUsers)
    \/ BudgetOver /\ LockStart(Processes \ LedgerUsers)

Next ==
    \/ BudgetNext /\ UNCHANGED lockVars
    \/ LockNext /\ UNCHANGED budgetVars

Spec == Init /\ [][Next]_<<budgetVars, lockVars>> /\ LockFair
=============================================================================
