----------------------------- MODULE PanelBudget -----------------------------
(***************************************************************************)
(* The durable panel ledger of a run (panel_budget.go).                    *)
(*                                                                         *)
(* Callers admit whole panels, then start, complete or cancel members one  *)
(* at a time; every operation holds panelBudgetMu over its read and its    *)
(* write of panel-budget.json, so it is one step.  The write may fail, and *)
(* may then have replaced the file all the same.  A caller that got an     *)
(* error from start does not run the member; one that got an error when    *)
(* its member had ended calls complete again.                              *)
(*                                                                         *)
(* Production admits nothing yet (the ledger is initialized and the rest   *)
(* is exercised by tests); the model is of the repository as written.      *)
(***************************************************************************)
EXTENDS Integers, FiniteSets, FiniteSetsExt

CONSTANTS Panels,          \* panel ids
          Digests,         \* panel definitions
          Callers,         \* goroutines and later incarnations of the process
          WorkLimit,       \* cumulative_work_limit
          LiveLimit,       \* live_concurrency_limit
          MaxMembers,      \* bound: members asked for by one panel
          MaxWork,         \* bound: work allowance asked for by one panel
          MaxGeneration,   \* bound: ledger writes
          NoReservation

ASSUME LimitsAssumption ==
    /\ WorkLimit \in Nat /\ LiveLimit \in Nat
    /\ MaxMembers \in Nat /\ MaxWork \in Nat /\ MaxGeneration \in Nat
ASSUME PanelsAssumption == IsFiniteSet(Panels)

VARIABLES workReserved, workConsumed,   \* non-renewable
          liveReserved, liveInUse,      \* renewable
          generation,                   \* of the ledger
          reservations,                 \* [Panels -> reservation or NoReservation]
          held,      \* the reservation generation each caller holds, or NoReservation
          executing, \* [Panels -> number of members really executing]
          ended,     \* [Panels -> number of members that ended and whose slot
                     \* their caller means to release]
          doubted    \* history: [Panels -> number of completions that were written
                     \* but reported as errors]

ledger == <<workReserved, workConsumed, liveReserved, liveInUse, generation,
            reservations>>
launched == <<executing, ended, doubted>>
budgetVars == <<ledger, held, launched>>

Status == {"reserved", "running", "completed", "cancelled"}

PanelReservation ==
    [digest : Digests, members : 1..MaxMembers, work : 0..MaxWork,
     started : Nat, completed : Nat, cancelled : Nat,
     status : Status, generation : Nat]

ASSUME NoReservationAssumption == NoReservation \notin PanelReservation

BudgetInit ==
    /\ workReserved = 0 /\ workConsumed = 0
    /\ liveReserved = 0 /\ liveInUse = 0
    /\ generation = 0
    /\ reservations = [p \in Panels |-> NoReservation]
    /\ held = [c \in Callers |-> [p \in Panels |-> NoReservation]]
    /\ executing = [p \in Panels |-> 0]
    /\ ended = [p \in Panels |-> 0]
    /\ doubted = [p \in Panels |-> 0]

Admitted == {p \in Panels : reservations[p] # NoReservation}

-----------------------------------------------------------------------------
(* admitPanel *)

\* A caller gets the reservation: a new one, or the one that exists.
Hold(c, p, g) == held' = [held EXCEPT ![c][p] = g]

admitAgain(c, p, digest) ==
    /\ p \in Admitted
    /\ reservations[p].digest = digest
    /\ Hold(c, p, reservations[p].generation)
    /\ UNCHANGED <<ledger, launched>>

HasRoom(members, work) ==
    /\ liveReserved + liveInUse + members <= LiveLimit
    /\ workReserved + workConsumed + work <= WorkLimit

admitPanel(c, p, digest, members, work) ==
    /\ p \notin Admitted
    /\ members > 0
    /\ HasRoom(members, work)
    /\ generation < MaxGeneration
    /\ generation' = generation + 1
    /\ reservations' = [reservations EXCEPT ![p] =
         [digest |-> digest, members |-> members, work |-> work,
          started |-> 0, completed |-> 0, cancelled |-> 0,
          status |-> "reserved", generation |-> generation + 1]]
    /\ liveReserved' = liveReserved + members
    /\ workReserved' = workReserved + work
    /\ \/ Hold(c, p, generation + 1)
       \/ UNCHANGED held                \* replaced, but reported as an error
    /\ UNCHANGED <<workConsumed, liveInUse, launched>>

-----------------------------------------------------------------------------
(* updatePanel: only with the generation of the reservation *)

updatePanel(c, p, new) ==
    /\ generation < MaxGeneration
    /\ reservations' = [reservations EXCEPT ![p] = new]
    /\ generation' = generation + 1
    /\ UNCHANGED held

Fenced(c, p) == p \in Admitted /\ held[c][p] = reservations[p].generation

MayStart(r) == r.started < r.members - r.cancelled

startPanelMember(c, p) ==
    LET r == reservations[p] IN
    /\ Fenced(c, p)
    /\ MayStart(r)
    /\ workReserved > 0
    /\ updatePanel(c, p, [r EXCEPT !.started = @ + 1, !.status = "running"])
    /\ liveReserved' = liveReserved - 1
    /\ liveInUse' = liveInUse + 1
    /\ workReserved' = workReserved - 1
    /\ workConsumed' = workConsumed + 1
    /\ \/ executing' = [executing EXCEPT ![p] = @ + 1]
       \/ UNCHANGED executing           \* replaced, but reported as an error
    /\ UNCHANGED <<ended, doubted>>

Finished(r) == r.completed + r.cancelled = r.members

\* A member is over, and its caller means to release its slot.
memberEnds(p) ==
    /\ executing[p] > 0
    /\ executing' = [executing EXCEPT ![p] = @ - 1]
    /\ ended' = [ended EXCEPT ![p] = @ + 1]
    /\ UNCHANGED <<ledger, held, doubted>>

\* A caller that is told of an error tries again, whether or not the ledger
\* was replaced; nothing in the ledger says which members were completed.
completePanelMember(c, p) ==
    LET r == reservations[p]
        new == [r EXCEPT !.completed = @ + 1] IN
    /\ Fenced(c, p)
    /\ ended[p] > 0
    /\ r.completed < r.started
    /\ updatePanel(c, p, IF Finished(new) THEN [new EXCEPT !.status = "completed"]
                                          ELSE new)
    /\ liveInUse' = liveInUse - 1
    /\ \/ ended' = [ended EXCEPT ![p] = @ - 1] /\ UNCHANGED doubted
       \/ doubted' = [doubted EXCEPT ![p] = @ + 1] /\ UNCHANGED ended
    /\ UNCHANGED <<liveReserved, workReserved, workConsumed, executing>>

\* Mutant: cancellation forgets to count the member it cancelled.
cancelUncounted(c, p) ==
    LET r == reservations[p] IN
    /\ Fenced(c, p)
    /\ r.started + r.cancelled < r.members
    /\ updatePanel(c, p, r)
    /\ liveReserved' = liveReserved - 1
    /\ workReserved' = workReserved - 1
    /\ UNCHANGED <<liveInUse, workConsumed, launched>>

cancelNeverStartedMember(c, p) ==
    LET r == reservations[p]
        new == [r EXCEPT !.cancelled = @ + 1] IN
    /\ Fenced(c, p)
    /\ r.started + r.cancelled < r.members
    /\ updatePanel(c, p, IF Finished(new) THEN [new EXCEPT !.status = "cancelled"]
                                          ELSE new)
    /\ liveReserved' = liveReserved - 1
    /\ workReserved' = workReserved - 1
    /\ UNCHANGED <<liveInUse, workConsumed, launched>>

\* The process restarts: no caller survives, nor does any member.
restart ==
    /\ \E c \in Callers, p \in Panels : held[c][p] # NoReservation
    /\ held' = [c \in Callers |-> [p \in Panels |-> NoReservation]]
    /\ executing' = [p \in Panels |-> 0]
    /\ ended' = [p \in Panels |-> 0]
    /\ UNCHANGED <<ledger, doubted>>

-----------------------------------------------------------------------------

\* Members and work asked for; the allowance may be less than the members.
Requirements == (1..MaxMembers) \X (0..MaxWork)

BudgetNext ==
    \/ \E c \in Callers, p \in Panels :
          \/ \E d \in Digests : admitAgain(c, p, d)
          \/ \E d \in Digests, mw \in Requirements :
                admitPanel(c, p, d, mw[1], mw[2])
          \/ startPanelMember(c, p)
          \/ completePanelMember(c, p)
          \/ cancelNeverStartedMember(c, p)
    \/ \E p \in Panels : memberEnds(p)
    \/ restart

BudgetSpec == BudgetInit /\ [][BudgetNext]_budgetVars

-----------------------------------------------------------------------------
(* Properties *)

\* Type invariant of the ledger, its reservations and its callers.
BudgetTypeOK ==
    /\ {workConsumed, liveReserved, liveInUse} \subseteq Nat
    /\ workReserved \in Int
    /\ generation \in 0..MaxGeneration
    /\ reservations \in [Panels -> PanelReservation \cup {NoReservation}]
    /\ held \in [Callers -> [Panels -> Nat \cup {NoReservation}]]
    /\ {executing, ended, doubted} \subseteq [Panels -> Nat]

Sum(share) == MapThenSumSet(LAMBDA p : share[p], Panels)

\* What each panel accounts for: slots it may still take, slots it occupies,
\* work it has used, and what is left of its allowance.
slotsReserved == [p \in Panels |-> IF p \in Admitted
    THEN reservations[p].members - reservations[p].started - reservations[p].cancelled ELSE 0]
slotsInUse == [p \in Panels |-> IF p \in Admitted
    THEN reservations[p].started - reservations[p].completed ELSE 0]
workUsed == [p \in Panels |-> IF p \in Admitted THEN reservations[p].started ELSE 0]
workLeft == [p \in Panels |-> IF p \in Admitted
    THEN reservations[p].work - reservations[p].started - reservations[p].cancelled ELSE 0]

CountersBalance ==
    /\ liveReserved = Sum(slotsReserved) /\ liveInUse = Sum(slotsInUse)
    /\ workReserved = Sum(workLeft) /\ workConsumed = Sum(workUsed)

\* The four counters of the ledger are exactly what the reservations account
\* for, so no sequence of admissions, starts, completions, cancellations and
\* failed writes creates or loses a unit of either budget; and every member that
\* executes, or ended and was not released, occupies a slot, but for as many as
\* there were completions that took effect and were reported as errors.
LedgerBalances ==
    /\ CountersBalance
    /\ \A p \in Panels : executing[p] + ended[p] <= slotsInUse[p] + doubted[p]

\* Neither budget is ever overdrawn, however many panels overlap and whatever
\* was reported as an error; and the members that execute exceed the slots in
\* use by no more than the completions that were released twice.
NeverOverbooked ==
    /\ Sum(executing) <= liveInUse + Sum(doubted)
    /\ liveReserved + liveInUse <= LiveLimit
    /\ workReserved + workConsumed <= WorkLimit

\* live_concurrency_limit read as a bound on what runs: the code may exceed it,
\* since a completion that is tried again releases the slot of another member.
MembersWithinLimit == Sum(executing) <= LiveLimit

\* "Admission reserves the whole panel before any member starts"
\* (docs/DETERMINISTIC_REPLAY.md): no member of an admitted panel that is
\* neither started nor cancelled is ever refused for want of budget.  The code
\* refuses one when an allowance is shorter than the members.
AdmittedMembersCanStart ==
    \A p \in Admitted :
        MayStart(reservations[p]) => workReserved > 0 /\ liveReserved > 0

\* What admission does reserve: a slot for every member, and work until the
\* panel has used its own allowance, or another one has used more than its own.
RefusedWhenOverdrawn ==
    \A p \in Admitted :
        MayStart(reservations[p]) =>
            /\ liveReserved > 0
            /\ \/ workReserved > 0
               \/ workLeft[p] <= 0
               \/ \E q \in Admitted : workLeft[q] < 0

\* Work is not renewable, a panel's definition is frozen by its admission,
\* and a finished panel is finished.
AccountingIsFinal ==
    [][ /\ workConsumed' >= workConsumed
        /\ \A p \in Admitted :
              /\ reservations'[p].digest = reservations[p].digest
              /\ reservations[p].status \in {"completed", "cancelled"} =>
                    reservations'[p] = reservations[p]
      ]_budgetVars

=============================================================================
