-------------------------- MODULE OperationJournal --------------------------
(***************************************************************************)
(* The durable operation journal of one run (replay_contract.go) and the   *)
(* boundary that uses it, App.runAdapter (runner_part06.go).               *)
(*                                                                         *)
(* A tagteam process freezes its inputs in execution-snapshot.json, then   *)
(* calls agents one at a time.  Each call is prepared in                   *)
(* operations/<sequence>.json, marked in_flight just before the agent is   *)
(* started, and resolved when the agent has returned.  The process may     *)
(* crash between any two durable writes and any write may fail.  An agent  *)
(* lives outside the process: one that was started may apply its effect    *)
(* at any later time, even when the process that started it is gone.       *)
(*                                                                         *)
(* Requests stand for the canonical digest of an adapter envelope, so two  *)
(* calls are equal here exactly when their digests are.  FencingGeneration *)
(* equals the sequence number of its record throughout the code and has no *)
(* variable.  Corruption of the files by another program is not modelled.  *)
(***************************************************************************)
EXTENDS Integers, Sequences

CONSTANTS Requests,      \* digests of the requests the roles issue
          Inputs,        \* digests of workflow, arguments and policies
          None,          \* no snapshot, no request
          MaxOps,        \* bound: records in the journal
          MaxAttempts    \* bound: attempts of one operation

ASSUME NoneAssumption == None \notin Requests \cup Inputs
ASSUME BoundsAssumption == MaxOps \in Nat /\ MaxAttempts \in Nat \ {0}

VARIABLES snapshot,   \* execution-snapshot.json: the frozen inputs, or None
          journal,    \* operations/*.json, a contiguous stream from sequence one
          diverged,   \* divergence.json exists
          pc,         \* where the process is in runAdapter
          inputs,     \* the inputs of the running process
          request,    \* the request of the call in progress
          op,         \* <<sequence, attempt>> the call in progress holds
          err,        \* why the last call returned an error, or "none"
          running,    \* attempts whose agent may still act
          applied,    \* attempts whose effect happened
          answers     \* [request, result] pairs that calls have returned

durable == <<snapshot, journal, diverged>>
process == <<pc, inputs, request, op, err>>
world   == <<running, applied, answers>>
vars    == <<durable, process, world>>

-----------------------------------------------------------------------------
(* Records *)

OperationState == {"prepared", "in_flight", "committed", "failed", "in_doubt"}

Unresolved == {"prepared", "in_flight", "in_doubt"}

Attempts == (1..MaxOps) \X (1..MaxAttempts)

NoOp == <<0, 0>>

\* A result is named by the attempt whose agent returned it.
OperationRecord ==
    [request : Requests, state : OperationState, attempt : 1..MaxAttempts,
     risk : BOOLEAN, result : Attempts \cup {NoOp}]

validOperationTransition ==
    { <<"prepared", "in_flight">>,  <<"prepared", "failed">>,
      <<"in_flight", "committed">>, <<"in_flight", "failed">>,
      <<"in_flight", "in_doubt">>,
      <<"in_doubt", "committed">>,  <<"in_doubt", "in_flight">>,
      <<"in_doubt", "failed">> }

Last == Len(journal)

TailState == IF Last = 0 THEN "none" ELSE journal[Last].state

\* Mutant: the digest of the request is not compared.
TailIsAnything(q) == Last > 0

\* Is the tail the very request that is being made?
TailIs(q) == Last > 0 /\ journal[Last].request = q

-----------------------------------------------------------------------------
(* Durable replacement: it happens, or the caller gets an error, and the   *)
(* new content may have been renamed into place all the same.              *)

Idle(e) == /\ pc' = "idle"
           /\ err' = e
           /\ request' = None
           /\ op' = NoOp
           /\ UNCHANGED inputs

WriteFails(new) ==
    /\ journal' \in {journal, new}
    /\ Idle("write_failed")
    /\ UNCHANGED <<snapshot, diverged, world>>

Init ==
    /\ snapshot = None
    /\ journal = <<>>
    /\ diverged = FALSE
    /\ pc = "down"
    /\ inputs = None
    /\ request = None
    /\ op = NoOp
    /\ err = "none"
    /\ running = {}
    /\ applied = {}
    /\ answers = {}

-----------------------------------------------------------------------------
(* Start or restart of a process on this run: freezeExecutionSnapshot *)

freezeExecutionSnapshot(i) ==
    /\ pc = "down"
    /\ snapshot \in {None, i}
    /\ snapshot' = i
    /\ inputs' = i
    /\ pc' = "idle"
    /\ err' = "none"
    /\ UNCHANGED <<journal, diverged, request, op, world>>

freezeRefused(i) ==
    /\ pc = "down"
    /\ snapshot \notin {None, i}
    /\ err # "immutable_snapshot_mismatch"
    /\ err' = "immutable_snapshot_mismatch"
    /\ UNCHANGED <<durable, pc, inputs, request, op, world>>

-----------------------------------------------------------------------------
(* prepareOperation *)

\* An unresolved tail that is not this request: nothing may be called.
prepareMismatch(q) ==
    /\ pc = "idle"
    /\ TailState \in Unresolved
    /\ ~ TailIs(q)
    /\ diverged' = TRUE
    /\ Idle("unresolved_operation_mismatch")
    /\ UNCHANGED <<snapshot, journal, world>>

\* An in_flight tail found by a later call is in doubt, and at risk.
InDoubt ==
    [journal EXCEPT ![Last].state = "in_doubt", ![Last].risk = TRUE]

prepareInDoubt(q) ==
    /\ pc = "idle"
    /\ TailState = "in_flight"
    /\ TailIs(q)
    /\ \/ /\ journal' = InDoubt
          /\ pc' = "marked"
          /\ request' = q
          /\ UNCHANGED <<snapshot, diverged, inputs, op, err, world>>
       \/ WriteFails(InDoubt)

\* Mutant: the risk flag is computed from the state the record had before.
RetriedRiskLost ==
    [journal EXCEPT ![Last].attempt = @ + 1,
                    ![Last].risk = (journal[Last].state = "in_flight")]

\* The second write of prepareOperation: one more attempt at the tail.
Retried ==
    [journal EXCEPT ![Last].attempt = @ + 1,
                    ![Last].risk = (journal[Last].state = "in_doubt")]

\* Mutant: a failed tail is retried in place.
prepareRetryFailed(q) ==
    /\ pc = "idle" /\ TailState \in {"prepared", "in_doubt", "failed"} /\ TailIs(q)
    /\ journal[Last].attempt < MaxAttempts
    /\ journal' = Retried
    /\ pc' = "prepared"
    /\ request' = q
    /\ op' = <<Last, Retried[Last].attempt>>
    /\ UNCHANGED <<snapshot, diverged, inputs, err, world>>

prepareRetry(q) ==
    /\ \/ pc = "marked" /\ request = q
       \/ pc = "idle" /\ TailState \in {"prepared", "in_doubt"} /\ TailIs(q)
    /\ journal[Last].attempt < MaxAttempts
    /\ \/ /\ journal' = Retried
          /\ pc' = "prepared"
          /\ request' = q
          /\ op' = <<Last, Retried[Last].attempt>>
          /\ UNCHANGED <<snapshot, diverged, inputs, err, world>>
       \/ WriteFails(Retried)

\* An exact committed tail is answered from the journal: no agent is called.
prepareReplay(q) ==
    /\ pc = "idle"
    /\ TailState = "committed"
    /\ TailIs(q)
    /\ answers' = answers \cup
                    {[request |-> q, result |-> journal[Last].result]}
    /\ Idle("none")
    /\ UNCHANGED <<durable, running, applied>>

NewRecord(q) ==
    [request |-> q, state |-> "prepared", attempt |-> 1, risk |-> FALSE,
     result |-> NoOp]

prepareNew(q) ==
    /\ pc = "idle"
    /\ \/ TailState \in {"none", "failed"}
       \/ TailState = "committed" /\ ~ TailIs(q)
    /\ Last < MaxOps
    /\ \/ /\ journal' = Append(journal, NewRecord(q))
          /\ pc' = "prepared"
          /\ request' = q
          /\ op' = <<Last + 1, 1>>
          /\ UNCHANGED <<snapshot, diverged, inputs, err, world>>
       \/ WriteFails(Append(journal, NewRecord(q)))

-----------------------------------------------------------------------------
(* The rest of runAdapter *)

\* transitionOperation, on the record the call holds.
Transition(state, result) ==
    [journal EXCEPT ![op[1]].state = state, ![op[1]].result = result]

MayBecome(state) ==
    <<journal[op[1]].state, state>> \in validOperationTransition

\* Budget, Git snapshot, command line, delivery record, invocation lock:
\* each may fail after the operation was prepared, and returns the error
\* with operationInFlight still false, so the record is left as it is.
failBeforeDispatch(e) ==
    /\ pc = "prepared"
    /\ Idle(e)
    /\ UNCHANGED <<durable, world>>

dispatch ==
    /\ pc = "prepared"
    /\ MayBecome("in_flight")
    /\ LET new == Transition("in_flight", journal[op[1]].result)
       IN  \/ /\ journal' = new
              /\ running' = running \cup {op}
              /\ pc' = "running"
              /\ UNCHANGED <<snapshot, diverged, inputs, request, op, err,
                             applied, answers>>
           \/ WriteFails(new)

\* The agent of an attempt acts, at most once, whoever is still listening.
agentActs(a) ==
    /\ a \in running \ applied
    /\ applied' = applied \cup {a}
    /\ UNCHANGED <<durable, process, running, answers>>

\* It returned, its output was accepted and the worktree is as it should be.
agentSucceeds ==
    /\ pc = "running"
    /\ op \in applied
    /\ running' = running \ {op}
    /\ pc' = "succeeded"
    /\ UNCHANGED <<durable, inputs, request, op, err, applied, answers>>

\* Error, timeout, bad output or an integrity violation.  What was started
\* remotely may still take effect after the call has given up on it.
agentFails ==
    /\ pc = "running"
    /\ running' \in {running, running \ {op}}
    /\ pc' = "errored"
    /\ UNCHANGED <<durable, inputs, request, op, err, applied, answers>>

\* Mutant: the result is returned although it could not be committed.
commitIgnoresWriteError ==
    /\ pc = "succeeded"
    /\ journal' \in {journal, Transition("committed", op)}
    /\ answers' = answers \cup {[request |-> request, result |-> op]}
    /\ Idle("none")
    /\ UNCHANGED <<snapshot, diverged, running, applied>>

commitOperation ==
    /\ pc = "succeeded"
    /\ MayBecome("committed")
    /\ \/ /\ journal' = Transition("committed", op)
          /\ answers' = answers \cup {[request |-> request, result |-> op]}
          /\ Idle("none")
          /\ UNCHANGED <<snapshot, diverged, running, applied>>
       \/ WriteFails(Transition("committed", op))

failOperation ==
    /\ pc = "errored"
    /\ MayBecome("failed")
    /\ LET new == Transition("failed", journal[op[1]].result)
       IN  \/ /\ journal' = new
              /\ Idle("invocation_returned_error")
              /\ UNCHANGED <<snapshot, diverged, world>>
           \/ WriteFails(new)

\* Mutant: a lookup that finds nothing commits the attempt all the same.
reconcileManufactures ==
    /\ pc = "prepared"
    /\ journal[op[1]].state = "in_doubt"
    /\ journal' = Transition("committed", op)
    /\ Idle("none")
    /\ UNCHANGED <<snapshot, diverged, world>>

\* A provider lookup by idempotency key finds the result of an earlier
\* attempt and the operation is committed without being dispatched again.
\* Nothing but tests calls it, so the lookup is external: it is taken to answer
\* for the operation it is asked about, while the key itself is made of run
\* directory, phase and role and may be shared by operations of two rounds.
reconcileOperation ==
    /\ pc = "prepared"
    /\ journal[op[1]].state = "in_doubt"
    /\ \E a \in applied :
          /\ a[1] = op[1]
          /\ \/ /\ journal' = Transition("committed", a)
                /\ answers' = answers \cup {[request |-> request, result |-> a]}
                /\ Idle("none")
                /\ UNCHANGED <<snapshot, diverged, running, applied>>
             \/ WriteFails(Transition("committed", a))

\* The process dies.  Agents it started are orphaned, not stopped.
crash ==
    /\ pc # "down"
    /\ pc' = "down"
    /\ inputs' = None
    /\ request' = None
    /\ op' = NoOp
    /\ err' = "none"
    /\ UNCHANGED <<durable, world>>

-----------------------------------------------------------------------------

PreDispatchErrors == {"invocation_lock", "budget"}

Next ==
    \/ \E i \in Inputs : freezeExecutionSnapshot(i) \/ freezeRefused(i)
    \/ \E q \in Requests :
          \/ prepareMismatch(q)
          \/ prepareInDoubt(q)
          \/ prepareRetry(q)
          \/ prepareReplay(q)
          \/ prepareNew(q)
    \/ \E e \in PreDispatchErrors : failBeforeDispatch(e)
    \/ dispatch
    \/ \E a \in running : agentActs(a)
    \/ agentSucceeds
    \/ agentFails
    \/ commitOperation
    \/ failOperation
    \/ reconcileOperation
    \/ crash

Spec == Init /\ [][Next]_vars

-----------------------------------------------------------------------------
(* Properties *)

Steps == {"down", "idle", "marked", "prepared", "running", "succeeded",
          "errored"}

Errors == PreDispatchErrors \cup
            {"none", "write_failed", "immutable_snapshot_mismatch",
             "unresolved_operation_mismatch", "invocation_returned_error"}

\* Type invariant of the run directory, the process and the world around it.
TypeOK ==
    /\ snapshot \in Inputs \cup {None}
    /\ journal \in Seq(OperationRecord)
    /\ Last <= MaxOps
    /\ diverged \in BOOLEAN
    /\ pc \in Steps
    /\ inputs \in Inputs \cup {None}
    /\ request \in Requests \cup {None}
    /\ op \in Attempts \cup {NoOp}
    /\ err \in Errors
    /\ running \subseteq Attempts
    /\ applied \subseteq Attempts
    /\ answers \subseteq [request : Requests, result : Attempts]

\* Whatever crashed and whichever write failed, only the last operation of
\* the stream can be unresolved: prepareOperation never steps over one.
OnlyTailUnresolved ==
    \A s \in DOMAIN journal : s < Last => journal[s].state \notin Unresolved

\* Write-ahead: an agent acts only under a record that says it was
\* dispatched.  A record still "prepared" has had no effect at all, which is
\* what lets prepareOperation retry it without raising the risk flag.
EffectsAreJournaled ==
    \A a \in applied :
        a[1] \in DOMAIN journal /\ journal[a[1]].state # "prepared"

\* At-least-once is never silent: when two attempts at one operation both
\* took effect, its record carries duplicate_effect_risk.
DuplicatesAreFlagged ==
    \A a, b \in applied :
        a[1] = b[1] /\ a # b => journal[a[1]].risk

\* No result is manufactured or delivered early: a result handed to a caller
\* is the durably committed result of a record of the same request, and it
\* came from an attempt at that record that did take effect.
AnswersAreDurable ==
    \A x \in answers :
        /\ x.result \in applied
        /\ x.result[1] \in DOMAIN journal
        /\ LET r == journal[x.result[1]]
           IN  /\ r.state = "committed"
               /\ r.request = x.request
               /\ r.result = x.result

\* The process that is about to call an agent, or is running one, does it
\* for the request its caller made, as the tail of the journal, in the
\* journal state that permits it, under the frozen inputs of the run.
CallMatchesJournal ==
    pc \in {"prepared", "running", "succeeded", "errored"} =>
        /\ op[1] = Last
        /\ journal[Last].request = request
        /\ journal[Last].attempt = op[2]
        /\ IF pc = "prepared"
           THEN journal[Last].state \in {"prepared", "in_doubt"}
           ELSE journal[Last].state = "in_flight"
        /\ inputs = snapshot

\* A resolved record is never rewritten, a record never changes its request
\* or loses its risk flag, and attempts are only ever added.
JournalIsMonotone ==
    [][ \A s \in DOMAIN journal :
          /\ s \in DOMAIN journal'
          /\ journal'[s].request = journal[s].request
          /\ journal'[s].attempt >= journal[s].attempt
          /\ journal[s].risk => journal'[s].risk
          /\ journal[s].state \notin Unresolved => journal'[s] = journal[s]
      ]_vars

\* The journal implements the promise made in AtLeastOnce.
Summary(r) ==
    [request |-> r.request,
     status  |-> CASE r.state = "committed" -> "ok"
                   [] r.state = "failed" -> "failed"
                   [] OTHER -> "open",
     flagged |-> r.risk]

Log == [s \in DOMAIN journal |-> Summary(journal[s])]

Promise == INSTANCE AtLeastOnce
             WITH log <- Log, Attempts <- 1..MaxAttempts

ImplementsAtLeastOnce == Promise!Spec

\* runner_part06.go:348-350 says of the invocation lock: "Lock failures are
\* fail-closed adapter failures, so role fallback policies can engage".  If
\* they can, the call that follows one is not refused as a divergence.
FallbackCanEngage ==
    [][ pc = "idle" /\ err = "invocation_lock"
            => err' # "unresolved_operation_mismatch" ]_vars

=============================================================================
