----------------------------- MODULE Invocation -----------------------------
(***************************************************************************)
(* One adapter call: runAdapter (runner_part06.go) with what it puts       *)
(* around the model CLI it starts - the snapshots of the worktree and of   *)
(* the host's artifacts (integrity.go, worker_contract.go), the live scope *)
(* guard (live_scope_guard.go), the progress monitor (watchdog.go,         *)
(* progress.go), the time limit and the kill of the process tree           *)
(* (process_unix.go), the invocation slot, and the operation journal       *)
(* around all of it.                                                       *)
(*                                                                         *)
(* The agent is another process: until it is dead it writes in and out of  *)
(* its scope, stages, reverts, and writes the host's files.  The guard and *)
(* the monitor are goroutines of the host.                                 *)
(***************************************************************************)
EXTENDS Naturals, FiniteSets

CONSTANTS
    MaxWrites,      \* writes of the agent
    MaxFailures     \* git, journal and artifact operations that fail

ASSUME Bounds == MaxWrites \in Nat /\ MaxFailures \in Nat

\* A path of the approved scope, one outside of it; the run's state file, and a
\* protected name no host has written yet.
Inside == "inside"
Outside == "outside"
Paths == {Inside, Outside}
Artifacts == {"state.json", "quality-gates-9.json"}
AsWritten == [a \in Artifacts |-> IF a = "state.json" THEN "host" ELSE "absent"]

VARIABLES
    call,       \* what kind of call this is, and what it has in hand
    pc,         \* where runAdapter is
    tree,       \* path -> its content, its index status, and what HEAD has of it
    before,     \* the snapshot taken before the call
    host,       \* protected artifact -> who wrote it last
    agent,      \* "idle", "running", "exited", "failed"
    signal,     \* what the process tree was sent
    ctx,        \* why the context of the call is over, or "live"
    claim,      \* the answer: what files_changed lists, or not an answer
    guard,      \* the scope guard: its goroutine, pending paths, violation
    monitor,    \* the progress monitor's goroutine
    progress,   \* the status in live-progress.json
    slot,       \* the invocation slot of a serialized adapter
    op,         \* the journal record of the call
    result,     \* what runAdapter returns
    writes, failures

vars == <<call, pc, tree, before, host, agent, signal, ctx, claim, guard, monitor,
          progress, slot, op, result, writes, failures>>

\* A worker, a supervisor that may edit while it writes its brief, or a reader.
Callers == {"coder", "planner", "reader"}
NotAnAnswer == {"not an answer"}
Claims == (SUBSET Paths) \cup {NotAnAnswer}

Init ==
    /\ call \in [role: Callers, direct: BOOLEAN, serialize: BOOLEAN, journaled: BOOLEAN]
    /\ call.direct => ~call.serialize
    /\ pc = "prepare"
    /\ \E found \in {"base", "dirty"} :
          tree = [p \in Paths |-> [content |-> found, staged |-> FALSE, head |-> "base"]]
    /\ before = tree
    /\ host = AsWritten
    /\ agent = "idle" /\ signal = "none" /\ ctx = "live" /\ claim = NotAnAnswer
    /\ guard = [runs |-> FALSE, pending |-> {}, violation |-> {}, blind |-> FALSE]
    /\ monitor = "off" /\ progress = "none" /\ slot = "free"
    /\ op = "none" /\ result = [ok |-> FALSE, files |-> {}]
    /\ writes = 0 /\ failures = 0

(***************************************************************************)
(* Snapshots                                                               *)
(***************************************************************************)
\* git status lists what differs from HEAD. Two snapshots differ in a path that
\* it lists in another way, or with another content.
listed(snapshot) == {p \in Paths : snapshot[p].content # snapshot[p].head}
fingerprint(snapshot, p) ==
    IF p \in listed(snapshot) THEN <<snapshot[p].content, snapshot[p].staged>> ELSE <<"missing">>
contentFingerprint(snapshot, p) == fingerprint(snapshot, p)[1]
worktreeDelta(old, new) == {p \in Paths : fingerprint(old, p) # fingerprint(new, p)}
worktreeContentDelta(old, new) ==
    {p \in Paths : contentFingerprint(old, p) # contentFingerprint(new, p)}

outOfScopeDeltaPaths(old, new) == worktreeDelta(old, new) \ {Inside}

breaks == failures < MaxFailures /\ failures' = failures + 1
keeps == UNCHANGED failures

(***************************************************************************)
(* runAdapter before the dispatch                                          *)
(***************************************************************************)
agentVars == <<tree, host, agent, claim, writes>>
guardVars == <<guard, monitor, ctx, signal>>

\* The journal record, then the snapshots.
prepareCall ==
    /\ pc = "prepare"
    /\ op' = IF call.journaled THEN "prepared" ELSE "none"
    /\ \/ before' = tree /\ pc' = "slot" /\ keeps
       \/ breaks /\ pc' = "settle" /\ UNCHANGED before
    /\ UNCHANGED <<call, agentVars, guardVars, progress, slot, result>>

\* A wait publishes "waiting"; it ends with the slot or with an error.
acquireSlot ==
    /\ pc = "slot"
    /\ IF ~call.serialize
       THEN pc' = "dispatch" /\ keeps /\ UNCHANGED <<slot, progress>>
       ELSE \/ /\ slot' = "held" /\ pc' = "dispatch" /\ keeps
               /\ progress' \in {progress, "waiting"}
            \/ /\ breaks /\ pc' = "integrity" /\ progress' = "failed"
               /\ UNCHANGED slot
    /\ UNCHANGED <<call, before, agentVars, guardVars, op, result>>

\* Every request of a worker has a contract and a scope; a brief has neither.
guarded == call.role = "coder"

\* The monitor and the guard start, the record turns in flight, and the process
\* runs.
dispatch ==
    /\ pc = "dispatch"
    /\ monitor' = "waits" /\ progress' = "running"
    /\ guard' = [guard EXCEPT !.runs = guarded]
    /\ \/ /\ op' = IF call.journaled THEN "in_flight" ELSE "none"
          /\ agent' = "running" /\ pc' = "awaiting" /\ keeps
       \/ /\ call.journaled /\ breaks
          /\ pc' = "unwind" /\ UNCHANGED <<op, agent>>
    /\ UNCHANGED <<call, before, tree, host, claim, writes, ctx, signal, slot, result>>

(***************************************************************************)
(* The agent, and what bounds it                                           *)
(***************************************************************************)
Committed(file) == [content |-> file.content, staged |-> FALSE, head |-> file.content]

\* It edits a path, stages or unstages one, commits some, or writes a file of the host.
agentWrites ==
    /\ agent = "running" /\ writes < MaxWrites
    /\ writes' = writes + 1
    /\ \/ \E p \in Paths, c \in {"base", "dirty", "edited"} :
            /\ tree[p].content # c
            /\ tree' = [tree EXCEPT ![p].content = c, ![p].staged = FALSE]
            /\ UNCHANGED host
       \/ \E p \in listed(tree) :
            /\ tree' = [tree EXCEPT ![p].staged = ~@]
            /\ UNCHANGED host
       \/ \E ps \in (SUBSET listed(tree)) \ {{}} :
            /\ tree' = [p \in Paths |-> IF p \in ps THEN Committed(tree[p]) ELSE tree[p]]
            /\ UNCHANGED host
       \/ \E a \in Artifacts, by \in {"agent", "absent"} :
            /\ host[a] # by
            /\ host' = [host EXCEPT ![a] = by]
            /\ UNCHANGED tree
    /\ UNCHANGED <<call, pc, before, agent, claim, guardVars, progress, slot, op, result, failures>>

\* It answers and exits, or fails.  A direct adapter ends when its context does.
agentExits ==
    /\ agent = "running"
    /\ \/ claim' \in Claims /\ agent' = "exited"
       \/ UNCHANGED claim /\ agent' = "failed"
    /\ UNCHANGED <<call, pc, tree, host, writes, before, guardVars, progress, slot, op, result, failures>>

timeout ==
    /\ pc = "awaiting" /\ ctx = "live"
    /\ ctx' = "deadline"
    /\ UNCHANGED <<call, pc, agentVars, before, guard, monitor, signal, progress, slot, op, result, failures>>

\* Mutant: nothing follows the SIGTERM.
termOnly ==
    /\ agent = "running" /\ ctx # "live"
    /\ signal = "none" /\ signal' = "term"
    /\ UNCHANGED <<call, pc, agentVars, before, guard, monitor, ctx, progress, slot, op, result, failures>>

\* SIGTERM to the process group, SIGKILL after five seconds.
killProcessTree ==
    /\ agent = "running" /\ ctx # "live"
    /\ \/ signal = "none" /\ signal' = "term" /\ UNCHANGED agent
       \/ signal = "term" /\ signal' = "kill" /\ agent' = "failed"
    /\ UNCHANGED <<call, pc, tree, host, claim, writes, before, guard, monitor, ctx, progress,
                   slot, op, result, failures>>

(***************************************************************************)
(* The live scope guard                                                    *)
(***************************************************************************)
\* A path is a violation when two polls in a row find it out of scope.
guardTick ==
    /\ guard.runs /\ ctx = "live"
    /\ LET outside == outOfScopeDeltaPaths(before, tree)
           settled == outside \cap guard.pending
       IN IF settled = {}
          THEN /\ outside # guard.pending
               /\ guard' = [guard EXCEPT !.pending = outside]
               /\ UNCHANGED <<ctx, progress>>
          ELSE /\ guard' = [guard EXCEPT !.violation = settled, !.runs = FALSE]
               /\ progress' = "scope_violation"
               /\ ctx' = "scope"
    /\ UNCHANGED <<call, pc, agentVars, before, monitor, signal, slot, op, result, failures>>

\* Stopping the guard looks once more; when git fails the look finds nothing.
stopScopeGuard(next) ==
    LET outside == outOfScopeDeltaPaths(before, tree)
    IN /\ pc' = next
       /\ IF ~guarded THEN UNCHANGED guard /\ keeps
          ELSE \/ /\ guard' = [guard EXCEPT !.runs = FALSE,
                                            !.violation = IF @ = {} THEN outside ELSE @]
                  /\ keeps
               \/ guard' = [guard EXCEPT !.runs = FALSE, !.blind = TRUE] /\ breaks

(***************************************************************************)
(* The progress monitor: a tick measures first and writes then.            *)
(***************************************************************************)
\* The host has told the goroutine to end.
stopping == pc = "unwind" \/ (pc = "awaiting" /\ agent \in {"exited", "failed"} /\ ~call.direct)

monitorMeasures ==
    /\ monitor = "waits" /\ ~stopping
    /\ monitor' = "measured"
    /\ UNCHANGED <<call, pc, agentVars, before, guard, ctx, signal, progress, slot, op, result, failures>>

monitorWrites ==
    /\ monitor = "measured"
    /\ monitor' = "waits"
    /\ progress' \in {"running", "awaiting_telemetry"}
    /\ UNCHANGED <<call, pc, agentVars, before, guard, ctx, signal, slot, op, result, failures>>

\* Mutant: stopping does not wait for the goroutine.
stopWithoutWaiting == monitor' = monitor
\* The goroutine has returned when stop does.
stopProgress == monitor # "measured" /\ monitor' = "off"

(***************************************************************************)
(* runAdapter after the process                                            *)
(***************************************************************************)
\* cmd.Run returned.  A command stops the monitor first and publishes how the
\* process ended, unless the scope was violated or a process that failed had
\* written too much; a direct adapter does both while it unwinds.
processEnded ==
    /\ pc = "awaiting" /\ agent \in {"exited", "failed"}
    /\ IF call.direct THEN UNCHANGED monitor ELSE stopProgress
    /\ stopScopeGuard("collect")
    /\ IF call.direct \/ guard'.violation # {} THEN UNCHANGED progress
       ELSE \/ progress' = IF agent = "failed" THEN "failed" ELSE "completed"
            \/ agent = "failed" /\ UNCHANGED progress
    /\ UNCHANGED <<call, agentVars, before, ctx, signal, slot, op, result>>

\* Mutant: any list of files is accepted.
trustClaim(files) == TRUE

\* ignoredMissingWorkerClaims finds nothing here; a claim that adds paths which
\* were dirty before and have the same content is cut down to the delta.
validateWorkerGitClaim(files) ==
    LET actual == worktreeContentDelta(before, tree)
    IN /\ actual \subseteq files
       /\ files \ actual \subseteq listed(before) \cap listed(tree)

normalizeCumulativeWorkerClaims(files) == files \cap worktreeContentDelta(before, tree)

\* Every early return leaves an error; a worker contract is checked against a
\* snapshot of its own.
collect ==
    /\ pc = "collect"
    /\ pc' = "unwind"
    /\ LET good == /\ guard.violation = {} /\ agent = "exited"
                   /\ claim # NotAnAnswer
                   /\ guarded => validateWorkerGitClaim(claim)
       IN \/ /\ good
             /\ result' = [ok |-> TRUE,
                           files |-> IF guarded THEN normalizeCumulativeWorkerClaims(claim) ELSE {}]
             /\ keeps
          \/ good /\ breaks /\ UNCHANGED result
          \/ ~good /\ keeps /\ UNCHANGED result
    /\ UNCHANGED <<call, agentVars, guardVars, before, progress, slot, op>>

\* The deferred stops, the final status of a direct adapter, and the slot.
unwind ==
    /\ pc = "unwind"
    /\ pc' = "integrity"
    /\ stopProgress
    /\ guard' = [guard EXCEPT !.runs = FALSE]
    /\ progress' = IF ~call.direct THEN progress ELSE IF result.ok THEN "completed" ELSE "failed"
    /\ ctx' = IF ctx = "live" THEN "over" ELSE ctx
    /\ slot' = "free"
    /\ UNCHANGED <<call, agentVars, before, signal, op, result, failures>>

\* Mutant: what was not there before is left alone.
restoreKnown(h) == [h EXCEPT !["state.json"] = "host"]

\* Changed and removed artifacts are written back, new ones are removed.
verifyAndRestoreIntegrity(h) == AsWritten

\* What a restoration leaves that fails after some of the artifacts.
restoredInPart(h) == {[a \in Artifacts |-> IF a \in done THEN AsWritten[a] ELSE h[a]] :
                         done \in SUBSET Artifacts}

validateInvocationIntegrity ==
    /\ pc = "integrity"
    /\ pc' = "settle"
    /\ LET edited == call.role = "reader" /\ worktreeContentDelta(before, tree) # {}
           tampered == host # AsWritten
       IN \/ /\ host' = verifyAndRestoreIntegrity(host)
             /\ result' = IF edited \/ tampered THEN [ok |-> FALSE, files |-> {}] ELSE result
             /\ keeps
          \/ breaks /\ result' = [ok |-> FALSE, files |-> {}] /\ host' \in restoredInPart(host)
    /\ UNCHANGED <<call, tree, agent, claim, writes, before, guardVars, progress, slot, op>>

\* The journal learns the outcome; a commit that cannot be written is an error.
settleOperation ==
    /\ pc = "settle"
    /\ pc' = "returned"
    /\ IF op # "in_flight" THEN keeps /\ UNCHANGED <<op, result>>
       ELSE \/ op' = (IF result.ok THEN "committed" ELSE "failed") /\ keeps /\ UNCHANGED result
            \/ breaks /\ result' = [ok |-> FALSE, files |-> {}] /\ UNCHANGED op
    /\ UNCHANGED <<call, agentVars, guardVars, before, progress, slot>>

returned == pc = "returned" /\ UNCHANGED vars

runAdapter == prepareCall \/ acquireSlot \/ dispatch \/ processEnded \/ collect \/ unwind
              \/ validateInvocationIntegrity \/ settleOperation
Next ==
    \/ runAdapter
    \/ agentWrites \/ agentExits \/ timeout \/ killProcessTree
    \/ guardTick \/ monitorMeasures \/ monitorWrites
    \/ returned

\* The host's own code runs on, a deadline passes, a signal arrives.  Nothing is
\* assumed of the agent.
Spec == /\ Init /\ [][Next]_vars
        /\ WF_vars(runAdapter) /\ WF_vars(timeout) /\ WF_vars(killProcessTree)
        /\ WF_vars(monitorWrites)

(***************************************************************************)
(* Properties                                                              *)
(***************************************************************************)
Contents == {"base", "dirty", "edited"}
Snapshots == [Paths -> [content: Contents, staged: BOOLEAN, head: Contents]]
Guards == [runs: BOOLEAN, pending: SUBSET Paths, violation: SUBSET Paths, blind: BOOLEAN]
Results == [ok: BOOLEAN, files: SUBSET Paths]

TypeOK ==
    /\ pc \in {"prepare", "slot", "dispatch", "awaiting", "collect", "unwind", "integrity", "settle", "returned"}
    /\ call \in [role: Callers, direct: BOOLEAN, serialize: BOOLEAN, journaled: BOOLEAN]
    /\ tree \in Snapshots /\ before \in Snapshots
    /\ host \in [Artifacts -> {"host", "agent", "absent"}]
    /\ agent \in {"idle", "running", "exited", "failed"}
    /\ signal \in {"none", "term", "kill"} /\ claim \in Claims
    /\ ctx \in {"live", "deadline", "scope", "over"}
    /\ guard \in Guards /\ result \in Results
    /\ monitor \in {"off", "waits", "measured"}
    /\ progress \in {"none", "waiting", "running", "awaiting_telemetry", "scope_violation",
                     "completed", "failed"}
    /\ slot \in {"free", "held"}
    /\ op \in {"none", "prepared", "in_flight", "committed", "failed"}
    /\ writes \in 0..MaxWrites /\ failures \in 0..MaxFailures

\* A call that returned left the host's artifacts as the host wrote them, every
\* one, whatever the agent did to them; only where the restoration itself
\* failed are they not, and then the call is an error (integrity.go:147-174).
HostArtifactsSurvive ==
    pc = "returned" /\ host # AsWritten => ~result.ok /\ failures > 0

\* What a successful call reports is what git shows of the worktree: a reader
\* changed no content, a worker's files are exactly the content it changed
\* since the call began, and none of it is out of scope, unless git failed at
\* the guard's last look (worker_contract.go:265-284, live_scope_guard.go:74-96).
AnswersAreTrue ==
    pc = "returned" /\ result.ok =>
        LET changed == worktreeContentDelta(before, tree)
        IN CASE call.role = "coder" ->
                  result.files = changed /\ (changed \subseteq {Inside} \/ guard.blind)
             [] call.role = "planner" -> result.files = {}
             [] call.role = "reader" -> changed = {}

\* README.md:541 says of an editor that its first out-of-scope write cancels it.
ScopeIsObserved ==
    pc = "returned" /\ result.ok /\ call.role = "coder" =>
        tree[Outside].content = before[Outside].content \/ guard.blind

\* The journal and the caller agree: a committed operation is one whose result
\* was handed over after every check, and a dispatched one is not left in
\* flight unless the journal could not be written (runner_part06.go:41-55).
JournalAgrees ==
    pc = "returned" =>
        /\ op = "committed" => result.ok
        /\ result.ok /\ call.journaled => op = "committed"
        /\ op = "in_flight" => ~result.ok /\ failures > 0

\* Once the status of an ended call is published, no tick of the monitor
\* overwrites it (watchdog.go:115-120).
StatusIsFinal ==
    [][(agent \in {"exited", "failed"} /\ progress \in {"completed", "failed"})
       => progress' \notin {"running", "awaiting_telemetry"}]_vars

\* Every call returns, whatever the agent does.
CallReturns == <>(pc = "returned")
=============================================================================
