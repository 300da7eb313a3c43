----------------------------- MODULE AcpSession -----------------------------
(***************************************************************************)
(* One review turn over the Agent Client Protocol: the JSON-RPC client     *)
(* (acp_stdio.go) and the turn that MistralAcpAdapter.RunDirect drives     *)
(* over it (adapters_mistral_acp.go).                                      *)
(*                                                                         *)
(* Two threads of the host share the connection: the caller, which sends   *)
(* one request after another and waits for each answer, and the reader     *)
(* (serve), which delivers answers, collects the transcript and answers    *)
(* the agent's own requests.  Both write to the agent's stdin under one    *)
(* mutex.  The two pipes are bounded: a write to a full pipe blocks.  The  *)
(* agent is arbitrary: it answers late, twice, with errors or not at all,  *)
(* asks, streams, closes its stdout or dies.                               *)
(***************************************************************************)
EXTENDS Naturals, Sequences, FiniteSets

CONSTANTS
    PipeSize,       \* messages a pipe holds
    Limit,          \* chunks the transcript may hold (max_output_bytes)
    MaxSends        \* messages the agent writes

ASSUME AcpBounds == PipeSize \in Nat \ {0} /\ Limit \in Nat /\ MaxSends \in Nat

\* The requests of a turn, in their order.
Methods == <<"initialize", "session/new", "session/set_mode", "session/set_config_option", "session/prompt">>
Ids == DOMAIN Methods
SetMode == 3
SetModel == 4
Prompt == 5

VARIABLES
    wantsModel,     \* a model is requested that the session does not run
    step,           \* the request the caller is at
    caller,         \* "next", "registered", "writing", "waiting", or how the turn ended
    pending,        \* requests registered for an answer
    answer,         \* request -> what arrived on its channel
    mutex,          \* who writes to the agent
    toAgent, toHost,
    serve,          \* "reading", "responding", "ended"
    transcript,     \* chunks kept
    exceeded,
    context,        \* "live" or "done"
    agent,          \* "alive", "silent" (stdout closed), "dead"
    heard,          \* requests the agent has read
    sent,           \* history: chunks the agent streamed, and those before its answer to the prompt
    sends

acpVars == <<wantsModel, step, caller, pending, answer, mutex, toAgent, toHost, serve,
             transcript, exceeded, context, agent, heard, sent, sends>>
wires == <<toAgent, toHost>>
agentVars == <<agent, heard, sent, sends>>
readerVars == <<serve, transcript, exceeded>>
callerVars == <<wantsModel, step, caller>>

AcpInit ==
    /\ wantsModel \in BOOLEAN
    /\ step = 1 /\ caller = "next"
    /\ pending = {} /\ answer = [i \in Ids |-> "none"]
    /\ mutex = "free" /\ toAgent = <<>> /\ toHost = <<>>
    /\ serve = "reading" /\ transcript = 0 /\ exceeded = FALSE
    /\ context = "live"
    /\ agent = "alive" /\ heard = {}
    /\ sent = [all |-> 0, answered |-> FALSE] /\ sends = 0

(***************************************************************************)
(* acpRPC.call                                                             *)
(***************************************************************************)
\* The id is taken and its channel registered before the request is written.
register ==
    /\ caller = "next"
    /\ caller' = "registered"
    /\ pending' = pending \cup {step}
    /\ UNCHANGED <<wantsModel, step, answer, mutex, wires, readerVars, context, agentVars>>

lockWriter ==
    /\ caller = "registered" /\ mutex = "free"
    /\ caller' = "writing" /\ mutex' = "caller"
    /\ UNCHANGED <<wantsModel, step, pending, answer, wires, readerVars, context, agentVars>>

\* The write blocks while the pipe is full and fails when nobody can read it.
writeRequest ==
    /\ caller = "writing"
    /\ mutex' = "free"
    /\ \/ /\ agent # "dead" /\ Len(toAgent) < PipeSize
          /\ toAgent' = Append(toAgent, step)
          /\ caller' = "waiting"
          /\ UNCHANGED pending
       \/ /\ agent = "dead"
          /\ pending' = pending \ {step}
          /\ caller' = "failed"
          /\ UNCHANGED toAgent
    /\ UNCHANGED <<wantsModel, step, answer, toHost, readerVars, context, agentVars>>

following == IF step + 1 = SetModel /\ ~wantsModel THEN Prompt ELSE step + 1

\* Mutant: the limit is not looked at again once the prompt was answered.
limitUnchecked ==
    IF answer[step] = "error" THEN "failed" ELSE IF step < Prompt THEN "next" ELSE "done"

\* runACPTurn: every error is fatal; a transcript over the limit is an error even
\* when the prompt was answered.
afterAnswer ==
    IF answer[step] = "error" THEN "failed"
    ELSE IF step < Prompt THEN "next"
    ELSE IF exceeded THEN "failed" ELSE "done"

\* select takes either branch when both are ready.
receive ==
    /\ caller = "waiting" /\ answer[step] # "none"
    /\ caller' = afterAnswer
    /\ step' = IF afterAnswer = "next" THEN following ELSE step
    /\ UNCHANGED <<wantsModel, pending, answer, mutex, wires, readerVars, context, agentVars>>

\* Mutant: the caller waits for its channel only.
neverGivesUp == caller = "waiting" /\ UNCHANGED acpVars
giveUp ==
    /\ caller = "waiting" /\ context = "done"
    /\ pending' = pending \ {step}
    /\ caller' = "failed"
    /\ UNCHANGED <<wantsModel, step, answer, mutex, wires, readerVars, context, agentVars>>

\* RunDirect after the turn: stopProc, and the return once serve has ended.
leave ==
    /\ caller \in {"failed", "done"}
    /\ context' = "done"
    /\ serve = "ended"
    /\ caller' = IF caller = "done" THEN "returned" ELSE "returned error"
    /\ UNCHANGED <<wantsModel, step, pending, answer, mutex, wires, readerVars, agentVars>>
stopProc ==
    /\ caller \in {"failed", "done"} /\ context = "live"
    /\ context' = "done"
    /\ UNCHANGED <<callerVars, pending, answer, mutex, wires, readerVars, agentVars>>

(***************************************************************************)
(* acpRPC.serve                                                            *)
(***************************************************************************)
message == Head(toHost)
\* An answer is delivered once, to the request of its id.
deliver(id, outcome) ==
    /\ answer' = IF id \in pending THEN [answer EXCEPT ![id] = outcome] ELSE answer
    /\ pending' = pending \ {id}

dispatch ==
    /\ serve = "reading" /\ toHost # <<>>
    /\ toHost' = Tail(toHost)
    /\ \/ /\ message.kind = "reply"
          /\ deliver(message.id, message.outcome)
          /\ UNCHANGED <<serve, transcript, exceeded, context>>
       \/ /\ message.kind = "ask"
          /\ serve' = "responding"
          /\ UNCHANGED <<pending, answer, transcript, exceeded, context>>
       \/ /\ message.kind = "chunk"
          /\ exceeded' = (exceeded \/ transcript = Limit)
          /\ transcript' = IF exceeded' THEN transcript ELSE transcript + 1
          /\ context' = IF exceeded' THEN "done" ELSE context
          /\ UNCHANGED <<serve, pending, answer>>
    /\ UNCHANGED <<callerVars, mutex, toAgent, agentVars>>

\* The reader answers the agent's request itself, with the writers' mutex, and
\* ignores a failure.
respondLocks ==
    /\ serve = "responding" /\ mutex = "free"
    /\ mutex' = "reader"
    /\ UNCHANGED <<callerVars, pending, answer, wires, readerVars, context, agentVars>>
respond ==
    /\ serve = "responding" /\ mutex = "reader"
    /\ \/ agent # "dead" /\ Len(toAgent) < PipeSize /\ toAgent' = Append(toAgent, 0)
       \/ agent = "dead" /\ UNCHANGED toAgent
    /\ mutex' = "free" /\ serve' = "reading"
    /\ UNCHANGED <<callerVars, pending, answer, toHost, transcript, exceeded, context, agentVars>>

rejectPending ==
    /\ answer' = [i \in Ids |-> IF i \in pending THEN "error" ELSE answer[i]]
    /\ pending' = {}

\* The end of the stream: stdout is closed, or a line is longer than the scanner
\* takes, which an agent that goes on living can write.
streamEnds ==
    /\ serve = "reading"
    /\ (toHost = <<>> /\ agent # "alive") \/ (toHost # <<>> /\ message.kind = "oversized")
    /\ serve' = "ended"
    /\ rejectPending
    /\ UNCHANGED <<callerVars, mutex, wires, transcript, exceeded, context, agentVars>>

(***************************************************************************)
(* The agent, the deadline and the kill                                    *)
(***************************************************************************)
agentReads ==
    /\ agent # "dead" /\ toAgent # <<>>
    /\ heard' = heard \cup ({Head(toAgent)} \ {0})
    /\ toAgent' = Tail(toAgent)
    /\ UNCHANGED <<callerVars, pending, answer, mutex, toHost, readerVars, context, agent, sent, sends>>

agentSends ==
    /\ agent = "alive" /\ sends < MaxSends /\ Len(toHost) < PipeSize
    /\ sends' = sends + 1
    /\ \/ \E i \in heard, o \in {"ok", "error"} :
            /\ toHost' = Append(toHost, [kind |-> "reply", id |-> i, outcome |-> o])
            /\ sent' = [sent EXCEPT !.answered = @ \/ i = Prompt]
       \/ /\ heard # {}
          /\ toHost' = Append(toHost, [kind |-> "chunk"])
          /\ sent' = IF sent.answered THEN sent ELSE [sent EXCEPT !.all = @ + 1]
       \/ \E k \in {"ask", "oversized"} :
            toHost' = Append(toHost, [kind |-> k]) /\ UNCHANGED sent
    /\ UNCHANGED <<callerVars, pending, answer, mutex, toAgent, readerVars, context, agent, heard>>

agentCloses ==
    /\ agent = "alive"
    /\ agent' \in {"silent", "dead"}
    /\ UNCHANGED <<callerVars, pending, answer, mutex, wires, readerVars, context, heard, sent, sends>>

deadline ==
    /\ context = "live"
    /\ context' = "done"
    /\ UNCHANGED <<callerVars, pending, answer, mutex, wires, readerVars, agentVars>>

\* prepareProcessTree: SIGTERM, and SIGKILL where that does not help.
killAgent ==
    /\ context = "done" /\ agent # "dead"
    /\ agent' = "dead"
    /\ UNCHANGED <<callerVars, pending, answer, mutex, wires, readerVars, context, heard, sent, sends>>

ended == caller \in {"returned", "returned error"} /\ UNCHANGED acpVars

callerNext == register \/ lockWriter \/ writeRequest \/ receive \/ giveUp \/ leave \/ stopProc
readerNext == dispatch \/ respondLocks \/ respond \/ streamEnds
AcpNext == callerNext \/ readerNext \/ agentReads \/ agentSends \/ agentCloses
           \/ deadline \/ killAgent \/ ended

\* The threads of the host run, the deadline comes, the kill succeeds.
AcpFair == WF_acpVars(callerNext) /\ WF_acpVars(readerNext) /\ WF_acpVars(deadline) /\ WF_acpVars(killAgent)
AcpSpec == AcpInit /\ [][AcpNext]_acpVars /\ AcpFair

(***************************************************************************)
(* Properties                                                              *)
(***************************************************************************)
\* No prompt reaches an agent whose session did not confirm the read-only mode,
\* and the requested model: the reader approves whatever the agent asks for
\* (adapters_mistral_acp.go:368-375).
PromptsAreReadOnly ==
    Prompt \in heard =>
        /\ answer[SetMode] = "ok"
        /\ wantsModel => answer[SetModel] = "ok"

\* A turn that succeeded returns all the agent said before it answered the
\* prompt, never a text cut at the output limit.
AnswersAreWhole ==
    caller \in {"done", "returned"} => transcript >= sent.all

\* Every turn ends: with both threads on full pipes, with an agent that hangs,
\* floods or stops reading, RunDirect returns.
TurnEnds == <>(caller \in {"returned", "returned error"})

\* What the comment of serve says: when the stream has ended no caller is left
\* waiting for an answer that cannot come (acp_stdio.go:126-130).
NoCallLeftHanging == caller = "waiting" /\ serve = "ended" => step \notin pending
=============================================================================
