------------------------------ MODULE McpServer ------------------------------
(***************************************************************************)
(* The MCP daemon: ServeMCPSocket (mcp_daemon.go) with its accept loop and *)
(* the goroutine that shuts it down, one MCPStdioServer.Serve              *)
(* (mcp_stdio.go) per connection, and the runtime all of them share.  A    *)
(* tool call is one step that comes back: what the tools do is in          *)
(* ControlRuntime and, for advice, in Steward.                             *)
(*                                                                         *)
(* Clients connect, send when they like, stop reading and hang up.         *)
(***************************************************************************)
EXTENDS FiniteSets

CONSTANT Clients   \* the connections

\* accept holds the connection in hand, or a word.
ASSUME ClientsAreNames == Clients \cap {"accepting", "wait", "returned"} = {}

VARIABLES
    shutdown,       \* the context: "live", "cancelled"; then what the closer did
    accept,         \* "accepting", "wait", "returned", or the connection in hand
    client,         \* connection -> "away", "connected", "gone"
    session,        \* connection -> where its Serve is
    initialized,    \* connection -> BOOLEAN
    conns,          \* the registered connections
    closed,         \* connections the server closed
    runtime,        \* "open", "closed"
    late            \* history: registered when the closer had finished

daemonVars == <<shutdown, accept, client, session, initialized, conns, closed, runtime, late>>

DaemonInit ==
    /\ shutdown = "live" /\ accept = "accepting"
    /\ client = [c \in Clients |-> "away"]
    /\ session = [c \in Clients |-> "none"]
    /\ initialized = [c \in Clients |-> FALSE]
    /\ conns = {} /\ closed = {} /\ runtime = "open" /\ late = {}

(***************************************************************************)
(* ServeMCPSocket                                                          *)
(***************************************************************************)
\* Accept returns a connection, or an error: the listener was closed, or cannot
\* accept.
acceptConn(c) ==
    /\ accept = "accepting" /\ client[c] = "away" /\ shutdown \in {"live", "cancelled"}
    /\ accept' = c
    /\ client' = [client EXCEPT ![c] = "connected"]
    /\ UNCHANGED <<shutdown, session, initialized, conns, closed, runtime, late>>

registerConn(c) ==
    /\ accept = c
    /\ conns' = conns \cup {c}
    /\ late' = IF shutdown = "swept" THEN late \cup {c} ELSE late
    /\ session' = [session EXCEPT ![c] = "reading"]
    /\ accept' = "accepting"
    /\ UNCHANGED <<shutdown, client, initialized, closed, runtime>>

acceptFails ==
    /\ accept = "accepting"
    /\ accept' = "wait"
    /\ UNCHANGED <<shutdown, client, session, initialized, conns, closed, runtime, late>>

\* wg.Wait, the return, and the deferred Close of the runtime.
drain ==
    /\ accept = "wait"
    /\ \A c \in Clients : session[c] \in {"none", "ended"}
    /\ accept' = "returned" /\ runtime' = "closed"
    /\ UNCHANGED <<shutdown, client, session, initialized, conns, closed, late>>

interrupt ==
    /\ shutdown = "live" /\ shutdown' = "cancelled"
    /\ UNCHANGED <<accept, client, session, initialized, conns, closed, runtime, late>>

closeListener ==
    /\ shutdown = "cancelled" /\ shutdown' = "deaf"
    /\ UNCHANGED <<accept, client, session, initialized, conns, closed, runtime, late>>

\* Mutant: the closer closes the listener only.
closeNothing == shutdown = "deaf" /\ shutdown' = "swept"
                /\ UNCHANGED <<accept, client, session, initialized, conns, closed, runtime, late>>

closeAll ==
    /\ shutdown = "deaf" /\ shutdown' = "swept"
    /\ closed' = closed \cup conns
    /\ UNCHANGED <<accept, client, session, initialized, conns, runtime, late>>

(***************************************************************************)
(* MCPStdioServer.Serve                                                    *)
(***************************************************************************)
cut(c) == c \in closed \/ client[c] = "gone"

\* WithRuntime: a session of the daemon leaves the runtime open.
leaveRuntime(c) == UNCHANGED runtime

\* The end of Serve: the connection is forgotten and closed.
endSession(c) ==
    /\ session' = [session EXCEPT ![c] = "ended"]
    /\ conns' = conns \ {c}
    /\ closed' = closed \cup {c}
    /\ leaveRuntime(c)

\* The scanner returns the next message; a cancelled context ends the session
\* then, never while it waits for one.
readRequest(c) ==
    /\ session[c] = "reading" /\ ~cut(c) /\ shutdown = "live"
    /\ \/ \E i \in {initialized[c], TRUE} :
            /\ initialized' = [initialized EXCEPT ![c] = i]
            /\ session' = [session EXCEPT ![c] = "writing"]
       \/ /\ initialized[c] /\ UNCHANGED initialized
          /\ session' = [session EXCEPT ![c] = "tool"]
    /\ UNCHANGED <<shutdown, accept, client, conns, closed, runtime, late>>

stopReading(c) ==
    /\ session[c] = "reading"
    /\ cut(c) \/ (shutdown # "live" /\ client[c] = "connected")
    /\ endSession(c)
    /\ UNCHANGED <<shutdown, accept, client, initialized, late>>

\* callTool answers with a result or with a failure; it is the only use a session
\* makes of the runtime.
callTool(c) ==
    /\ session[c] = "tool"
    /\ session' = [session EXCEPT ![c] = "writing"]
    /\ UNCHANGED <<shutdown, accept, client, initialized, conns, closed, runtime, late>>

\* A client that does not read blocks the write until the connection is closed.
writeResponse(c) ==
    /\ session[c] = "writing" /\ ~cut(c)
    /\ session' = [session EXCEPT ![c] = "reading"]
    /\ UNCHANGED <<shutdown, accept, client, initialized, conns, closed, runtime, late>>

writeFails(c) ==
    /\ session[c] = "writing" /\ cut(c)
    /\ endSession(c)
    /\ UNCHANGED <<shutdown, accept, client, initialized, late>>

hangUp(c) ==
    /\ client[c] = "connected" /\ client' = [client EXCEPT ![c] = "gone"]
    /\ UNCHANGED <<shutdown, accept, session, initialized, conns, closed, runtime, late>>

daemon == (\E c \in Clients : acceptConn(c) \/ registerConn(c)) \/ drain \/ closeListener \/ closeAll
          \/ (accept = "accepting" /\ shutdown \notin {"live", "cancelled"} /\ acceptFails)
serving(c) == (cut(c) /\ stopReading(c)) \/ callTool(c) \/ writeFails(c)
quiet == accept = "returned" /\ UNCHANGED daemonVars

DaemonNext ==
    \/ \E c \in Clients : \/ acceptConn(c) \/ registerConn(c) \/ hangUp(c)
                          \/ readRequest(c) \/ stopReading(c) \/ callTool(c)
                          \/ writeResponse(c) \/ writeFails(c)
    \/ acceptFails \/ drain \/ interrupt \/ closeListener \/ closeAll
    \/ quiet

\* The server's threads run; nothing is assumed of clients.
DaemonFair == WF_daemonVars(daemon) /\ \A c \in Clients : WF_daemonVars(serving(c))
DaemonSpec == DaemonInit /\ [][DaemonNext]_daemonVars /\ DaemonFair

(***************************************************************************)
(* Properties                                                              *)
(***************************************************************************)
\* Clients come and go; the runtime, and with it the runs it owns, is closed only
\* when the daemon has stopped accepting and no session uses it any more
\* (mcp_daemon.go:12-22).
RunsOutliveClients ==
    runtime = "closed" =>
        accept = "returned" /\ \A c \in Clients : session[c] \in {"none", "ended"}

\* A signal ends the daemon, with clients that send nothing or read nothing.  A
\* connection that was accepted before the listener was closed and registered
\* after the others were closed is the exception: nothing closes it.
ShutdownEnds == (shutdown # "live") ~> (accept = "returned" \/ late # {})

\* What the comment of ServeMCPSocket says, without the exception.
ShutdownDrains == (shutdown # "live") ~> (accept = "returned")
=============================================================================
