--------------------------- MODULE MCConversations ---------------------------
(* The three conversations of the host that run with nobody watching: a      *)
(* review turn over ACP, the MCP daemon with its clients, and the steward.    *)
(* They share no state, so a behaviour has one of them; the others are over.  *)
EXTENDS AcpSession, McpServer, Steward

vars == <<acpVars, daemonVars, stewardVars>>

AcpOver ==
    /\ wantsModel = FALSE /\ step = 1 /\ caller = "returned"
    /\ pending = {} /\ answer = [i \in Ids |-> "none"]
    /\ mutex = "free" /\ toAgent = <<>> /\ toHost = <<>>
    /\ serve = "ended" /\ transcript = 0 /\ exceeded = FALSE
    /\ context = "done" /\ agent = "dead" /\ heard = {}
    /\ sent = [all |-> 0, answered |-> FALSE] /\ sends = 0

DaemonOver ==
    /\ shutdown = "swept" /\ accept = "returned"
    /\ client = [c \in Clients |-> "away"] /\ session = [c \in Clients |-> "none"]
    /\ initialized = [c \in Clients |-> FALSE]
    /\ conns = {} /\ closed = {} /\ runtime = "closed" /\ late = {}

StewardOver ==
    /\ observed = 2 /\ lease = Free /\ alive = FALSE
    /\ advising = [t \in Threads |-> "idle"] /\ asked = MaxRequests
    /\ sight = [t \in Threads |-> 0] /\ goroutine = [t \in Threads |-> 0]
    /\ work = [n \in Requests |-> Off] /\ advisory = [t \in Threads |-> NoAdvice]
    /\ calls = 0 /\ cache = NoAdvice /\ made = 0

Init ==
    \/ AcpInit /\ DaemonOver /\ StewardOver
    \/ AcpOver /\ DaemonInit /\ StewardOver
    \/ AcpOver /\ DaemonOver /\ StewardInit

Next ==
    \/ AcpNext /\ UNCHANGED <<daemonVars, stewardVars>>
    \/ DaemonNext /\ UNCHANGED <<acpVars, stewardVars>>
    \/ StewardNext /\ UNCHANGED <<acpVars, daemonVars>>

Spec == /\ Init /\ [][Next]_vars
        /\ AcpFair /\ DaemonFair /\ StewardFair
=============================================================================
