---------------------------- MODULE AtLeastOnce ----------------------------
(***************************************************************************)
(* What the operation journal of a run promises, without saying how.       *)
(*                                                                         *)
(* A run is a log of requests to external agents.  At most one request is  *)
(* open at a time, it is the last one, and a closed request stays closed.  *)
(* An effect may be applied several times, but never silently: once a      *)
(* request has taken effect twice it is flagged.  A request is closed as   *)
(* successful only if it took effect.                                      *)
(***************************************************************************)
EXTENDS Naturals, Sequences

CONSTANTS Requests,   \* the requests a run may issue
          Attempts    \* names of the attempts at one request

VARIABLES log,      \* sequence of [request, status, flagged]
          applied   \* set of <<position in log, attempt>> whose effect happened

vars == <<log, applied>>

Status == {"open", "ok", "failed"}

Entry == [request : Requests, status : Status, flagged : BOOLEAN]

Init == log = <<>> /\ applied = {}

Open(q) ==
    /\ \A s \in DOMAIN log : log[s].status # "open"
    /\ log' = Append(log, [request |-> q, status |-> "open", flagged |-> FALSE])
    /\ UNCHANGED applied

Flag(s) ==
    /\ log[s].status = "open"
    /\ log' = [log EXCEPT ![s].flagged = TRUE]
    /\ UNCHANGED applied

\* An attempt takes effect.  A second one needs the flag first.
Apply(s, n) ==
    /\ <<s, n>> \notin applied
    /\ log[s].flagged \/ \A a \in applied : a[1] # s
    /\ applied' = applied \cup {<<s, n>>}
    /\ UNCHANGED log

Close(s, status) ==
    /\ log[s].status = "open"
    /\ status = "ok" => \E a \in applied : a[1] = s
    /\ log' = [log EXCEPT ![s].status = status]
    /\ UNCHANGED applied

Next ==
    \/ \E q \in Requests : Open(q)
    \/ \E s \in DOMAIN log :
          \/ Flag(s)
          \/ \E n \in Attempts : Apply(s, n)
          \/ \E status \in {"ok", "failed"} : Close(s, status)

Spec == Init /\ [][Next]_vars

============================================================================
