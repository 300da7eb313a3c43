-------------------------- MODULE MCControlRuntime --------------------------
\* Model of ControlRuntime for TLC: a daemon and a second server on one
\* worktree, and an operator's shell.
EXTENDS ControlRuntime, TLC

CONSTANTS daemon, server, shell, s1, s2, s3, s4, s5, r1, c1, k1, n1, n2, n3, n4

\* A start and its retry at the other server; a start and its retry whose approval
\* may expire; one more start, a resume of its run, a cancel of it that carries the
\* same nonce, and a resume from the shell.
Role == (s1 :> [op |-> "start",  home |-> daemon, nonce |-> n1, target |-> s1]) @@
        (s2 :> [op |-> "start",  home |-> server, nonce |-> n1, target |-> s2]) @@
        (s3 :> [op |-> "start",  home |-> server, nonce |-> n2, target |-> s3]) @@
        (s4 :> [op |-> "start",  home |-> daemon, nonce |-> n4, target |-> s4]) @@
        (s5 :> [op |-> "start",  home |-> daemon, nonce |-> n2, target |-> s5]) @@
        (r1 :> [op |-> "resume", home |-> daemon, nonce |-> n3, target |-> s4]) @@
        (c1 :> [op |-> "cancel", home |-> server, nonce |-> n3, target |-> s4]) @@
        (k1 :> [op |-> "cli",    home |-> shell,  nonce |-> n4, target |-> s4])

MCCalls == {s1, s2, s3, s4, s5, r1, c1, k1}
MCProcesses == {daemon, server, shell}
MCOp     == [c \in Calls |-> Role[c].op]
MCHome   == [c \in Calls |-> Role[c].home]
MCNonce  == [c \in Calls |-> Role[c].nonce]
MCTarget == [c \in Calls |-> Role[c].target]

\* A start, its retry and another start whose approval may expire; a start and its
\* retry as their approval expires; a run resumed, and cancelled or resumed twice.
MCCasts == {{s1, s2, s3}, {s3, s5}, {s4, r1, c1}, {s4, r1, k1}}

=============================================================================
