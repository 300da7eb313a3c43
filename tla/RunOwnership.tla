---------------------------- MODULE RunOwnership ---------------------------
(***************************************************************************)
(* What run.lock promises, without files: a directory has one owner at a   *)
(* time.  Whoever works there owns it, and gives it up itself or dies.     *)
(* What the dead owned stays theirs until a resumer takes it away.         *)
(*                                                                         *)
(* Resumers that contend for one directory before any of them owns it are  *)
(* outside the promise, and they alone: they may work there together, and  *)
(* take the directory from each other, never from anybody else.            *)
(***************************************************************************)
CONSTANTS Processes,
          Runs,
          RunOf,      \* [Processes -> Runs]: the directory a process works on
          Resumers,   \* the processes that may reclaim one
          None

VARIABLES owner,      \* [Runs -> Processes, or None]
          workers,    \* the processes that work on their directory
          raced       \* the resumers that contended for one

vars == <<owner, workers, raced>>

Init == owner = [r \in Runs |-> None] /\ workers = {} /\ raced = {}

OwnerOf(p) == owner[RunOf[p]]

Give(r, to) == owner' = [owner EXCEPT ![r] = to]

\* A process whose work on p's directory p may not disturb.
Protected(p) == {q \in workers \ {p} : RunOf[q] = RunOf[p] /\ ~ ({p, q} \subseteq raced)}

Take(p) ==
    /\ OwnerOf(p) = None
    /\ Protected(p) = {}
    /\ Give(RunOf[p], p)
    /\ workers' = workers \cup {p}
    /\ UNCHANGED raced

\* A resumer works where another one has the lock.
Join(p) ==
    /\ p \in raced
    /\ Protected(p) = {}
    /\ workers' = workers \cup {p}
    /\ UNCHANGED <<owner, raced>>

Release(p) ==
    /\ p \in workers
    /\ OwnerOf(p) = p \/ p \in raced
    /\ Protected(p) = {}
    /\ Give(RunOf[p], None)
    /\ workers' = workers \ {p}
    /\ UNCHANGED raced

\* A resumer that lost its lock to another one.
Leave(p) ==
    /\ p \in workers \cap raced
    /\ workers' = workers \ {p}
    /\ UNCHANGED <<owner, raced>>

Die(p) ==
    /\ p \in workers
    /\ workers' = workers \ {p}
    /\ UNCHANGED <<owner, raced>>

Reclaim(p) ==
    /\ p \in Resumers \ workers
    /\ Protected(p) = {}
    /\ Give(RunOf[p], None)
    /\ UNCHANGED <<workers, raced>>

\* Two resumers meet, neither of which owns the directory.
Contend(p, q) ==
    /\ {p, q} \subseteq Resumers
    /\ p # q /\ RunOf[p] = RunOf[q]
    /\ {p, q} \cap workers \subseteq raced
    /\ raced' = raced \cup {p, q}
    /\ UNCHANGED <<owner, workers>>

Next ==
    \E p \in Processes :
        \/ Take(p) \/ Join(p) \/ Release(p) \/ Leave(p) \/ Die(p) \/ Reclaim(p)
        \/ \E q \in Processes : Contend(p, q)

Spec == Init /\ [][Next]_vars

\* Whoever works owns, and so nobody else works there, unless they raced.
OwnersWork ==
    /\ \A p \in workers \ raced : OwnerOf(p) = p
    /\ \A p, q \in workers : RunOf[p] = RunOf[q] => p = q \/ {p, q} \subseteq raced
=============================================================================
