------------------------------ MODULE Steward ------------------------------
(***************************************************************************)
(* The Run Steward: ControlRuntime.Advise (control_steward.go) with the    *)
(* lease, the call budget and the cache of steward_model.go and the        *)
(* bounded wait of AdviseWithFallback (steward.go).                        *)
(*                                                                         *)
(* Several threads ask for advice on one run: sessions of one server and a *)
(* thread of another server process.  A thread that asks the model starts  *)
(* a goroutine and waits for it no longer than the timeout; the goroutine  *)
(* goes on after that.  The lease file is read, removed, created and       *)
(* written in separate steps.  The other process has a budget and a model  *)
(* of its own; only its use of the lease is modelled.                      *)
(***************************************************************************)
EXTENDS Naturals, FiniteSets

CONSTANTS
    Sessions,       \* threads of the server that share one BudgetedSteward
    Rival,          \* the thread of the other server process
    MaxCalls,       \* max_calls_per_run
    MaxRequests     \* advisories that are asked for

ASSUME StewardAssumption ==
    /\ Rival \notin Sessions
    /\ MaxCalls \in Nat \ {0} /\ MaxRequests \in Nat

Threads == Sessions \cup {Rival}
process(t) == IF t = Rival THEN "other" ELSE "server"
Nobody == "nobody"
Requests == 1..MaxRequests

VARIABLES
    observed,       \* what a snapshot of the run shows now, its counts left out
    lease,          \* steward.lease: who created it, and whether its owner is in it
    advising,       \* thread -> where ControlRuntime.Advise is
    asked,          \* requests so far
    sight,          \* thread -> the observation its request is about
    goroutine,      \* thread -> the goroutine it waits for, 0 for none
    work,           \* goroutine -> where BudgetedSteward.Advise is
    advisory,       \* thread -> the advisory that is returned
    calls, cache,   \* the BudgetedSteward of the run
    made,           \* history: calls of the model
    alive           \* the other process lives

stewardVars == <<observed, lease, advising, asked, sight, goroutine, work, advisory, calls, cache, made, alive>>
leaseVars == <<lease, alive>>
threadVars == <<asked, sight, goroutine, advisory>>
modelVars == <<work, calls, cache, made>>

Free == [by |-> Nobody, written |-> FALSE]
NoAdvice == [from |-> "none", about |-> 0, valid |-> TRUE]
Off == [stage |-> "off", about |-> 0, advice |-> NoAdvice, wanted |-> FALSE]

StewardInit ==
    /\ observed = 1
    /\ lease = Free
    /\ advising = [t \in Threads |-> "idle"] /\ asked = 0
    /\ sight = [t \in Threads |-> 0] /\ goroutine = [t \in Threads |-> 0]
    /\ work = [n \in Requests |-> Off]
    /\ advisory = [t \in Threads |-> NoAdvice]
    /\ calls = 0 /\ cache = NoAdvice /\ made = 0
    /\ alive = TRUE

running(t) == t # Rival \/ alive
ownerLives == lease.by # Rival \/ alive
at(t, place) == advising[t] = place /\ running(t)
goTo(t, place) == advising' = [advising EXCEPT ![t] = place]

(***************************************************************************)
(* ControlRuntime.Advise                                                   *)
(***************************************************************************)
\* NewRunObservation: the status is read before the lease.
observe(t) ==
    /\ at(t, "idle") /\ asked < MaxRequests
    /\ asked' = asked + 1
    /\ sight' = [sight EXCEPT ![t] = observed]
    /\ advisory' = [advisory EXCEPT ![t] = NoAdvice]
    /\ goTo(t, "read")
    /\ UNCHANGED <<observed, leaseVars, modelVars, goroutine>>

\* acquireStewardLease: a lease of a live owner refuses; an unreadable one and one
\* of a dead owner are removed.
readLease(t) ==
    /\ at(t, "read")
    /\ goTo(t, IF lease.by = Nobody THEN "create"
               ELSE IF lease.written /\ ownerLives THEN "template" ELSE "remove")
    /\ UNCHANGED <<observed, leaseVars, modelVars, threadVars>>

removeLease(t) ==
    /\ at(t, "remove")
    /\ lease' = Free
    /\ goTo(t, "create")
    /\ UNCHANGED <<observed, alive, modelVars, threadVars>>

\* O_EXCL, then the owner is written to the file that was opened, wherever its
\* name points by then.
createLease(t) ==
    /\ at(t, "create")
    /\ IF lease.by = Nobody
       THEN lease' = [by |-> t, written |-> FALSE] /\ goTo(t, "write")
       ELSE UNCHANGED lease /\ goTo(t, "template")
    /\ UNCHANGED <<observed, alive, modelVars, threadVars>>

\* A write that fails removes the path.
writeLease(t) ==
    /\ at(t, "write")
    /\ \/ /\ lease' = IF lease.by = t THEN [lease EXCEPT !.written = TRUE] ELSE lease
          /\ goTo(t, "ask")
       \/ lease' = Free /\ goTo(t, "template")
    /\ UNCHANGED <<observed, alive, modelVars, threadVars>>

DeterministicAdvisory(t) == [from |-> "template", about |-> sight[t], valid |-> TRUE]

useTemplate(t) ==
    /\ at(t, "template")
    /\ advisory' = [advisory EXCEPT ![t] = DeterministicAdvisory(t)]
    /\ goTo(t, "idle")
    /\ UNCHANGED <<observed, leaseVars, modelVars, asked, sight, goroutine>>

\* AdviseWithFallback: the goroutine starts; its channel takes one result.
ask(t) ==
    /\ at(t, "ask") /\ t # Rival
    /\ \E n \in Requests :
         /\ work[n].stage = "off" /\ \A m \in 1..(n - 1) : work[m].stage # "off"
         /\ work' = [work EXCEPT ![n] = [stage |-> "budget", about |-> sight[t],
                                         advice |-> NoAdvice, wanted |-> TRUE]]
         /\ goroutine' = [goroutine EXCEPT ![t] = n]
    /\ goTo(t, "await")
    /\ UNCHANGED <<observed, leaseVars, asked, sight, advisory, calls, cache, made>>

\* Mutant: what the model says is taken as it is.
acceptAny(t, advice) == IF advice.from = "none" THEN DeterministicAdvisory(t) ELSE advice
\* ValidateStewardAdvisory: only a valid advisory is returned.
ValidateStewardAdvisory(t, advice) ==
    IF advice.from # "none" /\ advice.valid THEN advice ELSE DeterministicAdvisory(t)

otherAsks ==
    /\ at(Rival, "ask")
    /\ goTo(Rival, "release")
    /\ UNCHANGED <<observed, leaseVars, modelVars, threadVars>>

takeResult(t) ==
    /\ at(t, "await") /\ work[goroutine[t]].stage = "done"
    /\ advisory' = [advisory EXCEPT ![t] = ValidateStewardAdvisory(t, work[goroutine[t]].advice)]
    /\ work' = [work EXCEPT ![goroutine[t]] = Off]
    /\ goroutine' = [goroutine EXCEPT ![t] = 0]
    /\ goTo(t, "release")
    /\ UNCHANGED <<observed, leaseVars, asked, sight, calls, cache, made>>

\* The timeout passes or the session's context ends; select takes either branch.
\* The goroutine goes on, and nobody reads what it sends.
timeoutAdvice(t) ==
    /\ at(t, "await")
    /\ advisory' = [advisory EXCEPT ![t] = DeterministicAdvisory(t)]
    /\ work' = [work EXCEPT ![goroutine[t]] = IF @.stage = "done" THEN Off ELSE [@ EXCEPT !.wanted = FALSE]]
    /\ goroutine' = [goroutine EXCEPT ![t] = 0]
    /\ goTo(t, "release")
    /\ UNCHANGED <<observed, leaseVars, asked, sight, calls, cache, made>>

\* Release reads the owner's process and removes the path in two steps.
readRelease(t) ==
    /\ at(t, "release")
    /\ goTo(t, IF lease.written /\ process(lease.by) = process(t) THEN "unlink" ELSE "idle")
    /\ UNCHANGED <<observed, leaseVars, modelVars, threadVars>>

unlinkLease(t) ==
    /\ at(t, "unlink")
    /\ lease' = Free
    /\ goTo(t, "idle")
    /\ UNCHANGED <<observed, alive, modelVars, threadVars>>

Advise(t) == readLease(t) \/ removeLease(t) \/ createLease(t) \/ writeLease(t) \/ useTemplate(t)
             \/ ask(t) \/ takeResult(t) \/ timeoutAdvice(t) \/ readRelease(t) \/ unlinkLease(t)

(***************************************************************************)
(* BudgetedSteward.Advise, in the goroutine of a request                   *)
(***************************************************************************)
stage(n, place) == work[n].stage = place
finish(n, advice) ==
    work' = [work EXCEPT ![n] = IF @.wanted THEN [@ EXCEPT !.stage = "done", !.advice = advice] ELSE Off]

\* Advice is cached under the signature of the observation it was given for;
\* it may be used while it is younger than the interval.
fits(advice, n) == advice.from # "none" /\ advice.about = work[n].about

\* One critical section: the cache, the budget, the count.
checkBudget(n) ==
    /\ stage(n, "budget")
    /\ \/ fits(cache, n) /\ finish(n, cache) /\ UNCHANGED <<calls, made>>
       \/ calls >= MaxCalls /\ finish(n, NoAdvice) /\ UNCHANGED <<calls, made>>
       \/ /\ calls < MaxCalls
          /\ calls' = calls + 1
          /\ made' = made + 1
          /\ work' = [work EXCEPT ![n].stage = "calling"]
    /\ UNCHANGED <<observed, leaseVars, advising, threadVars, cache>>

\* The model answers well, answers badly, fails, or is never heard of again.
callModel(n) ==
    /\ stage(n, "calling")
    /\ \/ \E valid \in BOOLEAN :
            work' = [work EXCEPT ![n].stage = "store",
                                 ![n].advice = [from |-> "model", about |-> work[n].about, valid |-> valid]]
       \/ finish(n, NoAdvice)
    /\ UNCHANGED <<observed, leaseVars, advising, threadVars, calls, cache, made>>

\* The last to store wins, whichever observation was newer.
store(n) ==
    /\ stage(n, "store")
    /\ cache' = work[n].advice
    /\ finish(n, work[n].advice)
    /\ UNCHANGED <<observed, leaseVars, advising, threadVars, calls, made>>

BudgetedAdvise(n) == checkBudget(n) \/ callModel(n) \/ store(n)

(***************************************************************************)
(* The rest of the world                                                   *)
(***************************************************************************)
runMovesOn ==
    /\ observed = 1 /\ observed' = 2
    /\ UNCHANGED <<leaseVars, advising, threadVars, modelVars>>

otherCrashes ==
    /\ alive /\ alive' = FALSE
    /\ UNCHANGED <<observed, lease, advising, threadVars, modelVars>>

StewardNext ==
    \/ \E t \in Threads : observe(t) \/ Advise(t)
    \/ \E n \in Requests : BudgetedAdvise(n)
    \/ otherAsks \/ runMovesOn \/ otherCrashes

\* The server's threads run, and a timeout passes; nothing is assumed of the model.
StewardFair == \A t \in Sessions : WF_stewardVars(Advise(t))
StewardSpec == StewardInit /\ [][StewardNext]_stewardVars /\ StewardFair

(***************************************************************************)
(* Properties                                                              *)
(***************************************************************************)
\* The model is not called for a run more often than the budget says, with calls
\* that outlive their request and sessions that take the lease from each other
\* (steward_model.go:172-183).
CallBudgetHolds == made <= MaxCalls

\* Every advisory that is returned is schema-valid and about the state of the run
\* its request saw, whether it comes from the model, the cache or the template,
\* and however late the model answered (steward.go:210-228).
AdviceFits ==
    \A t \in Threads : advisory[t].from # "none" =>
        advisory[t].valid /\ advisory[t].about = sight[t]

\* When nobody is being advised no lease of a live process is left behind: such a
\* lease would refuse the model to every later request for as long as that
\* process lives (steward_model.go:262-278).
LeaseComesBack ==
    (\A t \in Threads : advising[t] = "idle" \/ ~running(t)) => lease = Free \/ ~ownerLives

\* Every request for advice is answered, whether or not the model ever is
\* (steward.go:181-184).
AdviseEnds == \A t \in Sessions : (advising[t] # "idle") ~> (advising[t] = "idle")
=============================================================================
