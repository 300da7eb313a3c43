------------------------- MODULE Conversations_proofs ------------------------
(***************************************************************************)
(* What the review turn over ACP, the Run Steward and the review rounds    *)
(* keep, for every number of messages, sessions, requests, changes and     *)
(* findings.                                                               *)
(*                                                                         *)
(* The steward: a goroutine belongs to one thread, keeps what that thread  *)
(* saw and is given advice about it only, out of the cache too (AwaitInv,  *)
(* WorkInv).                                                               *)
(*                                                                         *)
(* The turn: a pipe keeps the order, so that what the agent said before    *)
(* its answer was read when the answer is delivered.  What is not read yet *)
(* is counted in the pipe (WholeInv).  The steps of the handshake wait for *)
(* each other's answers, so that an agent that has read the prompt has     *)
(* confirmed the read-only mode (ConfirmedInv, HeardInv).                  *)
(*                                                                         *)
(* The daemon: the runtime is closed when no session is left (DrainedInv). *)
(*                                                                         *)
(* The rounds: what nobody decided stays open in the ledger, which the run *)
(* counts (DecidedInv); a verdict that passed stays with the diff it is    *)
(* about until the result is written (ReviewedInv); the regression that    *)
(* decides compares the baseline with that diff (ComparedInv).             *)
(***************************************************************************)
EXTENDS AcpSession, Steward, McpServer, ReviewRounds, FiniteSetTheorems, TLAPS

-----------------------------------------------------------------------------
(* The Run Steward: the inductive invariant *)

\* What is given, and what a goroutine has in hand.
Advices == [from : {"none", "template", "model"}, about : Nat, valid : BOOLEAN]
Works == [stage : {"off", "budget", "calling", "store", "done"}, about : Nat,
          advice : Advices, wanted : BOOLEAN]

StewardTypeOK ==
    /\ observed \in Nat /\ asked \in Nat /\ calls \in Nat /\ made \in Nat
    /\ cache \in Advices
    /\ advising \in [Threads -> {"idle", "read", "remove", "create", "write", "template",
                                 "ask", "await", "release", "unlink"}]
    /\ sight \in [Threads -> Nat] /\ goroutine \in [Threads -> Requests \cup {0}]
    /\ advisory \in [Threads -> Advices] /\ work \in [Requests -> Works]

\* A thread waits for a goroutine of its own, which works on what the thread saw.
AwaitInv ==
    /\ \A t \in Threads : advising[t] = "await" =>
          /\ goroutine[t] \in Requests
          /\ work[goroutine[t]].stage # "off" /\ work[goroutine[t]].wanted
          /\ work[goroutine[t]].about = sight[t]
    /\ \A t, u \in Threads :
          advising[t] = "await" /\ advising[u] = "await" /\ goroutine[t] = goroutine[u] => t = u

\* The advice a goroutine hands over is about what it was asked.
WorkInv ==
    \A n \in Requests : work[n].advice.from # "none" => work[n].advice.about = work[n].about

BudgetInv == made = calls /\ calls <= MaxCalls

-----------------------------------------------------------------------------
(* The Run Steward: steps *)

\* What a goroutine has in hand, changed as the steps change it.
LEMMA WorkFacts ==
    ASSUME NEW w \in Works
    PROVE  /\ Off \in Works /\ Off.stage = "off" /\ Off.advice.from = "none"
           /\ [w EXCEPT !.stage = "calling"] \in Works /\ [w EXCEPT !.wanted = FALSE] \in Works
           /\ \A x \in Advices : /\ [w EXCEPT !.stage = "done", !.advice = x] \in Works
                                 /\ [w EXCEPT !.stage = "store", !.advice = x] \in Works
           /\ w.about \in Nat /\ w.advice \in Advices
  BY DEF Works, Off, Advices, NoAdvice

\* The end of a goroutine: its result is there for a thread that waits for it.
LEMMA FinishFacts ==
    ASSUME StewardTypeOK, NEW n \in Requests, NEW x \in Advices, finish(n, x)
    PROVE  /\ work' \in [Requests -> Works]
           /\ \A m \in Requests \ {n} : work'[m] = work[m]
           /\ work[n].wanted => /\ work'[n].stage = "done" /\ work'[n].wanted
                                /\ work'[n].about = work[n].about /\ work'[n].advice = x
           /\ ~ work[n].wanted => work'[n] = Off
<1> DEFINE w == work[n]
           done == [w EXCEPT !.stage = "done", !.advice = x]
<1>1. w \in Works /\ work \in [Requests -> Works]
  BY SMTT(30) DEF StewardTypeOK
<1>2. done \in Works /\ Off \in Works
  BY <1>1, WorkFacts
<1>3. done.stage = "done" /\ done.wanted = w.wanted /\ done.about = w.about /\ done.advice = x
  BY <1>1 DEF Works
<1>4. work' = [work EXCEPT ![n] = IF w.wanted THEN done ELSE Off]
  BY DEF finish
<1> HIDE DEF done
<1> QED BY <1>1, <1>2, <1>3, <1>4

\* A goroutine keeps what it was asked, and what it answers is about that.
LEMMA GoroutineStep ==
    ASSUME StewardTypeOK, WorkInv, NEW n \in Requests, BudgetedAdvise(n)
    PROVE  /\ work' \in [Requests -> Works]
           /\ \A m \in Requests \ {n} : work'[m] = work[m]
           /\ work[n].stage # "off" /\ work[n].wanted =>
                 work'[n].stage # "off" /\ work'[n].wanted /\ work'[n].about = work[n].about
           /\ work'[n].advice.from # "none" => work'[n].advice.about = work'[n].about
           /\ UNCHANGED <<observed, leaseVars, advising, threadVars>>
           /\ cache' \in Advices
           /\ \/ calls' = calls /\ made' = made
              \/ calls < MaxCalls /\ calls' = calls + 1 /\ made' = made + 1
<1> USE DEF leaseVars, threadVars
<1>1. work[n] \in Works /\ work \in [Requests -> Works] /\ cache \in Advices
  BY DEF StewardTypeOK
<1>2. NoAdvice \in Advices /\ NoAdvice.from = "none" /\ work[n].advice \in Advices
  BY <1>1 DEF Advices, NoAdvice, Works
<1>3. CASE checkBudget(n)
  <2>1. UNCHANGED <<observed, leaseVars, advising, threadVars, cache>>
    BY SMTT(30), <1>3 DEF checkBudget
  <2>2. CASE fits(cache, n) /\ finish(n, cache) /\ UNCHANGED <<calls, made>>
    <3>1. cache.from # "none" => cache.about = work[n].about
      BY <2>2 DEF fits
    <3> QED BY ZenonT(30), <1>1, <2>1, <2>2, <3>1, FinishFacts, WorkFacts
  <2>3. CASE finish(n, NoAdvice) /\ UNCHANGED <<calls, made>>
    BY <1>1, <1>2, <2>1, <2>3, FinishFacts, WorkFacts
  <2>4. CASE /\ calls < MaxCalls /\ calls' = calls + 1 /\ made' = made + 1
             /\ work' = [work EXCEPT ![n].stage = "calling"]
    <3> DEFINE v == [work[n] EXCEPT !.stage = "calling"]
    <3>1. v \in Works /\ v.stage = "calling" /\ v.wanted = work[n].wanted
          /\ v.about = work[n].about /\ v.advice = work[n].advice
      BY <1>1 DEF Works
    <3>2. work' = [work EXCEPT ![n] = v]
      BY <2>4
    <3> HIDE DEF v
    <3> QED BY <1>1, <2>1, <2>4, <3>1, <3>2 DEF WorkInv
  <2> QED BY <1>3, <2>2, <2>3, <2>4 DEF checkBudget
<1>4. CASE callModel(n)
  <2>1. UNCHANGED <<observed, leaseVars, advising, threadVars, calls, cache, made>>
    BY SMTT(30), <1>4 DEF callModel
  <2>2. CASE finish(n, NoAdvice)
    BY ZenonT(30), <1>1, <1>2, <2>1, <2>2, FinishFacts, WorkFacts
  <2>3. ASSUME NEW valid \in BOOLEAN,
               work' = [work EXCEPT ![n].stage = "store",
                          ![n].advice = [from |-> "model", about |-> work[n].about,
                                         valid |-> valid]]
        PROVE  /\ work' \in [Requests -> Works]
               /\ \A m \in Requests \ {n} : work'[m] = work[m]
               /\ work'[n].stage # "off" /\ work'[n].wanted = work[n].wanted
               /\ work'[n].about = work[n].about /\ work'[n].advice.about = work'[n].about
    <3> DEFINE x == [from |-> "model", about |-> work[n].about, valid |-> valid]
               v == [work[n] EXCEPT !.stage = "store", !.advice = x]
    <3>1. x \in Advices /\ x.about = work[n].about
      BY <1>1, WorkFacts DEF Advices
    <3> HIDE DEF x
    <3>2. v \in Works
      BY <1>1, <3>1, WorkFacts
    <3>3. v.stage = "store" /\ v.wanted = work[n].wanted /\ v.about = work[n].about /\ v.advice = x
      BY <1>1 DEF Works
    <3>4. work' = [work EXCEPT ![n] = v]
      BY <2>3 DEF x
    <3> HIDE DEF v
    <3> QED BY <1>1, <3>1, <3>2, <3>3, <3>4
  <2> QED BY <1>1, <1>4, <2>1, <2>2, <2>3 DEF callModel, StewardTypeOK
<1>5. CASE store(n)
  <2>1. /\ UNCHANGED <<observed, leaseVars, advising, threadVars, calls, made>>
        /\ cache' = work[n].advice /\ finish(n, work[n].advice)
    BY <1>5 DEF store
  <2>2. work[n].advice.from # "none" => work[n].advice.about = work[n].about
    BY DEF WorkInv
  <2> QED BY ZenonT(30), <1>1, <1>2, <2>1, <2>2, FinishFacts, WorkFacts
<1> QED BY <1>3, <1>4, <1>5 DEF BudgetedAdvise

\* A thread touches the goroutine it starts, and the one it leaves.
LEMMA ThreadStep ==
    ASSUME StewardTypeOK, AwaitInv, WorkInv, NEW t \in Threads,
           ask(t) \/ takeResult(t) \/ timeoutAdvice(t)
    PROVE  /\ work' \in [Requests -> Works] /\ goroutine' \in [Threads -> Requests \cup {0}]
           /\ WorkInv' /\ AwaitInv'
<1> USE DEF at, goTo
<1>1. /\ work \in [Requests -> Works] /\ goroutine \in [Threads -> Requests \cup {0}]
      /\ sight[t] \in Nat
  BY DEF StewardTypeOK
<1>2. CASE ask(t)
  <2>1. PICK n \in Requests :
           /\ work[n].stage = "off"
           /\ work' = [work EXCEPT ![n] = [stage |-> "budget", about |-> sight[t],
                                           advice |-> NoAdvice, wanted |-> TRUE]]
           /\ goroutine' = [goroutine EXCEPT ![t] = n]
    BY <1>2 DEF ask
  <2> DEFINE w == [stage |-> "budget", about |-> sight[t], advice |-> NoAdvice, wanted |-> TRUE]
  <2>2. /\ w \in Works /\ w.stage = "budget" /\ w.wanted
        /\ w.about = sight[t] /\ w.advice.from = "none"
    BY <1>1 DEF Works, Advices, NoAdvice
  <2>3. work' = [work EXCEPT ![n] = w]
    BY <2>1
  <2> HIDE DEF w
  <2>4. work' \in [Requests -> Works] /\ WorkInv'
    BY <1>1, <2>2, <2>3 DEF WorkInv
  <2>5. \A u \in Threads : advising[u] = "await" => goroutine[u] # n
    BY <2>1 DEF AwaitInv
  <2>6. advising' = [advising EXCEPT ![t] = "await"] /\ sight' = sight
    BY <1>2 DEF ask
  <2>7. advising \in [Threads -> {"idle", "read", "remove", "create", "write", "template",
                                 "ask", "await", "release", "unlink"}]
    BY DEF StewardTypeOK
  <2>8. AwaitInv'
    BY <1>1, <2>1, <2>2, <2>3, <2>5, <2>6, <2>7 DEF AwaitInv
  <2> QED BY <1>1, <2>1, <2>4, <2>8
<1>3. CASE takeResult(t) \/ timeoutAdvice(t)
  <2> DEFINE n == goroutine[t]
  <2>1. n \in Requests /\ advising[t] = "await"
        /\ \A u \in Threads \ {t} : advising[u] = "await" => goroutine[u] # n
    BY <1>3 DEF takeResult, timeoutAdvice, AwaitInv
  <2>2. PICK w \in {Off, [work[n] EXCEPT !.wanted = FALSE]} : work' = [work EXCEPT ![n] = w]
    BY <1>3 DEF takeResult, timeoutAdvice
  <2>3. /\ advising' = [advising EXCEPT ![t] = "release"] /\ sight' = sight
        /\ goroutine' = [goroutine EXCEPT ![t] = 0]
    BY <1>3 DEF takeResult, timeoutAdvice
  <2>4. w \in Works /\ (w.advice.from # "none" => w.advice.about = w.about)
    <3>1. work[n] \in Works
      BY SMTT(30), <1>1, <2>1
    <3>2. CASE w = Off
      BY <3>1, <3>2, WorkFacts
    <3>3. CASE w = [work[n] EXCEPT !.wanted = FALSE]
      <4>1. w \in Works
        BY <3>1, <3>3, WorkFacts
      <4>2. w.advice = work[n].advice /\ w.about = work[n].about
        BY <3>1, <3>3 DEF Works
      <4> QED BY SMTT(30), <4>1, <4>2, <2>1 DEF WorkInv
    <3> QED BY <2>2, <3>2, <3>3
  <2> HIDE DEF n
  <2>5. work' \in [Requests -> Works] /\ WorkInv'
    BY <1>1, <2>1, <2>2, <2>4 DEF WorkInv
  <2>6. advising \in [Threads -> {"idle", "read", "remove", "create", "write", "template",
                                 "ask", "await", "release", "unlink"}]
    BY DEF StewardTypeOK
  <2>7. AwaitInv'
    <3> SUFFICES ASSUME NEW u \in Threads, advising'[u] = "await"
                 PROVE  /\ u # t /\ advising[u] = "await" /\ goroutine'[u] = goroutine[u]
                        /\ goroutine[u] \in Requests /\ work'[goroutine[u]] = work[goroutine[u]]
      BY <2>3 DEF AwaitInv
    <3> QED BY <1>1, <2>1, <2>2, <2>3, <2>6 DEF AwaitInv
  <2> QED BY <1>1, <2>3, <2>5, <2>7
<1> QED BY <1>2, <1>3

\* Every step keeps the types.
LEMMA StewardTypeStep ==
    StewardTypeOK /\ AwaitInv /\ WorkInv /\ [StewardNext]_stewardVars => StewardTypeOK'
<1> SUFFICES ASSUME StewardTypeOK, AwaitInv, WorkInv, [StewardNext]_stewardVars
             PROVE  StewardTypeOK'
  OBVIOUS
<1> USE StewardAssumption DEF StewardTypeOK, leaseVars, threadVars, modelVars
<1>f. /\ NoAdvice \in Advices
      /\ \A t \in Threads : DeterministicAdvisory(t) \in Advices
      /\ \A t \in Threads, x \in Advices : ValidateStewardAdvisory(t, x) \in Advices
  BY SMTT(30) DEF Advices, NoAdvice, DeterministicAdvisory, ValidateStewardAdvisory
<1>w. \A n \in Requests : work[n].advice \in Advices
  BY WorkFacts
<1>1. ASSUME NEW t \in Threads, observe(t) PROVE StewardTypeOK'
  BY <1>1, <1>f DEF observe, at, goTo
<1>2. ASSUME NEW t \in Threads, readLease(t) \/ removeLease(t) \/ createLease(t)
               \/ writeLease(t) \/ readRelease(t) \/ unlinkLease(t)
      PROVE  StewardTypeOK'
  BY <1>2
  DEF readLease, at, goTo, removeLease, createLease, writeLease, readRelease, unlinkLease
<1>3. ASSUME NEW t \in Threads, useTemplate(t) PROVE StewardTypeOK'
  BY <1>3, <1>f DEF useTemplate, at, goTo
<1>4. ASSUME NEW t \in Threads, ask(t) PROVE StewardTypeOK'
  BY <1>4, ThreadStep DEF ask, at, goTo
<1>5. ASSUME NEW t \in Threads, takeResult(t) PROVE StewardTypeOK'
  BY <1>5, <1>f, <1>w, ThreadStep DEF takeResult, at, goTo, AwaitInv
<1>6. ASSUME NEW t \in Threads, timeoutAdvice(t) PROVE StewardTypeOK'
  BY <1>6, <1>f, ThreadStep DEF timeoutAdvice, at, goTo
<1>7. ASSUME NEW n \in Requests, BudgetedAdvise(n) PROVE StewardTypeOK'
  BY <1>7, GoroutineStep DEF BudgetedAdvise
<1>8. CASE otherAsks
  BY <1>8 DEF otherAsks, at, goTo
<1>9. CASE runMovesOn
  BY <1>9 DEF runMovesOn
<1>10. CASE otherCrashes
  BY <1>10 DEF otherCrashes
<1>11. CASE UNCHANGED stewardVars
  BY <1>11 DEF stewardVars
<1> QED
  BY <1>1, <1>2, <1>3, <1>4, <1>5, <1>6, <1>7, <1>8, <1>9, <1>10, <1>11
  DEF StewardNext, Advise

\* A thread that waits is waited for by its goroutine, and no other does.
LEMMA AwaitStep ==
    StewardTypeOK /\ AwaitInv /\ WorkInv /\ [StewardNext]_stewardVars => AwaitInv'
<1> SUFFICES ASSUME StewardTypeOK, AwaitInv, WorkInv, [StewardNext]_stewardVars PROVE AwaitInv'
  OBVIOUS
<1> USE DEF StewardTypeOK, AwaitInv, leaseVars, threadVars, modelVars
<1>1. ASSUME NEW t \in Threads, observe(t) PROVE AwaitInv'
  BY <1>1 DEF observe, at, goTo
<1>2. ASSUME NEW t \in Threads, readLease(t) \/ removeLease(t) \/ createLease(t)
               \/ writeLease(t) \/ readRelease(t) \/ unlinkLease(t)
      PROVE  AwaitInv'
  BY <1>2
  DEF readLease, at, goTo, removeLease, createLease, writeLease, readRelease, unlinkLease
<1>3. ASSUME NEW t \in Threads, useTemplate(t) PROVE AwaitInv'
  BY <1>3 DEF useTemplate, at, goTo
<1>4. ASSUME NEW t \in Threads, ask(t) \/ takeResult(t) \/ timeoutAdvice(t) PROVE AwaitInv'
  BY <1>4, ThreadStep
<1>5. ASSUME NEW n \in Requests, BudgetedAdvise(n) PROVE AwaitInv'
  BY <1>5, GoroutineStep DEF BudgetedAdvise
<1>6. CASE otherAsks
  BY <1>6 DEF otherAsks, at, goTo
<1>7. CASE runMovesOn
  BY <1>7 DEF runMovesOn
<1>8. CASE otherCrashes
  BY <1>8 DEF otherCrashes
<1>9. CASE UNCHANGED stewardVars
  BY <1>9 DEF stewardVars
<1> QED
  BY <1>1, <1>2, <1>3, <1>4, <1>5, <1>6, <1>7, <1>8, <1>9
  DEF StewardNext, Advise

\* What the goroutines answer is about what they were asked.
LEMMA WorkStep ==
    StewardTypeOK /\ AwaitInv /\ WorkInv /\ [StewardNext]_stewardVars => WorkInv'
<1> SUFFICES ASSUME StewardTypeOK, AwaitInv, WorkInv, [StewardNext]_stewardVars PROVE WorkInv'
  OBVIOUS
<1> USE DEF WorkInv, leaseVars, threadVars, modelVars
<1>1. ASSUME NEW t \in Threads, observe(t) PROVE WorkInv'
  BY <1>1 DEF observe, at, goTo
<1>2. ASSUME NEW t \in Threads, readLease(t) \/ removeLease(t) \/ createLease(t)
               \/ writeLease(t) \/ readRelease(t) \/ unlinkLease(t)
      PROVE  WorkInv'
  BY <1>2
  DEF readLease, at, goTo, removeLease, createLease, writeLease, readRelease, unlinkLease
<1>3. ASSUME NEW t \in Threads, useTemplate(t) PROVE WorkInv'
  BY <1>3 DEF useTemplate, at, goTo
<1>4. ASSUME NEW t \in Threads, ask(t) \/ takeResult(t) \/ timeoutAdvice(t) PROVE WorkInv'
  BY <1>4, ThreadStep
<1>5. ASSUME NEW n \in Requests, BudgetedAdvise(n) PROVE WorkInv'
  BY <1>5, GoroutineStep DEF BudgetedAdvise
<1>6. CASE otherAsks
  BY <1>6 DEF otherAsks, at, goTo
<1>7. CASE runMovesOn
  BY <1>7 DEF runMovesOn
<1>8. CASE otherCrashes
  BY <1>8 DEF otherCrashes
<1>9. CASE UNCHANGED stewardVars
  BY <1>9 DEF stewardVars
<1> QED
  BY <1>1, <1>2, <1>3, <1>4, <1>5, <1>6, <1>7, <1>8, <1>9
  DEF StewardNext, Advise

\* The count and the budget change together.
LEMMA BudgetStep ==
    StewardTypeOK /\ WorkInv /\ BudgetInv /\ [StewardNext]_stewardVars => BudgetInv'
<1> SUFFICES ASSUME StewardTypeOK, WorkInv, BudgetInv, [StewardNext]_stewardVars PROVE BudgetInv'
  OBVIOUS
<1> USE StewardAssumption DEF StewardTypeOK, BudgetInv, leaseVars, threadVars, modelVars
<1>1. ASSUME NEW t \in Threads, observe(t) PROVE BudgetInv'
  BY <1>1 DEF observe, at, goTo
<1>2. ASSUME NEW t \in Threads, readLease(t) \/ removeLease(t) \/ createLease(t)
               \/ writeLease(t) \/ readRelease(t) \/ unlinkLease(t)
      PROVE  BudgetInv'
  BY <1>2
  DEF readLease, at, goTo, removeLease, createLease, writeLease, readRelease, unlinkLease
<1>3. ASSUME NEW t \in Threads, useTemplate(t) PROVE BudgetInv'
  BY <1>3 DEF useTemplate, at, goTo
<1>4. ASSUME NEW t \in Threads, ask(t) PROVE BudgetInv'
  BY <1>4 DEF ask, at, goTo
<1>5. ASSUME NEW t \in Threads, takeResult(t) PROVE BudgetInv'
  BY <1>5 DEF takeResult, at, goTo
<1>6. ASSUME NEW t \in Threads, timeoutAdvice(t) PROVE BudgetInv'
  BY <1>6 DEF timeoutAdvice, at, goTo
<1>7. ASSUME NEW n \in Requests, BudgetedAdvise(n) PROVE BudgetInv'
  BY <1>7, GoroutineStep DEF BudgetedAdvise
<1>8. CASE otherAsks
  BY <1>8 DEF otherAsks, at, goTo
<1>9. CASE runMovesOn
  BY <1>9 DEF runMovesOn
<1>10. CASE otherCrashes
  BY <1>10 DEF otherCrashes
<1>11. CASE UNCHANGED stewardVars
  BY <1>11 DEF stewardVars
<1> QED
  BY <1>1, <1>2, <1>3, <1>4, <1>5, <1>6, <1>7, <1>8, <1>9, <1>10, <1>11
  DEF StewardNext, Advise

\* An advisory is returned by the thread that asked for it.
LEMMA AdviceStep ==
    StewardTypeOK /\ AwaitInv /\ WorkInv /\ AdviceFits /\ [StewardNext]_stewardVars
    => AdviceFits'
<1> SUFFICES ASSUME StewardTypeOK, AwaitInv, WorkInv, AdviceFits, [StewardNext]_stewardVars
             PROVE  AdviceFits'
  OBVIOUS
<1> USE DEF StewardTypeOK, AdviceFits, leaseVars, threadVars, modelVars
<1>f. /\ NoAdvice.from = "none"
      /\ \A t \in Threads : /\ DeterministicAdvisory(t).valid
                            /\ DeterministicAdvisory(t).about = sight[t]
  BY DEF NoAdvice, DeterministicAdvisory
<1>v. \A t \in Threads : advising[t] = "await" =>
          LET x == ValidateStewardAdvisory(t, work[goroutine[t]].advice)
          IN  x.valid /\ x.about = sight[t]
  BY <1>f DEF AwaitInv, WorkInv, ValidateStewardAdvisory
<1>1. ASSUME NEW t \in Threads, observe(t) PROVE AdviceFits'
  BY <1>1, <1>f DEF observe, at, goTo
<1>2. ASSUME NEW t \in Threads, readLease(t) \/ removeLease(t) \/ createLease(t)
               \/ writeLease(t) \/ readRelease(t) \/ unlinkLease(t)
      PROVE  AdviceFits'
  BY <1>2
  DEF readLease, at, goTo, removeLease, createLease, writeLease, readRelease, unlinkLease
<1>3. ASSUME NEW t \in Threads, useTemplate(t) PROVE AdviceFits'
  BY <1>3, <1>f DEF useTemplate, at, goTo
<1>4. ASSUME NEW t \in Threads, ask(t) PROVE AdviceFits'
  BY <1>4 DEF ask, at, goTo
<1>5. ASSUME NEW t \in Threads, takeResult(t) PROVE AdviceFits'
  BY <1>5, <1>v DEF takeResult, at, goTo
<1>6. ASSUME NEW t \in Threads, timeoutAdvice(t) PROVE AdviceFits'
  BY <1>6, <1>f DEF timeoutAdvice, at, goTo
<1>7. ASSUME NEW n \in Requests, BudgetedAdvise(n) PROVE AdviceFits'
  BY <1>7, GoroutineStep DEF BudgetedAdvise
<1>8. CASE otherAsks
  BY <1>8 DEF otherAsks, at, goTo
<1>9. CASE runMovesOn
  BY <1>9 DEF runMovesOn
<1>10. CASE otherCrashes
  BY <1>10 DEF otherCrashes
<1>11. CASE UNCHANGED stewardVars
  BY <1>11 DEF stewardVars
<1> QED
  BY <1>1, <1>2, <1>3, <1>4, <1>5, <1>6, <1>7, <1>8, <1>9, <1>10, <1>11
  DEF StewardNext, Advise

LEMMA StewardInitially ==
    StewardInit => StewardTypeOK /\ AwaitInv /\ WorkInv /\ BudgetInv /\ AdviceFits
<1> SUFFICES ASSUME StewardInit
             PROVE  StewardTypeOK /\ AwaitInv /\ WorkInv /\ BudgetInv /\ AdviceFits
  OBVIOUS
<1>1. Off \in Works /\ NoAdvice \in Advices /\ Off.advice.from = "none" /\ NoAdvice.from = "none"
  BY DEF Works, Advices, Off, NoAdvice
<1>2. StewardTypeOK
  BY <1>1 DEF StewardInit, StewardTypeOK
<1> QED
  BY <1>1, <1>2, StewardAssumption DEF StewardInit, AwaitInv, WorkInv, BudgetInv, AdviceFits

LEMMA StewardInvariant ==
    StewardSpec => [](StewardTypeOK /\ AwaitInv /\ WorkInv /\ BudgetInv /\ AdviceFits)
<1>1. StewardTypeOK /\ AwaitInv /\ WorkInv /\ BudgetInv /\ AdviceFits /\ [StewardNext]_stewardVars
      => (StewardTypeOK /\ AwaitInv /\ WorkInv /\ BudgetInv /\ AdviceFits)'
  BY StewardTypeStep, AwaitStep, WorkStep, BudgetStep, AdviceStep
<1> QED BY <1>1, StewardInitially, PTL DEF StewardSpec

\* Every advisory that is returned is valid and about what its request saw
\* (steward.go:210-228).
THEOREM AdviceAlwaysFits == StewardSpec => []AdviceFits
  BY StewardInvariant, PTL

\* The model is not called more often than the budget says (steward_model.go:172-183).
THEOREM CallBudget == StewardSpec => []CallBudgetHolds
<1>1. BudgetInv => CallBudgetHolds
  BY DEF BudgetInv, CallBudgetHolds
<1> QED BY <1>1, StewardInvariant, PTL

-----------------------------------------------------------------------------
(* The review turn: the inductive invariant *)

Messages == [kind : {"reply"}, id : Ids, outcome : {"ok", "error"}]
            \cup [kind : {"ask", "chunk", "oversized"}]

AcpTypeOK ==
    /\ step \in Ids
    /\ caller \in {"next", "registered", "writing", "waiting", "failed", "done", "returned",
                   "returned error"}
    /\ pending \subseteq Ids /\ answer \in [Ids -> {"none", "ok", "error"}]
    /\ toHost \in Seq(Messages) /\ toAgent \in Seq(Ids \cup {0}) /\ heard \subseteq Ids
    /\ serve \in {"reading", "responding", "ended"}
    /\ transcript \in Nat /\ exceeded \in BOOLEAN
    /\ sent \in [all : Nat, answered : BOOLEAN]

\* The chunks of a pipe that were sent before the answer to the prompt was.
IsAnswer(m) == m.kind = "reply" /\ m.id = Prompt
Unread(q) == {i \in 1..Len(q) : q[i].kind = "chunk" /\ \A j \in 1..(i - 1) : ~ IsAnswer(q[j])}

\* What was said before the answer is in the transcript or on its way there, and
\* when the answer is delivered all of it is in the transcript.
WholeInv ==
    /\ \A i \in 1..Len(toHost) : IsAnswer(toHost[i]) => sent.answered
    /\ ~ exceeded => transcript + Cardinality(Unread(toHost)) >= sent.all
    /\ answer[Prompt] = "ok" => sent.answered /\ (~ exceeded => transcript >= sent.all)
    /\ caller \in {"done", "returned"} => sent.answered /\ transcript >= sent.all

-----------------------------------------------------------------------------
(* Pipes *)

LEMMA IdsFacts == Ids = 1..5
  BY DEF Ids, Methods

LEMMA SeqFacts ==
    ASSUME NEW S, NEW q \in Seq(S)
    PROVE  /\ Len(q) \in Nat
           /\ \A x \in S : Append(q, x) \in Seq(S)
           /\ q # <<>> => Head(q) \in S /\ Tail(q) \in Seq(S) /\ Len(q) >= 1
  OBVIOUS

LEMMA UnreadFinite ==
    ASSUME NEW q \in Seq(Messages)
    PROVE  IsFiniteSet(Unread(q)) /\ Cardinality(Unread(q)) \in Nat
<1>1. Len(q) \in Nat /\ Unread(q) \in SUBSET (1..Len(q))
  BY DEF Unread
<1>2. IsFiniteSet(1..Len(q))
  BY <1>1, FS_Interval
<1> QED BY <1>1, <1>2, FS_Subset, FS_CardinalityType

\* What is sent comes last: a chunk is unread unless the answer is ahead of it.
LEMMA UnreadAppend ==
    ASSUME NEW q \in Seq(Messages), NEW m \in Messages
    PROVE  /\ Append(q, m) \in Seq(Messages)
           /\ Cardinality(Unread(Append(q, m))) >= Cardinality(Unread(q))
           /\ m.kind = "chunk" /\ (\A i \in 1..Len(q) : ~ IsAnswer(q[i])) =>
                 Cardinality(Unread(Append(q, m))) = Cardinality(Unread(q)) + 1
<1> DEFINE r == Append(q, m)
           n == Len(q)
<1>1. r \in Seq(Messages) /\ n \in Nat /\ Len(r) = n + 1 /\ r[n + 1] = m
      /\ \A i \in 1..n : r[i] = q[i]
  OBVIOUS
<1> HIDE DEF r, n
<1>2. Unread(q) = {i \in 1..n : q[i].kind = "chunk" /\ \A j \in 1..(i - 1) : ~ IsAnswer(q[j])}
  BY DEF Unread, n
<1>3. \A i \in 1..n : i \in Unread(q) <=> i \in Unread(r)
  <2> SUFFICES ASSUME NEW i \in 1..n PROVE i \in Unread(q) <=> i \in Unread(r)
    OBVIOUS
  <2>1. i \in 1..Len(r) /\ r[i] = q[i] /\ \A j \in 1..(i - 1) : j \in 1..n /\ r[j] = q[j]
    BY <1>1
  <2> QED BY <1>2, <2>1 DEF Unread
<1>4. Unread(q) \in SUBSET Unread(r)
  BY <1>2, <1>3
<1>5. IsFiniteSet(Unread(q)) /\ IsFiniteSet(Unread(r))
  BY <1>1, UnreadFinite
<1>6. Cardinality(Unread(r)) >= Cardinality(Unread(q))
  BY <1>1, <1>4, <1>5, FS_Subset, UnreadFinite
<1>7. ASSUME m.kind = "chunk", \A i \in 1..n : ~ IsAnswer(q[i])
      PROVE  Cardinality(Unread(r)) = Cardinality(Unread(q)) + 1
  <2>1. n + 1 \in Unread(r)
    BY <1>1, <1>7 DEF Unread
  <2>2. Unread(r) = Unread(q) \cup {n + 1} /\ n + 1 \notin Unread(q)
    <3>1. Unread(r) \subseteq 1..(n + 1)
      BY <1>1 DEF Unread
    <3>2. n + 1 \notin Unread(q) /\ Unread(q) \subseteq 1..n
      BY <1>1, <1>2
    <3>3. \A i \in 1..(n + 1) : i \in 1..n \/ i = n + 1
      BY <1>1
    <3> QED BY <1>3, <2>1, <3>1, <3>2, <3>3
  <2> QED BY <1>5, <2>2, FS_AddElement
<1> QED BY <1>1, <1>6, <1>7 DEF r, n

\* What is read comes first: after the answer nothing is unread, and one chunk is
\* read at a time.
LEMMA UnreadTail ==
    ASSUME NEW q \in Seq(Messages), q # <<>>
    PROVE  /\ Head(q) \in Messages /\ Head(q) = q[1] /\ Tail(q) \in Seq(Messages)
           /\ 1 \in 1..Len(q)
           /\ \A i \in 1..Len(Tail(q)) : i + 1 \in 1..Len(q) /\ Tail(q)[i] = q[i + 1]
           /\ IsAnswer(Head(q)) => Cardinality(Unread(q)) = 0
           /\ ~ IsAnswer(Head(q)) =>
                 Cardinality(Unread(Tail(q))) + (IF Head(q).kind = "chunk" THEN 1 ELSE 0)
                    >= Cardinality(Unread(q))
<1> DEFINE r == Tail(q)
           n == Len(q)
           S == Unread(q) \ {1}
           f == [i \in S |-> i - 1]
<1>1. /\ n \in Nat /\ n >= 1 /\ Head(q) = q[1] /\ Head(q) \in Messages
      /\ r \in Seq(Messages) /\ Len(r) = n - 1
      /\ \A i \in 1..(n - 1) : r[i] = q[i + 1]
  OBVIOUS
<1>2. \A i \in 1..Len(r) : i + 1 \in 1..n /\ r[i] = q[i + 1]
  BY <1>1
<1>3. ASSUME IsAnswer(Head(q)) PROVE Cardinality(Unread(q)) = 0
  <2>1. q[1].kind # "chunk"
    BY <1>1, <1>3 DEF IsAnswer
  <2>2. \A i \in 1..n : i # 1 => 1 \in 1..(i - 1)
    BY <1>1
  <2>3. Unread(q) = {}
    BY <1>1, <1>3, <2>1, <2>2 DEF Unread
  <2> QED BY <2>3, FS_EmptySet
<1>4. ASSUME ~ IsAnswer(Head(q)) PROVE f \in Injection(S, Unread(r))
  <2>1. ASSUME NEW i \in S PROVE i - 1 \in Unread(r) /\ i \in Int
    <3>1. i \in 1..n /\ i # 1 /\ q[i].kind = "chunk" /\ \A j \in 1..(i - 1) : ~ IsAnswer(q[j])
      BY DEF Unread
    <3>2. i - 1 \in 1..Len(r) /\ r[i - 1] = q[i]
      BY <1>1, <3>1
    <3>3. ASSUME NEW j \in 1..(i - 1 - 1) PROVE ~ IsAnswer(r[j])
      <4>1. j \in 1..(n - 1) /\ j + 1 \in 1..(i - 1)
        BY <1>1, <3>1, <3>3
      <4> QED BY <1>1, <3>1, <4>1
    <3> QED BY <3>1, <3>2, <3>3 DEF Unread
  <2> HIDE DEF S
  <2>2. f \in [S -> Unread(r)]
    BY <2>1
  <2>3. \A i, j \in S : f[i] = f[j] => i = j
    BY <2>1
  <2> QED BY <2>2, <2>3 DEF Injection, IsInjective
<1>5. ASSUME ~ IsAnswer(Head(q))
      PROVE  Cardinality(Unread(r)) + (IF Head(q).kind = "chunk" THEN 1 ELSE 0)
                >= Cardinality(Unread(q))
  <2>1. /\ IsFiniteSet(Unread(q)) /\ Cardinality(Unread(q)) \in Nat
        /\ IsFiniteSet(Unread(r)) /\ Cardinality(Unread(r)) \in Nat
    BY <1>1, UnreadFinite
  <2>2. Cardinality(S) <= Cardinality(Unread(r))
    BY <1>4, <1>5, <2>1, FS_Injection
  <2>3. Cardinality(S) = IF 1 \in Unread(q) THEN Cardinality(Unread(q)) - 1
                                           ELSE Cardinality(Unread(q))
    BY <2>1, FS_RemoveElement
  <2>4. 1 \in Unread(q) => Head(q).kind = "chunk"
    BY <1>1 DEF Unread
  <2> HIDE DEF S, f, r
  <2> QED BY <2>1, <2>2, <2>3, <2>4
<1> QED BY <1>1, <1>2, <1>3, <1>5

-----------------------------------------------------------------------------
(* The review turn: steps *)

\* What the agent writes, and what it says of it.
Says(m) ==
    /\ toHost' = Append(toHost, m)
    /\ IsAnswer(m) => sent'.answered
    /\ sent.answered => sent'.answered /\ sent'.all = sent.all
    /\ sent'.all = sent.all \/ (m.kind = "chunk" /\ sent'.all = sent.all + 1)

LEMMA SentFacts ==
    ASSUME AcpTypeOK, agentSends
    PROVE  /\ toHost' \in Seq(Messages) /\ sent' \in [all : Nat, answered : BOOLEAN]
           /\ \E m \in Messages : Says(m)
<1>1. toHost \in Seq(Messages) /\ sent \in [all : Nat, answered : BOOLEAN] /\ heard \subseteq Ids
  BY DEF AcpTypeOK
<1>2. ASSUME NEW i \in heard, NEW o \in {"ok", "error"},
             toHost' = Append(toHost, [kind |-> "reply", id |-> i, outcome |-> o]),
             sent' = [sent EXCEPT !.answered = @ \/ i = Prompt]
      PROVE  sent' \in [all : Nat, answered : BOOLEAN] /\ \E m \in Messages : Says(m)
  <2> DEFINE m == [kind |-> "reply", id |-> i, outcome |-> o]
  <2>1. m \in Messages /\ m.id = i
    BY <1>1 DEF Messages
  <2>2. sent'.all = sent.all /\ (sent'.answered <=> sent.answered \/ i = Prompt)
    BY <1>1, <1>2
  <2>3. sent' \in [all : Nat, answered : BOOLEAN]
    BY <1>1, <1>2
  <2>4. toHost' = Append(toHost, m)
    BY <1>2
  <2> HIDE DEF m
  <2>5. Says(m)
    BY <2>1, <2>2, <2>4 DEF Says, IsAnswer
  <2> QED BY <2>1, <2>3, <2>5
<1>3. ASSUME toHost' = Append(toHost, [kind |-> "chunk"]),
             sent' = IF sent.answered THEN sent ELSE [sent EXCEPT !.all = @ + 1]
      PROVE  sent' \in [all : Nat, answered : BOOLEAN] /\ \E m \in Messages : Says(m)
  <2> DEFINE m == [kind |-> "chunk"]
  <2>1. m \in Messages /\ m.kind = "chunk"
    BY DEF Messages
  <2>2. sent.answered => sent' = sent
    BY <1>3
  <2>3. ~ sent.answered => sent'.all = sent.all + 1
    BY <1>1, <1>3
  <2>4. sent' \in [all : Nat, answered : BOOLEAN]
    BY <1>1, <1>3
  <2>5. toHost' = Append(toHost, m)
    BY <1>3
  <2> HIDE DEF m
  <2>6. Says(m)
    BY <2>1, <2>2, <2>3, <2>5 DEF Says, IsAnswer
  <2> QED BY <2>1, <2>4, <2>6
<1>4. ASSUME NEW k \in {"ask", "oversized"}, toHost' = Append(toHost, [kind |-> k]), sent' = sent
      PROVE  sent' \in [all : Nat, answered : BOOLEAN] /\ \E m \in Messages : Says(m)
  <2> DEFINE m == [kind |-> k]
  <2>1. m \in Messages /\ m.kind # "reply"
    BY DEF Messages
  <2>2. toHost' = Append(toHost, m)
    BY <1>4
  <2> HIDE DEF m
  <2>3. Says(m)
    BY <1>4, <2>1, <2>2 DEF Says, IsAnswer
  <2> QED BY <1>1, <1>4, <2>1, <2>3
<1>5. sent' \in [all : Nat, answered : BOOLEAN] /\ \E m \in Messages : Says(m)
  BY <1>2, <1>3, <1>4 DEF agentSends
<1>6. toHost' \in Seq(Messages)
  BY <1>1, <1>5, SeqFacts DEF Says
<1> QED BY <1>5, <1>6

\* A chunk is counted up to the limit.
LEMMA ChunkFacts ==
    ASSUME AcpTypeOK, dispatch, message.kind = "chunk"
    PROVE  exceeded' \in BOOLEAN /\ transcript' \in Nat
<1>1. exceeded \in BOOLEAN /\ transcript \in Nat
  BY DEF AcpTypeOK
<1>2. /\ exceeded' = (exceeded \/ transcript = Limit)
      /\ transcript' = IF exceeded' THEN transcript ELSE transcript + 1
  BY DEF dispatch
<1>3. exceeded' \in BOOLEAN
  BY <1>2
<1>4. transcript' = transcript \/ transcript' = transcript + 1
  BY <1>2
<1>5. transcript' \in Nat
  BY <1>1, <1>4
<1> QED BY <1>3, <1>5

\* Every step keeps the types.
LEMMA AcpTypeStep == AcpTypeOK /\ [AcpNext]_acpVars => AcpTypeOK'
<1> SUFFICES ASSUME AcpTypeOK, [AcpNext]_acpVars PROVE AcpTypeOK'
  OBVIOUS
<1> USE DEF AcpTypeOK, wires, agentVars, readerVars, callerVars
<1>1. CASE register
  BY <1>1 DEF register
<1>2. CASE lockWriter \/ giveUp \/ stopProc \/ respondLocks \/ agentCloses \/ deadline
               \/ killAgent \/ ended
  BY <1>2
  DEF lockWriter, giveUp, stopProc, respondLocks, agentCloses, deadline, killAgent, ended, acpVars
<1>3. CASE writeRequest
  <2>1. toAgent' \in Seq(Ids \cup {0})
    <3>1. toAgent \in Seq(Ids \cup {0}) /\ step \in Ids \cup {0}
      OBVIOUS
    <3>2. Append(toAgent, step) \in Seq(Ids \cup {0})
      BY <3>1, SeqFacts
    <3> QED BY <1>3, <3>1, <3>2 DEF writeRequest
  <2> QED BY <1>3, <2>1 DEF writeRequest
<1>4. CASE receive
  BY <1>4, IdsFacts DEF receive, afterAnswer, following, Prompt, SetModel
<1>5. CASE leave
  BY <1>5 DEF leave
<1>6. CASE dispatch
  <2>1. message \in Messages /\ toHost' \in Seq(Messages)
    BY <1>6, SeqFacts DEF dispatch, message
  <2>2. CASE message.kind = "reply"
    <3>1. message.id \in Ids /\ message.outcome \in {"ok", "error"}
      BY <2>1, <2>2 DEF Messages
    <3>2. pending' \subseteq Ids /\ answer' \in [Ids -> {"none", "ok", "error"}]
      BY <1>6, <2>2, <3>1 DEF dispatch, deliver
    <3> QED BY <1>6, <2>1, <2>2, <3>2 DEF dispatch
  <2>3. CASE message.kind # "reply"
    <3>1. CASE message.kind = "ask"
      BY <1>6, <2>1, <3>1 DEF dispatch
    <3>2. CASE message.kind = "chunk"
      <4>1. exceeded' \in BOOLEAN /\ transcript' \in Nat
        BY <1>6, <3>2, ChunkFacts
      <4> QED BY <1>6, <2>1, <3>2, <4>1 DEF dispatch
    <3> QED BY <1>6, <2>3, <3>1, <3>2 DEF dispatch
  <2> QED BY <2>2, <2>3
<1>7. CASE respond
  <2>1. toAgent' \in Seq(Ids \cup {0})
    <3>1. toAgent \in Seq(Ids \cup {0}) /\ 0 \in Ids \cup {0}
      OBVIOUS
    <3>2. Append(toAgent, 0) \in Seq(Ids \cup {0})
      BY <3>1, SeqFacts
    <3> QED BY <1>7, <3>1, <3>2 DEF respond
  <2> QED BY <1>7, <2>1 DEF respond
<1>8. CASE streamEnds
  BY <1>8 DEF streamEnds, rejectPending
<1>9. CASE agentReads
  <2>1. Head(toAgent) \in Ids \cup {0} /\ Tail(toAgent) \in Seq(Ids \cup {0})
    BY <1>9, SeqFacts DEF agentReads
  <2> QED BY <1>9, <2>1 DEF agentReads
<1>10. CASE agentSends
  <2>1. sent' \in [all : Nat, answered : BOOLEAN] /\ toHost' \in Seq(Messages)
    BY <1>10, SentFacts
  <2> QED BY <1>10, <2>1 DEF agentSends
<1>11. CASE UNCHANGED acpVars
  BY <1>11 DEF acpVars
<1> QED
  BY <1>1, <1>2, <1>3, <1>4, <1>5, <1>6, <1>7, <1>8, <1>9, <1>10, <1>11
  DEF AcpNext, callerNext, readerNext

\* Once everything is said and read it stays so.
LEMMA WholeStep == AcpTypeOK /\ WholeInv /\ [AcpNext]_acpVars => WholeInv'
<1> SUFFICES ASSUME AcpTypeOK, WholeInv, [AcpNext]_acpVars PROVE WholeInv'
  OBVIOUS
<1> USE DEF wires, agentVars, readerVars, callerVars
<1>p. Prompt \in Ids
  BY IdsFacts DEF Prompt
<1>s. sent \in [all : Nat, answered : BOOLEAN]
  BY DEF AcpTypeOK
<1>t. /\ toHost \in Seq(Messages) /\ answer \in [Ids -> {"none", "ok", "error"}] /\ Prompt \in Ids
      /\ transcript \in Nat /\ exceeded \in BOOLEAN /\ sent.all \in Nat /\ step \in Ids
  BY <1>p, <1>s DEF AcpTypeOK
<1>w. /\ \A i \in 1..Len(toHost) : IsAnswer(toHost[i]) => sent.answered
      /\ ~ exceeded => transcript + Cardinality(Unread(toHost)) >= sent.all
      /\ answer[Prompt] = "ok" => sent.answered /\ (~ exceeded => transcript >= sent.all)
      /\ caller \in {"done", "returned"} => sent.answered /\ transcript >= sent.all
  BY DEF WholeInv
<1>1. CASE lockWriter \/ giveUp \/ stopProc \/ respondLocks \/ agentCloses \/ deadline
               \/ killAgent \/ ended \/ register \/ writeRequest \/ respond \/ agentReads
               \/ leave
  BY <1>1, <1>w
  DEF lockWriter, WholeInv, giveUp, stopProc, respondLocks, agentCloses, deadline, killAgent,
     ended, acpVars, register, writeRequest, respond, agentReads, leave
<1>2. CASE receive
  <2>1. UNCHANGED <<toHost, answer, transcript, exceeded, sent>>
    BY <1>2 DEF receive
  <2>2. \/ caller' = caller
        \/ caller' \in {"done", "returned"} =>
              step = Prompt /\ answer[Prompt] = "ok" /\ ~ exceeded
    <3>1. step \in 1..5 /\ answer[step] \in {"none", "ok", "error"}
      BY <1>t, IdsFacts
    <3> QED BY <1>2, <3>1 DEF receive, afterAnswer, Prompt
  <2> QED BY <2>1, <2>2, <1>w DEF WholeInv
<1>3. CASE dispatch
  <2>1. /\ toHost # <<>> /\ toHost' = Tail(toHost) /\ message = Head(toHost)
        /\ UNCHANGED <<caller, sent>>
    BY <1>3 DEF dispatch, message
  <2>2. /\ message \in Messages /\ message = toHost[1] /\ 1 \in 1..Len(toHost)
        /\ \A i \in 1..Len(toHost') : i + 1 \in 1..Len(toHost) /\ toHost'[i] = toHost[i + 1]
        /\ IsAnswer(message) => Cardinality(Unread(toHost)) = 0
        /\ ~ IsAnswer(message) =>
              Cardinality(Unread(toHost')) + (IF message.kind = "chunk" THEN 1 ELSE 0)
                 >= Cardinality(Unread(toHost))
        /\ toHost' \in Seq(Messages)
    BY <1>t, <2>1, UnreadTail
  <2>3. Cardinality(Unread(toHost)) \in Nat /\ Cardinality(Unread(toHost')) \in Nat
    BY <1>t, <2>2, UnreadFinite
  <2>4. \A i \in 1..Len(toHost') : IsAnswer(toHost'[i]) => sent'.answered
    BY <1>w, <2>1, <2>2
  <2>6. CASE IsAnswer(message)
    <3>1. sent.answered /\ (~ exceeded => transcript >= sent.all)
      BY <1>t, <1>w, <2>2, <2>6
    <3>2. UNCHANGED <<transcript, exceeded>>
      BY <1>3, <2>6 DEF dispatch, IsAnswer
    <3> QED BY <1>t, <1>w, <2>1, <2>3, <2>4, <3>1, <3>2 DEF WholeInv
  <2>7. CASE ~ IsAnswer(message)
    <3>1. answer'[Prompt] = answer[Prompt]
      <4>1. message.kind = "reply" => message.id # Prompt
        BY <2>7 DEF IsAnswer
      <4> QED BY <1>3, <1>t, <4>1 DEF dispatch, deliver
    <3>2. /\ transcript' \in Nat /\ transcript' >= transcript /\ (exceeded => exceeded')
          /\ ~ exceeded' /\ message.kind = "chunk" => transcript' = transcript + 1
          /\ message.kind # "chunk" => transcript' = transcript /\ exceeded' = exceeded
      BY <1>3, <1>t, <2>2 DEF dispatch
    <3> QED BY <1>t, <1>w, <2>1, <2>2, <2>3, <2>4, <2>7, <3>1, <3>2 DEF WholeInv
  <2> QED BY <2>6, <2>7
<1>4. CASE streamEnds
  <2>1. UNCHANGED <<toHost, caller, transcript, exceeded, sent>>
    BY <1>4 DEF streamEnds
  <2>2. answer'[Prompt] = "ok" => answer[Prompt] = "ok"
    BY <1>4, <1>t DEF streamEnds, rejectPending
  <2> QED BY <2>1, <2>2, <1>w DEF WholeInv
<1>5. CASE agentSends
  <2>0. PICK m \in Messages : Says(m)
    BY <1>5, SentFacts
  <2>1. /\ toHost' = Append(toHost, m)
        /\ IsAnswer(m) => sent'.answered
        /\ sent.answered => sent'.answered /\ sent'.all = sent.all
        /\ sent'.all = sent.all \/ (m.kind = "chunk" /\ sent'.all = sent.all + 1)
    BY <2>0 DEF Says
  <2>2. UNCHANGED <<caller, answer, transcript, exceeded>>
    BY <1>5 DEF agentSends
  <2>3. /\ toHost' \in Seq(Messages)
        /\ Cardinality(Unread(toHost')) >= Cardinality(Unread(toHost))
        /\ m.kind = "chunk" /\ (\A i \in 1..Len(toHost) : ~ IsAnswer(toHost[i])) =>
              Cardinality(Unread(toHost')) = Cardinality(Unread(toHost)) + 1
    BY <1>t, <2>1, UnreadAppend
  <2>4. Cardinality(Unread(toHost)) \in Nat /\ Cardinality(Unread(toHost')) \in Nat
    BY <1>t, <2>3, UnreadFinite
  <2>6. \A i \in 1..Len(toHost') : IsAnswer(toHost'[i]) => sent'.answered
    <3> SUFFICES ASSUME NEW i \in 1..Len(toHost'), IsAnswer(toHost'[i]) PROVE sent'.answered
      OBVIOUS
    <3>1. (i \in 1..Len(toHost) /\ toHost'[i] = toHost[i]) \/ toHost'[i] = m
      BY <1>t, <2>1
    <3> QED BY <1>w, <2>1, <3>1
  <2>7. ~ exceeded' => transcript' + Cardinality(Unread(toHost')) >= sent'.all
    BY <1>t, <1>w, <2>1, <2>2, <2>3, <2>4
  <2> QED BY <1>t, <1>w, <2>1, <2>2, <2>6, <2>7 DEF WholeInv
<1>6. CASE UNCHANGED acpVars
  BY <1>6 DEF acpVars, WholeInv
<1> QED
  BY <1>1, <1>2, <1>3, <1>4, <1>5, <1>6
  DEF AcpNext, callerNext, readerNext

LEMMA AcpInitially == AcpInit => AcpTypeOK /\ WholeInv
<1> SUFFICES ASSUME AcpInit PROVE AcpTypeOK /\ WholeInv
  OBVIOUS
<1>1. /\ toHost = <<>> /\ toAgent = <<>> /\ transcript = 0 /\ exceeded = FALSE
      /\ answer = [i \in Ids |-> "none"] /\ caller = "next"
      /\ sent = [all |-> 0, answered |-> FALSE]
  BY DEF AcpInit
<1>2. toHost \in Seq(Messages) /\ toAgent \in Seq(Ids \cup {0}) /\ Len(toHost) = 0
  BY <1>1
<1>3. AcpTypeOK
  <2>1. step \in Ids /\ pending \subseteq Ids /\ heard \subseteq Ids /\ serve = "reading"
    BY IdsFacts DEF AcpInit
  <2>2. answer \in [Ids -> {"none", "ok", "error"}] /\ sent \in [all : Nat, answered : BOOLEAN]
    BY <1>1
  <2> QED BY <1>1, <1>2, <2>1, <2>2 DEF AcpTypeOK
<1>4. Cardinality(Unread(toHost)) \in Nat
  BY <1>2, UnreadFinite
<1>5. answer[Prompt] = "none" /\ sent.all = 0
  BY <1>1, IdsFacts DEF Prompt
<1>6. WholeInv
  BY <1>1, <1>2, <1>4, <1>5 DEF WholeInv
<1> QED BY <1>3, <1>6

\* A turn that succeeded returns all the agent said before it answered the prompt,
\* with pipes of every size and every limit.
THEOREM AnswersWhole == AcpSpec => []AnswersAreWhole
<1>1. AcpTypeOK /\ WholeInv /\ [AcpNext]_acpVars => (AcpTypeOK /\ WholeInv)'
  BY AcpTypeStep, WholeStep
<1>2. WholeInv => AnswersAreWhole
  BY DEF WholeInv, AnswersAreWhole
<1> QED BY <1>1, <1>2, AcpInitially, PTL DEF AcpSpec

-----------------------------------------------------------------------------
(* The review turn: the mode is confirmed before the prompt *)

\* An answer that is awaited is not there yet, and no later request is out.
AwaitedInv ==
    /\ \A i \in pending : answer[i] = "none"
    /\ \A i \in Ids : i > step \/ (i = step /\ caller = "next") =>
          answer[i] = "none" /\ i \notin pending

\* The caller is at a request when the ones before it were answered well.
ConfirmedInv ==
    /\ step > SetMode => answer[SetMode] = "ok"
    /\ step > SetModel /\ wantsModel => answer[SetModel] = "ok"

\* What the agent can know of is what the caller was at.
HeardInv ==
    /\ \A k \in 1..Len(toAgent) : toAgent[k] <= step
    /\ \A i \in heard : i <= step

LEMMA AwaitedStep == AcpTypeOK /\ AwaitedInv /\ [AcpNext]_acpVars => AwaitedInv'
<1> SUFFICES ASSUME AcpTypeOK, AwaitedInv, [AcpNext]_acpVars PROVE AwaitedInv'
  OBVIOUS
<1> USE DEF wires, agentVars, readerVars, callerVars
<1>t. step \in 1..5 /\ pending \subseteq 1..5 /\ answer \in [1..5 -> {"none", "ok", "error"}]
  BY IdsFacts DEF AcpTypeOK
<1>a. \A i \in pending : answer[i] = "none"
  BY DEF AwaitedInv
<1>b. \A i \in 1..5 : i > step \/ (i = step /\ caller = "next") =>
          answer[i] = "none" /\ i \notin pending
  BY IdsFacts DEF AwaitedInv
<1>1. CASE register
  BY <1>1, <1>t, <1>a, <1>b, IdsFacts DEF register, AwaitedInv
<1>2. CASE lockWriter \/ giveUp \/ stopProc \/ respondLocks \/ agentCloses \/ deadline
               \/ killAgent \/ ended \/ writeRequest \/ respond \/ agentReads \/ leave \/ agentSends
  <2>1. step' = step /\ answer' = answer /\ pending' \subseteq pending
        /\ (caller' = "next" => caller = "next")
    BY <1>2
    DEF lockWriter, giveUp, stopProc, respondLocks, agentCloses, deadline, killAgent, ended,
        acpVars, writeRequest, respond, agentReads, leave, agentSends
  <2> QED BY <1>a, <1>b, <2>1, IdsFacts DEF AwaitedInv
<1>3. CASE receive
  <2>1. answer' = answer /\ pending' = pending
    BY <1>3 DEF receive
  <2>2. step' \in 1..5 /\ (step' > step \/ (step' = step /\ caller' # "next"))
    BY <1>3, <1>t DEF receive, afterAnswer, following, Prompt, SetModel
  <2> QED BY <1>t, <1>a, <1>b, <2>1, <2>2, IdsFacts DEF AwaitedInv
<1>4. CASE dispatch
  <2>1. step' = step /\ caller' = caller /\ pending' \subseteq pending
    BY <1>4 DEF dispatch, deliver
  <2>2. \A i \in 1..5 : answer'[i] = answer[i] \/ (i \in pending /\ i \notin pending')
    BY <1>4, <1>t, IdsFacts DEF dispatch, deliver
  <2> QED BY <1>t, <1>a, <1>b, <2>1, <2>2, IdsFacts DEF AwaitedInv
<1>5. CASE streamEnds
  BY <1>5, <1>t, <1>a, <1>b, IdsFacts DEF streamEnds, rejectPending, AwaitedInv
<1>6. CASE UNCHANGED acpVars
  BY <1>6 DEF acpVars, AwaitedInv
<1> QED
  BY <1>1, <1>2, <1>3, <1>4, <1>5, <1>6 DEF AcpNext, callerNext, readerNext

LEMMA ConfirmedStep ==
    AcpTypeOK /\ AwaitedInv /\ ConfirmedInv /\ [AcpNext]_acpVars => ConfirmedInv'
<1> SUFFICES ASSUME AcpTypeOK, AwaitedInv, ConfirmedInv, [AcpNext]_acpVars PROVE ConfirmedInv'
  OBVIOUS
<1> USE DEF wires, agentVars, readerVars, callerVars
<1>t. step \in 1..5 /\ pending \subseteq 1..5 /\ answer \in [1..5 -> {"none", "ok", "error"}]
  BY IdsFacts DEF AcpTypeOK
<1>a. \A i \in pending : answer[i] = "none"
  BY DEF AwaitedInv
<1>c. /\ step > 3 => answer[3] = "ok"
      /\ step > 4 /\ wantsModel => answer[4] = "ok"
  BY DEF ConfirmedInv, SetMode, SetModel
<1>1. CASE receive
  <2>1. answer' = answer /\ wantsModel' = wantsModel /\ answer[step] # "none"
    BY <1>1 DEF receive
  <2>2. CASE step' = step
    BY <1>c, <2>1, <2>2 DEF ConfirmedInv, SetMode, SetModel
  <2>3. CASE step' # step
    <3>1. afterAnswer = "next" /\ step' = following
      BY <1>1, <2>3 DEF receive
    <3>2. answer[step] = "ok" /\ step < 5
      BY <1>t, <2>1, <3>1 DEF afterAnswer, Prompt
    <3>3. step' = IF step = 3 /\ ~ wantsModel THEN 5 ELSE step + 1
      BY <1>t, <3>1 DEF following, SetModel, Prompt
    <3> QED BY <1>t, <1>c, <2>1, <3>2, <3>3 DEF ConfirmedInv, SetMode, SetModel
  <2> QED BY <2>2, <2>3
<1>2. CASE dispatch \/ streamEnds
  <2>1. step' = step /\ wantsModel' = wantsModel
    BY <1>2 DEF dispatch, streamEnds
  <2>2. \A i \in 1..5 : answer[i] # "none" => answer'[i] = answer[i]
    <3>1. CASE dispatch
      BY <3>1, <1>t, <1>a, IdsFacts DEF dispatch, deliver
    <3>2. CASE streamEnds
      BY <3>2, <1>t, <1>a, IdsFacts DEF streamEnds, rejectPending
    <3> QED BY <1>2, <3>1, <3>2
  <2> QED BY <1>c, <2>1, <2>2 DEF ConfirmedInv, SetMode, SetModel
<1>3. CASE UNCHANGED <<wantsModel, step, answer>>
  BY <1>3, <1>c DEF ConfirmedInv, SetMode, SetModel
<1>4. CASE lockWriter \/ giveUp \/ stopProc \/ respondLocks \/ agentCloses \/ deadline \/ register
               \/ killAgent \/ ended \/ writeRequest \/ respond \/ agentReads \/ leave \/ agentSends
  <2>1. UNCHANGED <<wantsModel, step, answer>>
    BY <1>4
    DEF lockWriter, giveUp, stopProc, respondLocks, agentCloses, deadline, killAgent, ended,
        acpVars, writeRequest, respond, agentReads, leave, agentSends, register
  <2> QED BY <1>3, <2>1
<1> QED
  BY <1>1, <1>2, <1>3, <1>4 DEF AcpNext, callerNext, readerNext, acpVars

LEMMA HeardStep == AcpTypeOK /\ HeardInv /\ [AcpNext]_acpVars => HeardInv'
<1> SUFFICES ASSUME AcpTypeOK, HeardInv, [AcpNext]_acpVars PROVE HeardInv'
  OBVIOUS
<1> USE DEF wires, agentVars, readerVars, callerVars
<1>t. step \in 1..5 /\ heard \subseteq 1..5 /\ toAgent \in Seq(0..5)
  <2>1. Ids \cup {0} = 0..5
    BY IdsFacts
  <2> QED BY <2>1, IdsFacts DEF AcpTypeOK
<1>h. /\ \A k \in 1..Len(toAgent) : toAgent[k] <= step
      /\ \A i \in heard : i <= step
  BY DEF HeardInv
<1>1. CASE writeRequest \/ respond
  <2>1. step' = step /\ heard' = heard
    BY <1>1 DEF writeRequest, respond
  <2>2. \/ toAgent' = toAgent
        \/ \E m \in {step, 0} : toAgent' = Append(toAgent, m)
    BY <1>1 DEF writeRequest, respond
  <2>3. \A k \in 1..Len(toAgent') : toAgent'[k] <= step
    BY SMTT(30), <1>t, <1>h, <2>2
  <2> QED BY <1>h, <2>1, <2>3 DEF HeardInv
<1>2. CASE agentReads
  <2>1. step' = step /\ toAgent # <<>> /\ toAgent' = Tail(toAgent)
        /\ heard' = heard \cup ({Head(toAgent)} \ {0})
    BY <1>2 DEF agentReads
  <2>2. Head(toAgent) <= step /\ \A k \in 1..Len(toAgent') : toAgent'[k] <= step
    BY <1>t, <1>h, <2>1
  <2> QED BY <1>h, <2>1, <2>2 DEF HeardInv
<1>3. CASE receive
  <2>1. toAgent' = toAgent /\ heard' = heard
    BY <1>3 DEF receive
  <2>2. step' \in 1..5 /\ step' >= step
    BY <1>3, <1>t DEF receive, afterAnswer, following, Prompt, SetModel
  <2>3. \A k \in 1..Len(toAgent) : toAgent[k] \in 0..5
    BY <1>t
  <2> QED BY <1>t, <1>h, <2>1, <2>2, <2>3 DEF HeardInv
<1>4. CASE UNCHANGED <<step, toAgent, heard>>
  BY <1>4, <1>h DEF HeardInv
<1>5. CASE lockWriter \/ giveUp \/ stopProc \/ respondLocks \/ agentCloses \/ deadline \/ register
               \/ killAgent \/ ended \/ leave \/ agentSends \/ dispatch \/ streamEnds
  <2>1. UNCHANGED <<step, toAgent, heard>>
    BY <1>5
    DEF lockWriter, giveUp, stopProc, respondLocks, agentCloses, deadline, killAgent, ended,
        acpVars, leave, agentSends, register, dispatch, streamEnds
  <2> QED BY <1>4, <2>1
<1> QED
  BY <1>1, <1>2, <1>3, <1>4, <1>5 DEF AcpNext, callerNext, readerNext, acpVars

\* An agent that has read the prompt has confirmed the read-only mode, and the model
\* where one is asked for (adapters_mistral_acp.go:368-375).
THEOREM PromptsReadOnly == AcpSpec => []PromptsAreReadOnly
<1> DEFINE I == AcpTypeOK /\ AwaitedInv /\ ConfirmedInv /\ HeardInv
<1>1. AcpInit => I
  <2> SUFFICES ASSUME AcpInit PROVE I
    OBVIOUS
  <2>1. AcpTypeOK
    BY AcpInitially
  <2>2. /\ step = 1 /\ pending = {} /\ answer = [i \in Ids |-> "none"]
        /\ toAgent = <<>> /\ heard = {}
    BY DEF AcpInit
  <2>3. AwaitedInv
    BY <2>2 DEF AwaitedInv
  <2> QED BY <2>1, <2>2, <2>3 DEF ConfirmedInv, HeardInv, SetMode, SetModel
<1>2. I /\ [AcpNext]_acpVars => I'
  BY AcpTypeStep, AwaitedStep, ConfirmedStep, HeardStep
<1>3. I => PromptsAreReadOnly
  <2>1. I /\ Prompt \in heard => step > SetMode /\ step > SetModel
    <3>1. AcpTypeOK => step \in 1..5
      BY IdsFacts DEF AcpTypeOK
    <3>2. HeardInv /\ Prompt \in heard => 5 <= step
      BY DEF HeardInv, Prompt
    <3> QED BY <3>1, <3>2 DEF SetMode, SetModel
  <2> QED BY <2>1 DEF PromptsAreReadOnly, ConfirmedInv
<1> QED BY <1>1, <1>2, <1>3, PTL DEF AcpSpec

-----------------------------------------------------------------------------
(* The review rounds: the inductive invariant *)

Entries == [source : {None, "quality_gate", "review"},
            severity : {None, "blocker", "major", "minor"},
            status : {None, "open", "resolved", "fixed", "deferred_with_approval"}]
ReviewFindings == [id : Notes, severity : {"major", "minor"}]
Reviews == [verdict : {None, "pass", "needs_changes"}, findings : SUBSET ReviewFindings,
            closes : SUBSET FindingIds]
TestRuns == [ran : BOOLEAN, passed : BOOLEAN, named : SUBSET Identities]
FinalRuns == [status : {None, "passed", "degraded", "blocked", "failed", "cancelled",
                        "quarantined"},
              review : Reviews, gates : SUBSET FindingIds, diff : SUBSET Changes, open : Nat,
              baseline : TestRuns, tested : TestRuns,
              regression : {None, "no_new_failures", "new_failures", "unknown"},
              degraded : BOOLEAN, limit : BOOLEAN, repaired : BOOLEAN]

RoundsTypeOK ==
    /\ command \in Commands /\ settings \in Settings /\ tree \subseteq Changes
    /\ pc \in {"baseline", "worker", "capture", "tests", "review", "decide", "finalize", "fail",
               "done"}
    /\ round \in Nat \ {0}
    /\ reviewer \in [who : Nat \ {0}, attempt : {"first", "retry", "repair"}]
    /\ ledger \in [FindingIds -> Entries] /\ run \in FinalRuns /\ final \in FinalRuns
    /\ operator \in [pc : {"idle", "defer", "resolve"}, id : FindingIds \cup {None},
                     read : [FindingIds -> Entries], left : Nat]
    /\ transfer \in [status : {None, "rejected", "checked", "compared", "testing", "applied",
                                "transferred"},
                     diff : SUBSET Changes, failedRollback : BOOLEAN]
    /\ target \in [head : {"baseline", "moved"}, edited : BOOLEAN, patch : SUBSET Changes]
    /\ undecided \subseteq FindingIds /\ takenBack \subseteq FindingIds
    /\ approved \in [tree : SUBSET Changes, valid : BOOLEAN]

\* The ledger holds open whatever is undecided and was not written over, and the run
\* knows when nothing is: a stale write is the only step that closes what it did
\* not look at.
DecidedInv ==
    /\ operator.pc # "idle" => operator.id \in FindingIds
    /\ operator.pc = "resolve" => operator.id \notin OpenBlocking(operator.read)
    /\ undecided \ takenBack \subseteq OpenBlocking(ledger)
    /\ run.open = 0 => undecided \subseteq takenBack
    /\ Succeeded => pc = "done" /\ undecided \subseteq takenBack

\* A verdict that passed belongs to the diff of the run at the decision of its round
\* and after, and to a result that is not a failure.
ReviewedInv ==
    /\ run.review.verdict = "pass" => ~ Blocks(run.review.findings)
    /\ command = "solo" => run.review.verdict = None /\ pc \notin {"review", "decide"}
    /\ pc \in {"decide", "finalize"} /\ run.review.verdict = "pass" =>
          approved.valid /\ run.diff = approved.tree
    /\ pc # "done" => final.status = None /\ transfer.status = None
    /\ /\ pc = "done" /\ final.review.verdict = "pass"
       /\ final.status \notin {"cancelled", "quarantined", "failed"}
       => approved.valid /\ final.diff = approved.tree
    /\ transfer.status \notin {None, "rejected"} =>
          approved.valid /\ final.diff = approved.tree
    /\ transfer.status = "applied" => target.patch = final.diff
    /\ transfer.status = "transferred" => transfer.diff = final.diff

\* The comparison that decides is one of the diff that is decided about, with the
\* baseline of the run.
ComparedInv ==
    /\ command # "review" /\ settings.tests /\ pc \notin {"baseline", "done"} => run.baseline.ran
    /\ pc = "tests" => run.diff = tree
    /\ command # "review" /\ settings.tests /\ pc \in {"review", "decide", "finalize"} =>
          /\ run.tested.passed = (Failing(run.diff) = {})
          /\ run.regression = compareRegression(run.baseline, run.tested)
    /\ Succeeded => pc = "done"
    /\ NamedFailuresBlock

\* The worktree has the patch of a transfer that was applied and not reversed, and
\* a run that needed help says so.
PatchInv ==
    /\ transfer.status \in {None, "checked", "compared", "testing"} => target.patch = {} /\ ~ transfer.failedRollback
    /\ RejectedLeavesTarget
AidedInv ==
    /\ run.repaired => run.degraded
    /\ PassedIsUnaided

-----------------------------------------------------------------------------
(* The ledger and the replies *)

LEMMA FindingIdsFinite == IsFiniteSet(FindingIds) /\ IsFiniteSet(ReviewFindings)
<1>1. IsFiniteSet(Changes) /\ IsFiniteSet(Notes) /\ IsFiniteSet({"churn"})
  BY FinitenessAssumption, FS_Singleton
<1>2. IsFiniteSet(Denied) /\ IsFiniteSet(Outside)
  BY <1>1, ChangesAssumption, FS_Subset
<1>3. IsFiniteSet(FindingIds)
  BY <1>1, <1>2, FS_Union DEF FindingIds
<1> DEFINE Pairs == Notes \X {"major", "minor"}
           f == [r \in ReviewFindings |-> <<r.id, r.severity>>]
<1>4. IsFiniteSet({"major", "minor"})
  <2>1. IsFiniteSet({"major"}) /\ IsFiniteSet({"minor"})
    BY FS_Singleton
  <2>2. {"major", "minor"} = {"major"} \cup {"minor"}
    OBVIOUS
  <2> QED BY <2>1, <2>2, FS_Union
<1>5. IsFiniteSet(Pairs)
  BY <1>1, <1>4, FS_Product
<1>6. f \in Injection(ReviewFindings, Pairs)
  <2>1. f \in [ReviewFindings -> Pairs]
    BY DEF ReviewFindings
  <2>2. ASSUME NEW r \in ReviewFindings, NEW s \in ReviewFindings, f[r] = f[s] PROVE r = s
    <3>1. r.id = s.id /\ r.severity = s.severity
      BY <2>2
    <3> QED BY <3>1 DEF ReviewFindings
  <2> QED BY <2>1, <2>2 DEF Injection, IsInjective
<1>7. IsFiniteSet(ReviewFindings)
  BY <1>5, <1>6, FS_Injection
<1> QED BY <1>3, <1>7

LEMMA OpenFacts ==
    ASSUME NEW l \in [FindingIds -> Entries]
    PROVE  /\ OpenBlocking(l) \subseteq FindingIds
           /\ Cardinality(OpenBlocking(l)) \in Nat
           /\ Cardinality(OpenBlocking(l)) = 0 => OpenBlocking(l) = {}
<1>1. OpenBlocking(l) \in SUBSET FindingIds
  BY DEF OpenBlocking
<1>2. IsFiniteSet(OpenBlocking(l))
  BY <1>1, FindingIdsFinite, FS_Subset
<1> QED BY <1>1, <1>2, FS_CardinalityType, FS_EmptySet

\* A gate evaluation reopens what it finds and closes its own findings only.
LEMMA GateFacts ==
    ASSUME NEW l \in [FindingIds -> Entries], NEW diff
    PROVE  /\ GateFindings(diff) \subseteq FindingIds
           /\ UpdateByGates(l, GateFindings(diff)) \in [FindingIds -> Entries]
           /\ GateFindings(diff) \subseteq OpenBlocking(UpdateByGates(l, GateFindings(diff)))
           /\ \A id \in OpenBlocking(l) : l[id].source # "quality_gate" =>
                 id \in OpenBlocking(UpdateByGates(l, GateFindings(diff)))
<1> DEFINE found == GateFindings(diff)
           new == UpdateByGates(l, found)
<1>1. found \subseteq FindingIds
  BY DEF GateFindings, evaluateScopeFindings, evaluateChurnFindings, FindingIds
<1> HIDE DEF found
<1>2. ASSUME NEW id \in FindingIds
      PROVE  /\ new[id] = IF id \in found
                          THEN [source |-> "quality_gate", severity |-> GateSeverity(id), status |-> "open"]
                          ELSE IF l[id].source = "quality_gate" /\ l[id].status = "open"
                          THEN [l[id] EXCEPT !.status = "resolved"] ELSE l[id]
             /\ GateSeverity(id) \in Blocking
  BY DEF UpdateByGates, GateSeverity, Blocking
<1>3. ASSUME NEW id \in FindingIds
      PROVE  /\ new[id] \in Entries
             /\ id \in found => new[id].status = "open" /\ new[id].severity \in Blocking
             /\ id \notin found /\ l[id].source # "quality_gate" => new[id] = l[id]
  <2>1. l[id] \in Entries
    OBVIOUS
  <2>2. CASE id \in found
    <3>1. /\ new[id] = [source |-> "quality_gate", severity |-> GateSeverity(id), status |-> "open"]
          /\ GateSeverity(id) \in Blocking
      BY <1>2, <2>2
    <3>2. Blocking \subseteq {None, "blocker", "major", "minor"}
      BY DEF Blocking
    <3> HIDE DEF new
    <3> QED BY <2>2, <3>1, <3>2 DEF Entries
  <2>3. CASE id \notin found
    BY <1>2, <2>1, <2>3 DEF Entries
  <2> QED BY <2>2, <2>3
<1>4. new \in [FindingIds -> Entries]
  <2>1. DOMAIN new = FindingIds /\ new = [id \in FindingIds |-> new[id]]
    BY DEF UpdateByGates
  <2> HIDE DEF new
  <2> QED BY <1>3, <2>1
<1> HIDE DEF new
<1>5. found \subseteq OpenBlocking(new)
  BY <1>1, <1>3, <1>4 DEF OpenBlocking
<1>6. \A id \in OpenBlocking(l) : l[id].source # "quality_gate" => id \in OpenBlocking(new)
  BY <1>3, <1>4, <1>5 DEF OpenBlocking
<1> QED BY <1>1, <1>4, <1>5, <1>6 DEF found, new

\* A reply that is accepted gives each finding one severity, and passes only if
\* nothing in it blocked before the cap.
LEMMA ReplyFacts ==
    ASSUME NEW verdict \in {"pass", "needs_changes"}, NEW findings \in Findings,
           NEW closes \in SUBSET FindingIds, NEW review \in Accepted(verdict, findings, closes)
    PROVE  /\ review \in Reviews /\ review.verdict = verdict /\ review.closes = closes
           /\ \A f \in review.findings : Severity(review.findings, f.id) = f.severity
           /\ verdict = "pass" => ~ Blocks(review.findings) /\ ~ Blocks(findings)
<1>1. PICK kept \in applyReviewCaps(findings) :
         review = [verdict |-> verdict, findings |-> kept, closes |-> closes] /\ Validate(review)
  BY DEF Accepted
<1>2. /\ kept \subseteq findings /\ findings \in SUBSET ReviewFindings
      /\ Cardinality(Reported(findings)) = Cardinality(findings)
  BY DEF applyReviewCaps, Findings, ReviewFindings
<1>3. IsFiniteSet(findings) /\ IsFiniteSet(kept)
  BY <1>2, FindingIdsFinite, FS_Subset
<1>4. review \in Reviews /\ review.verdict = verdict /\ review.closes = closes /\ review.findings = kept
  BY <1>1, <1>2 DEF Reviews
<1>5. \A f, g \in findings : f.id = g.id => f = g
  <2> DEFINE h == [f \in findings |-> f.id]
  <2>1. h \in Surjection(findings, Reported(findings))
    BY DEF Surjection, Reported
  <2>2. h \in Injection(findings, Reported(findings))
    BY <1>2, <1>3, <2>1, FS_SurjSameCardinalityImpliesInj
  <2> QED BY <2>2 DEF Injection, IsInjective
<1>6. ASSUME NEW f \in kept PROVE Severity(kept, f.id) = f.severity
  <2>1. \A g \in kept : g.id = f.id => g = f
    BY <1>2, <1>5
  <2>2. (CHOOSE g \in kept : g.id = f.id) = f
    BY <2>1
  <2> QED BY <2>2 DEF Severity
<1>7. ASSUME verdict = "pass" PROVE ~ Blocks(kept) /\ ~ Blocks(findings)
  <2>1. ~ Blocks(kept)
    BY <1>1, <1>4, <1>7 DEF Validate
  <2>2. ASSUME NEW f \in findings, f.severity \in Blocking PROVE FALSE
    <3>1. f \notin kept /\ kept # findings
      BY <2>1, <2>2 DEF Blocks
    <3>2. MaxFindings # 0 /\ Cardinality(kept) = MaxFindings
          /\ (Blocks(findings \ kept) => \A k \in kept : k.severity \in Blocking)
      BY <3>1 DEF applyReviewCaps
    <3>3. Blocks(findings \ kept)
      BY <2>2, <3>1 DEF Blocks
    <3>4. kept # {}
      BY <3>2, FS_EmptySet
    <3> QED BY <2>1, <3>2, <3>3, <3>4 DEF Blocks
  <2> QED BY <2>1, <2>2 DEF Blocks
<1> QED BY <1>4, <1>6, <1>7

\* A reply closes what it says, and reports what it finds.
LEMMA ReviewFacts ==
    ASSUME NEW l \in [FindingIds -> Entries], NEW review \in Reviews,
           \A f \in review.findings : Severity(review.findings, f.id) = f.severity
    PROVE  /\ UpdateByReview(l, review) \in [FindingIds -> Entries]
           /\ \A f \in review.findings : f.severity \in Blocking =>
                 f.id \in OpenBlocking(UpdateByReview(l, review))
           /\ \A id \in OpenBlocking(l) : id \notin review.closes \cup Reported(review.findings) =>
                 id \in OpenBlocking(UpdateByReview(l, review))
<1> DEFINE new == UpdateByReview(l, review)
<1>0. review.findings \subseteq ReviewFindings /\ Reported(review.findings) \subseteq FindingIds
  BY DEF Reviews, ReviewFindings, Reported, FindingIds
<1>1. ASSUME NEW id \in FindingIds
      PROVE  /\ id \in Reported(review.findings) =>
                   new[id] = [source |-> "review", severity |-> Severity(review.findings, id),
                              status |-> "open"]
             /\ id \notin Reported(review.findings) => new[id] \in {[l[id] EXCEPT !.status = "fixed"], l[id]}
             /\ id \notin review.closes \cup Reported(review.findings) => new[id] = l[id]
  BY DEF UpdateByReview
<1>2. ASSUME NEW f \in review.findings
      PROVE  new[f.id] = [source |-> "review", severity |-> f.severity, status |-> "open"]
             /\ f.id \in FindingIds /\ f.severity \in {"major", "minor"}
  <2>1. f.id \in Reported(review.findings) /\ f.severity \in {"major", "minor"}
    BY <1>0 DEF Reported, ReviewFindings
  <2> QED BY <1>0, <1>1, <2>1
<1>3. ASSUME NEW id \in FindingIds PROVE new[id] \in Entries
  <2>1. CASE id \in Reported(review.findings)
    <3>1. PICK f \in review.findings : f.id = id
      BY <2>1 DEF Reported
    <3>2. /\ new[id] = [source |-> "review", severity |-> f.severity, status |-> "open"]
          /\ f.severity \in {"major", "minor"}
      BY <1>2, <3>1
    <3> HIDE DEF new
    <3> QED BY <3>2 DEF Entries
  <2>2. CASE id \notin Reported(review.findings)
    <3>1. l[id] \in Entries
      OBVIOUS
    <3> QED BY <1>1, <2>2, <3>1 DEF Entries
  <2> QED BY <2>1, <2>2
<1>4. new = [id \in FindingIds |-> new[id]]
  BY DEF UpdateByReview
<1> HIDE DEF new
<1>5. new \in [FindingIds -> Entries]
  BY <1>3, <1>4
<1>6. ASSUME NEW f \in review.findings, f.severity \in Blocking PROVE f.id \in OpenBlocking(new)
  <2>1. /\ new[f.id] = [source |-> "review", severity |-> f.severity, status |-> "open"]
        /\ f.id \in DOMAIN new
    BY <1>2, <1>5
  <2>2. new[f.id].status = "open" /\ new[f.id].severity \in Blocking
    BY <1>6, <2>1
  <2> QED BY <2>1, <2>2 DEF OpenBlocking
<1>7. \A id \in OpenBlocking(l) : id \notin review.closes \cup Reported(review.findings) =>
         id \in OpenBlocking(new)
  BY <1>1, <1>5 DEF OpenBlocking
<1> QED BY <1>5, <1>6, <1>7 DEF new

\* What a test run is.
LEMMA TestFacts ==
    /\ \A diff \in SUBSET Changes : Failing(diff) \subseteq Identities
    /\ \A failing, named \in SUBSET Identities : TestRun(failing, named) \in TestRuns
    /\ Namings \subseteq SUBSET Identities
    /\ NoTest \in TestRuns
    /\ \A a, c : compareRegression(a, c) \in {"no_new_failures", "new_failures", "unknown"}
<1>1. \A diff : Failing(diff) \subseteq Identities
  BY DEF Failing, Identities
<1>2. /\ \A failing, named \in SUBSET Identities : TestRun(failing, named) \in TestRuns
      /\ Namings \subseteq SUBSET Identities
  BY NamingsAssumption DEF TestRun, TestRuns
<1>3. NoTest \in TestRuns
  BY DEF NoTest, TestRuns
<1>4. \A a, c : compareRegression(a, c) \in {"no_new_failures", "new_failures", "unknown"}
  BY DEF compareRegression
<1> QED BY <1>1, <1>2, <1>3, <1>4

-----------------------------------------------------------------------------
(* The review rounds: steps *)

\* What each step that changes the run makes of it.
LEMMA CaptureFacts ==
    ASSUME RoundsTypeOK, captureAndGate
    PROVE  /\ run' \in FinalRuns /\ ledger' \in [FindingIds -> Entries]
           /\ undecided' = (undecided \ {id \in FindingIds : ledger[id].source = "quality_gate"})
                              \cup GateFindings(tree)
           /\ takenBack' = takenBack \ GateFindings(tree)
           /\ ledger' = UpdateByGates(ledger, GateFindings(tree))
           /\ run'.diff = tree /\ run'.open = Cardinality(OpenBlocking(ledger'))
           /\ UNCHANGED <<run.review, run.baseline, run.degraded, run.repaired>>
<1>1. /\ ledger' = UpdateByGates(ledger, GateFindings(tree))
      /\ run' = [run EXCEPT !.diff = tree, !.gates = GateFindings(tree),
                            !.open = Cardinality(OpenBlocking(ledger'))]
      /\ undecided' = (undecided \ {id \in FindingIds : ledger[id].source = "quality_gate"})
                         \cup GateFindings(tree)
      /\ takenBack' = takenBack \ GateFindings(tree)
  BY DEF captureAndGate
<1>2. ledger \in [FindingIds -> Entries] /\ run \in FinalRuns /\ tree \in SUBSET Changes
  BY DEF RoundsTypeOK
<1>3. ledger' \in [FindingIds -> Entries] /\ GateFindings(tree) \in SUBSET FindingIds
  BY <1>1, <1>2, GateFacts
<1>4. Cardinality(OpenBlocking(ledger')) \in Nat
  BY <1>3, OpenFacts
<1> DEFINE open == Cardinality(OpenBlocking(ledger'))
           gates == GateFindings(tree)
<1> HIDE DEF open, gates
<1>5. run' = [run EXCEPT !.diff = tree, !.gates = gates, !.open = open] /\ open \in Nat
      /\ gates \in SUBSET FindingIds
  BY <1>1, <1>3, <1>4 DEF open, gates
<1>6. run' \in FinalRuns
  BY <1>2, <1>5 DEF FinalRuns
<1>7. run'.diff = tree /\ run'.open = open /\ UNCHANGED <<run.review, run.baseline, run.degraded, run.repaired>>
  BY <1>2, <1>5 DEF FinalRuns
<1> QED BY <1>1, <1>3, <1>6, <1>7 DEF open

LEMMA TestedFacts ==
    ASSUME RoundsTypeOK, runTests
    PROVE  /\ run' \in FinalRuns
           /\ UNCHANGED <<run.review, run.baseline, run.degraded, run.repaired, run.diff, run.open>>
           /\ settings.tests /\ run.baseline.ran =>
                 /\ run'.tested.passed = (Failing(tree) = {})
                 /\ run'.regression = compareRegression(run.baseline, run'.tested)
<1>0. PICK named \in Namings :
         LET current == TestRun(Failing(tree), named)
         IN  run' = IF ~ settings.tests THEN run
                    ELSE [run EXCEPT !.tested = current,
                                     !.regression = IF ~ run.baseline.ran THEN None
                                                    ELSE compareRegression(run.baseline, current)]
  BY DEF runTests
<1> DEFINE current == TestRun(Failing(tree), named)
           verdict == IF ~ run.baseline.ran THEN None ELSE compareRegression(run.baseline, current)
<1>1. run' = IF ~ settings.tests THEN run ELSE [run EXCEPT !.tested = current, !.regression = verdict]
  BY <1>0
<1>2. run \in FinalRuns /\ current \in TestRuns
  BY TestFacts DEF RoundsTypeOK
<1>3. verdict \in {None, "no_new_failures", "new_failures", "unknown"}
  BY TestFacts
<1>4. /\ run.baseline.ran => verdict = compareRegression(run.baseline, current)
      /\ current.passed = (Failing(tree) = {})
  BY DEF TestRun
<1> HIDE DEF current, verdict
<1>5. CASE ~ settings.tests
  BY <1>1, <1>2, <1>5
<1>6. CASE settings.tests
  <2>1. run' = [run EXCEPT !.tested = current, !.regression = verdict]
    BY <1>1, <1>6
  <2>2. run' \in FinalRuns
    BY <1>2, <1>3, <2>1 DEF FinalRuns
  <2>3. /\ UNCHANGED <<run.review, run.baseline, run.degraded, run.repaired, run.diff, run.open>>
        /\ run'.regression = verdict /\ run'.tested = current
    BY <1>2, <2>1 DEF FinalRuns
  <2> QED BY <1>4, <2>2, <2>3
<1> QED BY <1>5, <1>6

LEMMA RepliesFacts ==
    ASSUME RoundsTypeOK, NEW verdict \in {"pass", "needs_changes"}, NEW findings \in Findings,
           NEW closes \in SUBSET Known, reviewReplies(verdict, findings, closes)
    PROVE  /\ run' \in FinalRuns /\ ledger' \in [FindingIds -> Entries]
           /\ undecided' \subseteq FindingIds /\ takenBack' \subseteq FindingIds
           /\ undecided \ takenBack \subseteq OpenBlocking(ledger)
                 => undecided' \ takenBack' \subseteq OpenBlocking(ledger')
           /\ run'.open = Cardinality(OpenBlocking(ledger'))
           /\ run'.review.verdict = verdict
           /\ verdict = "pass" => ~ Blocks(run'.review.findings) /\ approved'.valid
           /\ approved' = [tree |-> run.diff, valid |-> approved'.valid]
           /\ approved'.valid \in BOOLEAN
           /\ UNCHANGED <<run.diff, run.baseline, run.regression, run.tested>>
           /\ (run.repaired => run.degraded) => (run'.repaired => run'.degraded)
<1>t. /\ ledger \in [FindingIds -> Entries] /\ run \in FinalRuns
      /\ undecided \subseteq FindingIds /\ takenBack \subseteq FindingIds
  BY DEF RoundsTypeOK
<1>c. closes \in SUBSET FindingIds
  BY DEF Known
<1>1. PICK review \in Accepted(verdict, findings, closes) :
         /\ ledger' = UpdateByReview(ledger, review)
         /\ run' = [run EXCEPT !.review = review, !.open = Cardinality(OpenBlocking(ledger')),
                               !.degraded = @ \/ Degrades,
                               !.repaired = @ \/ reviewer.attempt = "repair"]
         /\ undecided' = (undecided \ (closes \cup Reported(review.findings)))
                            \cup {f.id : f \in {g \in review.findings : g.severity \in Blocking}}
         /\ takenBack' = takenBack \ Reported(review.findings)
  BY DEF reviewReplies
<1>2. /\ review \in Reviews /\ review.verdict = verdict /\ review.closes = closes
      /\ \A f \in review.findings : Severity(review.findings, f.id) = f.severity
      /\ verdict = "pass" => ~ Blocks(review.findings) /\ ~ Blocks(findings)
  BY <1>c, ReplyFacts
<1>3. /\ ledger' \in [FindingIds -> Entries]
      /\ \A f \in review.findings : f.severity \in Blocking => f.id \in OpenBlocking(ledger')
      /\ \A id \in OpenBlocking(ledger) : id \notin review.closes \cup Reported(review.findings) =>
            id \in OpenBlocking(ledger')
  BY <1>t, <1>1, <1>2, ReviewFacts
<1>4. OpenBlocking(ledger') \subseteq FindingIds /\ Cardinality(OpenBlocking(ledger')) \in Nat
  BY <1>3, OpenFacts
<1>5. undecided' \subseteq FindingIds /\ takenBack' \subseteq FindingIds
  BY <1>t, <1>1, <1>3, <1>4
<1>6. undecided \ takenBack \subseteq OpenBlocking(ledger)
         => undecided' \ takenBack' \subseteq OpenBlocking(ledger')
  BY <1>1, <1>2, <1>3
<1> DEFINE open == Cardinality(OpenBlocking(ledger'))
           degraded == run.degraded \/ Degrades
           repaired == run.repaired \/ reviewer.attempt = "repair"
<1>7. degraded \in BOOLEAN /\ repaired \in BOOLEAN
  OBVIOUS
<1>8. (run.repaired => run.degraded) => (repaired => degraded)
  BY DEF Degrades
<1>9. run' = [run EXCEPT !.review = review, !.open = open, !.degraded = degraded, !.repaired = repaired]
  BY <1>1
<1>10. open \in Nat
  BY <1>4
<1> HIDE DEF open, degraded, repaired
<1>11. run' \in FinalRuns
  BY <1>t, <1>2, <1>7, <1>9, <1>10 DEF FinalRuns
<1>12. /\ run'.open = open /\ run'.review = review /\ run'.degraded = degraded
       /\ run'.repaired = repaired /\ UNCHANGED <<run.diff, run.baseline, run.regression, run.tested>>
  BY <1>t, <1>9 DEF FinalRuns
<1>13. approved' = [tree |-> run.diff, valid |-> verdict = "pass" /\ ~ Blocks(findings)]
  BY DEF reviewReplies
<1>14. approved'.valid = (verdict = "pass" /\ ~ Blocks(findings))
  BY <1>13
<1>15. approved' = [tree |-> run.diff, valid |-> approved'.valid] /\ approved'.valid \in BOOLEAN
  BY <1>13, <1>14
<1> QED
  BY <1>2, <1>3, <1>5, <1>6, <1>8, <1>11, <1>12, <1>14, <1>15 DEF open

\* The record of the run without its status.
LEMMA FinalFacts ==
    ASSUME RoundsTypeOK, NEW status \in {"passed", "degraded", "blocked", "failed", "cancelled",
                                         "quarantined"},
           final' = [run EXCEPT !.status = status]
    PROVE  /\ final' \in FinalRuns /\ final'.status = status
           /\ final'.review = run.review /\ final'.diff = run.diff /\ final'.repaired = run.repaired
           /\ final'.tested = run.tested /\ final'.baseline = run.baseline
  BY DEF RoundsTypeOK, FinalRuns

LEMMA StatusFacts ==
    ASSUME RoundsTypeOK
    PROVE  /\ Status(CommandExit, run) \in {"passed", "degraded", "blocked", "failed"}
           /\ Status(CommandExit, run) \in {"passed", "degraded"} <=> CommandExit = "success"
           /\ Status(CommandExit, run) = "passed" => ~ run.degraded
           /\ CommandExit = "success" => run.open = 0
           /\ CommandExit = "success" /\ command # "review" =>
                 run.regression \notin {"new_failures", "unknown"}
<1>1. run.open \in Nat
  BY DEF RoundsTypeOK, FinalRuns
<1>2. ExitCode(run) = "success" => run.open = 0 /\ run.regression \notin {"new_failures", "unknown"}
  BY <1>1 DEF ExitCode
<1>3. ExitCode(run) \in {"success", "tests_failed", "blocking_findings"}
  BY DEF ExitCode
<1>4. CommandExit = "success" =>
         run.open = 0 /\ (command # "review" => run.regression \notin {"new_failures", "unknown"})
  BY <1>2 DEF CommandExit
<1> QED BY <1>4 DEF Status

\* The last check of a transfer accepts the patch that is in the target, or takes it
\* back, or says that it could not.
LEMMA VerifyFacts ==
    ASSUME RoundsTypeOK, verifyTarget
    PROVE  \/ /\ transfer' = [transfer EXCEPT !.status = "transferred", !.diff = target.patch]
              /\ transfer'.status = "transferred" /\ transfer'.diff = target.patch
              /\ transfer'.failedRollback = transfer.failedRollback /\ target' = target
           \/ /\ transfer'.status = "rejected" /\ transfer'.diff = transfer.diff
              /\ \/ transfer'.failedRollback = transfer.failedRollback /\ target'.patch = {}
                 \/ transfer'.failedRollback = TRUE /\ target' = target
<1> USE DEF RoundsTypeOK
<1>1. CASE /\ transfer' = [transfer EXCEPT !.status = "transferred", !.diff = target.patch]
           /\ target' = target
  BY <1>1
<1>2. CASE /\ transfer' = [transfer EXCEPT !.status = "rejected"]
           /\ target' = [target EXCEPT !.patch = {}]
  BY <1>2
<1>3. CASE /\ transfer' = [transfer EXCEPT !.status = "rejected", !.failedRollback = TRUE]
           /\ target' = target
  BY <1>3
<1> QED BY <1>1, <1>2, <1>3 DEF verifyTarget

\* Every step keeps the types.
LEMMA RoundsTypeStep == RoundsTypeOK /\ [RoundsNext]_roundsVars => RoundsTypeOK'
<1> SUFFICES ASSUME RoundsTypeOK, [RoundsNext]_roundsVars PROVE RoundsTypeOK'
  OBVIOUS
<1> USE DEF RoundsTypeOK
<1>1. CASE runBaselineTest
  <2>1. run' \in FinalRuns
    <3>1. PICK named \in Namings : run' \in {run, [run EXCEPT !.baseline = TestRun(Failing({}), named)]}
      BY <1>1 DEF runBaselineTest
    <3>2. TestRun(Failing({}), named) \in TestRuns /\ run \in FinalRuns
      BY TestFacts
    <3> QED BY <3>1, <3>2 DEF FinalRuns
  <2> QED BY <1>1, <2>1 DEF runBaselineTest
<1>2. CASE captureAndGate
  <2>1. run' \in FinalRuns /\ ledger' \in [FindingIds -> Entries]
        /\ undecided' \subseteq FindingIds /\ takenBack' \subseteq FindingIds
    BY <1>2, CaptureFacts, GateFacts
  <2> QED BY <1>2, <2>1 DEF captureAndGate
<1>3. CASE runTests
  <2>1. run' \in FinalRuns
    BY <1>3, TestedFacts
  <2> QED BY <1>3, <2>1 DEF runTests
<1>4. ASSUME NEW content \in Trees, workerDelivers(content) PROVE RoundsTypeOK'
  BY <1>4 DEF workerDelivers, Trees
<1>5. ASSUME NEW verdict \in {"pass", "needs_changes"}, NEW findings \in Findings, NEW closes \in SUBSET Known,
               reviewReplies(verdict, findings, closes)
      PROVE  RoundsTypeOK'
  <2>1. /\ run' \in FinalRuns /\ ledger' \in [FindingIds -> Entries]
        /\ undecided' \subseteq FindingIds /\ takenBack' \subseteq FindingIds
        /\ approved' = [tree |-> run.diff, valid |-> approved'.valid] /\ approved'.valid \in BOOLEAN
    BY <1>5, RepliesFacts
  <2>2. run.diff \subseteq Changes
    BY DEF FinalRuns
  <2>3. approved' \in [tree : SUBSET Changes, valid : BOOLEAN]
    BY <2>1, <2>2
  <2> QED BY <1>5, <2>1, <2>3 DEF reviewReplies
<1>6. CASE reviewInvalid \/ reviewerFails \/ nextRound
  BY <1>6 DEF reviewInvalid, reviewerFails, nextRound
<1>7. CASE decide
  <2>1. run' \in FinalRuns
    <3> DEFINE limit == /\ command = "run" /\ run.review.verdict = "needs_changes"
                        /\ ~ OnlyMinorOrNit(run.review.findings)
    <3>1. run' = [run EXCEPT !.limit = limit] /\ limit \in BOOLEAN
      BY <1>7 DEF decide
    <3> HIDE DEF limit
    <3> QED BY <3>1 DEF FinalRuns
  <2> QED BY <1>7, <2>1 DEF decide
<1>8. CASE finalize
  <2>1. final' \in FinalRuns
    BY <1>8, StatusFacts, FinalFacts DEF finalize
  <2> QED BY <1>8, <2>1 DEF finalize
<1>9. ASSUME NEW status \in {"failed", "cancelled", "quarantined"}, fail(status)
      PROVE  RoundsTypeOK'
  <2>1. final' \in FinalRuns
    BY <1>9, FinalFacts DEF fail
  <2> QED BY <1>9, <2>1 DEF fail
<1>10. ASSUME NEW kind \in {"defer", "resolve"}, NEW id \in FindingIds,
               operatorReads(kind, id)
      PROVE  RoundsTypeOK'
  <2>1. operator'.left = operator.left - 1 /\ operator.left \in Nat /\ operator.left > 0
    BY <1>10 DEF operatorReads
  <2> QED BY <1>10, <2>1 DEF operatorReads
<1>11. CASE operatorWrites
  <2>1. operator' \in [pc : {"idle"}, id : {None}, read : [FindingIds -> Entries], left : Nat]
    <3>1. NoEntry \in Entries /\ operator.left \in Nat
      BY DEF NoEntry, Entries
    <3> QED BY <1>11, <3>1 DEF operatorWrites, Idle
  <2>2. ledger' \in [FindingIds -> Entries]
    <3> DEFINE status == IF operator.pc = "defer" THEN "deferred_with_approval" ELSE "fixed"
               read == operator.read
    <3>1. ledger' = [read EXCEPT ![operator.id].status = status]
      BY <1>11 DEF operatorWrites
    <3>2. read \in [FindingIds -> Entries] /\ status \in {"deferred_with_approval", "fixed"}
      OBVIOUS
    <3> HIDE DEF read, status
    <3>3. DOMAIN ledger' = FindingIds /\ ledger' = [id \in FindingIds |-> ledger'[id]]
      BY <3>1, <3>2
    <3>4. ASSUME NEW id \in FindingIds PROVE ledger'[id] \in Entries
      <4>1. read[id] \in Entries
        BY <3>2
      <4>2. ledger'[id] \in {read[id], [read[id] EXCEPT !.status = status]}
        BY <3>1, <3>2
      <4> QED BY <3>2, <4>1, <4>2 DEF Entries
    <3> QED BY <3>3, <3>4
  <2> QED BY <1>11, <2>1, <2>2 DEF operatorWrites
<1>12. CASE beginTransfer \/ compareSource \/ checkTarget \/ applyPatch \/ verifyTarget
  <2>1. final.diff \subseteq Changes
    BY DEF FinalRuns
  <2>2. ASSUME beginTransfer \/ compareSource \/ checkTarget \/ applyPatch PROVE RoundsTypeOK'
    BY <2>1, <2>2 DEF beginTransfer, compareSource, checkTarget, Checked, applyPatch
  <2>3. ASSUME verifyTarget PROVE RoundsTypeOK'
    <3>1. /\ transfer' \in [status : {None, "rejected", "checked", "compared", "testing", "applied",
                                       "transferred"},
                            diff : SUBSET Changes, failedRollback : BOOLEAN]
          /\ target' \in [head : {"baseline", "moved"}, edited : BOOLEAN, patch : SUBSET Changes]
      <4>1. CASE /\ transfer' = [transfer EXCEPT !.status = "transferred", !.diff = target.patch]
                 /\ target' = target
        BY <4>1
      <4>2. CASE /\ transfer' = [transfer EXCEPT !.status = "rejected"]
                 /\ target' = [target EXCEPT !.patch = {}]
        BY <4>2
      <4>3. CASE /\ transfer' = [transfer EXCEPT !.status = "rejected", !.failedRollback = TRUE]
                 /\ target' = target
        BY <4>3
      <4> QED BY <2>3, <4>1, <4>2, <4>3 DEF verifyTarget
    <3> QED BY <2>3, <3>1 DEF verifyTarget
  <2> QED BY <1>12, <2>2, <2>3
<1>13. CASE outsideWork
  <2>1. tree' \subseteq Changes
    BY <1>13 DEF outsideWork, Trees
  <2>2. target' \in [head : {"baseline", "moved"}, edited : BOOLEAN, patch : SUBSET Changes]
    <3>1. target' \in {target, [target EXCEPT !.edited = TRUE], [target EXCEPT !.head = "moved"]}
      BY <1>13 DEF outsideWork
    <3> QED BY <3>1
  <2> QED BY <1>13, <2>1, <2>2 DEF outsideWork
<1>14. CASE UNCHANGED roundsVars
  BY <1>14 DEF roundsVars
<1> QED
  BY <1>1, <1>2, <1>3, <1>4, <1>5, <1>6, <1>7, <1>8, <1>9, <1>10, <1>11, <1>12, <1>13, <1>14
  DEF RoundsNext

\* Two steps change nothing of the run that an invariant speaks of.
LEMMA RunKept ==
    ASSUME RoundsTypeOK
    PROVE  /\ runBaselineTest => UNCHANGED <<run.review, run.degraded, run.repaired, run.diff, run.open>>
           /\ decide => UNCHANGED <<run.review, run.baseline, run.degraded, run.repaired, run.diff,
                                    run.open, run.regression, run.tested>>
<1>t. run \in FinalRuns
  BY DEF RoundsTypeOK
<1>1. ASSUME runBaselineTest
      PROVE  UNCHANGED <<run.review, run.degraded, run.repaired, run.diff, run.open>>
  <2>1. PICK named \in Namings : run' \in {run, [run EXCEPT !.baseline = TestRun(Failing({}), named)]}
    BY <1>1 DEF runBaselineTest
  <2> QED BY <1>t, <2>1 DEF FinalRuns
<1>2. ASSUME decide
      PROVE  UNCHANGED <<run.review, run.baseline, run.degraded, run.repaired, run.diff, run.open,
                         run.regression, run.tested>>
  <2> DEFINE limit == /\ command = "run" /\ run.review.verdict = "needs_changes"
                      /\ ~ OnlyMinorOrNit(run.review.findings)
  <2>1. run' = [run EXCEPT !.limit = limit]
    BY <1>2 DEF decide
  <2> HIDE DEF limit
  <2> QED BY <1>t, <2>1 DEF FinalRuns
<1> QED BY <1>1, <1>2

\* What nobody has decided stays open in the ledger, unless a stale write of the
\* operator undid its entry.
LEMMA DecidedStep == ASSUME RoundsTypeOK PROVE DecidedInv /\ [RoundsNext]_roundsVars => DecidedInv'
<1> SUFFICES ASSUME DecidedInv, [RoundsNext]_roundsVars PROVE DecidedInv'
  OBVIOUS
<1> USE DEF DecidedInv, Succeeded
<1>1. CASE runBaselineTest
  BY <1>1, RunKept DEF runBaselineTest
<1>2. CASE captureAndGate
  <2>1. UNCHANGED <<operator, final>> /\ pc = "capture" /\ ~ Succeeded
    BY <1>2 DEF captureAndGate
  <2>2. /\ ledger' = UpdateByGates(ledger, GateFindings(tree))
        /\ undecided' = (undecided \ {id \in FindingIds : ledger[id].source = "quality_gate"})
                           \cup GateFindings(tree)
        /\ takenBack' = takenBack \ GateFindings(tree)
        /\ run'.open = Cardinality(OpenBlocking(ledger')) /\ ledger' \in [FindingIds -> Entries]
    BY <1>2, CaptureFacts
  <2>3. ledger \in [FindingIds -> Entries] /\ undecided \subseteq FindingIds
    BY DEF RoundsTypeOK
  <2>4. /\ GateFindings(tree) \subseteq OpenBlocking(ledger')
        /\ \A id \in OpenBlocking(ledger) : ledger[id].source # "quality_gate" => id \in OpenBlocking(ledger')
    BY <2>2, <2>3, GateFacts
  <2>5. undecided' \ takenBack' \subseteq OpenBlocking(ledger')
    BY <2>2, <2>3, <2>4
  <2>6. run'.open = 0 => OpenBlocking(ledger') = {}
    BY <2>2, OpenFacts
  <2> QED BY <2>1, <2>5, <2>6 DEF Succeeded
<1>3. CASE runTests
  BY <1>3, TestedFacts DEF runTests
<1>4. ASSUME NEW content \in Trees, workerDelivers(content) PROVE DecidedInv'
  BY <1>4 DEF workerDelivers
<1>5. ASSUME NEW verdict \in {"pass", "needs_changes"}, NEW findings \in Findings, NEW closes \in SUBSET Known,
               reviewReplies(verdict, findings, closes)
      PROVE  DecidedInv'
  <2>1. UNCHANGED <<operator, final>> /\ pc = "review" /\ ~ Succeeded
    BY <1>5 DEF reviewReplies
  <2>2. /\ undecided' \ takenBack' \subseteq OpenBlocking(ledger')
        /\ run'.open = Cardinality(OpenBlocking(ledger')) /\ ledger' \in [FindingIds -> Entries]
    BY <1>5, RepliesFacts
  <2>3. run'.open = 0 => OpenBlocking(ledger') = {}
    BY <2>2, OpenFacts
  <2> QED BY <2>1, <2>2, <2>3 DEF Succeeded
<1>6. CASE reviewInvalid \/ reviewerFails \/ nextRound
  BY <1>6 DEF reviewInvalid, reviewerFails, nextRound
<1>7. CASE decide
  BY <1>7, RunKept DEF decide
<1>8. CASE finalize
  <2>1. final'.status = Status(CommandExit, run)
    BY <1>8, StatusFacts, FinalFacts DEF finalize
  <2>2. Succeeded' => undecided \subseteq takenBack
    BY <2>1, StatusFacts DEF Succeeded
  <2> QED BY <1>8, <2>2 DEF finalize
<1>9. ASSUME NEW status \in {"failed", "cancelled", "quarantined"}, fail(status)
      PROVE  DecidedInv'
  <2>1. final'.status \in {"failed", "cancelled", "quarantined", "blocked"}
    BY <1>9, FinalFacts DEF fail
  <2> QED BY <1>9, <2>1 DEF fail
<1>10. ASSUME NEW kind \in {"defer", "resolve"}, NEW id \in FindingIds,
               operatorReads(kind, id)
      PROVE  DecidedInv'
  <2>1. /\ operator' = [pc |-> kind, id |-> id, read |-> ledger, left |-> operator.left - 1]
        /\ kind = "resolve" => id \notin OpenBlocking(ledger)
    BY <1>10 DEF operatorReads, MayResolve, OpenBlocking
  <2>2. operator'.read = ledger /\ operator'.id = id /\ operator'.pc = kind
    BY <2>1
  <2> QED BY <1>10, <2>1, <2>2 DEF operatorReads
<1>11. CASE operatorWrites
  <2>1. operator.pc \in {"defer", "resolve"} /\ operator.id \in FindingIds
    BY <1>11 DEF operatorWrites
  <2> DEFINE id == operator.id
             read == operator.read
             status == IF operator.pc = "defer" THEN "deferred_with_approval" ELSE "fixed"
  <2>2. ledger' = [read EXCEPT ![id].status = status]
    BY <1>11 DEF operatorWrites
  <2>3. ledger \in [FindingIds -> Entries] /\ read \in [FindingIds -> Entries]
        /\ undecided \subseteq FindingIds
    BY DEF RoundsTypeOK
  <2>4. /\ undecided' = IF operator.pc = "defer" THEN undecided \ {id} ELSE undecided
        /\ takenBack' = takenBack \cup {other \in FindingIds : ledger[other] # read[other]}
    BY <1>11 DEF operatorWrites
  <2>5. operator'.pc = "idle"
    BY <1>11 DEF operatorWrites, Idle
  <2>6. operator.pc = "resolve" => id \notin OpenBlocking(read)
    BY <2>1
  <2> HIDE DEF id, read, status
  <2>7. \A other \in FindingIds \ {id} : ledger'[other] = read[other]
    BY <2>2, <2>3
  <2>8. DOMAIN ledger' = FindingIds
    BY <2>2, <2>3
  <2>9. ASSUME NEW other \in undecided' \ takenBack' PROVE other \in OpenBlocking(ledger')
    <3>1. /\ other \in FindingIds /\ other \in undecided /\ other \notin takenBack
          /\ ledger[other] = read[other]
      BY <2>3, <2>4, <2>9
    <3>2. other \in OpenBlocking(ledger) /\ other \in OpenBlocking(read)
      BY <2>3, <3>1 DEF OpenBlocking
    <3>3. other # id
      BY <2>1, <2>4, <2>6, <2>9, <3>2
    <3>4. ledger'[other] = ledger[other]
      BY <2>7, <3>1, <3>3
    <3> QED BY <2>8, <3>1, <3>2, <3>4 DEF OpenBlocking
  <2>10. undecided' \subseteq undecided /\ takenBack \subseteq takenBack'
    BY <2>4
  <2>11. run' = run /\ final' = final /\ pc' = pc
    BY <1>11 DEF operatorWrites
  <2> QED BY <2>5, <2>9, <2>10, <2>11 DEF Succeeded
<1>12. CASE beginTransfer \/ compareSource \/ checkTarget
  BY <1>12 DEF beginTransfer, compareSource, checkTarget, Checked
<1>13. CASE applyPatch
  BY <1>13 DEF applyPatch
<1>14. CASE verifyTarget
  BY <1>14 DEF verifyTarget
<1>15. CASE outsideWork
  BY <1>15 DEF outsideWork
<1>16. CASE UNCHANGED roundsVars
  BY <1>16 DEF roundsVars
<1> QED
  BY <1>1, <1>2, <1>3, <1>4, <1>5, <1>6, <1>7, <1>8, <1>9, <1>10, <1>11, <1>12, <1>13, <1>14,
     <1>15, <1>16
  DEF RoundsNext

\* What passed is the diff that was captured, reviewed and stays with the result.
LEMMA ReviewedStep == ASSUME RoundsTypeOK PROVE ReviewedInv /\ [RoundsNext]_roundsVars => ReviewedInv'
<1> SUFFICES ASSUME ReviewedInv, [RoundsNext]_roundsVars PROVE ReviewedInv'
  OBVIOUS
<1> USE DEF ReviewedInv, None
<1>1. CASE runBaselineTest
  BY <1>1, RunKept DEF runBaselineTest
<1>2. CASE captureAndGate
  BY <1>2, CaptureFacts DEF captureAndGate
<1>3. CASE runTests
  BY <1>3, TestedFacts DEF runTests
<1>4. ASSUME NEW content \in Trees, workerDelivers(content) PROVE ReviewedInv'
  BY <1>4 DEF workerDelivers
<1>5. ASSUME NEW verdict \in {"pass", "needs_changes"}, NEW findings \in Findings, NEW closes \in SUBSET Known,
               reviewReplies(verdict, findings, closes)
      PROVE  ReviewedInv'
  <2>1. /\ run'.review.verdict = verdict /\ UNCHANGED run.diff
        /\ verdict = "pass" => ~ Blocks(run'.review.findings) /\ approved'.valid
        /\ approved'.tree = run.diff
    BY <1>5, RepliesFacts
  <2> QED BY <1>5, <2>1 DEF reviewReplies
<1>6. CASE reviewInvalid \/ reviewerFails \/ nextRound
  BY <1>6 DEF reviewInvalid, reviewerFails, nextRound
<1>7. CASE decide
  BY <1>7, RunKept DEF decide
<1>8. CASE finalize
  <2>1. final'.review = run.review /\ final'.diff = run.diff
    BY <1>8, StatusFacts, FinalFacts DEF finalize
  <2> QED BY <1>8, <2>1 DEF finalize
<1>9. ASSUME NEW status \in {"failed", "cancelled", "quarantined"}, fail(status)
      PROVE  ReviewedInv'
  <2> DEFINE s == IF status = "failed" /\ Blocks(run.review.findings) THEN "blocked" ELSE status
  <2>1. final'.review = run.review /\ final'.status = s
    BY <1>9, FinalFacts DEF fail
  <2> QED BY <1>9, <2>1 DEF fail
<1>10. ASSUME NEW kind \in {"defer", "resolve"}, NEW id \in FindingIds,
               operatorReads(kind, id)
      PROVE  ReviewedInv'
  BY <1>10 DEF operatorReads
<1>11. CASE operatorWrites
  BY <1>11 DEF operatorWrites
<1>12. CASE beginTransfer \/ compareSource \/ checkTarget
  <2>1. CASE beginTransfer
    <3>1. transfer'.status = IF Transferable THEN "checked" ELSE "rejected"
      BY <2>1 DEF beginTransfer, Checked, RoundsTypeOK
    <3> QED BY <2>1, <3>1 DEF beginTransfer, Checked, Transferable
  <2>2. CASE compareSource \/ checkTarget
    <3>1. transfer'.status \in {"compared", "testing", "rejected"} /\ transfer.status \notin {None, "rejected"}
      BY <2>2 DEF compareSource, checkTarget, Checked, RoundsTypeOK, None
    <3>2. UNCHANGED <<command, pc, run, final, target, approved>>
      BY <2>2 DEF compareSource, checkTarget, Checked
    <3> QED BY <3>1, <3>2
  <2> QED BY <1>12, <2>1, <2>2
<1>13. CASE applyPatch
  <2>1. target' = [target EXCEPT !.patch = final.diff] => target'.patch = final.diff
    BY DEF RoundsTypeOK
  <2>2. transfer'.status = "applied" => target'.patch = final.diff
    BY <1>13, <2>1 DEF applyPatch, RoundsTypeOK
  <2> QED BY <1>13, <2>2 DEF applyPatch, RoundsTypeOK
<1>14. CASE verifyTarget
  <2>1. transfer'.status \in {"transferred", "rejected"}
        /\ (transfer'.status = "transferred" => transfer'.diff = target.patch)
    BY <1>14, VerifyFacts
  <2> QED BY <1>14, <2>1 DEF verifyTarget
<1>15. CASE outsideWork
  <2>1. UNCHANGED <<target.patch, pc, final, transfer, approved, run, command>>
    BY <1>15 DEF outsideWork, RoundsTypeOK
  <2> QED BY <2>1
<1>16. CASE UNCHANGED roundsVars
  BY <1>16 DEF roundsVars
<1> QED
  BY <1>1, <1>2, <1>3, <1>4, <1>5, <1>6, <1>7, <1>8, <1>9, <1>10, <1>11, <1>12, <1>13, <1>14,
     <1>15, <1>16
  DEF RoundsNext

\* The comparison that decides is about the diff of the run.
LEMMA ComparedStep == ASSUME RoundsTypeOK PROVE ComparedInv /\ [RoundsNext]_roundsVars => ComparedInv'
<1> SUFFICES ASSUME ComparedInv, [RoundsNext]_roundsVars PROVE ComparedInv'
  OBVIOUS
<1> USE DEF ComparedInv, Succeeded, NamedFailuresBlock, Failing
<1>1. CASE runBaselineTest
  <2>1. settings.tests => run'.baseline.ran
    BY <1>1 DEF runBaselineTest, RoundsTypeOK, FinalRuns, TestRun
  <2> QED BY <1>1, <2>1 DEF runBaselineTest
<1>2. CASE captureAndGate
  BY <1>2, CaptureFacts DEF captureAndGate
<1>3. CASE runTests
  <2>1. UNCHANGED <<run.baseline, run.diff>>
    BY <1>3, TestedFacts
  <2>2. command # "review" /\ settings.tests =>
           /\ run'.tested.passed = (Failing(run'.diff) = {})
           /\ run'.regression = compareRegression(run'.baseline, run'.tested)
    BY <1>3, <2>1, TestedFacts DEF runTests
  <2>3. Failing(run.diff)' = Failing(run'.diff)
    BY <1>3 DEF runTests
  <2> HIDE DEF compareRegression, Failing
  <2> QED BY <1>3, <2>1, <2>2, <2>3 DEF runTests
<1>4. ASSUME NEW content \in Trees, workerDelivers(content) PROVE ComparedInv'
  BY <1>4 DEF workerDelivers
<1>5. ASSUME NEW verdict \in {"pass", "needs_changes"}, NEW findings \in Findings, NEW closes \in SUBSET Known,
               reviewReplies(verdict, findings, closes)
      PROVE  ComparedInv'
  <2>1. UNCHANGED <<run.diff, run.baseline, run.regression, run.tested>>
    BY <1>5, RepliesFacts
  <2>2. pc = "review" /\ pc' = "decide" /\ UNCHANGED <<command, settings, final>>
    BY <1>5 DEF reviewReplies
  <2>3. Failing(run.diff)' = Failing(run.diff) /\ Failing(final.diff)' = Failing(final.diff)
    BY <2>1, <2>2
  <2> HIDE DEF compareRegression, Failing
  <2> QED BY <2>1, <2>2, <2>3
<1>6. CASE reviewInvalid \/ reviewerFails \/ nextRound
  BY <1>6 DEF reviewInvalid, reviewerFails, nextRound
<1>7. CASE decide
  BY <1>7, RunKept DEF decide
<1>8. CASE finalize
  <2>1. /\ final'.status = Status(CommandExit, run) /\ final'.diff = run.diff
        /\ final'.tested = run.tested /\ final'.baseline = run.baseline
    BY <1>8, StatusFacts, FinalFacts DEF finalize
  <2>2. ASSUME Succeeded', command # "review", settings.tests
        PROVE  /\ run.tested.passed = (Failing(run.diff) = {})
               /\ run.tested.named \subseteq run.baseline.named
               /\ ~ run.tested.passed => run.tested.named # {}
    <3>1. run.regression \notin {"new_failures", "unknown"}
      BY <2>1, <2>2, StatusFacts DEF Succeeded
    <3>2. /\ run.tested.passed = (Failing(run.diff) = {})
          /\ run.regression = compareRegression(run.baseline, run.tested)
      BY <1>8, <2>2 DEF finalize
    <3> QED BY <3>1, <3>2 DEF compareRegression
  <2>3. UNCHANGED <<command, settings>> /\ pc' = "done"
    BY <1>8 DEF finalize
  <2>4. Failing(final.diff)' = Failing(run.diff)
    BY <2>1, <2>3
  <2> HIDE DEF Failing
  <2> QED BY <2>1, <2>2, <2>3, <2>4
<1>9. ASSUME NEW status \in {"failed", "cancelled", "quarantined"}, fail(status)
      PROVE  ComparedInv'
  <2>1. final'.status \in {"failed", "cancelled", "quarantined", "blocked"}
    BY <1>9, FinalFacts DEF fail
  <2> QED BY <1>9, <2>1 DEF fail
<1>10. ASSUME NEW kind \in {"defer", "resolve"}, NEW id \in FindingIds,
               operatorReads(kind, id)
      PROVE  ComparedInv'
  BY <1>10 DEF operatorReads
<1>11. CASE operatorWrites
  BY <1>11 DEF operatorWrites
<1>12. CASE beginTransfer \/ compareSource \/ checkTarget \/ applyPatch \/ verifyTarget \/ outsideWork
  BY <1>12 DEF beginTransfer, compareSource, checkTarget, Checked, applyPatch, verifyTarget, outsideWork
<1>13. CASE UNCHANGED roundsVars
  BY <1>13 DEF roundsVars
<1> QED
  BY <1>1, <1>2, <1>3, <1>4, <1>5, <1>6, <1>7, <1>8, <1>9, <1>10, <1>11, <1>12, <1>13
  DEF RoundsNext

\* What is in the target, and who helped.
LEMMA PatchStep ==
    ASSUME RoundsTypeOK
    PROVE  PatchInv /\ AidedInv /\ [RoundsNext]_roundsVars => PatchInv' /\ AidedInv'
<1> SUFFICES ASSUME PatchInv, AidedInv, [RoundsNext]_roundsVars PROVE PatchInv' /\ AidedInv'
  OBVIOUS
<1> USE DEF PatchInv, AidedInv, RejectedLeavesTarget, PassedIsUnaided, None
<1>1. CASE runBaselineTest
  BY <1>1, RunKept DEF runBaselineTest
<1>2. CASE captureAndGate
  BY <1>2, CaptureFacts DEF captureAndGate
<1>3. CASE runTests
  BY <1>3, TestedFacts DEF runTests
<1>4. ASSUME NEW content \in Trees, workerDelivers(content) PROVE PatchInv' /\ AidedInv'
  BY <1>4 DEF workerDelivers
<1>5. ASSUME NEW verdict \in {"pass", "needs_changes"}, NEW findings \in Findings, NEW closes \in SUBSET Known,
               reviewReplies(verdict, findings, closes)
      PROVE  PatchInv' /\ AidedInv'
  <2>1. run'.repaired => run'.degraded
    BY <1>5, RepliesFacts
  <2> QED BY <1>5, <2>1 DEF reviewReplies
<1>6. CASE reviewInvalid \/ reviewerFails \/ nextRound
  BY <1>6 DEF reviewInvalid, reviewerFails, nextRound
<1>7. CASE decide
  BY <1>7, RunKept DEF decide
<1>8. CASE finalize
  <2>1. final'.status = Status(CommandExit, run) /\ final'.repaired = run.repaired
    BY <1>8, StatusFacts, FinalFacts DEF finalize
  <2> QED BY <1>8, <2>1, StatusFacts DEF finalize
<1>9. ASSUME NEW status \in {"failed", "cancelled", "quarantined"}, fail(status)
      PROVE  PatchInv' /\ AidedInv'
  <2>1. final'.status \in {"failed", "cancelled", "quarantined", "blocked"}
    BY <1>9, FinalFacts DEF fail
  <2> QED BY <1>9, <2>1 DEF fail
<1>10. ASSUME NEW kind \in {"defer", "resolve"}, NEW id \in FindingIds,
               operatorReads(kind, id)
      PROVE  PatchInv' /\ AidedInv'
  BY <1>10 DEF operatorReads
<1>11. CASE operatorWrites
  BY <1>11 DEF operatorWrites
<1>12. CASE beginTransfer \/ compareSource \/ checkTarget
  <2>1. /\ transfer'.status \in {"checked", "compared", "testing", "rejected"}
        /\ transfer.status \in {None, "checked", "compared"}
        /\ UNCHANGED <<transfer.failedRollback, target, run, final>>
    BY <1>12 DEF beginTransfer, compareSource, checkTarget, Checked, RoundsTypeOK
  <2> QED BY <2>1
<1>13. CASE applyPatch
  BY <1>13 DEF applyPatch, RoundsTypeOK
<1>14. CASE verifyTarget
  <2>1. target'.patch = {} \/ transfer'.failedRollback \/ transfer'.status = "transferred"
    BY <1>14, VerifyFacts
  <2>2. transfer'.status \in {"transferred", "rejected"}
    BY <1>14, VerifyFacts
  <2> QED BY <1>14, <2>1, <2>2 DEF verifyTarget
<1>15. CASE outsideWork
  <2>1. UNCHANGED <<target.patch, transfer, run, final>>
    BY <1>15 DEF outsideWork, RoundsTypeOK
  <2> QED BY <2>1
<1>16. CASE UNCHANGED roundsVars
  BY <1>16 DEF roundsVars
<1> QED
  BY <1>1, <1>2, <1>3, <1>4, <1>5, <1>6, <1>7, <1>8, <1>9, <1>10, <1>11, <1>12, <1>13, <1>14,
     <1>15, <1>16
  DEF RoundsNext

LEMMA RoundsStart ==
    RoundsInit => RoundsTypeOK /\ DecidedInv /\ ReviewedInv /\ ComparedInv /\ PatchInv /\ AidedInv
<1> SUFFICES ASSUME RoundsInit
             PROVE  RoundsTypeOK /\ DecidedInv /\ ReviewedInv /\ ComparedInv /\ PatchInv /\ AidedInv
  OBVIOUS
<1> DEFINE blank == [id \in FindingIds |-> NoEntry]
<1>1. /\ ledger = blank /\ run = EmptyRun /\ final = EmptyRun /\ undecided = {} /\ takenBack = {}
      /\ pc \in {"baseline", "capture"} /\ (command = "run" => pc = "baseline")
      /\ operator = [pc |-> "idle", id |-> None, read |-> blank, left |-> settings.commands]
      /\ transfer = [status |-> None, diff |-> {}, failedRollback |-> FALSE]
      /\ target = [head |-> "baseline", edited |-> FALSE, patch |-> {}]
  BY DEF RoundsInit, Idle
<1>2. NoEntry \in Entries /\ blank \in [FindingIds -> Entries]
  BY DEF NoEntry, Entries
<1>3. OpenBlocking(blank) = {}
  BY DEF OpenBlocking, NoEntry, None
<1> HIDE DEF blank
<1>4. NoReview \in Reviews
  BY DEF NoReview, Reviews, None
<1>5. EmptyRun \in FinalRuns
  BY <1>4, TestFacts DEF EmptyRun, FinalRuns
<1>6. operator \in [pc : {"idle", "defer", "resolve"}, id : FindingIds \cup {None},
                    read : [FindingIds -> Entries], left : Nat]
  BY <1>1, <1>2, SettingsAssumption DEF RoundsInit
<1>7. RoundsTypeOK
  BY <1>1, <1>2, <1>5, <1>6 DEF RoundsInit, RoundsTypeOK, Trees
<1>8. ~ Succeeded /\ final.status = None /\ transfer.status = None
  BY <1>1 DEF Succeeded, EmptyRun, None
<1>9. DecidedInv
  BY <1>1, <1>3, <1>8 DEF DecidedInv
<1>10. run.review.verdict = None /\ ~ run.repaired
  BY <1>1 DEF EmptyRun, NoReview
<1>11. ReviewedInv
  BY <1>1, <1>8, <1>10 DEF ReviewedInv, None
<1>12. ComparedInv
  BY <1>1, <1>8 DEF ComparedInv, NamedFailuresBlock, RoundsInit
<1>13. PatchInv /\ AidedInv
  BY <1>1, <1>8, <1>10 DEF PatchInv, AidedInv, RejectedLeavesTarget, PassedIsUnaided, None
<1> QED BY <1>7, <1>9, <1>11, <1>12, <1>13

-----------------------------------------------------------------------------
(* The review rounds: theorems *)

THEOREM RoundsTypes == RoundsSpec => []RoundsTypeOK
<1>1. RoundsInit => RoundsTypeOK
  BY RoundsStart
<1> QED BY <1>1, RoundsTypeStep, PTL DEF RoundsSpec

(* A run that succeeds has no blocking finding left that nobody decided about, *)
(* whatever the gates and the reviewers find, the operator closes and its       *)
(* commands overlap with, but for those whose entries such a command, which had *)
(* read the ledger before an update of the run, wrote over (BlockersAreDecided).*)
THEOREM BlockersDecided == RoundsSpec => []BlockersAreDecided
<1>1. RoundsInit => DecidedInv
  BY RoundsStart
<1>2. RoundsTypeOK /\ DecidedInv /\ [RoundsNext]_roundsVars => DecidedInv'
  BY DecidedStep
<1>3. DecidedInv => BlockersAreDecided
  BY DEF DecidedInv, BlockersAreDecided
<1> QED BY <1>1, <1>2, <1>3, RoundsTypes, PTL DEF RoundsSpec

(* TransferRun moves the diff that the last review passed, with races too.     *)
THEOREM TransferReviewed == RoundsSpec => []TransferredWasReviewed
<1>1. RoundsInit => ReviewedInv
  BY RoundsStart
<1>2. RoundsTypeOK /\ ReviewedInv /\ [RoundsNext]_roundsVars => ReviewedInv'
  BY ReviewedStep
<1>3. ReviewedInv => TransferredWasReviewed
  BY DEF ReviewedInv, TransferredWasReviewed
<1> QED BY <1>1, <1>2, <1>3, RoundsTypes, PTL DEF RoundsSpec

(* No success hides what the parser recognised in the tests of its diff and not *)
(* in those of the baseline, nor a failure in which it recognised nothing,      *)
(* whatever the commands print (NamedFailuresBlock).                            *)
THEOREM NewFailuresStop == RoundsSpec => []NamedFailuresBlock
<1>1. RoundsInit => ComparedInv
  BY RoundsStart
<1>2. RoundsTypeOK /\ ComparedInv /\ [RoundsNext]_roundsVars => ComparedInv'
  BY ComparedStep
<1>3. ComparedInv => NamedFailuresBlock
  BY DEF ComparedInv
<1> QED BY <1>1, <1>2, <1>3, RoundsTypes, PTL DEF RoundsSpec

(* A rejected transfer leaves no patch behind unless it says that the reversal *)
(* failed; "passed" is never said of a review that somebody had to repair.     *)
THEOREM RejectedAndUnaided == RoundsSpec => []RejectedLeavesTarget /\ []PassedIsUnaided
<1>1. RoundsInit => PatchInv /\ AidedInv
  BY RoundsStart
<1>2. RoundsTypeOK /\ PatchInv /\ AidedInv /\ [RoundsNext]_roundsVars => PatchInv' /\ AidedInv'
  BY PatchStep
<1>3. PatchInv /\ AidedInv => RejectedLeavesTarget /\ PassedIsUnaided
  BY DEF PatchInv, AidedInv
<1> QED BY <1>1, <1>2, <1>3, RoundsTypes, PTL DEF RoundsSpec

-----------------------------------------------------------------------------
(* The daemon *)

\* Once it has stopped accepting and waited for its sessions no session begins, and
\* only then is the runtime closed.
DrainedInv ==
    /\ session \in [Clients -> {"none", "reading", "tool", "writing", "ended"}]
    /\ accept = "returned" => \A c \in Clients : session[c] \in {"none", "ended"}
    /\ runtime = "closed" => accept = "returned"

LEMMA DrainedStep == DrainedInv /\ [DaemonNext]_daemonVars => DrainedInv'
<1> SUFFICES ASSUME DrainedInv, [DaemonNext]_daemonVars PROVE DrainedInv'
  OBVIOUS
<1>1. ASSUME NEW c \in Clients, registerConn(c) PROVE DrainedInv'
  <2>1. accept # "returned" /\ accept' # "returned"
    BY <1>1, ClientsAreNames DEF registerConn
  <2> QED BY <1>1, <2>1 DEF registerConn, DrainedInv
<1>2. ASSUME NEW c \in Clients, acceptConn(c) \/ hangUp(c) PROVE DrainedInv'
  <2>1. accept' = accept \/ accept' = c
    BY <1>2 DEF acceptConn, hangUp
  <2>2. accept = "returned" => accept' = accept
    BY <1>2 DEF acceptConn, hangUp
  <2>3. accept' = "returned" => accept = "returned"
    BY <2>1, ClientsAreNames
  <2>4. UNCHANGED <<session, runtime>>
    BY <1>2 DEF acceptConn, hangUp
  <2> QED BY <2>2, <2>3, <2>4 DEF DrainedInv
<1>3. ASSUME NEW c \in Clients, readRequest(c) \/ callTool(c) \/ writeResponse(c)
      PROVE  DrainedInv'
  <2>1. session[c] \in {"reading", "tool", "writing"} /\ UNCHANGED <<accept, runtime>>
    BY <1>3 DEF readRequest, callTool, writeResponse
  <2>2. \E to \in {"reading", "tool", "writing"} : session' = [session EXCEPT ![c] = to]
    BY <1>3 DEF readRequest, callTool, writeResponse
  <2> QED BY <2>1, <2>2 DEF DrainedInv
<1>4. ASSUME NEW c \in Clients, stopReading(c) \/ writeFails(c) PROVE DrainedInv'
  <2>1. session' = [session EXCEPT ![c] = "ended"] /\ UNCHANGED <<accept, runtime>>
    BY <1>4 DEF stopReading, writeFails, endSession, leaveRuntime
  <2> QED BY <2>1 DEF DrainedInv
<1>5. CASE drain
  BY <1>5 DEF drain, DrainedInv
<1>6. CASE acceptFails \/ interrupt \/ closeListener \/ closeAll \/ quiet
  <2>1. /\ accept' = accept \/ (accept = "accepting" /\ accept' = "wait")
        /\ UNCHANGED <<session, runtime>>
    BY <1>6 DEF acceptFails, interrupt, closeListener, closeAll, quiet, daemonVars
  <2> QED BY <2>1 DEF DrainedInv
<1>7. CASE UNCHANGED daemonVars
  BY <1>7 DEF daemonVars, DrainedInv
<1> QED BY <1>1, <1>2, <1>3, <1>4, <1>5, <1>6, <1>7 DEF DaemonNext

\* The runtime, and with it the runs it owns, is closed only when no session of the
\* daemon uses it any more (mcp_daemon.go:12-22).
THEOREM RuntimeOutlives == DaemonSpec => []RunsOutliveClients
<1>1. DaemonInit => DrainedInv
  BY DEF DaemonInit, DrainedInv
<1>2. DrainedInv => RunsOutliveClients
  BY DEF DrainedInv, RunsOutliveClients
<1> QED BY <1>1, <1>2, DrainedStep, PTL DEF DaemonSpec
=============================================================================
