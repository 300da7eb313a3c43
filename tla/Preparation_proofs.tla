------------------------- MODULE Preparation_proofs -------------------------
(***************************************************************************)
(* What is kept by the preparation of a run, for every number of runs,     *)
(* requests, packages and paths.                                           *)
(*                                                                         *)
(* Work plans: a package that is to be done again keeps the paths it was   *)
(* given, so that the scope a review approved is the scope a repair works  *)
(* in; a package passes only in the round whose review it was in           *)
(* (WorkInv: types, rounds, checklist, agreed topology).                   *)
(*                                                                         *)
(* The worktree: each git command is given by where the run goes and what  *)
(* it changes (Outcomes).  What a command overwrites is on the branch      *)
(* checked out, or on the stash, because the branches a run creates did    *)
(* not exist (GitInv).  A run on its own is, at each label, on a known     *)
(* branch (Placed), with the source branch in a known place (Grounded)     *)
(* and what it found in a known place (Carried); SoloInv.  What it is      *)
(* handed over with is followed through the same labels (StartInv).        *)
(*                                                                         *)
(* The options: all that is claimed is claimed of what was resolved,       *)
(* because after that a run only replaces targets, and says so             *)
(* (SettledStep).  What the operator names is the last of its layers       *)
(* (LastOfMore) and no slot of the router; what a repository names was     *)
(* never loaded (OwnConfig); whom the router ranks meets every hard        *)
(* constraint, as the place of a card is the number of cards ahead of it,  *)
(* and no two have as many (RankingSorts).                                 *)
(***************************************************************************)
EXTENDS Options, WorkPlans, GitPreflight, FiniteSetTheorems, SequenceTheorems,
        NaturalsInduction, TLAPS

-----------------------------------------------------------------------------
(* Numbers and paths *)

\* A set of natural numbers that is not empty has a least element.
LEMMA MinFacts ==
    ASSUME NEW T \in SUBSET Nat, T # {}
    PROVE  Min(T) \in T /\ \A n \in T : Min(T) <= n
<1>1. \E x \in T : \A y \in T : ~ (<<y, x>> \in OpToRel(<, Nat))
  BY NatLessThanWellFounded, WFMin
<1>2. PICK x \in T : \A y \in T : ~ (<<y, x>> \in OpToRel(<, Nat))
  BY <1>1
<1>3. ASSUME NEW y \in T PROVE x <= y
  <2>1. <<y, x>> \in Nat \X Nat /\ ~ (y < x)
    BY <1>2 DEF OpToRel
  <2> QED BY <2>1
<1> QED BY <1>3 DEF Min

LEMMA PrefixFacts ==
    ASSUME NEW S, NEW s \in Seq(S), NEW t \in Seq(S)
    PROVE  /\ IsPrefix(s, t) <=> Len(s) <= Len(t) /\ \A i \in 1..Len(s) : s[i] = t[i]
           /\ IsStrictPrefix(s, t) <=> Len(s) < Len(t) /\ \A i \in 1..Len(s) : s[i] = t[i]
<1>1. SubSeq(s, 1, Len(s)) = s
  BY SubSeqFull
<1>2. ASSUME Len(s) <= Len(t)
      PROVE  SubSeq(t, 1, Len(s)) = s <=> \A i \in 1..Len(s) : s[i] = t[i]
  <2> DEFINE u == SubSeq(t, 1, Len(s))
  <2>1. u \in Seq(S) /\ Len(u) = Len(s) /\ \A i \in 1..Len(s) : u[i] = t[i]
    BY <1>2, SubSeqProperties
  <2> HIDE DEF u
  <2>2. (\A i \in 1..Len(s) : s[i] = u[i]) => s = u
    BY <2>1, SeqEqual
  <2> QED BY <2>1, <2>2 DEF u
<1>3. IsPrefix(s, t) <=> Len(s) <= Len(t) /\ \A i \in 1..Len(s) : s[i] = t[i]
  BY <1>1, <1>2 DEF IsPrefix
<1>4. (\A i \in 1..Len(s) : s[i] = t[i]) /\ Len(s) = Len(t) => s = t
  BY SeqEqual
<1> QED BY <1>3, <1>4 DEF IsStrictPrefix

LEMMA PrefixTransitive ==
    ASSUME NEW S, NEW s \in Seq(S), NEW t \in Seq(S), NEW u \in Seq(S),
           IsStrictPrefix(s, t), IsStrictPrefix(t, u)
    PROVE  IsStrictPrefix(s, u)
  BY PrefixFacts

\* What an intersection allows, both scopes allow.
LEMMA IntersectionFacts ==
    ASSUME NEW left \in SUBSET Items, NEW right \in SUBSET Items
    PROVE  /\ intersectAllowedScopes(left, right) \subseteq left \cup right
           /\ \A p \in Seq(STRING) : pathAllowed(p, intersectAllowedScopes(left, right)) =>
                 pathAllowed(p, left) /\ pathAllowed(p, right)
<1> DEFINE Allows(i, p) == p = i.path \/ (i.dir /\ IsStrictPrefix(i.path, p))
<1>1. ASSUME NEW a \in Items, NEW c \in Items, a.dir, Below(c, a),
     NEW p \in Seq(STRING), Allows(c, p)
      PROVE  Allows(a, p)
  <2>1. a.path \in Seq(STRING) /\ c.path \in Seq(STRING)
    BY DEF Items
  <2>2. CASE c = a
    BY <1>1, <2>2
  <2>3. CASE IsStrictPrefix(a.path, c.path)
    BY <1>1, <2>1, <2>3, PrefixTransitive
  <2> QED BY <1>1, <2>2, <2>3 DEF Below
<1>2. ASSUME NEW a \in left, NEW c \in right, NEW i \in intersectAllowedScopePath(a, c)
      PROVE  /\ i \in {a, c}
             /\ \A p \in Seq(STRING) : Allows(i, p) => Allows(a, p) /\ Allows(c, p)
  <2> HIDE DEF Allows
  <2>1. CASE a.dir /\ Below(c, a)
    BY <1>1, <1>2, <2>1 DEF intersectAllowedScopePath
  <2>2. CASE ~ (a.dir /\ Below(c, a)) /\ c.dir /\ Below(a, c)
    BY <1>1, <1>2, <2>2 DEF intersectAllowedScopePath
  <2>3. CASE ~ (a.dir /\ Below(c, a)) /\ ~ (c.dir /\ Below(a, c))
    BY <1>2, <2>3 DEF intersectAllowedScopePath
  <2> QED BY <2>1, <2>2, <2>3
<1>3. \A i \in intersectAllowedScopes(left, right) :
         \E a \in left, c \in right : i \in intersectAllowedScopePath(a, c)
  BY DEF intersectAllowedScopes
<1>4. ASSUME NEW p \in Seq(STRING), pathAllowed(p, intersectAllowedScopes(left, right))
      PROVE  pathAllowed(p, left) /\ pathAllowed(p, right)
  <2>1. PICK i \in intersectAllowedScopes(left, right) : Allows(i, p)
    BY <1>4 DEF pathAllowed
  <2>2. PICK a \in left, c \in right : i \in intersectAllowedScopePath(a, c)
    BY <1>3
  <2>3. Allows(a, p) /\ Allows(c, p)
    BY <1>2, <2>1, <2>2
  <2> QED BY <2>3 DEF pathAllowed
<1> HIDE DEF Allows
<1>5. intersectAllowedScopes(left, right) \subseteq left \cup right
  BY <1>2, <1>3
<1> QED BY <1>4, <1>5

\* A scope of a round is a scope, and allows nothing that one of the two given
\* scopes does not.
LEMMA RoundScopeFacts ==
    ASSUME NEW operator \in SUBSET Items, NEW package \in SUBSET Items
    PROVE  /\ allowedScopeForRound(operator, package) \subseteq Items
           /\ \A p \in Seq(STRING) : pathAllowed(p, allowedScopeForRound(operator, package)) =>
                 \A given \in {normalizeAllowedScope(operator), normalizeAllowedScope(package)} :
                    given # {} => pathAllowed(p, given)
<1> DEFINE mine == normalizeAllowedScope(operator)
           its == normalizeAllowedScope(package)
<1>1. mine \in SUBSET Items /\ its \in SUBSET Items
  BY DEF normalizeAllowedScope
<1>2. Root \in Items
  <2>1. <<>> \in Seq(STRING)
    BY EmptySeq
  <2> QED BY <2>1 DEF Root, Items
<1>3. allowedScopeForRound(operator, package) =
         CASE mine # {} /\ its # {} -> intersectAllowedScopes(mine, its)
           [] mine # {} /\ its = {} -> mine
           [] mine = {} /\ its # {} -> its
           [] OTHER -> {Root}
  BY DEF allowedScopeForRound
<1> HIDE DEF mine, its
<1>4. CASE mine # {} /\ its # {}
  <2>1. allowedScopeForRound(operator, package) = intersectAllowedScopes(mine, its)
    BY <1>3, <1>4
  <2>2. /\ intersectAllowedScopes(mine, its) \subseteq mine \cup its
        /\ \A p \in Seq(STRING) : pathAllowed(p, intersectAllowedScopes(mine, its)) =>
              pathAllowed(p, mine) /\ pathAllowed(p, its)
    BY <1>1, IntersectionFacts
  <2> QED BY <1>1, <2>1, <2>2 DEF mine, its
<1>5. CASE mine # {} /\ its = {}
  BY <1>1, <1>3, <1>5 DEF mine, its
<1>6. CASE mine = {} /\ its # {}
  BY <1>1, <1>3, <1>6 DEF mine, its
<1>7. CASE mine = {} /\ its = {}
  BY <1>1, <1>2, <1>3, <1>7 DEF mine, its
<1> QED BY <1>4, <1>5, <1>6, <1>7

-----------------------------------------------------------------------------
(* Work plans: the inductive invariant *)

Packages == [id : STRING, long : BOOLEAN, scope : SUBSET Items]
\* The empty name is that of no package.
Names == STRING \cup {""}
Plans == [packages : Seq(Packages), selected : Names]
Opinions == {"none", "failed", "keep", "simplify", "escalate"}
WorkPhases == {"planning", "implementing", "reviewing"}

WorkTypeOK ==
    /\ request \in Requests /\ mode \in {"supervisor", "relay"}
    /\ advice \in [worker : Opinions, supervisor : Opinions]
    /\ step \in {"orchestrate", "scout", "brief", "plan", "round", "edit", "review", "failed",
                 "done"}
    /\ round \in Nat /\ completed \in Nat /\ resumes \in Nat
    /\ scout \in {"none", "skipped", "raw", "context"}
    /\ plan \in Plans /\ selected \in Names /\ scope \subseteq Items
    /\ disk \in [plan : Plans, phase : WorkPhases, round : Nat]
    /\ worked \subseteq Names /\ approved \subseteq Names

\* A round works with the scope of its package, and a package that a run selects
\* by itself fits: it is the one its plan says.
RoundInv ==
    /\ Working => scope = allowedScopeForRound(request.operator, PackageScope(plan, selected))
    /\ Fresh =>
          /\ selected = plan.selected
          /\ \A i \in DOMAIN plan.packages :
                request.auto \/ plan.packages[i].id = selected => ~ plan.packages[i].long

\* Only a package that a round worked on, in a run that keeps its checklist, can
\* be marked by the review of that round.
ChecklistInv ==
    /\ Working /\ Fresh => selected \in worked
    /\ PassedPackagesWereReviewed

\* After the decision about the topology its reasons stay, and so does the context
\* of a scout that has to be there.
AgreedInv ==
    Fresh =>
        /\ step \notin {"orchestrate", "failed"} =>
              /\ mode = "supervisor" /\ request.mode = "relay" =>
                   advice.supervisor = "simplify" /\ ~ request.explicit /\ ~ request.strict
              /\ mode = "relay" /\ request.mode = "supervisor" =>
                   advice.worker = "escalate" /\ advice.supervisor = "escalate"
        /\ step = "orchestrate" => mode = request.mode
        /\ step = "plan" => mode = "supervisor"
        /\ /\ step \in {"brief", "round", "edit", "review", "done"}
           /\ mode = "relay" /\ request.strict /\ request.contextPolicy # "skip"
           => scout = "context"

-----------------------------------------------------------------------------
(* Work plans: steps *)

\* What a plan says.
LEMMA PlanFacts ==
    ASSUME NEW p \in Plans
    PROVE  /\ p.packages \in Seq(Packages) /\ p.selected \in Names
           /\ \A i \in DOMAIN p.packages : p.packages[i] \in Packages
           /\ \A id : PackageScope(p, id) \subseteq Items /\ nextWorkPackage(p, id) \in Names
           /\ \A s \in Names : [p EXCEPT !.selected = s] \in Plans
                                /\ [p EXCEPT !.selected = s].selected = s
                                /\ [p EXCEPT !.selected = s].packages = p.packages
<1>1. p.packages \in Seq(Packages) /\ p.selected \in Names
  BY DEF Plans
<1>2. \A i \in DOMAIN p.packages : p.packages[i] \in Packages
  BY <1>1
<1>3. ASSUME NEW id PROVE PackageScope(p, id) \subseteq Items
  BY <1>2 DEF PackageScope, Packages
<1>4. ASSUME NEW id PROVE nextWorkPackage(p, id) \in Names
  <2> DEFINE later == {i \in DOMAIN p.packages : i > 1 /\ p.packages[i - 1].id = id}
  <2>1. later \in SUBSET DOMAIN p.packages /\ DOMAIN p.packages \subseteq Nat
    BY <1>1
  <2>2. later # {} => Min(later) \in later
    BY <2>1, MinFacts
  <2>3. nextWorkPackage(p, id) = IF later = {} THEN "" ELSE p.packages[Min(later)].id
    BY DEF nextWorkPackage
  <2> HIDE DEF later
  <2>4. CASE later # {}
    <3>1. p.packages[Min(later)] \in Packages
      BY <1>2, <2>1, <2>2, <2>4
    <3>2. p.packages[Min(later)].id \in STRING
      BY <3>1 DEF Packages
    <3> QED BY <2>3, <2>4, <3>2 DEF Names
  <2>5. CASE later = {}
    BY <2>3, <2>5 DEF Names
  <2> QED BY <2>4, <2>5
<1>5. \A s \in Names : [p EXCEPT !.selected = s] \in Plans
                        /\ [p EXCEPT !.selected = s].selected = s
                        /\ [p EXCEPT !.selected = s].packages = p.packages
  BY DEF Plans
<1> QED BY <1>1, <1>2, <1>3, <1>4, <1>5

LEMMA NoPlanFacts == NoPlan \in Plans /\ "" \in Names
<1>1. <<>> \in Seq(Packages)
  BY EmptySeq
<1>2. "" \in Names
  BY DEF Names
<1> QED BY <1>1, <1>2 DEF NoPlan, Plans

LEMMA AnswerFacts == ASSUME NEW answer \in Answers PROVE answer \in Plans
  BY AnswersAssumption DEF Plans, Packages, Names

\* The round a run that stops comes back to.
LEMMA BackFacts == \A n \in Nat : Max({1, n}) \in Nat
<1> TAKE n \in Nat
<1>1. \E x \in {1, n} : \A y \in {1, n} : x >= y
  OBVIOUS
<1>2. Max({1, n}) \in {1, n}
  BY <1>1 DEF Max
<1> QED BY <1>2

\* A step of review, apart from its checklist.
LEMMA ReviewSteps ==
    ASSUME WorkTypeOK, review
    PROVE  /\ step = "review" /\ step' \in {"round", "done", "failed"}
           /\ round' \in Nat /\ completed' \in Nat
           /\ plan' \in Plans /\ plan'.packages = plan.packages /\ selected' \in Names
           /\ UNCHANGED <<plan, selected>> \/ (selected' = plan'.selected /\ request.auto)
           /\ disk' \in [plan : Plans, phase : WorkPhases, round : Nat]
           /\ approved' \in {approved, approved \cup {selected}}
           /\ UNCHANGED <<request, mode, advice, scout, scope, worked, resumes>>
<1> USE DEF WorkTypeOK
<1>1. PICK verdict \in {"pass", "minor", "blocking"} :
         LET its  == appendReviewFindingPlanItems(items, verdict)
             next == IF plan = NoPlan THEN "" ELSE nextWorkPackage(plan, selected)
             advances == /\ verdict = "pass" /\ Fresh /\ mode = "supervisor" /\ request.auto
                         /\ next # "" /\ round < MaxRounds
             repairs == verdict = "blocking" /\ round < MaxRounds
         IN
         /\ completed' = round
         /\ approved' = IF verdict = "blocking" THEN approved ELSE approved \cup {selected}
         /\ CASE advances ->
                   /\ items' = passPackage(its, selected, next)
                   /\ plan' = [plan EXCEPT !.selected = next] /\ selected' = next
                   /\ round' = round + 1 /\ step' = "round" /\ UNCHANGED disk
              [] repairs ->
                   /\ items' = its /\ round' = round + 1 /\ step' = "round"
                   /\ UNCHANGED <<plan, selected, disk>>
              [] OTHER -> finalize(Closed(its, verdict), verdict # "blocking")
  BY DEF review
<1> DEFINE its  == appendReviewFindingPlanItems(items, verdict)
           next == IF plan = NoPlan THEN "" ELSE nextWorkPackage(plan, selected)
           advances == /\ verdict = "pass" /\ Fresh /\ mode = "supervisor" /\ request.auto
                       /\ next # "" /\ round < MaxRounds
           repairs == verdict = "blocking" /\ round < MaxRounds
           closed == Closed(its, verdict)
<1>2. next \in Names
  BY NoPlanFacts, PlanFacts
<1>3. [plan EXCEPT !.selected = next] \in Plans
      /\ [plan EXCEPT !.selected = next].selected = next
      /\ [plan EXCEPT !.selected = next].packages = plan.packages
  BY ZenonT(30), <1>2, PlanFacts
<1>4. /\ completed' = round /\ approved' \in {approved, approved \cup {selected}}
      /\ UNCHANGED <<request, mode, advice, scout, scope, worked, resumes>>
      /\ step = "review"
  BY <1>1 DEF review
<1>5. CASE advances
  <2>1. /\ plan' = [plan EXCEPT !.selected = next] /\ selected' = next
        /\ round' = round + 1 /\ step' = "round" /\ UNCHANGED disk /\ request.auto
    BY <1>1, <1>5
  <2> HIDE DEF next
  <2> QED BY <1>2, <1>3, <1>4, <2>1
<1>6. CASE ~ advances /\ repairs
  <2>1. round' = round + 1 /\ step' = "round" /\ UNCHANGED <<plan, selected, disk>>
    BY <1>1, <1>6
  <2> QED BY <1>4, <2>1
<1>7. CASE ~ advances /\ ~ repairs
  <2>1. finalize(closed, verdict # "blocking")
    BY <1>1, <1>7
  <2> HIDE DEF closed
  <2>2. /\ UNCHANGED <<round, selected, plan>>
        /\ \/ step' = "done" /\ UNCHANGED disk
           \/ step' = "failed" /\ disk' = [disk EXCEPT !.phase = "reviewing",
                !.round = Max({1, round})]
    BY <2>1 DEF finalize, stop
  <2>3. disk' \in [plan : Plans, phase : WorkPhases, round : Nat]
    BY <2>2, BackFacts DEF WorkPhases
  <2> QED BY <1>4, <2>2, <2>3
<1> QED BY <1>5, <1>6, <1>7

\* The operator's choice and that of the plan are names.
LEMMA SelectionFacts ==
    ASSUME request \in Requests, NEW p \in Plans, p.packages # <<>>
    PROVE  Selection(p) \in Names
<1>1. request.requested \in STRING
  BY RequestsAssumption
<1>2. p.packages[1].id \in STRING
  <2>1. p.packages \in Seq(Packages) /\ 1 \in DOMAIN p.packages
    BY DEF Plans
  <2>2. p.packages[1] \in Packages
    BY <2>1
  <2> QED BY <2>2 DEF Packages
<1>3. p.selected \in Names
  BY PlanFacts
<1> QED BY <1>1, <1>2, <1>3 DEF Selection, Names

LEMMA ScopeFacts ==
    ASSUME request \in Requests, NEW p \in Plans, NEW id
    PROVE  /\ request.operator \in SUBSET Items /\ PackageScope(p, id) \in SUBSET Items
           /\ allowedScopeForRound(request.operator, PackageScope(p, id)) \subseteq Items
<1>1. request.operator \in SUBSET Items /\ PackageScope(p, id) \in SUBSET Items
  BY RequestsAssumption, PlanFacts
<1> QED BY <1>1, RoundScopeFacts

\* Every step keeps the types.
LEMMA WorkTypeStep == WorkTypeOK /\ [WorkNext]_workVars => WorkTypeOK'
<1> SUFFICES ASSUME WorkTypeOK, [WorkNext]_workVars PROVE WorkTypeOK'
  OBVIOUS
<1> USE DEF WorkTypeOK
<1>1. CASE resolveOrchestrationDecision
  <2>1. PICK w \in Opinions, s \in Opinions :
           /\ advice' = [worker |-> w, supervisor |-> s]
           /\ mode' = CASE mode = "relay" -> applyRelaySimplificationPolicy(s)
                        [] OTHER -> applySupervisorEscalationPolicy(w, s)
    BY <1>1 DEF resolveOrchestrationDecision, Opinions
  <2>2. mode' \in {"supervisor", "relay"}
    BY <2>1 DEF applyRelaySimplificationPolicy, applySupervisorEscalationPolicy
  <2> QED BY <1>1, <2>1, <2>2 DEF resolveOrchestrationDecision
<1>2. CASE runRelayScoutPhase
  <2>1. /\ step' \in {"failed", "brief"} /\ scout' \in {"none", "skipped", "raw", "context"}
        /\ UNCHANGED disk \/ disk' = [disk EXCEPT !.phase = "planning",
             !.round = Max({1, completed})]
    BY <1>2 DEF runRelayScoutPhase, stop, ScoutFits
  <2>2. disk' \in [plan : Plans, phase : WorkPhases, round : Nat]
    BY <2>1, BackFacts DEF WorkPhases
  <2> QED BY <1>2, <2>1, <2>2 DEF runRelayScoutPhase
<1>3. CASE resumeScout \/ brief \/ editorDelivers
  BY <1>3 DEF resumeScout, brief, editorDelivers
<1>4. CASE slice
  <2>1. PICK answer \in Answers :
           LET p == [answer EXCEPT !.selected = Selection(answer)] IN
           /\ validateWorkPlan(answer)
           /\ plan' = p /\ selected' = p.selected /\ disk' = [disk EXCEPT !.plan = p]
    BY <1>4 DEF slice
  <2>2. Selection(answer) \in Names
    BY <2>1, AnswerFacts, SelectionFacts DEF validateWorkPlan
  <2> DEFINE p == [answer EXCEPT !.selected = Selection(answer)]
  <2>3. p \in Plans /\ p.selected \in Names
    BY <2>2, AnswerFacts, PlanFacts
  <2>4. plan' = p /\ selected' = p.selected /\ disk' = [disk EXCEPT !.plan = p]
    BY <2>1
  <2> HIDE DEF p
  <2> QED BY <1>4, <2>3, <2>4 DEF slice
<1>5. CASE sliceRefused
  <2>1. PICK answer \in Answers :
           \E written \in {answer, NoPlan}, phase \in {"planning", "implementing"} :
              disk' = [plan |-> written, phase |-> phase, round |-> Max({1, completed})]
    BY <1>5 DEF sliceRefused
  <2>2. PICK written \in {answer, NoPlan}, phase \in {"planning", "implementing"} :
           disk' = [plan |-> written, phase |-> phase, round |-> Max({1, completed})]
    BY <2>1
  <2>3. written \in Plans /\ Max({1, completed}) \in Nat
    BY AnswerFacts, NoPlanFacts, BackFacts
  <2>4. disk' \in [plan : Plans, phase : WorkPhases, round : Nat]
    BY <2>2, <2>3 DEF WorkPhases
  <2> QED BY <1>5, <2>4 DEF sliceRefused
<1>6. CASE startRound
  <2>1. scope' \subseteq Items
    BY <1>6, ScopeFacts DEF startRound
  <2> QED BY <1>6, <2>1 DEF startRound
<1>7. CASE review
  BY <1>7, ReviewSteps
<1>8. CASE interrupted
  <2>1. PICK phase \in WorkPhases : stop(phase, completed)
    BY <1>8 DEF interrupted, WorkPhases
  <2>2. disk' \in [plan : Plans, phase : WorkPhases, round : Nat]
    BY <2>1, BackFacts DEF stop
  <2> QED BY <1>8, <2>1, <2>2 DEF interrupted, stop
<1>9. CASE resumeExistingRun
  <2>1. disk.plan \in Plans /\ disk.phase \in WorkPhases /\ disk.round \in Nat
    OBVIOUS
  <2>2. plan' \in Plans /\ selected' \in Names
    BY <1>9, <2>1, NoPlanFacts, PlanFacts DEF resumeExistingRun
  <2>3. scope' \subseteq Items
    BY <1>9, <2>2, ScopeFacts DEF resumeExistingRun
  <2>4. step' \in {"scout", "plan", "round", "review"}
    BY <1>9, <2>1 DEF resumeExistingRun, WorkPhases
  <2>5. /\ resumes' = resumes + 1 /\ round' = disk.round
        /\ UNCHANGED <<request, mode, advice, completed, scout, items, disk, worked, approved>>
    BY <1>9 DEF resumeExistingRun
  <2> QED BY <2>1, <2>2, <2>3, <2>4, <2>5
<1>10. CASE UNCHANGED workVars
  BY <1>10 DEF workVars
<1> QED
  BY <1>1, <1>2, <1>3, <1>4, <1>5, <1>6, <1>7, <1>8, <1>9, <1>10
  DEF WorkNext

-----------------------------------------------------------------------------
(* Work plans: rounds work within their scope *)

LEMMA RoundStep == WorkTypeOK /\ RoundInv /\ [WorkNext]_workVars => RoundInv'
<1> SUFFICES ASSUME WorkTypeOK, RoundInv, [WorkNext]_workVars PROVE RoundInv'
  OBVIOUS
<1> DEFINE Fits(p, s) == \A i \in DOMAIN p.packages :
              request.auto \/ p.packages[i].id = s => ~ p.packages[i].long
<1>0. resumes \in Nat
  BY DEF WorkTypeOK
<1>1. CASE resolveOrchestrationDecision \/ resumeScout \/ brief \/ sliceRefused
               \/ editorDelivers
  BY <1>1
  DEF resolveOrchestrationDecision, RoundInv, Working, Fresh, resumeScout, brief, sliceRefused,
     editorDelivers
<1>2. CASE runRelayScoutPhase
  <2>1. step' \in {"failed", "brief"}
    BY <1>2 DEF runRelayScoutPhase, stop
  <2> QED BY <1>2, <2>1 DEF runRelayScoutPhase, RoundInv, Working, Fresh
<1>3. CASE slice
  <2>1. PICK answer \in Answers :
           LET p == [answer EXCEPT !.selected = Selection(answer)] IN
           /\ validateWorkPlan(answer) /\ validateWorkPlanBudget(p, request.auto)
           /\ plan' = p /\ selected' = p.selected
    BY <1>3 DEF slice
  <2>2. validateWorkPlanBudget(plan', request.auto) /\ selected' = plan'.selected
    BY <2>1
  <2>3. Fits(plan', selected')
    BY <2>2 DEF validateWorkPlanBudget
  <2>4. step' = "round" /\ UNCHANGED <<request, resumes>>
    BY <1>3 DEF slice
  <2> QED BY <2>2, <2>3, <2>4 DEF RoundInv, Working, Fresh
<1>4. CASE startRound
  BY <1>4 DEF startRound, RoundInv, Working, Fresh
<1>5. CASE review
  <2>1. /\ step' \in {"round", "done", "failed"} /\ plan'.packages = plan.packages
        /\ UNCHANGED <<plan, selected>> \/ (selected' = plan'.selected /\ request.auto)
        /\ UNCHANGED <<request, resumes>>
    BY <1>5, ReviewSteps
  <2>2. CASE UNCHANGED <<plan, selected>>
    BY <2>1, <2>2 DEF RoundInv, Working, Fresh
  <2>3. CASE selected' = plan'.selected /\ request.auto
    BY <2>1, <2>3 DEF RoundInv, Working, Fresh
  <2> QED BY <2>1, <2>2, <2>3
<1>6. CASE interrupted
  BY <1>6 DEF interrupted, stop, RoundInv, Working, Fresh
<1>7. CASE resumeExistingRun
  <2>1. /\ resumes' = resumes + 1 /\ request' = request
        /\ scope' = allowedScopeForRound(request.operator, PackageScope(plan', selected'))
    BY <1>7 DEF resumeExistingRun
  <2> QED BY <1>0, <2>1 DEF RoundInv, Fresh
<1>8. CASE UNCHANGED workVars
  BY <1>8 DEF workVars, Working, Fresh, RoundInv
<1> QED
  BY <1>1, <1>2, <1>3, <1>4, <1>5, <1>6, <1>7, <1>8
  DEF WorkNext

-----------------------------------------------------------------------------
(* Work plans: the checklist *)

PassedIn(its) == {id \in DOMAIN its : its[id] = "passed"}

\* An operation of the checklist marks nothing as passed but the item it is told to.
LEMMA MarkFacts ==
    ASSUME NEW its
    PROVE  /\ \A id, status : PassedIn(setPlanItemStatus(its, id, status)) \subseteq
                                 PassedIn(its) \cup (IF status = "passed" THEN {id} ELSE {})
           /\ \A id : PassedIn(deferRemainingPlanItems(its, id)) = PassedIn(its)
           /\ \A verdict : PassedIn(appendReviewFindingPlanItems(its, verdict)) = PassedIn(its)
           /\ \A p : PassedIn(newExecutionPlanFromWorkPlan(p)) = {}
<1>1. ASSUME NEW id, NEW status
      PROVE  PassedIn(setPlanItemStatus(its, id, status)) \subseteq
                PassedIn(its) \cup (IF status = "passed" THEN {id} ELSE {})
  BY DEF PassedIn, setPlanItemStatus
<1>2. ASSUME NEW id PROVE PassedIn(deferRemainingPlanItems(its, id)) = PassedIn(its)
  BY DEF PassedIn, deferRemainingPlanItems
<1>3. ASSUME NEW verdict
      PROVE  PassedIn(appendReviewFindingPlanItems(its, verdict)) = PassedIn(its)
  <2> DEFINE name == "R" \o ToString(round)
             longer == [id \in DOMAIN its \cup {name} |->
                           IF id \in DOMAIN its THEN its[id] ELSE "needs_arbitration"]
  <2>1. appendReviewFindingPlanItems(its, verdict) \in {its, longer}
    BY DEF appendReviewFindingPlanItems
  <2>2. PassedIn(longer) = PassedIn(its)
    <3> HIDE DEF name
    <3> QED BY DEF PassedIn
  <2> QED BY <2>1, <2>2
<1>4. ASSUME NEW p PROVE PassedIn(newExecutionPlanFromWorkPlan(p)) = {}
  BY DEF PassedIn, newExecutionPlanFromWorkPlan
<1> QED BY <1>1, <1>2, <1>3, <1>4

\* A review marks the package of its round, if it accepts it and the run keeps
\* its checklist.
LEMMA ReviewMarks ==
    ASSUME review
    PROVE  /\ PassedIn(items') \subseteq
                 PassedIn(items) \cup (IF Fresh THEN approved' \cap {selected} ELSE {})
           /\ approved \subseteq approved' /\ worked' = worked
<1> DEFINE its(verdict) == appendReviewFindingPlanItems(items, verdict)
           next == IF plan = NoPlan THEN "" ELSE nextWorkPackage(plan, selected)
<1>1. PICK verdict \in {"pass", "minor", "blocking"} :
         /\ approved' = IF verdict = "blocking" THEN approved ELSE approved \cup {selected}
         /\ \/ /\ Fresh /\ verdict = "pass"
               /\ items' = passPackage(its(verdict), selected, next)
            \/ items' = its(verdict)
            \/ finalize(Closed(its(verdict), verdict), verdict # "blocking")
  <2> HIDE DEF its, next
  <2> QED BY DEF review, its, next
<1> DEFINE old == its(verdict)
           closed == Closed(old, verdict)
           mark == IF Fresh /\ verdict # "blocking" THEN {selected} ELSE {}
<1>2. PassedIn(old) = PassedIn(items)
  BY MarkFacts
<1> HIDE DEF old, next
<1>3. PassedIn(passPackage(old, selected, "")) \subseteq PassedIn(old) \cup {selected}
      /\ PassedIn(passPackage(old, selected, next)) \subseteq PassedIn(old) \cup {selected}
  BY MarkFacts DEF passPackage
<1>4. PassedIn(closed) \subseteq PassedIn(old) \cup mark
  <2>1. CASE ~ Fresh
    BY <2>1 DEF Closed
  <2>2. CASE Fresh /\ verdict = "blocking"
    <3>1. closed = setPlanItemStatus(old, selected, "failed")
      BY <2>2 DEF Closed
    <3> QED BY <3>1, MarkFacts
  <2>3. CASE Fresh /\ verdict # "blocking"
    <3> DEFINE passed == passPackage(old, selected, "")
    <3>1. closed \in {passed, deferRemainingPlanItems(passed, selected)}
      BY <2>3 DEF Closed
    <3>2. PassedIn(deferRemainingPlanItems(passed, selected)) = PassedIn(passed)
      BY MarkFacts
    <3> QED BY <1>3, <2>3, <3>1, <3>2
  <2> QED BY <2>1, <2>2, <2>3
<1>5. PassedIn(items') \subseteq PassedIn(old) \cup mark
  <2>1. CASE Fresh /\ verdict = "pass" /\ items' = passPackage(old, selected, next)
    BY <1>3, <2>1
  <2>2. CASE items' = old
    BY <2>2
  <2>3. CASE finalize(closed, verdict # "blocking")
    <3> HIDE DEF closed
    <3>1. items' \in {closed, setPlanItemStatus(closed, selected, "failed")}
      BY <2>3 DEF finalize
    <3>2. PassedIn(setPlanItemStatus(closed, selected, "failed")) \subseteq PassedIn(closed)
      BY MarkFacts
    <3> QED BY <1>4, <3>1, <3>2
  <2> QED BY <1>1, <2>1, <2>2, <2>3 DEF old
<1>6. worked' = worked
  BY DEF review
<1> QED BY <1>1, <1>2, <1>5, <1>6

LEMMA ChecklistStep == WorkTypeOK /\ ChecklistInv /\ [WorkNext]_workVars => ChecklistInv'
<1> SUFFICES ASSUME WorkTypeOK, ChecklistInv, [WorkNext]_workVars PROVE ChecklistInv'
  OBVIOUS
<1>0. resumes \in Nat /\ PassedIn(items) \subseteq worked \cap approved
  BY DEF WorkTypeOK, ChecklistInv, PassedPackagesWereReviewed, PassedIn
<1>a. ASSUME PassedIn(items') \subseteq worked' \cap approved', (Working /\ Fresh
     => selected \in worked)'
      PROVE  ChecklistInv'
  BY <1>a DEF ChecklistInv, PassedPackagesWereReviewed, PassedIn
<1>1. CASE resolveOrchestrationDecision \/ resumeScout \/ brief \/ sliceRefused
               \/ editorDelivers
  BY <1>1
  DEF resolveOrchestrationDecision, ChecklistInv, PassedPackagesWereReviewed, Working, Fresh,
     resumeScout, brief, sliceRefused, editorDelivers
<1>2. CASE runRelayScoutPhase
  <2>1. step' \in {"failed", "brief"}
    BY <1>2 DEF runRelayScoutPhase, stop
  <2> QED BY <1>0, <1>a, <1>2, <2>1 DEF runRelayScoutPhase, Working
<1>3. CASE slice
  <2>1. PassedIn(items') = {}
    BY <1>3, MarkFacts DEF slice
  <2> QED BY <1>a, <1>3, <2>1 DEF slice, Working
<1>4. CASE startRound
  <2>1. PassedIn(items') \subseteq PassedIn(items)
    <3>1. items' \in {items, setPlanItemStatus(items, selected, "in_progress")}
      BY <1>4 DEF startRound
    <3> QED BY <3>1, MarkFacts
  <2> QED BY <1>0, <1>a, <1>4, <2>1 DEF startRound
<1>5. CASE review
  <2>1. /\ PassedIn(items') \subseteq
              PassedIn(items) \cup (IF Fresh THEN approved' \cap {selected} ELSE {})
        /\ approved \subseteq approved' /\ worked' = worked
    BY <1>5, ReviewMarks
  <2>2. step = "review" /\ step' \in {"round", "done", "failed"}
    BY <1>5, ReviewSteps
  <2>3. Fresh => selected \in worked
    BY <2>2 DEF ChecklistInv, Working
  <2> QED BY <1>0, <1>a, <2>1, <2>2, <2>3 DEF Working
<1>6. CASE interrupted
  BY <1>0, <1>a, <1>6 DEF interrupted, stop, Working
<1>7. CASE resumeExistingRun
  <2>1. resumes' = resumes + 1 /\ UNCHANGED <<items, worked, approved>>
    BY <1>7 DEF resumeExistingRun
  <2> QED BY <1>0, <1>a, <2>1 DEF Fresh
<1>8. CASE UNCHANGED workVars
  BY <1>8 DEF workVars, Working, Fresh, ChecklistInv, PassedPackagesWereReviewed
<1> QED
  BY <1>1, <1>2, <1>3, <1>4, <1>5, <1>6, <1>7, <1>8
  DEF WorkNext

-----------------------------------------------------------------------------
(* Work plans: the topology *)

LEMMA AgreedStep == WorkTypeOK /\ AgreedInv /\ [WorkNext]_workVars => AgreedInv'
<1> SUFFICES ASSUME WorkTypeOK, AgreedInv, [WorkNext]_workVars PROVE AgreedInv'
  OBVIOUS
<1>0. resumes \in Nat /\ mode \in {"supervisor", "relay"}
      /\ request.mode \in {"supervisor", "relay"}
      /\ request.explicit \in BOOLEAN /\ request.strict \in BOOLEAN
      /\ request.failPolicy \in BOOLEAN
  BY RequestsAssumption DEF WorkTypeOK
<1>1. CASE resolveOrchestrationDecision
  <2>1. PICK w \in Opinions, s \in Opinions :
           /\ s = "none" <=> IF mode = "relay" THEN relaySimplificationConstraint
                             ELSE w # "escalate"
           /\ advice' = [worker |-> w, supervisor |-> s]
           /\ mode' = CASE mode = "relay" -> applyRelaySimplificationPolicy(s)
                        [] OTHER -> applySupervisorEscalationPolicy(w, s)
    BY <1>1 DEF resolveOrchestrationDecision, Opinions
  <2>2. step' = (IF mode' = "relay" THEN "scout" ELSE "plan") /\ UNCHANGED <<request, resumes>>
    BY <1>1 DEF resolveOrchestrationDecision
  <2>3. CASE Fresh /\ mode = "relay"
    <3>1. mode' = IF s = "simplify" THEN "supervisor" ELSE "relay"
      BY <2>1, <2>3 DEF applyRelaySimplificationPolicy
    <3>2. mode' = "supervisor" => ~ request.explicit /\ ~ request.strict
      BY <2>1, <2>3, <3>1 DEF relaySimplificationConstraint
    <3>3. request.mode = "relay"
      BY <2>3, <1>1 DEF resolveOrchestrationDecision, AgreedInv
    <3> QED BY <1>0, <2>1, <2>2, <2>3, <3>1, <3>2, <3>3 DEF AgreedInv, Fresh
  <2>4. CASE Fresh /\ mode = "supervisor"
    <3>1. mode' = IF w = "escalate" /\ s = "escalate" THEN "relay" ELSE "supervisor"
      BY <2>1, <2>4 DEF applySupervisorEscalationPolicy
    <3>3. request.mode = "supervisor"
      BY <2>4, <1>1 DEF resolveOrchestrationDecision, AgreedInv
    <3> QED BY <1>0, <2>1, <2>2, <2>4, <3>1, <3>3 DEF AgreedInv, Fresh
  <2> QED BY <1>0, <2>2, <2>3, <2>4 DEF AgreedInv, Fresh
<1>2. CASE runRelayScoutPhase
  <2>1. step' \in {"failed", "brief"} /\ UNCHANGED <<request, mode, advice, resumes>>
    BY <1>2 DEF runRelayScoutPhase, stop
  <2>2. step' = "brief" /\ request.strict /\ request.contextPolicy # "skip" => scout' = "context"
    BY <1>2 DEF runRelayScoutPhase, stop, ScoutFits, shouldBlockScoutFailure
  <2> QED BY <1>2, <2>1, <2>2 DEF runRelayScoutPhase, AgreedInv, Fresh
<1>3. CASE resumeScout
  BY <1>3 DEF resumeScout, AgreedInv, Fresh
<1>4. CASE brief \/ startRound \/ editorDelivers
  BY <1>4 DEF brief, AgreedInv, Fresh, startRound, editorDelivers
<1>5. CASE slice
  <2>1. step = "plan" /\ step' = "round" /\ UNCHANGED <<request, mode, advice, scout, resumes>>
    BY <1>5 DEF slice
  <2> QED BY <2>1 DEF AgreedInv, Fresh
<1>6. CASE sliceRefused
  <2>1. step' = "failed" /\ UNCHANGED <<request, mode, advice, scout, resumes>>
    BY <1>6 DEF sliceRefused
  <2> QED BY <2>1 DEF AgreedInv, Fresh
<1>7. CASE review
  <2>1. /\ step = "review" /\ step' \in {"round", "done", "failed"}
        /\ UNCHANGED <<request, mode, advice, scout, resumes>>
    BY <1>7, ReviewSteps
  <2> QED BY <2>1 DEF AgreedInv, Fresh
<1>8. CASE interrupted
  <2>1. step' = "failed" /\ UNCHANGED <<request, mode, advice, scout, resumes>>
    BY <1>8 DEF interrupted, stop
  <2> QED BY <2>1 DEF AgreedInv, Fresh
<1>9. CASE resumeExistingRun
  <2>1. resumes' = resumes + 1
    BY <1>9 DEF resumeExistingRun
  <2> QED BY <1>0, <2>1 DEF AgreedInv, Fresh
<1>10. CASE UNCHANGED workVars
  BY <1>10 DEF workVars, Fresh, AgreedInv
<1> QED
  BY <1>1, <1>2, <1>3, <1>4, <1>5, <1>6, <1>7, <1>8, <1>9, <1>10
  DEF WorkNext

-----------------------------------------------------------------------------
(* Work plans: the theorems *)

WorkInv == WorkTypeOK /\ RoundInv /\ ChecklistInv /\ AgreedInv

LEMMA EmptyDomain == DOMAIN <<>> = {}
<1>1. <<>> \in Seq(Names) /\ Len(<<>>) = 0
  BY EmptySeq
<1> DEFINE s == <<>>
<1> HIDE DEF s
<1>2. s \in Seq(Names) => DOMAIN s = 1..Len(s)
  BY LenProperties
<1> QED BY <1>1, <1>2 DEF s

LEMMA WorkStarts == WorkInit => WorkInv
<1> SUFFICES ASSUME WorkInit PROVE WorkInv
  OBVIOUS
<1> USE DEF WorkInit
<1>1. WorkTypeOK
  <2>1. NoPlan \in Plans /\ "" \in Names /\ request.mode \in {"supervisor", "relay"}
    BY NoPlanFacts, RequestsAssumption
  <2> QED BY <2>1 DEF WorkTypeOK, Opinions, WorkPhases
<1>2. RoundInv
  <2>1. DOMAIN plan.packages = {}
    BY EmptyDomain DEF NoPlan
  <2>2. selected = plan.selected /\ ~ Working
    BY DEF NoPlan, Working
  <2> QED BY <2>1, <2>2 DEF RoundInv
<1>3. ChecklistInv
  <2>1. DOMAIN items = {} /\ ~ Working
    BY EmptyDomain DEF Working
  <2> QED BY <2>1 DEF ChecklistInv, PassedPackagesWereReviewed
<1>4. AgreedInv
  BY DEF AgreedInv
<1> QED BY <1>1, <1>2, <1>3, <1>4 DEF WorkInv

LEMMA WorkAlways == WorkSpec => []WorkInv
<1>1. WorkInv /\ [WorkNext]_workVars => WorkInv'
  BY WorkTypeStep, RoundStep, ChecklistStep, AgreedStep DEF WorkInv
<1> QED BY <1>1, WorkStarts, PTL DEF WorkSpec

\* Every variable of the work plans keeps its type.
THEOREM WorkPlanTypes == WorkSpec => []WorkTypeOK
<1>1. WorkInv => WorkTypeOK
  BY DEF WorkInv
<1> QED BY <1>1, WorkAlways, PTL

\* Every path a round may write is allowed by each scope that was given: that of
\* the operator and that of the package, whatever plans a model writes and
\* whatever a resume reads (quality_gates.go:275).
THEOREM ScopeNeverWidens == WorkSpec => []ScopeIsNeverWidened
<1>1. WorkInv => ScopeIsNeverWidened
  <2> SUFFICES ASSUME WorkInv, Working, NEW p \in Paths, pathAllowed(p, scope)
               PROVE  \A given \in {normalizeAllowedScope(request.operator),
                                    normalizeAllowedScope(PackageScope(plan, selected))} :
                         given # {} => pathAllowed(p, given)
    BY DEF ScopeIsNeverWidened
  <2>1. scope = allowedScopeForRound(request.operator, PackageScope(plan, selected))
    BY DEF WorkInv, RoundInv
  <2>2. request.operator \in SUBSET Items /\ PackageScope(plan, selected) \in SUBSET Items
    BY ScopeFacts DEF WorkInv, WorkTypeOK
  <2>3. p \in Seq(STRING)
    BY PathsAssumption
  <2> QED BY <2>1, <2>2, <2>3, RoundScopeFacts
<1> QED BY <1>1, WorkAlways, PTL

\* A package the checklist counts as passed was worked on and accepted.
THEOREM PassedWereReviewed == WorkSpec => []PassedPackagesWereReviewed
<1>1. WorkInv => PassedPackagesWereReviewed
  BY DEF WorkInv, ChecklistInv
<1> QED BY <1>1, WorkAlways, PTL

\* A package that a run works on, chosen or gone on to, fits into one call.
THEOREM PackagesAlwaysFit == WorkSpec => []PackagesFit
<1>1. WorkInv => PackagesFit
  BY DEF WorkInv, RoundInv, PackagesFit
<1> QED BY <1>1, WorkAlways, PTL

\* The topology changes only by advice that may change it, and a strict scout is
\* heard before a round starts.
THEOREM TopologyAgreed == WorkSpec => []TopologyIsAgreed
<1>1. WorkInv => TopologyIsAgreed
  BY DEF WorkInv, AgreedInv, TopologyIsAgreed, Working
<1> QED BY <1>1, WorkAlways, PTL

-----------------------------------------------------------------------------
(* The worktree: types, and what each git command does *)

Changes == {Mine, Local, Theirs, Aside, Base} \cup {Edit(r) : r \in Runs}
Entries == [by : Runs \cup {"operator"}, holds : SUBSET Changes]
RunRecords ==
    [policy : Policies, source : Branches \cup {NoBranch}, dirty : BOOLEAN, advanced : BOOLEAN,
     stashed : BOOLEAN, recovery : BOOLEAN, alone : BOOLEAN, found : SUBSET Changes,
     foundWork : SUBSET Changes]

SyncWay == {"sync upstream", "sync fetch", "sync compare", "sync ff", "sync advanced"}
SyncLabels == SyncWay \cup {"sync branch", "sync checkpoint", "sync source", "sync return",
                            "sync rebase", "sync create"}
CandidateLabels == {"int checkpoint", "int upstream", "int fetch", "int merge", "int abort",
                    "int branch", "int source"}
IntLabels == CandidateLabels \cup {"int create", "int ff", "int run", "int drop"}
GitTypeOK ==
    /\ refs \in [Branches -> SUBSET Changes]
    /\ head \in Branches /\ refs[head] # {}
    /\ upstream \in [set : BOOLEAN, seen : SUBSET Changes, is : SUBSET Changes]
    /\ work \in SUBSET Changes
    /\ stash \in Seq(Entries)
    /\ pc = [r \in Runs |-> pc[r]] /\ run \in [Runs -> RunRecords]

\* The steps of one run, one git command each.
syncUpstream(r) ==
    /\ pc[r] = "sync upstream"
    /\ does(r, IF tracks(run[r].source) THEN "sync fetch" ELSE afterSync(r))
    /\ UNCHANGED repo
syncCompare(r) ==
    /\ pc[r] = "sync compare"
    /\ \/ goto(r, "failed") \/ goto(r, "sync ff")
       \/ goto(r, afterSync(r)) /\ upstream.seen \subseteq refs[head]
    /\ UNCHANGED <<repo, run>>
syncAdvanced(r) == pc[r] = "sync advanced" /\ reads(r, "advanced", TRUE, afterSync(r))
afterReturn(r) == IF run[r].advanced THEN "sync rebase" ELSE "running"
intCheckpoint(r) ==
    \/ run[r].dirty /\ gitCheckpoint(r, "int checkpoint", "int upstream")
    \/ /\ ~ run[r].dirty /\ pc[r] = "int checkpoint"
       /\ does(r, "int upstream") /\ UNCHANGED repo
intUpstream(r) ==
    /\ pc[r] = "int upstream"
    /\ does(r, IF tracks(run[r].source) THEN "int fetch" ELSE "int branch")
    /\ UNCHANGED repo
intMerge(r) == pc[r] = "int merge" /\ gitMergeTrackedUpstream(r)

RunStep(r) == preflight(r) \/ edit(r) \/ restoreAutostash(r) \/ finishPreflightCleanup(r) \/ kill(r)

LEMMA RunSteps ==
    ASSUME NEW r \in Runs, RunStep(r)
    PROVE  \/ begin(r)
           \/ gitCreateBranch(r, "allow-dirty", RunBranch(r), "allow-dirty checkpoint")
           \/ gitCheckpoint(r, "allow-dirty checkpoint", "running")
           \/ gitCreateBranch(r, "branch", RunBranch(r), "running")
           \/ preflightClean(r)
           \/ gitAutostash(r)
           \/ resolveStash(r)
           \/ inspect(r, "sync", "sync branch", "sync upstream")
           \/ gitCreateBranch(r, "sync branch", RunBranch(r), "sync checkpoint")
           \/ gitCheckpoint(r, "sync checkpoint", "sync source")
           \/ gitSwitchBranch(r, "sync source", run[r].source, "sync upstream")
           \/ syncUpstream(r)
           \/ gitFetch(r, "sync fetch", "sync compare", "failed")
           \/ syncCompare(r)
           \/ gitFastForward(r, "sync ff", upstream.seen, "sync advanced")
           \/ syncAdvanced(r)
           \/ gitSwitchBranch(r, "sync return", RunBranch(r), afterReturn(r))
           \/ gitRebaseCheckpoint(r)
           \/ gitCreateBranch(r, "sync create", RunBranch(r), "running")
           \/ inspect(r, "integrate", "int create", "int create")
           \/ gitCreateBranch(r, "int create", Candidate(r), "int checkpoint")
           \/ intCheckpoint(r)
           \/ intUpstream(r)
           \/ gitFetch(r, "int fetch", "int merge", "restore")
           \/ intMerge(r)
           \/ abortCandidateMerge(r)
           \/ restoreSource(r)
           \/ gitCreateBranchAt(r, "int branch", RunBranch(r), Candidate(r), "int source")
           \/ gitSwitchBranch(r, "int source", run[r].source, "int ff")
           \/ gitFastForward(r, "int ff", refs[Candidate(r)], "int run")
           \/ gitSwitchBranch(r, "int run", RunBranch(r), "int drop")
           \/ gitDeleteBranch(r, "int drop", Candidate(r), "running")
           \/ edit(r)
           \/ restoreAutostash(r)
           \/ finishPreflightCleanup(r)
           \/ kill(r)
<1>1. CASE gitPrepareSyncedRun(r)
  <2>1. CASE gitFastForwardUpstream(r)
    BY <2>1 DEF gitFastForwardUpstream, syncUpstream, syncCompare, syncAdvanced
  <2> QED BY <1>1, <2>1 DEF gitPrepareSyncedRun, afterReturn
<1>2. CASE gitPrepareIntegratedRun(r)
  <2>1. CASE gitMergeTrackedUpstream(r)
    BY <2>1 DEF gitMergeTrackedUpstream, intUpstream, intMerge
  <2>2. CASE applyCandidate(r)
    BY <2>2 DEF applyCandidate
  <2>3. CASE IF run[r].dirty THEN gitCheckpoint(r, "int checkpoint", "int upstream")
             ELSE pc[r] = "int checkpoint" /\ does(r, "int upstream") /\ UNCHANGED repo
    BY <2>3 DEF intCheckpoint
  <2> QED BY <1>2, <2>1, <2>2, <2>3 DEF gitPrepareIntegratedRun
<1>3. CASE preflightAllowDirty(r) \/ preflightBranch(r)
  BY <1>3 DEF preflightAllowDirty, preflightBranch
<1> QED BY <1>1, <1>2, <1>3 DEF RunStep, preflight

\* A branch of one run is neither the source branch nor that of another run.
LEMMA BranchFacts ==
    /\ Source \in Branches /\ \A r \in Runs : RunBranch(r) \in Branches /\ Candidate(r) \in Branches
    /\ NoBranch \notin Branches
    /\ \A r : Source # RunBranch(r) /\ Source # Candidate(r)
    /\ \A r, q : /\ RunBranch(r) # Candidate(q)
                 /\ r # q => RunBranch(r) # RunBranch(q) /\ Candidate(r) # Candidate(q)
<1>1. \A r : Source # RunBranch(r) /\ Source # Candidate(r)
  BY DEF Source, RunBranch, Candidate
<1>2. \A r, q : /\ RunBranch(r) # Candidate(q)
                /\ r # q => RunBranch(r) # RunBranch(q) /\ Candidate(r) # Candidate(q)
  BY DEF RunBranch, Candidate
<1>3. \A r : NoBranch # Source /\ NoBranch # RunBranch(r) /\ NoBranch # Candidate(r)
  BY DEF NoBranch, Source, RunBranch, Candidate
<1>4. Source \in Branches /\ \A r \in Runs : RunBranch(r) \in Branches /\ Candidate(r) \in Branches
  BY DEF Branches
<1>5. NoBranch \notin Branches
  BY <1>3 DEF Branches
<1> QED BY <1>1, <1>2, <1>4, <1>5

\* One run goes from one label to another.
Moves(r, from, to) ==
    /\ pc[r] = from /\ pc'[r] = to /\ \A q \in Runs \ {r} : pc'[q] = pc[q]
    /\ pc' = [q \in Runs |-> pc'[q]]

\* A command that fails changes nothing.
Fails(r, from, to) == Moves(r, from, to) /\ UNCHANGED <<repo, run>>

LEMMA MoveFacts ==
    ASSUME GitTypeOK, NEW r \in Runs, NEW to, goto(r, to)
    PROVE  Moves(r, pc[r], to)
<1>1. pc = [q \in Runs |-> pc[q]]
  BY DEF GitTypeOK
<1> QED BY <1>1 DEF goto, Moves

LEMMA StashFacts ==
    ASSUME NEW s \in Seq(Entries), NEW e \in Entries
    PROVE  /\ <<e>> \o s \in Seq(Entries)
           /\ DOMAIN (<<e>> \o s) = 1..(Len(s) + 1) /\ DOMAIN s = 1..Len(s) /\ Len(s) \in Nat
           /\ (<<e>> \o s)[1] = e /\ \A i \in DOMAIN s : (<<e>> \o s)[i + 1] = s[i]
<1>1. <<e>> \in Seq(Entries) /\ Len(<<e>>) = 1 /\ <<e>>[1] = e
  OBVIOUS
<1> DEFINE o == <<e>>
<1> HIDE DEF o
<1>2. o \in Seq(Entries) /\ Len(o) = 1 /\ o[1] = e
  BY <1>1 DEF o
<1>3. /\ o \o s \in Seq(Entries) /\ Len(o \o s) = Len(o) + Len(s)
      /\ \A i \in 1..(Len(o) + Len(s)) :
            (o \o s)[i] = IF i <= Len(o) THEN o[i] ELSE s[i - Len(o)]
  BY <1>2, ConcatProperties
<1>4. Len(s) \in Nat /\ DOMAIN s = 1..Len(s)
  OBVIOUS
<1>5. DOMAIN (o \o s) = 1..(Len(s) + 1)
  BY <1>2, <1>3, <1>4
<1>6. (o \o s)[1] = e
  BY <1>2, <1>3, <1>4
<1>7. ASSUME NEW i \in DOMAIN s PROVE (o \o s)[i + 1] = s[i]
  <2>1. i + 1 \in 1..(Len(o) + Len(s)) /\ ~ (i + 1 <= Len(o)) /\ (i + 1) - Len(o) = i
    BY <1>2, <1>4
  <2> QED BY <1>3, <2>1
<1> QED BY <1>3, <1>4, <1>5, <1>6, <1>7 DEF o

Switches(r, from, branch, next) ==
    \/ Fails(r, from, "failed")
    \/ /\ Moves(r, from, next)
       /\ refs[branch] # {}
       /\ head' = branch
       /\ UNCHANGED <<run, refs, upstream, work, unmerged, stash>>
LEMMA SwitchFacts ==
    ASSUME GitTypeOK, NEW r \in Runs, NEW from, NEW branch \in Branches, NEW next,
           gitSwitchBranch(r, from, branch, next)
    PROVE  GitTypeOK' /\ Switches(r, from, branch, next)
<1>1. /\ pc[r] = from
      /\ \/ /\ goto(r, "failed")
            /\ UNCHANGED <<repo, run>>
         \/ /\ goto(r, next)
            /\ refs[branch] # {}
            /\ head' = branch
            /\ UNCHANGED <<run, refs, upstream, work, unmerged, stash>>
  BY DEF gitSwitchBranch, breaks, does, keepRun
<1>2. CASE /\ goto(r, "failed")
           /\ UNCHANGED <<repo, run>>
  <2>1. Moves(r, from, "failed")
    BY <1>1, <1>2, MoveFacts
  <2>2. GitTypeOK'
    BY <1>2, <2>1 DEF GitTypeOK, Moves, repo
  <2> QED BY <1>2, <2>1, <2>2 DEF Fails, Switches
<1>3. CASE /\ goto(r, next)
           /\ refs[branch] # {}
           /\ head' = branch
           /\ UNCHANGED <<run, refs, upstream, work, unmerged, stash>>
  <2>1. Moves(r, from, next)
    BY <1>1, <1>3, MoveFacts
  <2>2. GitTypeOK'
    BY <1>3, <2>1 DEF GitTypeOK, Moves
  <2> QED BY <1>3, <2>1, <2>2 DEF Switches
<1> QED BY <1>1, <1>2, <1>3 DEF Switches

Creates(r, from, branch, next) ==
    \/ Fails(r, from, "failed")
    \/ /\ Moves(r, from, next)
       /\ refs' = [refs EXCEPT ![branch] = refs[head]]
       /\ head' = branch
       /\ UNCHANGED <<run, upstream, work, unmerged, stash>>
LEMMA CreateFacts ==
    ASSUME GitTypeOK, NEW r \in Runs, NEW from, NEW branch \in Branches, NEW next,
           gitCreateBranch(r, from, branch, next)
    PROVE  GitTypeOK' /\ Creates(r, from, branch, next)
<1>1. /\ pc[r] = from
      /\ \/ /\ goto(r, "failed")
            /\ UNCHANGED <<repo, run>>
         \/ /\ goto(r, next)
            /\ refs' = [refs EXCEPT ![branch] = refs[head]]
            /\ head' = branch
            /\ UNCHANGED <<run, upstream, work, unmerged, stash>>
  BY DEF gitCreateBranch, breaks, does, keepRun
<1>2. CASE /\ goto(r, "failed")
           /\ UNCHANGED <<repo, run>>
  <2>1. Moves(r, from, "failed")
    BY <1>1, <1>2, MoveFacts
  <2>2. GitTypeOK'
    BY <1>2, <2>1 DEF GitTypeOK, Moves, repo
  <2> QED BY <1>2, <2>1, <2>2 DEF Fails, Creates
<1>3. CASE /\ goto(r, next)
           /\ refs' = [refs EXCEPT ![branch] = refs[head]]
           /\ head' = branch
           /\ UNCHANGED <<run, upstream, work, unmerged, stash>>
  <2>1. Moves(r, from, next)
    BY <1>1, <1>3, MoveFacts
  <2>2. GitTypeOK'
    BY <1>3, <2>1 DEF GitTypeOK, Moves
  <2> QED BY <1>3, <2>1, <2>2 DEF Creates
<1> QED BY <1>1, <1>2, <1>3 DEF Creates

CreatesAt(r, from, branch, first, next) ==
    \/ Fails(r, from, "restore")
    \/ /\ Moves(r, from, next)
       /\ refs' = [refs EXCEPT ![branch] = refs[first]]
       /\ UNCHANGED <<run, upstream, head, work, unmerged, stash>>
LEMMA CreateAtFacts ==
    ASSUME GitTypeOK, NEW r \in Runs, NEW from,
        NEW branch \in Branches, NEW first \in Branches, NEW next,
           refs[branch] = {}, gitCreateBranchAt(r, from, branch, first, next)
    PROVE  GitTypeOK' /\ CreatesAt(r, from, branch, first, next)
<1>1. /\ pc[r] = from
      /\ \/ /\ goto(r, "restore")
            /\ UNCHANGED <<repo, run>>
         \/ /\ goto(r, next)
            /\ refs' = [refs EXCEPT ![branch] = refs[first]]
            /\ UNCHANGED <<run, upstream, head, work, unmerged, stash>>
  BY DEF gitCreateBranchAt, breaks, does, keepRun
<1>2. CASE /\ goto(r, "restore")
           /\ UNCHANGED <<repo, run>>
  <2>1. Moves(r, from, "restore")
    BY <1>1, <1>2, MoveFacts
  <2>2. GitTypeOK'
    BY <1>2, <2>1 DEF GitTypeOK, Moves, repo
  <2> QED BY <1>2, <2>1, <2>2 DEF Fails, CreatesAt
<1>3. CASE /\ goto(r, next)
           /\ refs' = [refs EXCEPT ![branch] = refs[first]]
           /\ UNCHANGED <<run, upstream, head, work, unmerged, stash>>
  <2>1. Moves(r, from, next)
    BY <1>1, <1>3, MoveFacts
  <2>2. GitTypeOK'
    BY <1>3, <2>1 DEF GitTypeOK, Moves
  <2> QED BY <1>3, <2>1, <2>2 DEF CreatesAt
<1> QED BY <1>1, <1>2, <1>3 DEF CreatesAt

Checkpoints(r, from, next) ==
    \/ Fails(r, from, "failed")
    \/ /\ Moves(r, from, next)
       /\ work = {}
       /\ UNCHANGED <<repo, run>>
    \/ /\ Moves(r, from, next)
       /\ refs' = [refs EXCEPT ![head] = refs[head] \cup work]
       /\ work' = {}
       /\ UNCHANGED <<run, upstream, head, stash>>
    \/ /\ Moves(r, from, "failed")
       /\ refs' = [refs EXCEPT ![head] = refs[head] \cup work]
       /\ work' = {}
       /\ UNCHANGED <<run, upstream, head, stash>>
LEMMA CheckpointFacts ==
    ASSUME GitTypeOK, NEW r \in Runs, NEW from, NEW next,
           gitCheckpoint(r, from, next)
    PROVE  GitTypeOK' /\ Checkpoints(r, from, next)
<1>1. /\ pc[r] = from
      /\ \/ /\ goto(r, "failed")
            /\ UNCHANGED <<repo, run>>
         \/ /\ goto(r, next)
            /\ work = {}
            /\ UNCHANGED <<repo, run>>
         \/ /\ goto(r, next)
            /\ refs' = [refs EXCEPT ![head] = refs[head] \cup work]
            /\ work' = {}
            /\ UNCHANGED <<run, upstream, head, stash>>
         \/ /\ goto(r, "failed")
            /\ refs' = [refs EXCEPT ![head] = refs[head] \cup work]
            /\ work' = {}
            /\ UNCHANGED <<run, upstream, head, stash>>
  BY DEF gitCheckpoint, gitDirty, breaks, does, keepRun
<1>2. CASE /\ goto(r, "failed")
           /\ UNCHANGED <<repo, run>>
  <2>1. Moves(r, from, "failed")
    BY <1>1, <1>2, MoveFacts
  <2>2. GitTypeOK'
    BY <1>2, <2>1 DEF GitTypeOK, Moves, repo
  <2> QED BY <1>2, <2>1, <2>2 DEF Fails, Checkpoints
<1>3. CASE /\ goto(r, next)
           /\ work = {}
           /\ UNCHANGED <<repo, run>>
  <2>1. Moves(r, from, next)
    BY <1>1, <1>3, MoveFacts
  <2>2. GitTypeOK'
    BY <1>3, <2>1 DEF GitTypeOK, Moves, repo
  <2> QED BY <1>3, <2>1, <2>2 DEF Checkpoints
<1>4. CASE /\ goto(r, next)
           /\ refs' = [refs EXCEPT ![head] = refs[head] \cup work]
           /\ work' = {}
           /\ UNCHANGED <<run, upstream, head, stash>>
  <2>1. Moves(r, from, next)
    BY <1>1, <1>4, MoveFacts
  <2>2. GitTypeOK'
    BY <1>4, <2>1 DEF GitTypeOK, Moves, repo
  <2> QED BY <1>4, <2>1, <2>2 DEF Checkpoints
<1>5. CASE /\ goto(r, "failed")
           /\ refs' = [refs EXCEPT ![head] = refs[head] \cup work]
           /\ work' = {}
           /\ UNCHANGED <<run, upstream, head, stash>>
  <2>1. Moves(r, from, "failed")
    BY <1>1, <1>5, MoveFacts
  <2>2. GitTypeOK'
    BY <1>5, <2>1 DEF GitTypeOK, Moves, repo
  <2> QED BY <1>5, <2>1, <2>2 DEF Checkpoints
<1> QED BY <1>1, <1>2, <1>3, <1>4, <1>5 DEF Checkpoints

Forwards(r, from, target, next) ==
    \/ Fails(r, from, "failed")
    \/ /\ Moves(r, from, next)
       /\ refs[head] \subseteq target
       /\ refs' = [refs EXCEPT ![head] = target]
       /\ UNCHANGED <<run, upstream, head, work, unmerged, stash>>
LEMMA ForwardFacts ==
    ASSUME GitTypeOK, NEW r \in Runs, NEW from, NEW target \in SUBSET Changes, NEW next,
           gitFastForward(r, from, target, next)
    PROVE  GitTypeOK' /\ Forwards(r, from, target, next)
<1>1. /\ pc[r] = from
      /\ \/ /\ goto(r, "failed")
            /\ UNCHANGED <<repo, run>>
         \/ /\ goto(r, next)
            /\ refs[head] \subseteq target
            /\ refs' = [refs EXCEPT ![head] = target]
            /\ UNCHANGED <<run, upstream, head, work, unmerged, stash>>
  BY DEF gitFastForward, breaks, does, keepRun
<1>2. CASE /\ goto(r, "failed")
           /\ UNCHANGED <<repo, run>>
  <2>1. Moves(r, from, "failed")
    BY <1>1, <1>2, MoveFacts
  <2>2. GitTypeOK'
    BY <1>2, <2>1 DEF GitTypeOK, Moves, repo
  <2> QED BY <1>2, <2>1, <2>2 DEF Fails, Forwards
<1>3. CASE /\ goto(r, next)
           /\ refs[head] \subseteq target
           /\ refs' = [refs EXCEPT ![head] = target]
           /\ UNCHANGED <<run, upstream, head, work, unmerged, stash>>
  <2>1. Moves(r, from, next)
    BY <1>1, <1>3, MoveFacts
  <2>2. GitTypeOK'
    BY <1>3, <2>1 DEF GitTypeOK, Moves
  <2> QED BY <1>3, <2>1, <2>2 DEF Forwards
<1> QED BY <1>1, <1>2, <1>3 DEF Forwards

Fetches(r, from, next, otherwise) ==
    \/ Fails(r, from, otherwise)
    \/ /\ Moves(r, from, next)
       /\ upstream' = [upstream EXCEPT !.seen = upstream.is]
       /\ UNCHANGED <<run, refs, head, work, unmerged, stash>>
LEMMA FetchFacts ==
    ASSUME GitTypeOK, NEW r \in Runs, NEW from, NEW next, NEW otherwise,
           gitFetch(r, from, next, otherwise)
    PROVE  GitTypeOK' /\ Fetches(r, from, next, otherwise)
<1>1. /\ pc[r] = from
      /\ \/ /\ goto(r, otherwise)
            /\ UNCHANGED <<repo, run>>
         \/ /\ goto(r, next)
            /\ upstream' = [upstream EXCEPT !.seen = upstream.is]
            /\ UNCHANGED <<run, refs, head, work, unmerged, stash>>
  BY DEF gitFetch, breaks, does, keepRun
<1>2. CASE /\ goto(r, otherwise)
           /\ UNCHANGED <<repo, run>>
  <2>1. Moves(r, from, otherwise)
    BY <1>1, <1>2, MoveFacts
  <2>2. GitTypeOK'
    BY <1>2, <2>1 DEF GitTypeOK, Moves, repo
  <2> QED BY <1>2, <2>1, <2>2 DEF Fails, Fetches
<1>3. CASE /\ goto(r, next)
           /\ upstream' = [upstream EXCEPT !.seen = upstream.is]
           /\ UNCHANGED <<run, refs, head, work, unmerged, stash>>
  <2>1. Moves(r, from, next)
    BY <1>1, <1>3, MoveFacts
  <2>2. GitTypeOK'
    BY <1>3, <2>1 DEF GitTypeOK, Moves
  <2> QED BY <1>3, <2>1, <2>2 DEF Fetches
<1> QED BY <1>1, <1>2, <1>3 DEF Fetches

Deletes(r, from, branch, next) ==
    \/ Fails(r, from, "failed")
    \/ /\ Moves(r, from, next)
       /\ branch # head
       /\ refs[branch] \subseteq refs[head]
       /\ refs' = [refs EXCEPT ![branch] = {}]
       /\ UNCHANGED <<run, upstream, head, work, unmerged, stash>>
LEMMA DeleteFacts ==
    ASSUME GitTypeOK, NEW r \in Runs, NEW from, NEW branch \in Branches, NEW next,
           gitDeleteBranch(r, from, branch, next)
    PROVE  GitTypeOK' /\ Deletes(r, from, branch, next)
<1>1. /\ pc[r] = from
      /\ \/ /\ goto(r, "failed")
            /\ UNCHANGED <<repo, run>>
         \/ /\ goto(r, next)
            /\ branch # head
            /\ refs[branch] \subseteq refs[head]
            /\ refs' = [refs EXCEPT ![branch] = {}]
            /\ UNCHANGED <<run, upstream, head, work, unmerged, stash>>
  BY DEF gitDeleteBranch, breaks, does, keepRun
<1>2. CASE /\ goto(r, "failed")
           /\ UNCHANGED <<repo, run>>
  <2>1. Moves(r, from, "failed")
    BY <1>1, <1>2, MoveFacts
  <2>2. GitTypeOK'
    BY <1>2, <2>1 DEF GitTypeOK, Moves, repo
  <2> QED BY <1>2, <2>1, <2>2 DEF Fails, Deletes
<1>3. CASE /\ goto(r, next)
           /\ branch # head
           /\ refs[branch] \subseteq refs[head]
           /\ refs' = [refs EXCEPT ![branch] = {}]
           /\ UNCHANGED <<run, upstream, head, work, unmerged, stash>>
  <2>1. Moves(r, from, next)
    BY <1>1, <1>3, MoveFacts
  <2>2. GitTypeOK'
    BY <1>3, <2>1 DEF GitTypeOK, Moves
  <2> QED BY <1>3, <2>1, <2>2 DEF Deletes
<1> QED BY <1>1, <1>2, <1>3 DEF Deletes

Inspects(r, policy, ifDirty, ifClean) ==
    \/ Fails(r, policy, "failed")
    \/ /\ Moves(r, policy, IF work # {} THEN ifDirty ELSE ifClean)
       /\ run' = [run EXCEPT ![r].source = head, ![r].dirty = (work # {})]
       /\ UNCHANGED <<repo>>
LEMMA InspectFacts ==
    ASSUME GitTypeOK, NEW r \in Runs, NEW policy, NEW ifDirty, NEW ifClean,
           inspect(r, policy, ifDirty, ifClean)
    PROVE  GitTypeOK' /\ Inspects(r, policy, ifDirty, ifClean)
<1>1. /\ pc[r] = policy
      /\ \/ /\ goto(r, "failed")
            /\ UNCHANGED <<repo, run>>
         \/ /\ goto(r, IF work # {} THEN ifDirty ELSE ifClean)
            /\ run' = [run EXCEPT ![r].source = head, ![r].dirty = (work # {})]
            /\ UNCHANGED <<repo>>
  BY DEF inspect, gitDirty, repo, breaks, does, keepRun
<1>t. ASSUME run' = [run EXCEPT ![r].source = head, ![r].dirty = (work # {})]
      PROVE  /\ run' \in [Runs -> RunRecords]
             /\ run'[r].source = head /\ run'[r].dirty = (work # {})
             /\ UNCHANGED <<run[r].policy, run[r].stashed, run[r].recovery, run[r].found,
                            run[r].foundWork>>
             /\ \A q \in Runs \ {r} : run'[q] = run[q]
  BY ZenonT(60), <1>t DEF GitTypeOK, RunRecords
<1>2. CASE /\ goto(r, "failed")
           /\ UNCHANGED <<repo, run>>
  <2>1. Moves(r, policy, "failed")
    BY <1>1, <1>2, MoveFacts
  <2>2. GitTypeOK'
    BY <1>2, <2>1 DEF GitTypeOK, Moves, repo
  <2> QED BY <1>2, <2>1, <2>2 DEF Fails, Inspects
<1>3. CASE /\ goto(r, IF work # {} THEN ifDirty ELSE ifClean)
           /\ run' = [run EXCEPT ![r].source = head, ![r].dirty = (work # {})]
           /\ UNCHANGED <<repo>>
  <2>1. Moves(r, policy, IF work # {} THEN ifDirty ELSE ifClean)
    BY <1>1, <1>3, MoveFacts
  <2>2. GitTypeOK'
    BY <1>3, <2>1, <1>t DEF GitTypeOK, Moves, repo
  <2> QED BY <1>3, <2>1, <2>2 DEF Inspects
<1> QED BY <1>1, <1>2, <1>3 DEF Inspects

LEMMA AutostashFacts ==
    ASSUME GitTypeOK, NEW r \in Runs,
           gitAutostash(r)
    PROVE  /\ GitTypeOK'
           /\ \/ Fails(r, "autostash", "failed")
              \/ /\ Moves(r, "autostash", "running")
                 /\ work = {}
                 /\ UNCHANGED <<repo, run>>
              \/ /\ Moves(r, "autostash", "stashed")
                 /\ stash' = <<[by |-> r, holds |-> work]>> \o stash
                 /\ work' = {}
                 /\ UNCHANGED <<run, refs, upstream, head>>
<1>1. /\ pc[r] = "autostash"
      /\ \/ /\ goto(r, "failed")
            /\ UNCHANGED <<repo, run>>
         \/ /\ goto(r, "running")
            /\ work = {}
            /\ UNCHANGED <<repo, run>>
         \/ /\ goto(r, "stashed")
            /\ stash' = <<[by |-> r, holds |-> work]>> \o stash
            /\ work' = {}
            /\ UNCHANGED <<run, refs, upstream, head>>
  BY DEF gitAutostash, gitDirty, breaks, does, keepRun
<1>t. ASSUME stash' = <<[by |-> r, holds |-> work]>> \o stash PROVE stash' \in Seq(Entries)
  <2>1. [by |-> r, holds |-> work] \in Entries /\ stash \in Seq(Entries)
    BY DEF GitTypeOK, Entries
  <2> QED BY <1>t, <2>1, StashFacts
<1>2. CASE /\ goto(r, "failed")
           /\ UNCHANGED <<repo, run>>
  <2>1. Moves(r, "autostash", "failed")
    BY <1>1, <1>2, MoveFacts
  <2>2. GitTypeOK'
    BY <1>2, <2>1 DEF GitTypeOK, Moves, repo
  <2> QED BY <1>2, <2>1, <2>2 DEF Fails
<1>3. CASE /\ goto(r, "running")
           /\ work = {}
           /\ UNCHANGED <<repo, run>>
  <2>1. Moves(r, "autostash", "running")
    BY <1>1, <1>3, MoveFacts
  <2>2. GitTypeOK'
    BY <1>3, <2>1, <1>t DEF GitTypeOK, Moves, repo
  <2> QED BY <1>3, <2>1, <2>2
<1>4. CASE /\ goto(r, "stashed")
           /\ stash' = <<[by |-> r, holds |-> work]>> \o stash
           /\ work' = {}
           /\ UNCHANGED <<run, refs, upstream, head>>
  <2>1. Moves(r, "autostash", "stashed")
    BY <1>1, <1>4, MoveFacts
  <2>2. GitTypeOK'
    BY <1>4, <2>1, <1>t DEF GitTypeOK, Moves, repo
  <2> QED BY <1>4, <2>1, <2>2
<1> QED BY <1>1, <1>2, <1>3, <1>4

LEMMA ResolveFacts ==
    ASSUME GitTypeOK, NEW r \in Runs,
           resolveStash(r)
    PROVE  /\ GitTypeOK'
           /\ \/ Fails(r, "stashed", "failed")
              \/ /\ Moves(r, "stashed", "running")
                 /\ run' = [run EXCEPT ![r].stashed = TRUE]
                 /\ UNCHANGED <<repo>>
<1>1. /\ pc[r] = "stashed"
      /\ \/ /\ goto(r, "failed")
            /\ UNCHANGED <<repo, run>>
         \/ /\ goto(r, "running")
            /\ run' = [run EXCEPT ![r].stashed = TRUE]
            /\ UNCHANGED <<repo>>
  BY DEF resolveStash, reads, breaks, does, keepRun
<1>t. ASSUME run' = [run EXCEPT ![r].stashed = TRUE]
      PROVE  run' \in [Runs -> RunRecords]
  BY ZenonT(60), <1>t DEF GitTypeOK, RunRecords
<1>2. CASE /\ goto(r, "failed")
           /\ UNCHANGED <<repo, run>>
  <2>1. Moves(r, "stashed", "failed")
    BY <1>1, <1>2, MoveFacts
  <2>2. GitTypeOK'
    BY <1>2, <2>1 DEF GitTypeOK, Moves, repo
  <2> QED BY <1>2, <2>1, <2>2 DEF Fails
<1>3. CASE /\ goto(r, "running")
           /\ run' = [run EXCEPT ![r].stashed = TRUE]
           /\ UNCHANGED <<repo>>
  <2>1. Moves(r, "stashed", "running")
    BY <1>1, <1>3, MoveFacts
  <2>2. GitTypeOK'
    BY <1>3, <2>1, <1>t DEF GitTypeOK, Moves, repo
  <2> QED BY <1>3, <2>1, <2>2
<1> QED BY <1>1, <1>2, <1>3

LEMMA AdvancedFacts ==
    ASSUME GitTypeOK, NEW r \in Runs,
           syncAdvanced(r)
    PROVE  /\ GitTypeOK'
           /\ Moves(r, "sync advanced", afterSync(r))
           /\ run' = [run EXCEPT ![r].advanced = TRUE]
           /\ UNCHANGED <<repo>>
<1>1. /\ pc[r] = "sync advanced"
      /\ goto(r, afterSync(r))
      /\ run' = [run EXCEPT ![r].advanced = TRUE]
      /\ UNCHANGED <<repo>>
  BY DEF syncAdvanced, reads
<1>t. ASSUME run' = [run EXCEPT ![r].advanced = TRUE]
      PROVE  run' \in [Runs -> RunRecords]
  BY ZenonT(60), <1>t DEF GitTypeOK, RunRecords
<1>2. CASE /\ goto(r, afterSync(r))
           /\ run' = [run EXCEPT ![r].advanced = TRUE]
           /\ UNCHANGED <<repo>>
  <2>1. Moves(r, "sync advanced", afterSync(r))
    BY <1>1, <1>2, MoveFacts
  <2>2. GitTypeOK'
    BY <1>2, <2>1, <1>t DEF GitTypeOK, Moves, repo
  <2> QED BY <1>2, <2>1, <2>2
<1> QED BY <1>1, <1>2

LEMMA RebaseFacts ==
    ASSUME GitTypeOK, NEW r \in Runs,
           run[r].source \in Branches, gitRebaseCheckpoint(r)
    PROVE  /\ GitTypeOK'
           /\ \/ Fails(r, "sync rebase", "restore")
              \/ /\ Moves(r, "sync rebase", "failed")
                 /\ UNCHANGED <<run, refs, upstream, head, work, stash>>
              \/ /\ Moves(r, "sync rebase", "running")
                 /\ refs' = [refs EXCEPT ![head] = refs[head] \cup refs[run[r].source]]
                 /\ UNCHANGED <<run, upstream, head, work, stash>>
<1>1. /\ pc[r] = "sync rebase"
      /\ \/ /\ goto(r, "restore")
            /\ UNCHANGED <<repo, run>>
         \/ /\ goto(r, "failed")
            /\ UNCHANGED <<run, refs, upstream, head, work, stash>>
         \/ /\ goto(r, "running")
            /\ refs' = [refs EXCEPT ![head] = refs[head] \cup refs[run[r].source]]
            /\ UNCHANGED <<run, upstream, head, work, stash>>
  BY DEF gitRebaseCheckpoint, breaks, does, keepRun, repo
<1>2. CASE /\ goto(r, "restore")
           /\ UNCHANGED <<repo, run>>
  <2>1. Moves(r, "sync rebase", "restore")
    BY <1>1, <1>2, MoveFacts
  <2>2. GitTypeOK'
    BY <1>2, <2>1 DEF GitTypeOK, Moves, repo
  <2> QED BY <1>2, <2>1, <2>2 DEF Fails
<1>3. CASE /\ goto(r, "failed")
           /\ UNCHANGED <<run, refs, upstream, head, work, stash>>
  <2>1. Moves(r, "sync rebase", "failed")
    BY <1>1, <1>3, MoveFacts
  <2>2. GitTypeOK'
    BY <1>3, <2>1 DEF GitTypeOK, Moves
  <2> QED BY <1>3, <2>1, <2>2
<1>4. CASE /\ goto(r, "running")
           /\ refs' = [refs EXCEPT ![head] = refs[head] \cup refs[run[r].source]]
           /\ UNCHANGED <<run, upstream, head, work, stash>>
  <2>1. Moves(r, "sync rebase", "running")
    BY <1>1, <1>4, MoveFacts
  <2>2. GitTypeOK'
    BY <1>4, <2>1 DEF GitTypeOK, Moves
  <2> QED BY <1>4, <2>1, <2>2
<1> QED BY <1>1, <1>2, <1>3, <1>4

LEMMA MergeFacts ==
    ASSUME GitTypeOK, NEW r \in Runs,
           intMerge(r)
    PROVE  /\ GitTypeOK'
           /\ \/ Fails(r, "int merge", "restore")
              \/ Fails(r, "int merge", "int branch") /\ upstream.seen \subseteq refs[run[r].source]
              \/ /\ Moves(r, "int merge", "int abort")
                 /\ UNCHANGED <<run, refs, upstream, head, work, stash>>
              \/ /\ Moves(r, "int merge", "int branch")
                 /\ refs' = [refs EXCEPT ![head] = refs[head] \cup upstream.seen]
                 /\ UNCHANGED <<run, upstream, head, work, stash>>
<1>1. /\ pc[r] = "int merge"
      /\ \/ /\ goto(r, "restore")
            /\ UNCHANGED <<repo, run>>
         \/ /\ goto(r, "int branch") /\ upstream.seen \subseteq refs[run[r].source]
            /\ UNCHANGED <<repo, run>>
         \/ /\ goto(r, "int abort")
            /\ UNCHANGED <<run, refs, upstream, head, work, stash>>
         \/ /\ goto(r, "int branch")
            /\ refs' = [refs EXCEPT ![head] = refs[head] \cup upstream.seen]
            /\ UNCHANGED <<run, upstream, head, work, stash>>
  BY DEF intMerge, gitMergeTrackedUpstream, gitFetch, breaks, does, keepRun
<1>2. CASE /\ goto(r, "restore")
           /\ UNCHANGED <<repo, run>>
  <2>1. Moves(r, "int merge", "restore")
    BY <1>1, <1>2, MoveFacts
  <2>2. GitTypeOK'
    BY <1>2, <2>1 DEF GitTypeOK, Moves, repo
  <2> QED BY <1>2, <2>1, <2>2 DEF Fails
<1>3. CASE /\ goto(r, "int branch") /\ upstream.seen \subseteq refs[run[r].source]
           /\ UNCHANGED <<repo, run>>
  <2>1. Moves(r, "int merge", "int branch")
    BY <1>1, <1>3, MoveFacts
  <2>2. GitTypeOK'
    BY <1>3, <2>1 DEF GitTypeOK, Moves, repo
  <2> QED BY <1>3, <2>1, <2>2 DEF Fails
<1>4. CASE /\ goto(r, "int abort")
           /\ UNCHANGED <<run, refs, upstream, head, work, stash>>
  <2>1. Moves(r, "int merge", "int abort")
    BY <1>1, <1>4, MoveFacts
  <2>2. GitTypeOK'
    BY <1>4, <2>1 DEF GitTypeOK, Moves
  <2> QED BY <1>4, <2>1, <2>2
<1>5. CASE /\ goto(r, "int branch")
           /\ refs' = [refs EXCEPT ![head] = refs[head] \cup upstream.seen]
           /\ UNCHANGED <<run, upstream, head, work, stash>>
  <2>1. Moves(r, "int merge", "int branch")
    BY <1>1, <1>5, MoveFacts
  <2>2. GitTypeOK'
    BY <1>5, <2>1 DEF GitTypeOK, Moves
  <2> QED BY <1>5, <2>1, <2>2
<1> QED BY <1>1, <1>2, <1>3, <1>4, <1>5

LEMMA AbortFacts ==
    ASSUME GitTypeOK, NEW r \in Runs,
           abortCandidateMerge(r)
    PROVE  /\ GitTypeOK'
           /\ \/ /\ Moves(r, "int abort", "restore")
                 /\ UNCHANGED <<run, refs, upstream, head, work, stash>>
              \/ /\ Moves(r, "int abort", "failed")
                 /\ UNCHANGED <<run, refs, upstream, head, work, stash>>
<1>1. /\ pc[r] = "int abort"
      /\ \/ /\ goto(r, "restore")
            /\ UNCHANGED <<run, refs, upstream, head, work, stash>>
         \/ /\ goto(r, "failed")
            /\ UNCHANGED <<run, refs, upstream, head, work, stash>>
  BY DEF abortCandidateMerge, repo, breaks, does, keepRun
<1>2. CASE /\ goto(r, "restore")
           /\ UNCHANGED <<run, refs, upstream, head, work, stash>>
  <2>1. Moves(r, "int abort", "restore")
    BY <1>1, <1>2, MoveFacts
  <2>2. GitTypeOK'
    BY <1>2, <2>1 DEF GitTypeOK, Moves
  <2> QED BY <1>2, <2>1, <2>2
<1>3. CASE /\ goto(r, "failed")
           /\ UNCHANGED <<run, refs, upstream, head, work, stash>>
  <2>1. Moves(r, "int abort", "failed")
    BY <1>1, <1>3, MoveFacts
  <2>2. GitTypeOK'
    BY <1>3, <2>1 DEF GitTypeOK, Moves
  <2> QED BY <1>3, <2>1, <2>2
<1> QED BY <1>1, <1>2, <1>3

LEMMA EditFacts ==
    ASSUME GitTypeOK, NEW r \in Runs,
           edit(r)
    PROVE  /\ GitTypeOK'
           /\ Moves(r, "running", "cleanup")
           /\ \E made \in SUBSET {Edit(r)} : work' = work \cup made
           /\ UNCHANGED <<run, refs, upstream, head, stash>>
<1>1. /\ pc[r] = "running"
      /\ goto(r, "cleanup")
      /\ \E made \in SUBSET {Edit(r)} : work' = work \cup made
      /\ UNCHANGED <<run, refs, upstream, head, stash>>
  BY DEF edit, does, keepRun
<1>t. ASSUME NEW made \in SUBSET {Edit(r)}, work' = work \cup made PROVE work' \in SUBSET Changes
  BY <1>t DEF GitTypeOK, Changes
<1>2. CASE /\ goto(r, "cleanup")
           /\ \E made \in SUBSET {Edit(r)} : work' = work \cup made
           /\ UNCHANGED <<run, refs, upstream, head, stash>>
  <2>1. Moves(r, "running", "cleanup")
    BY <1>1, <1>2, MoveFacts
  <2>2. GitTypeOK'
    BY <1>2, <2>1, <1>t DEF GitTypeOK, Moves
  <2> QED BY <1>2, <2>1, <2>2
<1> QED BY <1>1, <1>2

LEMMA CleanupFacts ==
    ASSUME GitTypeOK, NEW r \in Runs,
           restoreAutostash(r)
    PROVE  /\ GitTypeOK'
           /\ \/ /\ Moves(r, "cleanup", "ended")
                 /\ ~ run[r].stashed
                 /\ UNCHANGED <<run, refs, upstream, head, stash, work>>
              \/ /\ Moves(r, "cleanup", "ended")
                 /\ run[r].stashed
                 /\ \E i \in entriesOf(r) : work' = work \cup stash[i].holds
                 /\ UNCHANGED <<run, refs, upstream, head, stash>>
              \/ /\ Moves(r, "cleanup", "cleanup failed")
                 /\ run[r].stashed
                 /\ UNCHANGED <<run, refs, upstream, head, stash, work>>
<1>1. /\ pc[r] = "cleanup"
      /\ \/ /\ goto(r, "ended")
            /\ ~ run[r].stashed
            /\ UNCHANGED <<run, refs, upstream, head, stash, work>>
         \/ /\ goto(r, "ended")
            /\ run[r].stashed
            /\ \E i \in entriesOf(r) : work' = work \cup stash[i].holds
            /\ UNCHANGED <<run, refs, upstream, head, stash>>
         \/ /\ goto(r, "cleanup failed")
            /\ run[r].stashed
            /\ UNCHANGED <<run, refs, upstream, head, stash, work>>
  BY DEF restoreAutostash, repo, does, keepRun
<1>t. ASSUME NEW i \in entriesOf(r), work' = work \cup stash[i].holds PROVE work' \in SUBSET Changes
  <2>1. stash[i] \in Entries
    BY DEF GitTypeOK, entriesOf
  <2> QED BY <1>t, <2>1 DEF GitTypeOK, Entries
<1>2. CASE /\ goto(r, "ended")
           /\ ~ run[r].stashed
           /\ UNCHANGED <<run, refs, upstream, head, stash, work>>
  <2>1. Moves(r, "cleanup", "ended")
    BY <1>1, <1>2, MoveFacts
  <2>2. GitTypeOK'
    BY <1>2, <2>1, <1>t DEF GitTypeOK, Moves
  <2> QED BY <1>2, <2>1, <2>2
<1>3. CASE /\ goto(r, "ended")
           /\ run[r].stashed
           /\ \E i \in entriesOf(r) : work' = work \cup stash[i].holds
           /\ UNCHANGED <<run, refs, upstream, head, stash>>
  <2>1. Moves(r, "cleanup", "ended")
    BY <1>1, <1>3, MoveFacts
  <2>2. GitTypeOK'
    BY <1>3, <2>1, <1>t DEF GitTypeOK, Moves
  <2> QED BY <1>3, <2>1, <2>2
<1>4. CASE /\ goto(r, "cleanup failed")
           /\ run[r].stashed
           /\ UNCHANGED <<run, refs, upstream, head, stash, work>>
  <2>1. Moves(r, "cleanup", "cleanup failed")
    BY <1>1, <1>4, MoveFacts
  <2>2. GitTypeOK'
    BY <1>4, <2>1, <1>t DEF GitTypeOK, Moves
  <2> QED BY <1>4, <2>1, <2>2
<1> QED BY <1>1, <1>2, <1>3, <1>4

LEMMA FinishFacts ==
    ASSUME GitTypeOK, NEW r \in Runs,
           finishPreflightCleanup(r)
    PROVE  /\ GitTypeOK'
           /\ Moves(r, "cleanup failed", "failed")
           /\ run' = [run EXCEPT ![r].recovery = TRUE]
           /\ UNCHANGED <<repo>>
<1>1. /\ pc[r] = "cleanup failed"
      /\ goto(r, "failed")
      /\ run' = [run EXCEPT ![r].recovery = TRUE]
      /\ UNCHANGED <<repo>>
  BY DEF finishPreflightCleanup, reads
<1>t. ASSUME run' = [run EXCEPT ![r].recovery = TRUE]
      PROVE  run' \in [Runs -> RunRecords]
  BY ZenonT(60), <1>t DEF GitTypeOK, RunRecords
<1>2. CASE /\ goto(r, "failed")
           /\ run' = [run EXCEPT ![r].recovery = TRUE]
           /\ UNCHANGED <<repo>>
  <2>1. Moves(r, "cleanup failed", "failed")
    BY <1>1, <1>2, MoveFacts
  <2>2. GitTypeOK'
    BY <1>2, <2>1, <1>t DEF GitTypeOK, Moves, repo
  <2> QED BY <1>2, <2>1, <2>2
<1> QED BY <1>1, <1>2

LEMMA KillFacts ==
    ASSUME GitTypeOK, NEW r \in Runs, kill(r)
    PROVE  GitTypeOK' /\ pc[r] \notin {"new", "failed", "ended", "killed"}
        /\ Fails(r, pc[r], "killed")
<1>1. pc[r] \notin {"new", "failed", "ended", "killed"}
     /\ goto(r, "killed") /\ UNCHANGED <<repo, run>>
  BY DEF kill
<1>2. Moves(r, pc[r], "killed")
  BY <1>1, MoveFacts
<1>3. GitTypeOK'
  BY <1>1, <1>2 DEF GitTypeOK, Moves, repo
<1> QED BY <1>1, <1>2, <1>3 DEF Fails

-----------------------------------------------------------------------------
(* The worktree: types and labels *)

\* What the label of a run says about what it has read.
Labelled(r) ==
    /\ pc[r] = "new" => run[r].source = NoBranch
    /\ pc[r] \in SyncLabels \cup IntLabels \cup {"restore"} => run[r].source \in Branches
    /\ pc[r] \in {"new", "stashed", "restore", "allow-dirty checkpoint"}
         \cup KnownPolicies \cup SyncLabels
                    \cup IntLabels => ~ run[r].stashed
    /\ pc[r] \in KnownPolicies => pc[r] = run[r].policy
    /\ pc[r] \in SyncLabels => run[r].policy = "sync"
    /\ pc[r] \in IntLabels => run[r].policy = "integrate"
    /\ pc[r] \in {"sync branch", "sync checkpoint", "sync source", "sync return"} => run[r].dirty
    /\ pc[r] = "sync create" => ~ run[r].dirty
    /\ pc[r] = "cleanup failed" => run[r].stashed
    /\ run[r].recovery => pc[r] = "failed" /\ run[r].stashed

LEMMA BeginFacts ==
    ASSUME GitTypeOK, NEW r \in Runs, begin(r)
    PROVE  /\ GitTypeOK' /\ Moves(r, "new", run[r].policy) /\ UNCHANGED repo
           /\ run'[r].found = refs[head] /\ run'[r].foundWork = work
           /\ \A q \in Runs : UNCHANGED <<run[q].policy, run[q].source, run[q].dirty,
                                          run[q].advanced, run[q].stashed, run[q].recovery>>
           /\ \A q \in Runs \ {r} : UNCHANGED <<run[q].found, run[q].foundWork>>
<1>1. run \in [Runs -> RunRecords] /\ refs[head] \in SUBSET Changes /\ work \in SUBSET Changes
  BY DEF GitTypeOK
<1> DEFINE mine == [run[r] EXCEPT !.alone = ~Overlaps(r), !.found = refs[head], !.foundWork = work]
           its(q) == [run[q] EXCEPT !.alone = run[q].alone
                                               /\ pc[q] \in {"new", "failed", "ended", "killed"}]
<1>2. run' = [q \in Runs |-> IF q = r THEN mine ELSE its(q)]
  BY DEF begin
<1>3. Overlaps(r) \in BOOLEAN
  BY DEF Overlaps
<1>4. run[r] \in RunRecords
  BY <1>1
<1>5. /\ mine \in RunRecords /\ mine.found = refs[head] /\ mine.foundWork = work
      /\ mine.policy = run[r].policy /\ mine.source = run[r].source
      /\ mine.dirty = run[r].dirty /\ mine.advanced = run[r].advanced
      /\ mine.stashed = run[r].stashed /\ mine.recovery = run[r].recovery
  BY <1>1, <1>3, <1>4 DEF RunRecords
<1>6. ASSUME NEW q \in Runs
      PROVE  /\ its(q) \in RunRecords
             /\ its(q).policy = run[q].policy /\ its(q).source = run[q].source
             /\ its(q).dirty = run[q].dirty /\ its(q).advanced = run[q].advanced
             /\ its(q).stashed = run[q].stashed /\ its(q).recovery = run[q].recovery
             /\ its(q).found = run[q].found /\ its(q).foundWork = run[q].foundWork
  <2>1. run[q] \in RunRecords
    BY <1>1
  <2>2. (run[q].alone /\ pc[q] \in {"new", "failed", "ended", "killed"}) \in BOOLEAN
    OBVIOUS
  <2> QED BY <2>1, <2>2 DEF RunRecords
<1> HIDE DEF mine, its
<1>7. pc[r] = "new" /\ goto(r, run[r].policy) /\ UNCHANGED repo
  BY DEF begin
<1>8. Moves(r, "new", run[r].policy)
  BY <1>7, MoveFacts
<1>9. run' \in [Runs -> RunRecords]
  BY <1>2, <1>5, <1>6
<1>10. GitTypeOK'
  BY <1>7, <1>8, <1>9 DEF GitTypeOK, Moves, repo
<1>11. \A q \in Runs : run'[q] = IF q = r THEN mine ELSE its(q)
  BY <1>2
<1> QED BY <1>5, <1>6, <1>7, <1>8, <1>10, <1>11

LEMMA CleanFacts ==
    ASSUME GitTypeOK, NEW r \in Runs,
           preflightClean(r)
    PROVE  /\ GitTypeOK'
           /\ \/ Fails(r, "clean", "failed")
              \/ /\ Moves(r, "clean", "running")
                 /\ work = {}
                 /\ UNCHANGED <<repo, run>>
<1>1. /\ pc[r] = "clean"
      /\ \/ /\ goto(r, "failed")
            /\ UNCHANGED <<repo, run>>
         \/ /\ goto(r, "running")
            /\ work = {}
            /\ UNCHANGED <<repo, run>>
  BY DEF preflightClean, gitDirty, repo
<1>2. CASE /\ goto(r, "failed")
           /\ UNCHANGED <<repo, run>>
  <2>1. Moves(r, "clean", "failed")
    BY <1>1, <1>2, MoveFacts
  <2>2. GitTypeOK'
    BY <1>2, <2>1 DEF GitTypeOK, Moves, repo
  <2> QED BY <1>2, <2>1, <2>2 DEF Fails
<1>3. CASE /\ goto(r, "running")
           /\ work = {}
           /\ UNCHANGED <<repo, run>>
  <2>1. Moves(r, "clean", "running")
    BY <1>1, <1>3, MoveFacts
  <2>2. GitTypeOK'
    BY <1>3, <2>1 DEF GitTypeOK, Moves, repo
  <2> QED BY <1>3, <2>1, <2>2
<1> QED BY <1>1, <1>2, <1>3

LEMMA UpstreamFacts ==
    ASSUME GitTypeOK, NEW r \in Runs,
           syncUpstream(r)
    PROVE  /\ GitTypeOK'
           /\ \/ Fails(r, "sync upstream", "sync fetch")
              \/ Fails(r, "sync upstream", afterSync(r)) /\ ~ tracks(run[r].source)
<1>1. /\ pc[r] = "sync upstream"
      /\ \/ /\ goto(r, "sync fetch")
            /\ UNCHANGED <<repo, run>>
         \/ /\ goto(r, afterSync(r)) /\ ~ tracks(run[r].source)
            /\ UNCHANGED <<repo, run>>
  BY DEF syncUpstream, does, keepRun
<1>2. CASE /\ goto(r, "sync fetch")
           /\ UNCHANGED <<repo, run>>
  <2>1. Moves(r, "sync upstream", "sync fetch")
    BY <1>1, <1>2, MoveFacts
  <2>2. GitTypeOK'
    BY <1>2, <2>1 DEF GitTypeOK, Moves, repo
  <2> QED BY <1>2, <2>1, <2>2 DEF Fails
<1>3. CASE /\ goto(r, afterSync(r)) /\ ~ tracks(run[r].source)
           /\ UNCHANGED <<repo, run>>
  <2>1. Moves(r, "sync upstream", afterSync(r))
    BY <1>1, <1>3, MoveFacts
  <2>2. GitTypeOK'
    BY <1>3, <2>1 DEF GitTypeOK, Moves, repo
  <2> QED BY <1>3, <2>1, <2>2 DEF Fails
<1> QED BY <1>1, <1>2, <1>3

LEMMA CompareFacts ==
    ASSUME GitTypeOK, NEW r \in Runs,
           syncCompare(r)
    PROVE  /\ GitTypeOK'
           /\ \/ Fails(r, "sync compare", "failed")
              \/ Fails(r, "sync compare", "sync ff")
              \/ Fails(r, "sync compare", afterSync(r)) /\ upstream.seen \subseteq refs[head]
<1>1. /\ pc[r] = "sync compare"
      /\ \/ /\ goto(r, "failed")
            /\ UNCHANGED <<repo, run>>
         \/ /\ goto(r, "sync ff")
            /\ UNCHANGED <<repo, run>>
         \/ /\ goto(r, afterSync(r)) /\ upstream.seen \subseteq refs[head]
            /\ UNCHANGED <<repo, run>>
  BY DEF syncCompare, does, keepRun
<1>2. CASE /\ goto(r, "failed")
           /\ UNCHANGED <<repo, run>>
  <2>1. Moves(r, "sync compare", "failed")
    BY <1>1, <1>2, MoveFacts
  <2>2. GitTypeOK'
    BY <1>2, <2>1 DEF GitTypeOK, Moves, repo
  <2> QED BY <1>2, <2>1, <2>2 DEF Fails
<1>3. CASE /\ goto(r, "sync ff")
           /\ UNCHANGED <<repo, run>>
  <2>1. Moves(r, "sync compare", "sync ff")
    BY <1>1, <1>3, MoveFacts
  <2>2. GitTypeOK'
    BY <1>3, <2>1 DEF GitTypeOK, Moves, repo
  <2> QED BY <1>3, <2>1, <2>2 DEF Fails
<1>4. CASE /\ goto(r, afterSync(r)) /\ upstream.seen \subseteq refs[head]
           /\ UNCHANGED <<repo, run>>
  <2>1. Moves(r, "sync compare", afterSync(r))
    BY <1>1, <1>4, MoveFacts
  <2>2. GitTypeOK'
    BY <1>4, <2>1 DEF GitTypeOK, Moves, repo
  <2> QED BY <1>4, <2>1, <2>2 DEF Fails
<1> QED BY <1>1, <1>2, <1>3, <1>4

LEMMA IntUpstreamFacts ==
    ASSUME GitTypeOK, NEW r \in Runs,
           intUpstream(r)
    PROVE  /\ GitTypeOK'
           /\ \/ Fails(r, "int upstream", "int fetch")
              \/ Fails(r, "int upstream", "int branch") /\ ~ tracks(run[r].source)
<1>1. /\ pc[r] = "int upstream"
      /\ \/ /\ goto(r, "int fetch")
            /\ UNCHANGED <<repo, run>>
         \/ /\ goto(r, "int branch") /\ ~ tracks(run[r].source)
            /\ UNCHANGED <<repo, run>>
  BY DEF intUpstream, does, keepRun
<1>2. CASE /\ goto(r, "int fetch")
           /\ UNCHANGED <<repo, run>>
  <2>1. Moves(r, "int upstream", "int fetch")
    BY <1>1, <1>2, MoveFacts
  <2>2. GitTypeOK'
    BY <1>2, <2>1 DEF GitTypeOK, Moves, repo
  <2> QED BY <1>2, <2>1, <2>2 DEF Fails
<1>3. CASE /\ goto(r, "int branch") /\ ~ tracks(run[r].source)
           /\ UNCHANGED <<repo, run>>
  <2>1. Moves(r, "int upstream", "int branch")
    BY <1>1, <1>3, MoveFacts
  <2>2. GitTypeOK'
    BY <1>3, <2>1 DEF GitTypeOK, Moves, repo
  <2> QED BY <1>3, <2>1, <2>2 DEF Fails
<1> QED BY <1>1, <1>2, <1>3

LEMMA NoCheckpointFacts ==
    ASSUME GitTypeOK, NEW r \in Runs,
           ~ run[r].dirty, pc[r] = "int checkpoint", does(r, "int upstream"), UNCHANGED repo
    PROVE  /\ GitTypeOK'
           /\ Fails(r, "int checkpoint", "int upstream")
<1>1. /\ pc[r] = "int checkpoint"
      /\ goto(r, "int upstream")
      /\ UNCHANGED <<repo, run>>
  BY DEF does, keepRun
<1>2. CASE /\ goto(r, "int upstream")
           /\ UNCHANGED <<repo, run>>
  <2>1. Moves(r, "int checkpoint", "int upstream")
    BY <1>1, <1>2, MoveFacts
  <2>2. GitTypeOK'
    BY <1>2, <2>1 DEF GitTypeOK, Moves, repo
  <2> QED BY <1>2, <2>1, <2>2 DEF Fails
<1> QED BY <1>1, <1>2

\* The outcomes of one step of a run.
checksOut(r) ==
    \/ run[r].dirty /\ Checkpoints(r, "int checkpoint", "int upstream")
    \/ ~ run[r].dirty /\ Fails(r, "int checkpoint", "int upstream")
Outcomes(r) ==
    \/ begin(r)
    \/ Creates(r, "allow-dirty", RunBranch(r), "allow-dirty checkpoint")
    \/ Checkpoints(r, "allow-dirty checkpoint", "running")
    \/ Creates(r, "branch", RunBranch(r), "running")
    \/ preflightClean(r)
    \/ gitAutostash(r)
    \/ resolveStash(r)
    \/ Inspects(r, "sync", "sync branch", "sync upstream")
    \/ Creates(r, "sync branch", RunBranch(r), "sync checkpoint")
    \/ Checkpoints(r, "sync checkpoint", "sync source")
    \/ Switches(r, "sync source", run[r].source, "sync upstream")
    \/ syncUpstream(r)
    \/ Fetches(r, "sync fetch", "sync compare", "failed")
    \/ syncCompare(r)
    \/ Forwards(r, "sync ff", upstream.seen, "sync advanced")
    \/ syncAdvanced(r)
    \/ Switches(r, "sync return", RunBranch(r), afterReturn(r))
    \/ gitRebaseCheckpoint(r)
    \/ Creates(r, "sync create", RunBranch(r), "running")
    \/ Inspects(r, "integrate", "int create", "int create")
    \/ Creates(r, "int create", Candidate(r), "int checkpoint")
    \/ checksOut(r)
    \/ intUpstream(r)
    \/ Fetches(r, "int fetch", "int merge", "restore")
    \/ intMerge(r)
    \/ abortCandidateMerge(r)
    \/ Switches(r, "restore", run[r].source, "failed")
    \/ CreatesAt(r, "int branch", RunBranch(r), Candidate(r), "int source")
    \/ Switches(r, "int source", run[r].source, "int ff")
    \/ Forwards(r, "int ff", refs[Candidate(r)], "int run")
    \/ Switches(r, "int run", RunBranch(r), "int drop")
    \/ Deletes(r, "int drop", Candidate(r), "running")
    \/ edit(r)
    \/ restoreAutostash(r)
    \/ finishPreflightCleanup(r)
    \/ kill(r)

\* A step of a run has one of these outcomes, and keeps the types.
LEMMA OutcomeFacts ==
    ASSUME GitTypeOK, NEW r \in Runs, RunStep(r), Labelled(r),
           pc[r] = "int branch" => refs[RunBranch(r)] = {}
    PROVE  GitTypeOK' /\ Outcomes(r)
<1> DEFINE Goal == GitTypeOK' /\ Outcomes(r)
<1> SUFFICES Goal
  OBVIOUS
<1>a. pc[r] \in {"sync source", "sync rebase", "restore", "int source"}
     => run[r].source \in Branches
  BY DEF Labelled, SyncLabels, IntLabels, CandidateLabels
<1>b. refs[Candidate(r)] \in SUBSET Changes /\ upstream.seen \in SUBSET Changes
  BY BranchFacts DEF GitTypeOK
<1>c. RunBranch(r) \in Branches /\ Candidate(r) \in Branches
  BY BranchFacts
<1>1. CASE begin(r)
  BY <1>1, BeginFacts DEF Outcomes
<1>2. CASE gitCreateBranch(r, "allow-dirty", RunBranch(r), "allow-dirty checkpoint")
  <2>1. GitTypeOK' /\ Creates(r, "allow-dirty", RunBranch(r), "allow-dirty checkpoint")
    BY <1>2, <1>c, CreateFacts
  <2> QED BY <2>1 DEF Outcomes
<1>3. CASE gitCheckpoint(r, "allow-dirty checkpoint", "running")
  <2>1. GitTypeOK' /\ Checkpoints(r, "allow-dirty checkpoint", "running")
    BY <1>3, CheckpointFacts
  <2> QED BY <2>1 DEF Outcomes
<1>4. CASE gitCreateBranch(r, "branch", RunBranch(r), "running")
  <2>1. GitTypeOK' /\ Creates(r, "branch", RunBranch(r), "running")
    BY <1>4, <1>c, CreateFacts
  <2> QED BY <2>1 DEF Outcomes
<1>5. CASE preflightClean(r)
  BY <1>5, CleanFacts DEF Outcomes
<1>6. CASE gitAutostash(r)
  BY <1>6, AutostashFacts DEF Outcomes
<1>7. CASE resolveStash(r)
  BY <1>7, ResolveFacts DEF Outcomes
<1>8. CASE inspect(r, "sync", "sync branch", "sync upstream")
  <2>1. GitTypeOK' /\ Inspects(r, "sync", "sync branch", "sync upstream")
    BY <1>8, InspectFacts
  <2> QED BY <2>1 DEF Outcomes
<1>9. CASE gitCreateBranch(r, "sync branch", RunBranch(r), "sync checkpoint")
  <2>1. GitTypeOK' /\ Creates(r, "sync branch", RunBranch(r), "sync checkpoint")
    BY <1>9, <1>c, CreateFacts
  <2> QED BY <2>1 DEF Outcomes
<1>10. CASE gitCheckpoint(r, "sync checkpoint", "sync source")
  <2>1. GitTypeOK' /\ Checkpoints(r, "sync checkpoint", "sync source")
    BY <1>10, CheckpointFacts
  <2> QED BY <2>1 DEF Outcomes
<1>11. CASE gitSwitchBranch(r, "sync source", run[r].source, "sync upstream")
  <2>0. run[r].source \in Branches
    BY <1>11, <1>a DEF gitSwitchBranch
  <2>1. GitTypeOK' /\ Switches(r, "sync source", run[r].source, "sync upstream")
    BY <1>11, <2>0, SwitchFacts
  <2> QED BY <2>1 DEF Outcomes
<1>12. CASE syncUpstream(r)
  BY <1>12, UpstreamFacts DEF Outcomes, afterSync
<1>13. CASE gitFetch(r, "sync fetch", "sync compare", "failed")
  <2>1. GitTypeOK' /\ Fetches(r, "sync fetch", "sync compare", "failed")
    BY <1>13, FetchFacts
  <2> QED BY <2>1 DEF Outcomes
<1>14. CASE syncCompare(r)
  BY <1>14, CompareFacts DEF Outcomes, afterSync
<1>15. CASE gitFastForward(r, "sync ff", upstream.seen, "sync advanced")
  <2>1. GitTypeOK' /\ Forwards(r, "sync ff", upstream.seen, "sync advanced")
    BY <1>15, <1>b, ForwardFacts
  <2> QED BY <2>1 DEF Outcomes
<1>16. CASE syncAdvanced(r)
  BY <1>16, AdvancedFacts DEF Outcomes, afterSync
<1>17. CASE gitSwitchBranch(r, "sync return", RunBranch(r), afterReturn(r))
  <2>1. GitTypeOK' /\ Switches(r, "sync return", RunBranch(r), afterReturn(r))
    BY <1>17, <1>c, SwitchFacts
  <2> QED BY <2>1 DEF Outcomes
<1>18. CASE gitRebaseCheckpoint(r)
  <2>1. run[r].source \in Branches
    BY <1>18, <1>a DEF gitRebaseCheckpoint
  <2> QED BY <1>18, <2>1, RebaseFacts DEF Outcomes
<1>19. CASE gitCreateBranch(r, "sync create", RunBranch(r), "running")
  <2>1. GitTypeOK' /\ Creates(r, "sync create", RunBranch(r), "running")
    BY <1>19, <1>c, CreateFacts
  <2> QED BY <2>1 DEF Outcomes
<1>20. CASE inspect(r, "integrate", "int create", "int create")
  <2>1. GitTypeOK' /\ Inspects(r, "integrate", "int create", "int create")
    BY <1>20, InspectFacts
  <2> QED BY <2>1 DEF Outcomes
<1>21. CASE gitCreateBranch(r, "int create", Candidate(r), "int checkpoint")
  <2>1. GitTypeOK' /\ Creates(r, "int create", Candidate(r), "int checkpoint")
    BY <1>21, <1>c, CreateFacts
  <2> QED BY <2>1 DEF Outcomes
<1>22. CASE intCheckpoint(r)
  <2>1. CASE run[r].dirty /\ gitCheckpoint(r, "int checkpoint", "int upstream")
    <3>1. GitTypeOK' /\ Checkpoints(r, "int checkpoint", "int upstream")
      BY <2>1, CheckpointFacts
    <3> QED BY <2>1, <3>1 DEF Outcomes, checksOut
  <2>2. CASE /\ ~ run[r].dirty /\ pc[r] = "int checkpoint"
             /\ does(r, "int upstream") /\ UNCHANGED repo
    BY <2>2, NoCheckpointFacts DEF Outcomes, checksOut
  <2> QED BY <1>22, <2>1, <2>2 DEF intCheckpoint
<1>23. CASE intUpstream(r)
  BY <1>23, IntUpstreamFacts DEF Outcomes
<1>24. CASE gitFetch(r, "int fetch", "int merge", "restore")
  <2>1. GitTypeOK' /\ Fetches(r, "int fetch", "int merge", "restore")
    BY <1>24, FetchFacts
  <2> QED BY <2>1 DEF Outcomes
<1>25. CASE intMerge(r)
  BY <1>25, MergeFacts DEF Outcomes
<1>26. CASE abortCandidateMerge(r)
  BY <1>26, AbortFacts DEF Outcomes
<1>27. CASE restoreSource(r)
  <2>0. run[r].source \in Branches
    BY <1>27, <1>a DEF gitSwitchBranch, restoreSource
  <2>1. GitTypeOK' /\ Switches(r, "restore", run[r].source, "failed")
    BY <1>27, <2>0, SwitchFacts DEF restoreSource
  <2> QED BY <2>1 DEF Outcomes
<1>28. CASE gitCreateBranchAt(r, "int branch", RunBranch(r), Candidate(r), "int source")
  <2>0. refs[RunBranch(r)] = {}
    BY <1>28 DEF gitCreateBranchAt
  <2>1. GitTypeOK' /\ CreatesAt(r, "int branch", RunBranch(r), Candidate(r), "int source")
    BY <1>28, <1>c, <2>0, CreateAtFacts
  <2> QED BY <2>1 DEF Outcomes
<1>29. CASE gitSwitchBranch(r, "int source", run[r].source, "int ff")
  <2>0. run[r].source \in Branches
    BY <1>29, <1>a DEF gitSwitchBranch
  <2>1. GitTypeOK' /\ Switches(r, "int source", run[r].source, "int ff")
    BY <1>29, <2>0, SwitchFacts
  <2> QED BY <2>1 DEF Outcomes
<1>30. CASE gitFastForward(r, "int ff", refs[Candidate(r)], "int run")
  <2>1. GitTypeOK' /\ Forwards(r, "int ff", refs[Candidate(r)], "int run")
    BY <1>30, <1>b, ForwardFacts
  <2> QED BY <2>1 DEF Outcomes
<1>31. CASE gitSwitchBranch(r, "int run", RunBranch(r), "int drop")
  <2>1. GitTypeOK' /\ Switches(r, "int run", RunBranch(r), "int drop")
    BY <1>31, <1>c, SwitchFacts
  <2> QED BY <2>1 DEF Outcomes
<1>32. CASE gitDeleteBranch(r, "int drop", Candidate(r), "running")
  <2>1. GitTypeOK' /\ Deletes(r, "int drop", Candidate(r), "running")
    BY <1>32, <1>c, DeleteFacts
  <2> QED BY <2>1 DEF Outcomes
<1>33. CASE edit(r)
  BY <1>33, EditFacts DEF Outcomes
<1>34. CASE restoreAutostash(r)
  BY <1>34, CleanupFacts DEF Outcomes
<1>35. CASE finishPreflightCleanup(r)
  BY <1>35, FinishFacts DEF Outcomes
<1>36. CASE kill(r)
  BY <1>36, KillFacts DEF Outcomes
<1> QED
  BY RunSteps, <1>1, <1>2, <1>3, <1>4, <1>5, <1>6, <1>7, <1>8, <1>9, <1>10, <1>11, <1>12, <1>13,
     <1>14, <1>15, <1>16, <1>17, <1>18, <1>19, <1>20, <1>21, <1>22, <1>23, <1>24, <1>25, <1>26,
     <1>27, <1>28, <1>29, <1>30, <1>31, <1>32, <1>33, <1>34, <1>35, <1>36

\* What a run reads changes nothing else of what it has read.
LEMMA ReadFacts ==
    ASSUME run \in [Runs -> RunRecords], NEW r \in Runs
    PROVE  /\ run' = [run EXCEPT ![r].stashed = TRUE] =>
                 /\ run'[r].stashed = TRUE
                 /\ UNCHANGED <<run[r].policy, run[r].source, run[r].dirty, run[r].advanced,
                                run[r].recovery, run[r].found, run[r].foundWork, run[r].alone>>
                 /\ \A q \in Runs \ {r} : run'[q] = run[q]
           /\ run' = [run EXCEPT ![r].advanced = TRUE] =>
                 /\ run'[r].advanced = TRUE
                 /\ UNCHANGED <<run[r].policy, run[r].source, run[r].dirty, run[r].stashed,
                                run[r].recovery, run[r].found, run[r].foundWork, run[r].alone>>
                 /\ \A q \in Runs \ {r} : run'[q] = run[q]
           /\ run' = [run EXCEPT ![r].recovery = TRUE] =>
                 /\ run'[r].recovery = TRUE
                 /\ UNCHANGED <<run[r].policy, run[r].source, run[r].dirty, run[r].advanced,
                                run[r].stashed, run[r].found, run[r].foundWork, run[r].alone>>
                 /\ \A q \in Runs \ {r} : run'[q] = run[q]
           /\ run' = [run EXCEPT ![r].source = head, ![r].dirty = (work # {})] =>
                 /\ run'[r].source = head /\ run'[r].dirty = (work # {})
                 /\ UNCHANGED <<run[r].policy, run[r].advanced, run[r].stashed,
                                run[r].recovery, run[r].found, run[r].foundWork, run[r].alone>>
                 /\ \A q \in Runs \ {r} : run'[q] = run[q]
<1>1. run[r] \in RunRecords
  BY SMTT(30)
<1> QED BY <1>1 DEF RunRecords

\* The other runs do not notice, but for not being alone.
LEMMA OthersStep ==
    ASSUME GitTypeOK, NEW r \in Runs, Outcomes(r), Labelled(r)
    PROVE  /\ pc'[r] # "new" /\ \A q \in Runs \ {r} : pc'[q] = pc[q]
           /\ \A q \in Runs \ {r} :
                 UNCHANGED <<run[q].policy, run[q].source, run[q].dirty, run[q].stashed,
                             run[q].recovery, run[q].found, run[q].foundWork>>
<1> DEFINE Goal == /\ pc'[r] # "new" /\ \A q \in Runs \ {r} : pc'[q] = pc[q]
                   /\ \A q \in Runs \ {r} :
                         UNCHANGED <<run[q].policy, run[q].source, run[q].dirty, run[q].stashed,
                                     run[q].recovery, run[q].found, run[q].foundWork>>
<1> SUFFICES Goal
  OBVIOUS
<1>a. run \in [Runs -> RunRecords]
  BY DEF GitTypeOK
<1>b. run[r].policy # "new"
  BY PoliciesAreKnown DEF GitTypeOK, RunRecords, KnownPolicies
<1>1. CASE begin(r)
  BY <1>1, <1>a, BeginFacts, <1>b DEF Fails, Moves
<1>2. CASE Creates(r, "allow-dirty", RunBranch(r), "allow-dirty checkpoint")
  BY <1>2, <1>a DEF Fails, Moves, Creates
<1>3. CASE Checkpoints(r, "allow-dirty checkpoint", "running")
  BY <1>3, <1>a DEF Fails, Moves, Checkpoints
<1>4. CASE Creates(r, "branch", RunBranch(r), "running")
  BY <1>4, <1>a DEF Fails, Moves, Creates
<1>5. CASE preflightClean(r)
  BY <1>5, <1>a, CleanFacts DEF Fails, Moves
<1>6. CASE gitAutostash(r)
  BY <1>6, <1>a, AutostashFacts DEF Fails, Moves
<1>7. CASE resolveStash(r)
  BY <1>7, <1>a, ResolveFacts, ReadFacts DEF Fails, Moves
<1>8. CASE Inspects(r, "sync", "sync branch", "sync upstream")
  BY ZenonT(30), <1>8, <1>a, ReadFacts DEF Fails, Moves, Inspects
<1>9. CASE Creates(r, "sync branch", RunBranch(r), "sync checkpoint")
  BY <1>9, <1>a DEF Fails, Moves, Creates
<1>10. CASE Checkpoints(r, "sync checkpoint", "sync source")
  BY <1>10, <1>a DEF Fails, Moves, Checkpoints
<1>11. CASE Switches(r, "sync source", run[r].source, "sync upstream")
  BY <1>11, <1>a DEF Fails, Moves, Switches
<1>12. CASE syncUpstream(r)
  BY <1>12, <1>a, UpstreamFacts DEF Fails, Moves, afterSync
<1>13. CASE Fetches(r, "sync fetch", "sync compare", "failed")
  BY <1>13, <1>a DEF Fails, Moves, Fetches
<1>14. CASE syncCompare(r)
  BY <1>14, <1>a, CompareFacts DEF Fails, Moves, afterSync
<1>15. CASE Forwards(r, "sync ff", upstream.seen, "sync advanced")
  BY <1>15, <1>a DEF Fails, Moves, Forwards
<1>16. CASE syncAdvanced(r)
  BY ZenonT(60), <1>16, <1>a, AdvancedFacts, ReadFacts DEF Fails, Moves, afterSync
<1>17. CASE Switches(r, "sync return", RunBranch(r), afterReturn(r))
  BY <1>17, <1>a DEF Fails, Moves, Switches, afterReturn
<1>18. CASE gitRebaseCheckpoint(r)
  <2>1. run[r].source \in Branches
    BY <1>18 DEF gitRebaseCheckpoint, Labelled, SyncLabels
  <2> QED BY <1>18, <1>a, <2>1, RebaseFacts DEF Fails, Moves
<1>19. CASE Creates(r, "sync create", RunBranch(r), "running")
  BY <1>19, <1>a DEF Fails, Moves, Creates
<1>20. CASE Inspects(r, "integrate", "int create", "int create")
  BY <1>20, <1>a, ReadFacts DEF Fails, Moves, Inspects
<1>21. CASE Creates(r, "int create", Candidate(r), "int checkpoint")
  BY <1>21, <1>a DEF Fails, Moves, Creates
<1>22. CASE checksOut(r)
  BY <1>22, <1>a DEF Fails, Moves, checksOut, Checkpoints
<1>23. CASE intUpstream(r)
  BY <1>23, <1>a, IntUpstreamFacts DEF Fails, Moves
<1>24. CASE Fetches(r, "int fetch", "int merge", "restore")
  BY <1>24, <1>a DEF Fails, Moves, Fetches
<1>25. CASE intMerge(r)
  BY <1>25, <1>a, MergeFacts DEF Fails, Moves
<1>26. CASE abortCandidateMerge(r)
  BY <1>26, <1>a, AbortFacts DEF Fails, Moves
<1>27. CASE Switches(r, "restore", run[r].source, "failed")
  BY <1>27, <1>a DEF Fails, Moves, Switches
<1>28. CASE CreatesAt(r, "int branch", RunBranch(r), Candidate(r), "int source")
  BY <1>28, <1>a DEF Fails, Moves, CreatesAt
<1>29. CASE Switches(r, "int source", run[r].source, "int ff")
  BY <1>29, <1>a DEF Fails, Moves, Switches
<1>30. CASE Forwards(r, "int ff", refs[Candidate(r)], "int run")
  BY <1>30, <1>a DEF Fails, Moves, Forwards
<1>31. CASE Switches(r, "int run", RunBranch(r), "int drop")
  BY <1>31, <1>a DEF Fails, Moves, Switches
<1>32. CASE Deletes(r, "int drop", Candidate(r), "running")
  BY <1>32, <1>a DEF Fails, Moves, Deletes
<1>33. CASE edit(r)
  BY <1>33, <1>a, EditFacts DEF Fails, Moves
<1>34. CASE restoreAutostash(r)
  BY <1>34, <1>a, CleanupFacts DEF Fails, Moves
<1>35. CASE finishPreflightCleanup(r)
  BY ZenonT(30), <1>35, <1>a, FinishFacts, ReadFacts DEF Fails, Moves
<1>36. CASE kill(r)
  BY <1>36, <1>a, KillFacts DEF Fails, Moves
<1> QED
  BY <1>1, <1>2, <1>3, <1>4, <1>5, <1>6, <1>7, <1>8, <1>9, <1>10, <1>11, <1>12, <1>13,
     <1>14, <1>15, <1>16, <1>17, <1>18, <1>19, <1>20, <1>21, <1>22, <1>23, <1>24, <1>25, <1>26,
     <1>27, <1>28, <1>29, <1>30, <1>31, <1>32, <1>33, <1>34, <1>35, <1>36 DEF Outcomes

LEMMA LabelStep ==
    ASSUME GitTypeOK, NEW r \in Runs, Outcomes(r), Labelled(r)
    PROVE  Labelled(r)'
<1>a. run \in [Runs -> RunRecords] /\ head \in Branches /\ run[r] \in RunRecords
  BY DEF GitTypeOK
<1>b. run[r].policy \in KnownPolicies
  BY PoliciesAreKnown DEF GitTypeOK, RunRecords
<1>1. CASE begin(r)
  BY <1>1, <1>a, <1>b, BeginFacts
  DEF Labelled, Moves, Fails, repo, SyncLabels, SyncWay, IntLabels, CandidateLabels, KnownPolicies
<1>2. CASE Creates(r, "allow-dirty", RunBranch(r), "allow-dirty checkpoint")
  BY <1>2, <1>a, <1>b
  DEF Labelled, Moves, Fails, repo, SyncLabels, SyncWay, IntLabels, CandidateLabels,
     KnownPolicies, Creates
<1>3. CASE Checkpoints(r, "allow-dirty checkpoint", "running")
  BY <1>3, <1>a, <1>b
  DEF Labelled, Moves, Fails, repo, SyncLabels, SyncWay, IntLabels, CandidateLabels,
     KnownPolicies, Checkpoints
<1>4. CASE Creates(r, "branch", RunBranch(r), "running")
  BY <1>4, <1>a, <1>b
  DEF Labelled, Moves, Fails, repo, SyncLabels, SyncWay, IntLabels, CandidateLabels,
     KnownPolicies, Creates
<1>5. CASE preflightClean(r)
  BY <1>5, <1>a, <1>b, CleanFacts
  DEF Labelled, Moves, Fails, repo, SyncLabels, SyncWay, IntLabels, CandidateLabels, KnownPolicies
<1>6. CASE gitAutostash(r)
  BY <1>6, <1>a, <1>b, AutostashFacts
  DEF Labelled, Moves, Fails, repo, SyncLabels, SyncWay, IntLabels, CandidateLabels, KnownPolicies
<1>7. CASE resolveStash(r)
  BY <1>7, <1>a, <1>b, ResolveFacts, ReadFacts
  DEF Labelled, Moves, Fails, repo, SyncLabels, SyncWay, IntLabels, CandidateLabels, KnownPolicies
<1>8. CASE Inspects(r, "sync", "sync branch", "sync upstream")
  BY <1>8, <1>a, <1>b, ReadFacts
  DEF Labelled, Moves, Fails, repo, SyncLabels, SyncWay, IntLabels, CandidateLabels,
     KnownPolicies, Inspects
<1>9. CASE Creates(r, "sync branch", RunBranch(r), "sync checkpoint")
  BY <1>9, <1>a, <1>b
  DEF Labelled, Moves, Fails, repo, SyncLabels, SyncWay, IntLabels, CandidateLabels,
     KnownPolicies, Creates
<1>10. CASE Checkpoints(r, "sync checkpoint", "sync source")
  BY <1>10, <1>a, <1>b
  DEF Labelled, Moves, Fails, repo, SyncLabels, SyncWay, IntLabels, CandidateLabels,
     KnownPolicies, Checkpoints
<1>11. CASE Switches(r, "sync source", run[r].source, "sync upstream")
  BY <1>11, <1>a, <1>b
  DEF Labelled, Moves, Fails, repo, SyncLabels, SyncWay, IntLabels, CandidateLabels,
     KnownPolicies, Switches
<1>12. CASE syncUpstream(r)
  BY <1>12, <1>a, <1>b, UpstreamFacts
  DEF Labelled, Moves, Fails, repo, SyncLabels, SyncWay, IntLabels, CandidateLabels,
     KnownPolicies, afterSync
<1>13. CASE Fetches(r, "sync fetch", "sync compare", "failed")
  BY <1>13, <1>a, <1>b
  DEF Labelled, Moves, Fails, repo, SyncLabels, SyncWay, IntLabels, CandidateLabels,
     KnownPolicies, Fetches
<1>14. CASE syncCompare(r)
  BY <1>14, <1>a, <1>b, CompareFacts
  DEF Labelled, Moves, Fails, repo, SyncLabels, SyncWay, IntLabels, CandidateLabels,
     KnownPolicies, afterSync
<1>15. CASE Forwards(r, "sync ff", upstream.seen, "sync advanced")
  BY <1>15, <1>a, <1>b
  DEF Labelled, Moves, Fails, repo, SyncLabels, SyncWay, IntLabels, CandidateLabels,
     KnownPolicies, Forwards
<1>16. CASE syncAdvanced(r)
  BY ZenonT(30), <1>16, <1>a, <1>b, AdvancedFacts, ReadFacts
  DEF Labelled, Moves, Fails, repo, SyncLabels, SyncWay, IntLabels, CandidateLabels,
     KnownPolicies, afterSync
<1>17. CASE Switches(r, "sync return", RunBranch(r), afterReturn(r))
  BY <1>17, <1>a, <1>b
  DEF Labelled, Moves, Fails, repo, SyncLabels, SyncWay, IntLabels, CandidateLabels,
     KnownPolicies, Switches, afterReturn
<1>18. CASE gitRebaseCheckpoint(r)
  <2>1. run[r].source \in Branches
    BY <1>18 DEF gitRebaseCheckpoint, Labelled, SyncLabels
  <2> QED BY <1>18, <1>a, <2>1, RebaseFacts
       DEF Fails, Moves, Labelled, SyncLabels, SyncWay, IntLabels, CandidateLabels, KnownPolicies
<1>19. CASE Creates(r, "sync create", RunBranch(r), "running")
  BY <1>19, <1>a, <1>b
  DEF Labelled, Moves, Fails, repo, SyncLabels, SyncWay, IntLabels, CandidateLabels,
     KnownPolicies, Creates
<1>20. CASE Inspects(r, "integrate", "int create", "int create")
  BY <1>20, <1>a, <1>b, ReadFacts
  DEF Labelled, Moves, Fails, repo, SyncLabels, SyncWay, IntLabels, CandidateLabels,
     KnownPolicies, Inspects
<1>21. CASE Creates(r, "int create", Candidate(r), "int checkpoint")
  BY <1>21, <1>a, <1>b
  DEF Labelled, Moves, Fails, repo, SyncLabels, SyncWay, IntLabels, CandidateLabels,
     KnownPolicies, Creates
<1>22. CASE checksOut(r)
  BY <1>22, <1>a, <1>b
  DEF Labelled, Moves, Fails, repo, SyncLabels, SyncWay, IntLabels, CandidateLabels,
     KnownPolicies, checksOut, Checkpoints
<1>23. CASE intUpstream(r)
  BY <1>23, <1>a, <1>b, IntUpstreamFacts
  DEF Labelled, Moves, Fails, repo, SyncLabels, SyncWay, IntLabels, CandidateLabels, KnownPolicies
<1>24. CASE Fetches(r, "int fetch", "int merge", "restore")
  BY <1>24, <1>a, <1>b
  DEF Labelled, Moves, Fails, repo, SyncLabels, SyncWay, IntLabels, CandidateLabels,
     KnownPolicies, Fetches
<1>25. CASE intMerge(r)
  BY <1>25, <1>a, <1>b, MergeFacts
  DEF Labelled, Moves, Fails, repo, SyncLabels, SyncWay, IntLabels, CandidateLabels, KnownPolicies
<1>26. CASE abortCandidateMerge(r)
  BY <1>26, <1>a, <1>b, AbortFacts
  DEF Labelled, Moves, Fails, repo, SyncLabels, SyncWay, IntLabels, CandidateLabels, KnownPolicies
<1>27. CASE Switches(r, "restore", run[r].source, "failed")
  BY <1>27, <1>a, <1>b
  DEF Labelled, Moves, Fails, repo, SyncLabels, SyncWay, IntLabels, CandidateLabels,
     KnownPolicies, Switches
<1>28. CASE CreatesAt(r, "int branch", RunBranch(r), Candidate(r), "int source")
  BY <1>28, <1>a, <1>b
  DEF Labelled, Moves, Fails, repo, SyncLabels, SyncWay, IntLabels, CandidateLabels,
     KnownPolicies, CreatesAt
<1>29. CASE Switches(r, "int source", run[r].source, "int ff")
  BY <1>29, <1>a, <1>b
  DEF Labelled, Moves, Fails, repo, SyncLabels, SyncWay, IntLabels, CandidateLabels,
     KnownPolicies, Switches
<1>30. CASE Forwards(r, "int ff", refs[Candidate(r)], "int run")
  BY <1>30, <1>a, <1>b
  DEF Labelled, Moves, Fails, repo, SyncLabels, SyncWay, IntLabels, CandidateLabels,
     KnownPolicies, Forwards
<1>31. CASE Switches(r, "int run", RunBranch(r), "int drop")
  BY <1>31, <1>a, <1>b
  DEF Labelled, Moves, Fails, repo, SyncLabels, SyncWay, IntLabels, CandidateLabels,
     KnownPolicies, Switches
<1>32. CASE Deletes(r, "int drop", Candidate(r), "running")
  BY <1>32, <1>a, <1>b
  DEF Labelled, Moves, Fails, repo, SyncLabels, SyncWay, IntLabels, CandidateLabels,
     KnownPolicies, Deletes
<1>33. CASE edit(r)
  BY <1>33, <1>a, <1>b, EditFacts
  DEF Labelled, Moves, Fails, repo, SyncLabels, SyncWay, IntLabels, CandidateLabels, KnownPolicies
<1>34. CASE restoreAutostash(r)
  BY <1>34, <1>a, <1>b, CleanupFacts
  DEF Labelled, Moves, Fails, repo, SyncLabels, SyncWay, IntLabels, CandidateLabels, KnownPolicies
<1>35. CASE finishPreflightCleanup(r)
  BY <1>35, <1>a, <1>b, FinishFacts, ReadFacts
  DEF Labelled, Moves, Fails, repo, SyncLabels, SyncWay, IntLabels, CandidateLabels, KnownPolicies
<1>36. CASE kill(r)
  BY <1>36, <1>a, <1>b, KillFacts
  DEF Labelled, Moves, Fails, repo, SyncLabels, SyncWay, IntLabels, CandidateLabels, KnownPolicies
<1> QED
  BY <1>1, <1>2, <1>3, <1>4, <1>5, <1>6, <1>7, <1>8, <1>9, <1>10, <1>11, <1>12, <1>13,
     <1>14, <1>15, <1>16, <1>17, <1>18, <1>19, <1>20, <1>21, <1>22, <1>23, <1>24, <1>25, <1>26,
     <1>27, <1>28, <1>29, <1>30, <1>31, <1>32, <1>33, <1>34, <1>35, <1>36 DEF Outcomes

-----------------------------------------------------------------------------
(* The worktree: nothing is lost *)

\* The branches a run will create do not exist yet.
NoBranchYet(r) ==
    /\ pc[r] \in {"new", "sync branch", "sync create", "int create"} \cup KnownPolicies
                     \cup (CandidateLabels \ {"int source"})
       => refs[RunBranch(r)] = {}
    /\ pc[r] \in SyncWay /\ ~ run[r].dirty => refs[RunBranch(r)] = {}
    /\ pc[r] \in {"new", "int create"} \cup KnownPolicies => refs[Candidate(r)] = {}

\* Where a step of a run puts what the repository held.
Keeps(r) ==
    /\ \A b \in Branches : refs[b] \subseteq refs'[b] \/ refs[b] \subseteq refs'[head]
    /\ \A b \in Branches \ {RunBranch(r), Candidate(r)} : refs[b] = {} => refs'[b] = {}
    /\ \/ stash' = stash /\ (work \subseteq work' \/ work \subseteq refs'[head])
       \/ stash' = <<[by |-> r, holds |-> work]>> \o stash

LEMMA KeepStep ==
    ASSUME GitTypeOK, NEW r \in Runs, Outcomes(r), Labelled(r), NoBranchYet(r)
    PROVE  Keeps(r)
<1>a. /\ refs \in [Branches -> SUBSET Changes] /\ head \in Branches /\ refs[head] # {}
      /\ upstream.seen \in SUBSET Changes
  BY DEF GitTypeOK
<1>1. CASE begin(r)
  BY <1>1, <1>a, BranchFacts, BeginFacts
  DEF Fails, Moves, repo, Keeps, NoBranchYet, SyncWay, CandidateLabels, KnownPolicies
<1>2. CASE Creates(r, "allow-dirty", RunBranch(r), "allow-dirty checkpoint")
  BY <1>2, <1>a, BranchFacts
  DEF Fails, Moves, repo, Keeps, NoBranchYet, SyncWay, CandidateLabels, KnownPolicies, Creates
<1>3. CASE Checkpoints(r, "allow-dirty checkpoint", "running")
  BY <1>3, <1>a, BranchFacts
  DEF Fails, Moves, repo, Keeps, NoBranchYet, SyncWay, CandidateLabels, KnownPolicies, Checkpoints
<1>4. CASE Creates(r, "branch", RunBranch(r), "running")
  BY <1>4, <1>a, BranchFacts
  DEF Fails, Moves, repo, Keeps, NoBranchYet, SyncWay, CandidateLabels, KnownPolicies, Creates
<1>5. CASE preflightClean(r)
  BY <1>5, <1>a, BranchFacts, CleanFacts
  DEF Fails, Moves, repo, Keeps, NoBranchYet, SyncWay, CandidateLabels, KnownPolicies
<1>6. CASE gitAutostash(r)
  BY <1>6, <1>a, BranchFacts, AutostashFacts
  DEF Fails, Moves, repo, Keeps, NoBranchYet, SyncWay, CandidateLabels, KnownPolicies
<1>7. CASE resolveStash(r)
  BY <1>7, <1>a, BranchFacts, ResolveFacts
  DEF Fails, Moves, repo, Keeps, NoBranchYet, SyncWay, CandidateLabels, KnownPolicies
<1>8. CASE Inspects(r, "sync", "sync branch", "sync upstream")
  BY <1>8, <1>a, BranchFacts
  DEF Fails, Moves, repo, Keeps, NoBranchYet, SyncWay, CandidateLabels, KnownPolicies, Inspects
<1>9. CASE Creates(r, "sync branch", RunBranch(r), "sync checkpoint")
  BY <1>9, <1>a, BranchFacts
  DEF Fails, Moves, repo, Keeps, NoBranchYet, SyncWay, CandidateLabels, KnownPolicies, Creates
<1>10. CASE Checkpoints(r, "sync checkpoint", "sync source")
  BY <1>10, <1>a, BranchFacts
  DEF Fails, Moves, repo, Keeps, NoBranchYet, SyncWay, CandidateLabels, KnownPolicies, Checkpoints
<1>11. CASE Switches(r, "sync source", run[r].source, "sync upstream")
  BY <1>11, <1>a, BranchFacts
  DEF Fails, Moves, repo, Keeps, NoBranchYet, SyncWay, CandidateLabels, KnownPolicies, Switches
<1>12. CASE syncUpstream(r)
  BY <1>12, <1>a, BranchFacts, UpstreamFacts
  DEF Fails, Moves, repo, Keeps, NoBranchYet, SyncWay, CandidateLabels, KnownPolicies, afterSync
<1>13. CASE Fetches(r, "sync fetch", "sync compare", "failed")
  BY <1>13, <1>a, BranchFacts
  DEF Fails, Moves, repo, Keeps, NoBranchYet, SyncWay, CandidateLabels, KnownPolicies, Fetches
<1>14. CASE syncCompare(r)
  BY <1>14, <1>a, BranchFacts, CompareFacts
  DEF Fails, Moves, repo, Keeps, NoBranchYet, SyncWay, CandidateLabels, KnownPolicies, afterSync
<1>15. CASE Forwards(r, "sync ff", upstream.seen, "sync advanced")
  BY <1>15, <1>a, BranchFacts
  DEF Fails, Moves, repo, Keeps, NoBranchYet, SyncWay, CandidateLabels, KnownPolicies, Forwards
<1>16. CASE syncAdvanced(r)
  BY <1>16, <1>a, BranchFacts, AdvancedFacts
  DEF Fails, Moves, repo, Keeps, NoBranchYet, SyncWay, CandidateLabels, KnownPolicies, afterSync
<1>17. CASE Switches(r, "sync return", RunBranch(r), afterReturn(r))
  BY <1>17, <1>a, BranchFacts
  DEF Fails, Moves, repo, Keeps, NoBranchYet, SyncWay, CandidateLabels, KnownPolicies, Switches,
     afterReturn
<1>18. CASE gitRebaseCheckpoint(r)
  <2>1. run[r].source \in Branches
    BY <1>18 DEF gitRebaseCheckpoint, Labelled, SyncLabels
  <2> QED BY <1>18, <1>a, <2>1, RebaseFacts DEF Fails, Moves, repo, Keeps
<1>19. CASE Creates(r, "sync create", RunBranch(r), "running")
  BY <1>19, <1>a, BranchFacts
  DEF Fails, Moves, repo, Keeps, NoBranchYet, SyncWay, CandidateLabels, KnownPolicies, Creates
<1>20. CASE Inspects(r, "integrate", "int create", "int create")
  BY <1>20, <1>a, BranchFacts
  DEF Fails, Moves, repo, Keeps, NoBranchYet, SyncWay, CandidateLabels, KnownPolicies, Inspects
<1>21. CASE Creates(r, "int create", Candidate(r), "int checkpoint")
  BY <1>21, <1>a, BranchFacts
  DEF Fails, Moves, repo, Keeps, NoBranchYet, SyncWay, CandidateLabels, KnownPolicies, Creates
<1>22. CASE checksOut(r)
  BY ZenonT(30), <1>22, <1>a, BranchFacts
  DEF Fails, Moves, repo, Keeps, NoBranchYet, SyncWay, CandidateLabels, KnownPolicies, checksOut,
     Checkpoints
<1>23. CASE intUpstream(r)
  BY <1>23, <1>a, BranchFacts, IntUpstreamFacts
  DEF Fails, Moves, repo, Keeps, NoBranchYet, SyncWay, CandidateLabels, KnownPolicies
<1>24. CASE Fetches(r, "int fetch", "int merge", "restore")
  BY <1>24, <1>a, BranchFacts
  DEF Fails, Moves, repo, Keeps, NoBranchYet, SyncWay, CandidateLabels, KnownPolicies, Fetches
<1>25. CASE intMerge(r)
  BY <1>25, <1>a, BranchFacts, MergeFacts
  DEF Fails, Moves, repo, Keeps, NoBranchYet, SyncWay, CandidateLabels, KnownPolicies
<1>26. CASE abortCandidateMerge(r)
  BY <1>26, <1>a, BranchFacts, AbortFacts
  DEF Fails, Moves, repo, Keeps, NoBranchYet, SyncWay, CandidateLabels, KnownPolicies
<1>27. CASE Switches(r, "restore", run[r].source, "failed")
  BY <1>27, <1>a, BranchFacts
  DEF Fails, Moves, repo, Keeps, NoBranchYet, SyncWay, CandidateLabels, KnownPolicies, Switches
<1>28. CASE CreatesAt(r, "int branch", RunBranch(r), Candidate(r), "int source")
  BY <1>28, <1>a, BranchFacts
  DEF Fails, Moves, repo, Keeps, NoBranchYet, SyncWay, CandidateLabels, KnownPolicies, CreatesAt
<1>29. CASE Switches(r, "int source", run[r].source, "int ff")
  BY <1>29, <1>a, BranchFacts
  DEF Fails, Moves, repo, Keeps, NoBranchYet, SyncWay, CandidateLabels, KnownPolicies, Switches
<1>30. CASE Forwards(r, "int ff", refs[Candidate(r)], "int run")
  BY <1>30, <1>a, BranchFacts
  DEF Fails, Moves, repo, Keeps, NoBranchYet, SyncWay, CandidateLabels, KnownPolicies, Forwards
<1>31. CASE Switches(r, "int run", RunBranch(r), "int drop")
  BY <1>31, <1>a, BranchFacts
  DEF Fails, Moves, repo, Keeps, NoBranchYet, SyncWay, CandidateLabels, KnownPolicies, Switches
<1>32. CASE Deletes(r, "int drop", Candidate(r), "running")
  BY <1>32, <1>a, BranchFacts
  DEF Fails, Moves, repo, Keeps, NoBranchYet, SyncWay, CandidateLabels, KnownPolicies, Deletes
<1>33. CASE edit(r)
  BY <1>33, <1>a, BranchFacts, EditFacts
  DEF Fails, Moves, repo, Keeps, NoBranchYet, SyncWay, CandidateLabels, KnownPolicies
<1>34. CASE restoreAutostash(r)
  BY <1>34, <1>a, BranchFacts, CleanupFacts
  DEF Fails, Moves, repo, Keeps, NoBranchYet, SyncWay, CandidateLabels, KnownPolicies
<1>35. CASE finishPreflightCleanup(r)
  BY <1>35, <1>a, BranchFacts, FinishFacts
  DEF Fails, Moves, repo, Keeps, NoBranchYet, SyncWay, CandidateLabels, KnownPolicies
<1>36. CASE kill(r)
  BY <1>36, <1>a, BranchFacts, KillFacts
  DEF Fails, Moves, repo, Keeps, NoBranchYet, SyncWay, CandidateLabels, KnownPolicies
<1> QED
  BY <1>1, <1>2, <1>3, <1>4, <1>5, <1>6, <1>7, <1>8, <1>9, <1>10, <1>11, <1>12, <1>13,
     <1>14, <1>15, <1>16, <1>17, <1>18, <1>19, <1>20, <1>21, <1>22, <1>23, <1>24, <1>25, <1>26,
     <1>27, <1>28, <1>29, <1>30, <1>31, <1>32, <1>33, <1>34, <1>35, <1>36 DEF Outcomes

LEMMA FreshStep ==
    ASSUME GitTypeOK, NEW r \in Runs, Outcomes(r), Labelled(r), NoBranchYet(r)
    PROVE  NoBranchYet(r)'
<1>a. /\ refs \in [Branches -> SUBSET Changes] /\ head \in Branches /\ refs[head] # {}
      /\ run \in [Runs -> RunRecords]
  BY DEF GitTypeOK
<1>b. run[r].policy \in KnownPolicies
  BY PoliciesAreKnown DEF GitTypeOK, RunRecords
<1>1. CASE begin(r)
  BY <1>1, <1>a, <1>b, BranchFacts, BeginFacts
  DEF Fails, Moves, repo, NoBranchYet, SyncWay, CandidateLabels, KnownPolicies, Labelled
<1>2. CASE Creates(r, "allow-dirty", RunBranch(r), "allow-dirty checkpoint")
  BY <1>2, <1>a, <1>b, BranchFacts
  DEF Fails, Moves, repo, NoBranchYet, SyncWay, CandidateLabels, KnownPolicies, Labelled, Creates
<1>3. CASE Checkpoints(r, "allow-dirty checkpoint", "running")
  BY <1>3, <1>a, <1>b, BranchFacts
  DEF Fails, Moves, repo, NoBranchYet, SyncWay, CandidateLabels, KnownPolicies, Labelled,
     Checkpoints
<1>4. CASE Creates(r, "branch", RunBranch(r), "running")
  BY <1>4, <1>a, <1>b, BranchFacts
  DEF Fails, Moves, repo, NoBranchYet, SyncWay, CandidateLabels, KnownPolicies, Labelled, Creates
<1>5. CASE preflightClean(r)
  BY <1>5, <1>a, <1>b, BranchFacts, CleanFacts
  DEF Fails, Moves, repo, NoBranchYet, SyncWay, CandidateLabels, KnownPolicies, Labelled
<1>6. CASE gitAutostash(r)
  BY <1>6, <1>a, <1>b, BranchFacts, AutostashFacts
  DEF Fails, Moves, repo, NoBranchYet, SyncWay, CandidateLabels, KnownPolicies, Labelled
<1>7. CASE resolveStash(r)
  BY <1>7, <1>a, <1>b, BranchFacts, ResolveFacts, ReadFacts
  DEF Fails, Moves, repo, NoBranchYet, SyncWay, CandidateLabels, KnownPolicies, Labelled
<1>8. CASE Inspects(r, "sync", "sync branch", "sync upstream")
  BY <1>8, <1>a, <1>b, BranchFacts, ReadFacts
  DEF Fails, Moves, repo, NoBranchYet, SyncWay, CandidateLabels, KnownPolicies, Labelled, Inspects
<1>9. CASE Creates(r, "sync branch", RunBranch(r), "sync checkpoint")
  BY <1>9, <1>a, <1>b, BranchFacts
  DEF Fails, Moves, repo, NoBranchYet, SyncWay, CandidateLabels, KnownPolicies, Labelled, Creates
<1>10. CASE Checkpoints(r, "sync checkpoint", "sync source")
  BY <1>10, <1>a, <1>b, BranchFacts
  DEF Fails, Moves, repo, NoBranchYet, SyncWay, CandidateLabels, KnownPolicies, Labelled,
     Checkpoints
<1>11. CASE Switches(r, "sync source", run[r].source, "sync upstream")
  BY <1>11, <1>a, <1>b, BranchFacts
  DEF Fails, Moves, repo, NoBranchYet, SyncWay, CandidateLabels, KnownPolicies, Labelled, Switches
<1>12. CASE syncUpstream(r)
  BY <1>12, <1>a, <1>b, BranchFacts, UpstreamFacts
  DEF Fails, Moves, repo, NoBranchYet, SyncWay, CandidateLabels, KnownPolicies, Labelled,
     afterSync
<1>13. CASE Fetches(r, "sync fetch", "sync compare", "failed")
  BY <1>13, <1>a, <1>b, BranchFacts
  DEF Fails, Moves, repo, NoBranchYet, SyncWay, CandidateLabels, KnownPolicies, Labelled, Fetches
<1>14. CASE syncCompare(r)
  BY <1>14, <1>a, <1>b, BranchFacts, CompareFacts
  DEF Fails, Moves, repo, NoBranchYet, SyncWay, CandidateLabels, KnownPolicies, Labelled,
     afterSync
<1>15. CASE Forwards(r, "sync ff", upstream.seen, "sync advanced")
  BY <1>15, <1>a, <1>b, BranchFacts
  DEF Fails, Moves, repo, NoBranchYet, SyncWay, CandidateLabels, KnownPolicies, Labelled, Forwards
<1>16. CASE syncAdvanced(r)
  BY <1>16, <1>a, <1>b, BranchFacts, AdvancedFacts, ReadFacts
  DEF Fails, Moves, repo, NoBranchYet, SyncWay, CandidateLabels, KnownPolicies, Labelled,
     afterSync
<1>17. CASE Switches(r, "sync return", RunBranch(r), afterReturn(r))
  BY <1>17, <1>a, <1>b, BranchFacts
  DEF Fails, Moves, repo, NoBranchYet, SyncWay, CandidateLabels, KnownPolicies, Labelled,
     Switches, afterReturn
<1>18. CASE gitRebaseCheckpoint(r)
  <2>1. run[r].source \in Branches
    BY <1>18 DEF gitRebaseCheckpoint, Labelled, SyncLabels
  <2> QED
    BY <1>18, <1>a, <2>1, RebaseFacts
    DEF Fails, Moves, repo, NoBranchYet, SyncWay, CandidateLabels, KnownPolicies
<1>19. CASE Creates(r, "sync create", RunBranch(r), "running")
  BY <1>19, <1>a, <1>b, BranchFacts
  DEF Fails, Moves, repo, NoBranchYet, SyncWay, CandidateLabels, KnownPolicies, Labelled, Creates
<1>20. CASE Inspects(r, "integrate", "int create", "int create")
  BY <1>20, <1>a, <1>b, BranchFacts, ReadFacts
  DEF Fails, Moves, repo, NoBranchYet, SyncWay, CandidateLabels, KnownPolicies, Labelled, Inspects
<1>21. CASE Creates(r, "int create", Candidate(r), "int checkpoint")
  BY <1>21, <1>a, <1>b, BranchFacts
  DEF Fails, Moves, repo, NoBranchYet, SyncWay, CandidateLabels, KnownPolicies, Labelled, Creates
<1>22. CASE checksOut(r)
  BY <1>22, <1>a, <1>b, BranchFacts
  DEF Fails, Moves, repo, NoBranchYet, SyncWay, CandidateLabels, KnownPolicies, Labelled,
     checksOut, Checkpoints
<1>23. CASE intUpstream(r)
  BY <1>23, <1>a, <1>b, BranchFacts, IntUpstreamFacts
  DEF Fails, Moves, repo, NoBranchYet, SyncWay, CandidateLabels, KnownPolicies, Labelled
<1>24. CASE Fetches(r, "int fetch", "int merge", "restore")
  BY <1>24, <1>a, <1>b, BranchFacts
  DEF Fails, Moves, repo, NoBranchYet, SyncWay, CandidateLabels, KnownPolicies, Labelled, Fetches
<1>25. CASE intMerge(r)
  BY <1>25, <1>a, <1>b, BranchFacts, MergeFacts
  DEF Fails, Moves, repo, NoBranchYet, SyncWay, CandidateLabels, KnownPolicies, Labelled
<1>26. CASE abortCandidateMerge(r)
  BY <1>26, <1>a, <1>b, BranchFacts, AbortFacts
  DEF Fails, Moves, repo, NoBranchYet, SyncWay, CandidateLabels, KnownPolicies, Labelled
<1>27. CASE Switches(r, "restore", run[r].source, "failed")
  BY <1>27, <1>a, <1>b, BranchFacts
  DEF Fails, Moves, repo, NoBranchYet, SyncWay, CandidateLabels, KnownPolicies, Labelled, Switches
<1>28. CASE CreatesAt(r, "int branch", RunBranch(r), Candidate(r), "int source")
  BY <1>28, <1>a, <1>b, BranchFacts
  DEF Fails, Moves, repo, NoBranchYet, SyncWay, CandidateLabels, KnownPolicies, Labelled,
     CreatesAt
<1>29. CASE Switches(r, "int source", run[r].source, "int ff")
  BY <1>29, <1>a, <1>b, BranchFacts
  DEF Fails, Moves, repo, NoBranchYet, SyncWay, CandidateLabels, KnownPolicies, Labelled, Switches
<1>30. CASE Forwards(r, "int ff", refs[Candidate(r)], "int run")
  BY <1>30, <1>a, <1>b, BranchFacts
  DEF Fails, Moves, repo, NoBranchYet, SyncWay, CandidateLabels, KnownPolicies, Labelled, Forwards
<1>31. CASE Switches(r, "int run", RunBranch(r), "int drop")
  BY <1>31, <1>a, <1>b, BranchFacts
  DEF Fails, Moves, repo, NoBranchYet, SyncWay, CandidateLabels, KnownPolicies, Labelled, Switches
<1>32. CASE Deletes(r, "int drop", Candidate(r), "running")
  BY <1>32, <1>a, <1>b, BranchFacts
  DEF Fails, Moves, repo, NoBranchYet, SyncWay, CandidateLabels, KnownPolicies, Labelled, Deletes
<1>33. CASE edit(r)
  BY <1>33, <1>a, <1>b, BranchFacts, EditFacts
  DEF Fails, Moves, repo, NoBranchYet, SyncWay, CandidateLabels, KnownPolicies, Labelled
<1>34. CASE restoreAutostash(r)
  BY <1>34, <1>a, <1>b, BranchFacts, CleanupFacts
  DEF Fails, Moves, repo, NoBranchYet, SyncWay, CandidateLabels, KnownPolicies, Labelled
<1>35. CASE finishPreflightCleanup(r)
  BY <1>35, <1>a, <1>b, BranchFacts, FinishFacts, ReadFacts
  DEF Fails, Moves, repo, NoBranchYet, SyncWay, CandidateLabels, KnownPolicies, Labelled
<1>36. CASE kill(r)
  BY <1>36, <1>a, <1>b, BranchFacts, KillFacts
  DEF Fails, Moves, repo, NoBranchYet, SyncWay, CandidateLabels, KnownPolicies, Labelled
<1> QED
  BY <1>1, <1>2, <1>3, <1>4, <1>5, <1>6, <1>7, <1>8, <1>9, <1>10, <1>11, <1>12, <1>13,
     <1>14, <1>15, <1>16, <1>17, <1>18, <1>19, <1>20, <1>21, <1>22, <1>23, <1>24, <1>25, <1>26,
     <1>27, <1>28, <1>29, <1>30, <1>31, <1>32, <1>33, <1>34, <1>35, <1>36 DEF Outcomes


\* The stash only grows.
LEMMA PushFacts ==
    ASSUME stash \in Seq(Entries), NEW e \in Entries, stash' = <<e>> \o stash
    PROVE  InStash' = InStash \cup e.holds
<1>1. /\ DOMAIN stash' = 1..(Len(stash) + 1) /\ DOMAIN stash = 1..Len(stash) /\ Len(stash) \in Nat
      /\ stash'[1] = e /\ \A i \in DOMAIN stash : stash'[i + 1] = stash[i]
  BY StashFacts
<1>2. ASSUME NEW i \in DOMAIN stash PROVE stash[i].holds \subseteq InStash'
  <2>1. i + 1 \in DOMAIN stash' /\ stash'[i + 1] = stash[i]
    BY <1>1
  <2> QED BY <2>1 DEF InStash
<1>3. e.holds \subseteq InStash'
  <2>1. 1 \in DOMAIN stash' /\ stash'[1] = e
    BY <1>1
  <2> QED BY <2>1 DEF InStash
<1>4. ASSUME NEW i \in DOMAIN stash' PROVE stash'[i].holds \subseteq InStash \cup e.holds
  <2>1. CASE i = 1
    BY <1>1, <2>1
  <2>2. CASE i # 1
    <3>1. i - 1 \in DOMAIN stash /\ (i - 1) + 1 = i
      BY <1>1, <2>2
    <3>2. stash'[i] = stash[i - 1]
      BY <1>1, <3>1
    <3> QED BY <3>1, <3>2 DEF InStash
  <2> QED BY <2>1, <2>2
<1> QED BY <1>2, <1>3, <1>4 DEF InStash

LEMMA HeldStep ==
    ASSUME GitTypeOK, GitTypeOK', NEW r \in Runs, Keeps(r)
    PROVE  Held \subseteq Held'
<1>1. InBranches \subseteq InBranches'
  <2> SUFFICES ASSUME NEW b \in Branches PROVE refs[b] \subseteq InBranches'
    BY DEF InBranches
  <2>1. refs[b] \subseteq refs'[b] \/ refs[b] \subseteq refs'[head]
    BY DEF Keeps
  <2> QED BY <2>1 DEF InBranches, GitTypeOK
<1>2. CASE stash' = stash /\ (work \subseteq work' \/ work \subseteq refs'[head])
  <2>1. InStash' = InStash /\ refs'[head] \subseteq InBranches'
    BY <1>2 DEF InStash, InBranches, GitTypeOK
  <2> QED BY <1>1, <1>2, <2>1 DEF Held
<1>3. CASE stash' = <<[by |-> r, holds |-> work]>> \o stash
  <2>1. [by |-> r, holds |-> work] \in Entries /\ stash \in Seq(Entries)
    BY DEF GitTypeOK, Entries
  <2>2. InStash' = InStash \cup work
    BY <1>3, <2>1, PushFacts
  <2> QED BY <1>1, <1>3, <2>2 DEF Held
<1> QED BY <1>2, <1>3 DEF Keeps

GitInv == GitTypeOK /\ \A r \in Runs : Labelled(r) /\ NoBranchYet(r)

LEMMA GitStarts == Init => GitInv
<1> SUFFICES ASSUME Init PROVE GitInv
  OBVIOUS
<1>1. GitTypeOK
  <2>1. PICK ahead \in SUBSET {Local}, behind \in SUBSET {Theirs}, tracked \in BOOLEAN :
           /\ refs = [b \in Branches |-> IF b = Source THEN {Base} \cup ahead ELSE {}]
           /\ upstream = [set |-> tracked, seen |-> {Base}, is |-> {Base} \cup behind]
    BY DEF Init
  <2>2. refs \in [Branches -> SUBSET Changes] /\ head = Source /\ refs[head] # {}
    BY <2>1, BranchFacts DEF Init, Changes
  <2>3. upstream \in [set : BOOLEAN, seen : SUBSET Changes, is : SUBSET Changes]
    BY <2>1 DEF Changes
  <2>4. stash \in Seq(Entries)
    BY EmptySeq DEF Init
  <2>5. work \in SUBSET Changes /\ pc = [r \in Runs |-> pc[r]]
    BY DEF Init, Changes
  <2>6. run \in [Runs -> RunRecords]
    <3>1. NewRun \subseteq RunRecords
      BY DEF NewRun, RunRecords
    <3> QED BY <3>1 DEF Init
  <2> QED BY <2>2, <2>3, <2>4, <2>5, <2>6, BranchFacts DEF GitTypeOK
<1>2. ASSUME NEW r \in Runs PROVE Labelled(r)
  <2>1. pc[r] = "new" /\ run[r] \in NewRun
    BY DEF Init
  <2>2. run[r].source = NoBranch /\ ~ run[r].stashed /\ ~ run[r].recovery
    BY <2>1 DEF NewRun
  <2> QED BY <2>1, <2>2
    DEF Labelled, SyncLabels, SyncWay, IntLabels, CandidateLabels, KnownPolicies
<1>3. ASSUME NEW r \in Runs PROVE NoBranchYet(r)
  <2>1. pc[r] = "new" /\ refs[RunBranch(r)] = {} /\ refs[Candidate(r)] = {}
    BY BranchFacts DEF Init
  <2> QED BY <2>1 DEF NoBranchYet, SyncWay
<1> QED BY <1>1, <1>2, <1>3 DEF GitInv

LEMMA AsideFacts ==
    ASSUME GitTypeOK, stashAside
    PROVE  /\ GitTypeOK' /\ Held \subseteq Held'
           /\ stash' = <<[by |-> "operator", holds |-> {Aside}]>> \o stash
           /\ UNCHANGED <<refs, upstream, head, work, pc, run>>
<1> DEFINE e == [by |-> "operator", holds |-> {Aside}]
<1>1. /\ stash' = <<e>> \o stash
      /\ UNCHANGED <<refs, upstream, head, work, pc, run>>
  BY DEF stashAside
<1>2. e \in Entries /\ stash \in Seq(Entries)
  BY DEF Entries, Changes, GitTypeOK
<1> HIDE DEF e
<1>3. stash' \in Seq(Entries) /\ InStash' = InStash \cup e.holds
  BY <1>1, <1>2, StashFacts, PushFacts
<1>4. GitTypeOK'
  BY <1>1, <1>3 DEF GitTypeOK
<1>5. Held \subseteq Held'
  BY <1>1, <1>3 DEF Held, InBranches
<1> QED BY <1>1, <1>4, <1>5 DEF e

LEMMA GitStep ==
    ASSUME GitInv, [Next]_vars
    PROVE  /\ GitInv' /\ Held \subseteq Held'
           /\ \/ UNCHANGED <<refs, upstream, head, work, stash, pc, run>>
              \/ stashAside
              \/ \E r \in Runs : Outcomes(r)
<1>1. CASE UNCHANGED vars
  <2>1. UNCHANGED <<refs, upstream, head, work, stash, pc, run>>
    BY <1>1 DEF vars
  <2>2. Held' = Held
    BY <2>1 DEF Held, InBranches, InStash
  <2>3. GitInv'
    BY <2>1 DEF GitInv, GitTypeOK, Labelled, NoBranchYet
  <2> QED BY <2>1, <2>2, <2>3
<1>2. CASE stashAside
  <2>1. UNCHANGED <<refs, pc, run>>
    BY <1>2, AsideFacts DEF GitInv
  <2>2. GitInv'
    BY <1>2, <2>1, AsideFacts DEF GitInv, Labelled, NoBranchYet
  <2> QED BY <1>2, <2>2, AsideFacts DEF GitInv
<1>3. ASSUME NEW r \in Runs, RunStep(r)
      PROVE  GitInv' /\ Held \subseteq Held' /\ Outcomes(r)
  <2>1. GitTypeOK /\ Labelled(r) /\ NoBranchYet(r)
    BY DEF GitInv
  <2>2. pc[r] = "int branch" => refs[RunBranch(r)] = {}
    BY <2>1 DEF NoBranchYet, CandidateLabels
  <2>3. GitTypeOK' /\ Outcomes(r)
    BY <1>3, <2>1, <2>2, OutcomeFacts
  <2>4. Labelled(r)' /\ NoBranchYet(r)' /\ Keeps(r)
    BY <2>1, <2>3, LabelStep, FreshStep, KeepStep
  <2>5. ASSUME NEW q \in Runs \ {r} PROVE Labelled(q)' /\ NoBranchYet(q)'
    <3>1. /\ pc'[q] = pc[q]
          /\ UNCHANGED <<run[q].policy, run[q].source, run[q].dirty, run[q].stashed,
                         run[q].recovery>>
      BY <2>1, <2>3, OthersStep
    <3>2. RunBranch(q) \in Branches \ {RunBranch(r), Candidate(r)}
          /\ Candidate(q) \in Branches \ {RunBranch(r), Candidate(r)}
      BY BranchFacts
    <3>3. (refs[RunBranch(q)] = {} => refs'[RunBranch(q)] = {})
          /\ (refs[Candidate(q)] = {} => refs'[Candidate(q)] = {})
      BY <2>4, <3>2 DEF Keeps
    <3>4. Labelled(q) /\ NoBranchYet(q)
      BY DEF GitInv
    <3>5. Labelled(q)'
      BY <3>1, <3>4 DEF Labelled
    <3>6. NoBranchYet(q)'
      BY <3>1, <3>3, <3>4 DEF NoBranchYet
    <3> QED BY <3>5, <3>6
  <2>6. GitInv'
    BY <2>3, <2>4, <2>5 DEF GitInv
  <2> QED BY <2>1, <2>3, <2>4, <2>6, HeldStep
<1> QED BY <1>1, <1>2, <1>3 DEF Next, RunStep

LEMMA GitAlways == Spec => []GitInv
<1>1. GitInv /\ [Next]_vars => GitInv'
  BY GitStep
<1> QED BY <1>1, GitStarts, PTL DEF Spec

\* Every variable of the worktree keeps its type.
THEOREM WorktreeTypes == Spec => []GitTypeOK
<1>1. GitInv => GitTypeOK
  BY DEF GitInv
<1> QED BY <1>1, GitAlways, PTL

\* No step of a preflight or a cleanup makes a change unreachable, whatever runs
\* interleave, whichever command fails and whenever a run is killed
\* (git_sync_preflight.go:10-12, autostash.go:62-65).
THEOREM WorktreeLosesNothing == Spec => NothingLost
<1>1. GitInv /\ [Next]_vars => [Held \subseteq Held']_vars
  BY GitStep
<1> QED BY <1>1, GitAlways, PTL DEF Spec, NothingLost

-----------------------------------------------------------------------------
(* The worktree: one run on its own *)

Alone(r) == \A q \in Runs \ {r} : pc[q] = "new"

AtSource == {"new", "stashed", "sync branch", "sync return", "sync create", "int create",
             "int ff", "int run"} \cup KnownPolicies \cup SyncWay
AtRunBranch == {"allow-dirty checkpoint", "sync checkpoint", "sync source",
    "sync rebase", "int drop"}
\* What is checked out at each label.
Placed(r) ==
    /\ run[r].source \in {NoBranch, Source}
    /\ pc[r] \in AtSource => head = Source
    /\ pc[r] \in AtRunBranch => head = RunBranch(r)
    /\ pc[r] \in CandidateLabels => head = Candidate(r)

\* Where the source branch is as it was found, and how it moved elsewhere.
Untouched == {"allow-dirty checkpoint", "stashed", "sync branch", "sync checkpoint", "sync source",
              "sync upstream", "sync fetch", "sync compare", "sync ff", "int create", "int ff"}
             \cup KnownPolicies \cup CandidateLabels
Grounded(r) ==
    /\ pc[r] \in Untouched => refs[Source] = run[r].found
    /\ pc[r] \in {"int source", "int ff"} => refs[RunBranch(r)] = refs[Candidate(r)]
    /\ pc[r] # "new" =>
          \/ refs[Source] = run[r].found
          \/ run[r].policy = "sync" /\ refs[Source] = upstream.seen
          \/ run[r].policy = "integrate" /\ refs[Source] = refs[RunBranch(r)]

\* What the run found, and where it is at each label.
Start(r) == run[r].found \cup run[r].foundWork
Saved(r) == /\ entriesOf(r) # {}
            /\ \A i \in entriesOf(r) : run[r].foundWork \subseteq stash[i].holds
Unsaved == {"allow-dirty checkpoint", "sync branch", "sync checkpoint", "int create",
            "int checkpoint"} \cup KnownPolicies
Carried(r) ==
    /\ pc[r] \in Unsaved => run[r].found \subseteq refs[head] /\ run[r].foundWork \subseteq work
    /\ pc[r] \in SyncLabels \cup IntLabels /\ ~ run[r].dirty => run[r].foundWork = {}
    /\ pc[r] \in {"sync source", "sync return", "sync rebase"}
         => Start(r) \subseteq refs[RunBranch(r)]
    /\ pc[r] \in SyncWay \cup {"sync create"} =>
          IF run[r].dirty THEN Start(r) \subseteq refs[RunBranch(r)]
          ELSE run[r].found \subseteq refs[Source]
    /\ pc[r] \in CandidateLabels \ {"int checkpoint"} => Start(r) \subseteq refs[Candidate(r)]
    /\ pc[r] \in {"int source", "int ff", "int run", "int drop"}
         => Start(r) \subseteq refs[RunBranch(r)]
    /\ pc[r] \in {"running", "cleanup", "ended"} /\ ~ run[r].stashed =>
          Start(r) \subseteq refs[head] \cup work
    /\ pc[r] = "stashed" \/ run[r].stashed => run[r].found \subseteq refs[head] /\ Saved(r)
    /\ pc[r] = "ended" /\ run[r].stashed => run[r].foundWork \subseteq work
    /\ pc[r] \in {"new"} \cup KnownPolicies => entriesOf(r) = {}

LEMMA PlaceStep ==
    ASSUME GitTypeOK, NEW r \in Runs, Outcomes(r), Labelled(r), Placed(r)
    PROVE  Placed(r)'
<1>a. /\ refs \in [Branches -> SUBSET Changes] /\ head \in Branches
      /\ run \in [Runs -> RunRecords]
  BY DEF GitTypeOK
<1>b. run[r].policy \in KnownPolicies
  BY PoliciesAreKnown DEF GitTypeOK, RunRecords
<1>1. CASE begin(r)
  BY <1>1, <1>a, <1>b, BranchFacts, BeginFacts
  DEF Fails, Moves, repo, Placed, AtSource, AtRunBranch, SyncWay, CandidateLabels, KnownPolicies,
     Labelled, SyncLabels, IntLabels
<1>2. CASE Creates(r, "allow-dirty", RunBranch(r), "allow-dirty checkpoint")
  BY <1>2, <1>a, <1>b, BranchFacts
  DEF Fails, Moves, repo, Placed, AtSource, AtRunBranch, SyncWay, CandidateLabels, KnownPolicies,
     Labelled, SyncLabels, IntLabels, Creates
<1>3. CASE Checkpoints(r, "allow-dirty checkpoint", "running")
  BY <1>3, <1>a, <1>b, BranchFacts
  DEF Fails, Moves, repo, Placed, AtSource, AtRunBranch, SyncWay, CandidateLabels, KnownPolicies,
     Labelled, SyncLabels, IntLabels, Checkpoints
<1>4. CASE Creates(r, "branch", RunBranch(r), "running")
  BY <1>4, <1>a, <1>b, BranchFacts
  DEF Fails, Moves, repo, Placed, AtSource, AtRunBranch, SyncWay, CandidateLabels, KnownPolicies,
     Labelled, SyncLabels, IntLabels, Creates
<1>5. CASE preflightClean(r)
  BY <1>5, <1>a, <1>b, BranchFacts, CleanFacts
  DEF Fails, Moves, repo, Placed, AtSource, AtRunBranch, SyncWay, CandidateLabels, KnownPolicies,
     Labelled, SyncLabels, IntLabels
<1>6. CASE gitAutostash(r)
  BY <1>6, <1>a, <1>b, BranchFacts, AutostashFacts
  DEF Fails, Moves, repo, Placed, AtSource, AtRunBranch, SyncWay, CandidateLabels, KnownPolicies,
     Labelled, SyncLabels, IntLabels
<1>7. CASE resolveStash(r)
  BY <1>7, <1>a, <1>b, BranchFacts, ResolveFacts, ReadFacts
  DEF Fails, Moves, repo, Placed, AtSource, AtRunBranch, SyncWay, CandidateLabels, KnownPolicies,
     Labelled, SyncLabels, IntLabels
<1>8. CASE Inspects(r, "sync", "sync branch", "sync upstream")
  BY <1>8, <1>a, <1>b, BranchFacts, ReadFacts
  DEF Fails, Moves, repo, Placed, AtSource, AtRunBranch, SyncWay, CandidateLabels, KnownPolicies,
     Labelled, SyncLabels, IntLabels, Inspects
<1>9. CASE Creates(r, "sync branch", RunBranch(r), "sync checkpoint")
  BY <1>9, <1>a, <1>b, BranchFacts
  DEF Fails, Moves, repo, Placed, AtSource, AtRunBranch, SyncWay, CandidateLabels, KnownPolicies,
     Labelled, SyncLabels, IntLabels, Creates
<1>10. CASE Checkpoints(r, "sync checkpoint", "sync source")
  BY <1>10, <1>a, <1>b, BranchFacts
  DEF Fails, Moves, repo, Placed, AtSource, AtRunBranch, SyncWay, CandidateLabels, KnownPolicies,
     Labelled, SyncLabels, IntLabels, Checkpoints
<1>11. CASE Switches(r, "sync source", run[r].source, "sync upstream")
  BY <1>11, <1>a, <1>b, BranchFacts
  DEF Fails, Moves, repo, Placed, AtSource, AtRunBranch, SyncWay, CandidateLabels, KnownPolicies,
     Labelled, SyncLabels, IntLabels, Switches
<1>12. CASE syncUpstream(r)
  BY <1>12, <1>a, <1>b, BranchFacts, UpstreamFacts
  DEF Fails, Moves, repo, Placed, AtSource, AtRunBranch, SyncWay, CandidateLabels, KnownPolicies,
     Labelled, SyncLabels, IntLabels, afterSync
<1>13. CASE Fetches(r, "sync fetch", "sync compare", "failed")
  BY <1>13, <1>a, <1>b, BranchFacts
  DEF Fails, Moves, repo, Placed, AtSource, AtRunBranch, SyncWay, CandidateLabels, KnownPolicies,
     Labelled, SyncLabels, IntLabels, Fetches
<1>14. CASE syncCompare(r)
  BY <1>14, <1>a, <1>b, BranchFacts, CompareFacts
  DEF Fails, Moves, repo, Placed, AtSource, AtRunBranch, SyncWay, CandidateLabels, KnownPolicies,
     Labelled, SyncLabels, IntLabels, afterSync
<1>15. CASE Forwards(r, "sync ff", upstream.seen, "sync advanced")
  BY <1>15, <1>a, <1>b, BranchFacts
  DEF Fails, Moves, repo, Placed, AtSource, AtRunBranch, SyncWay, CandidateLabels, KnownPolicies,
     Labelled, SyncLabels, IntLabels, Forwards
<1>16. CASE syncAdvanced(r)
  BY <1>16, <1>a, <1>b, BranchFacts, AdvancedFacts, ReadFacts
  DEF Fails, Moves, repo, Placed, AtSource, AtRunBranch, SyncWay, CandidateLabels, KnownPolicies,
     Labelled, SyncLabels, IntLabels, afterSync
<1>17. CASE Switches(r, "sync return", RunBranch(r), afterReturn(r))
  BY <1>17, <1>a, <1>b, BranchFacts
  DEF Fails, Moves, repo, Placed, AtSource, AtRunBranch, SyncWay, CandidateLabels, KnownPolicies,
     Labelled, SyncLabels, IntLabels, Switches, afterReturn
<1>18. CASE gitRebaseCheckpoint(r)
  <2>1. run[r].source \in Branches
    BY <1>18 DEF gitRebaseCheckpoint, Labelled, SyncLabels
  <2> QED
    BY <1>18, <1>a, <1>b, <2>1, BranchFacts, RebaseFacts
    DEF Fails, Moves, repo, Placed, AtSource, AtRunBranch, SyncWay, CandidateLabels,
     KnownPolicies, Labelled, SyncLabels, IntLabels
<1>19. CASE Creates(r, "sync create", RunBranch(r), "running")
  BY <1>19, <1>a, <1>b, BranchFacts
  DEF Fails, Moves, repo, Placed, AtSource, AtRunBranch, SyncWay, CandidateLabels, KnownPolicies,
     Labelled, SyncLabels, IntLabels, Creates
<1>20. CASE Inspects(r, "integrate", "int create", "int create")
  BY <1>20, <1>a, <1>b, BranchFacts, ReadFacts
  DEF Fails, Moves, repo, Placed, AtSource, AtRunBranch, SyncWay, CandidateLabels, KnownPolicies,
     Labelled, SyncLabels, IntLabels, Inspects
<1>21. CASE Creates(r, "int create", Candidate(r), "int checkpoint")
  BY <1>21, <1>a, <1>b, BranchFacts
  DEF Fails, Moves, repo, Placed, AtSource, AtRunBranch, SyncWay, CandidateLabels, KnownPolicies,
     Labelled, SyncLabels, IntLabels, Creates
<1>22. CASE checksOut(r)
  BY <1>22, <1>a, <1>b, BranchFacts
  DEF Fails, Moves, repo, Placed, AtSource, AtRunBranch, SyncWay, CandidateLabels, KnownPolicies,
     Labelled, SyncLabels, IntLabels, checksOut, Checkpoints
<1>23. CASE intUpstream(r)
  BY <1>23, <1>a, <1>b, BranchFacts, IntUpstreamFacts
  DEF Fails, Moves, repo, Placed, AtSource, AtRunBranch, SyncWay, CandidateLabels, KnownPolicies,
     Labelled, SyncLabels, IntLabels
<1>24. CASE Fetches(r, "int fetch", "int merge", "restore")
  BY <1>24, <1>a, <1>b, BranchFacts
  DEF Fails, Moves, repo, Placed, AtSource, AtRunBranch, SyncWay, CandidateLabels, KnownPolicies,
     Labelled, SyncLabels, IntLabels, Fetches
<1>25. CASE intMerge(r)
  BY <1>25, <1>a, <1>b, BranchFacts, MergeFacts
  DEF Fails, Moves, repo, Placed, AtSource, AtRunBranch, SyncWay, CandidateLabels, KnownPolicies,
     Labelled, SyncLabels, IntLabels
<1>26. CASE abortCandidateMerge(r)
  BY <1>26, <1>a, <1>b, BranchFacts, AbortFacts
  DEF Fails, Moves, repo, Placed, AtSource, AtRunBranch, SyncWay, CandidateLabels, KnownPolicies,
     Labelled, SyncLabels, IntLabels
<1>27. CASE Switches(r, "restore", run[r].source, "failed")
  BY <1>27, <1>a, <1>b, BranchFacts
  DEF Fails, Moves, repo, Placed, AtSource, AtRunBranch, SyncWay, CandidateLabels, KnownPolicies,
     Labelled, SyncLabels, IntLabels, Switches
<1>28. CASE CreatesAt(r, "int branch", RunBranch(r), Candidate(r), "int source")
  BY <1>28, <1>a, <1>b, BranchFacts
  DEF Fails, Moves, repo, Placed, AtSource, AtRunBranch, SyncWay, CandidateLabels, KnownPolicies,
     Labelled, SyncLabels, IntLabels, CreatesAt
<1>29. CASE Switches(r, "int source", run[r].source, "int ff")
  BY <1>29, <1>a, <1>b, BranchFacts
  DEF Fails, Moves, repo, Placed, AtSource, AtRunBranch, SyncWay, CandidateLabels, KnownPolicies,
     Labelled, SyncLabels, IntLabels, Switches
<1>30. CASE Forwards(r, "int ff", refs[Candidate(r)], "int run")
  BY <1>30, <1>a, <1>b, BranchFacts
  DEF Fails, Moves, repo, Placed, AtSource, AtRunBranch, SyncWay, CandidateLabels, KnownPolicies,
     Labelled, SyncLabels, IntLabels, Forwards
<1>31. CASE Switches(r, "int run", RunBranch(r), "int drop")
  BY <1>31, <1>a, <1>b, BranchFacts
  DEF Fails, Moves, repo, Placed, AtSource, AtRunBranch, SyncWay, CandidateLabels, KnownPolicies,
     Labelled, SyncLabels, IntLabels, Switches
<1>32. CASE Deletes(r, "int drop", Candidate(r), "running")
  BY <1>32, <1>a, <1>b, BranchFacts
  DEF Fails, Moves, repo, Placed, AtSource, AtRunBranch, SyncWay, CandidateLabels, KnownPolicies,
     Labelled, SyncLabels, IntLabels, Deletes
<1>33. CASE edit(r)
  BY <1>33, <1>a, <1>b, BranchFacts, EditFacts
  DEF Fails, Moves, repo, Placed, AtSource, AtRunBranch, SyncWay, CandidateLabels, KnownPolicies,
     Labelled, SyncLabels, IntLabels
<1>34. CASE restoreAutostash(r)
  BY <1>34, <1>a, <1>b, BranchFacts, CleanupFacts
  DEF Fails, Moves, repo, Placed, AtSource, AtRunBranch, SyncWay, CandidateLabels, KnownPolicies,
     Labelled, SyncLabels, IntLabels
<1>35. CASE finishPreflightCleanup(r)
  BY <1>35, <1>a, <1>b, BranchFacts, FinishFacts, ReadFacts
  DEF Fails, Moves, repo, Placed, AtSource, AtRunBranch, SyncWay, CandidateLabels, KnownPolicies,
     Labelled, SyncLabels, IntLabels
<1>36. CASE kill(r)
  BY <1>36, <1>a, <1>b, BranchFacts, KillFacts
  DEF Fails, Moves, repo, Placed, AtSource, AtRunBranch, SyncWay, CandidateLabels, KnownPolicies,
     Labelled, SyncLabels, IntLabels
<1> QED
  BY <1>1, <1>2, <1>3, <1>4, <1>5, <1>6, <1>7, <1>8, <1>9, <1>10, <1>11, <1>12, <1>13,
     <1>14, <1>15, <1>16, <1>17, <1>18, <1>19, <1>20, <1>21, <1>22, <1>23, <1>24, <1>25, <1>26,
     <1>27, <1>28, <1>29, <1>30, <1>31, <1>32, <1>33, <1>34, <1>35, <1>36 DEF Outcomes

LEMMA GroundStep ==
    ASSUME GitTypeOK, NEW r \in Runs, Outcomes(r), Labelled(r), Placed(r), Grounded(r)
    PROVE  Grounded(r)'
<1>a. /\ refs \in [Branches -> SUBSET Changes] /\ head \in Branches
      /\ run \in [Runs -> RunRecords]
  BY DEF GitTypeOK
<1>b. run[r].policy \in KnownPolicies
  BY PoliciesAreKnown DEF GitTypeOK, RunRecords
<1>1. CASE begin(r)
  BY ZenonT(30), <1>1, <1>a, <1>b, BranchFacts, BeginFacts
  DEF Fails, Moves, repo, Grounded, Untouched, Placed, AtSource, AtRunBranch, SyncWay,
     CandidateLabels, KnownPolicies, Labelled, SyncLabels, IntLabels
<1>2. CASE Creates(r, "allow-dirty", RunBranch(r), "allow-dirty checkpoint")
  BY <1>2, <1>a, <1>b, BranchFacts
  DEF Fails, Moves, repo, Grounded, Untouched, Placed, AtSource, AtRunBranch, SyncWay,
     CandidateLabels, KnownPolicies, Labelled, SyncLabels, IntLabels, Creates
<1>3. CASE Checkpoints(r, "allow-dirty checkpoint", "running")
  BY <1>3, <1>a, <1>b, BranchFacts
  DEF Fails, Moves, repo, Grounded, Untouched, Placed, AtSource, AtRunBranch, SyncWay,
     CandidateLabels, KnownPolicies, Labelled, SyncLabels, IntLabels, Checkpoints
<1>4. CASE Creates(r, "branch", RunBranch(r), "running")
  BY <1>4, <1>a, <1>b, BranchFacts
  DEF Fails, Moves, repo, Grounded, Untouched, Placed, AtSource, AtRunBranch, SyncWay,
     CandidateLabels, KnownPolicies, Labelled, SyncLabels, IntLabels, Creates
<1>5. CASE preflightClean(r)
  BY <1>5, <1>a, <1>b, BranchFacts, CleanFacts
  DEF Fails, Moves, repo, Grounded, Untouched, Placed, AtSource, AtRunBranch, SyncWay,
     CandidateLabels, KnownPolicies, Labelled, SyncLabels, IntLabels
<1>6. CASE gitAutostash(r)
  BY <1>6, <1>a, <1>b, BranchFacts, AutostashFacts
  DEF Fails, Moves, repo, Grounded, Untouched, Placed, AtSource, AtRunBranch, SyncWay,
     CandidateLabels, KnownPolicies, Labelled, SyncLabels, IntLabels
<1>7. CASE resolveStash(r)
  BY <1>7, <1>a, <1>b, BranchFacts, ResolveFacts, ReadFacts
  DEF Fails, Moves, repo, Grounded, Untouched, Placed, AtSource, AtRunBranch, SyncWay,
     CandidateLabels, KnownPolicies, Labelled, SyncLabels, IntLabels
<1>8. CASE Inspects(r, "sync", "sync branch", "sync upstream")
  BY <1>8, <1>a, <1>b, BranchFacts, ReadFacts
  DEF Fails, Moves, repo, Grounded, Untouched, Placed, AtSource, AtRunBranch, SyncWay,
     CandidateLabels, KnownPolicies, Labelled, SyncLabels, IntLabels, Inspects
<1>9. CASE Creates(r, "sync branch", RunBranch(r), "sync checkpoint")
  BY <1>9, <1>a, <1>b, BranchFacts
  DEF Fails, Moves, repo, Grounded, Untouched, Placed, AtSource, AtRunBranch, SyncWay,
     CandidateLabels, KnownPolicies, Labelled, SyncLabels, IntLabels, Creates
<1>10. CASE Checkpoints(r, "sync checkpoint", "sync source")
  BY <1>10, <1>a, <1>b, BranchFacts
  DEF Fails, Moves, repo, Grounded, Untouched, Placed, AtSource, AtRunBranch, SyncWay,
     CandidateLabels, KnownPolicies, Labelled, SyncLabels, IntLabels, Checkpoints
<1>11. CASE Switches(r, "sync source", run[r].source, "sync upstream")
  BY <1>11, <1>a, <1>b, BranchFacts
  DEF Fails, Moves, repo, Grounded, Untouched, Placed, AtSource, AtRunBranch, SyncWay,
     CandidateLabels, KnownPolicies, Labelled, SyncLabels, IntLabels, Switches
<1>12. CASE syncUpstream(r)
  BY <1>12, <1>a, <1>b, BranchFacts, UpstreamFacts
  DEF Fails, Moves, repo, Grounded, Untouched, Placed, AtSource, AtRunBranch, SyncWay,
     CandidateLabels, KnownPolicies, Labelled, SyncLabels, IntLabels, afterSync
<1>13. CASE Fetches(r, "sync fetch", "sync compare", "failed")
  BY <1>13, <1>a, <1>b, BranchFacts
  DEF Fails, Moves, repo, Grounded, Untouched, Placed, AtSource, AtRunBranch, SyncWay,
     CandidateLabels, KnownPolicies, Labelled, SyncLabels, IntLabels, Fetches
<1>14. CASE syncCompare(r)
  BY <1>14, <1>a, <1>b, BranchFacts, CompareFacts
  DEF Fails, Moves, repo, Grounded, Untouched, Placed, AtSource, AtRunBranch, SyncWay,
     CandidateLabels, KnownPolicies, Labelled, SyncLabels, IntLabels, afterSync
<1>15. CASE Forwards(r, "sync ff", upstream.seen, "sync advanced")
  BY ZenonT(60), <1>15, <1>a, <1>b, BranchFacts
  DEF Fails, Moves, repo, Grounded, Untouched, Placed, AtSource, AtRunBranch, SyncWay,
     CandidateLabels, KnownPolicies, Labelled, SyncLabels, IntLabels, Forwards
<1>16. CASE syncAdvanced(r)
  BY ZenonT(30), <1>16, <1>a, <1>b, BranchFacts, AdvancedFacts, ReadFacts
  DEF Fails, Moves, repo, Grounded, Untouched, Placed, AtSource, AtRunBranch, SyncWay,
     CandidateLabels, KnownPolicies, Labelled, SyncLabels, IntLabels, afterSync
<1>17. CASE Switches(r, "sync return", RunBranch(r), afterReturn(r))
  BY <1>17, <1>a, <1>b, BranchFacts
  DEF Fails, Moves, repo, Grounded, Untouched, Placed, AtSource, AtRunBranch, SyncWay,
     CandidateLabels, KnownPolicies, Labelled, SyncLabels, IntLabels, Switches, afterReturn
<1>18. CASE gitRebaseCheckpoint(r)
  <2>1. run[r].source \in Branches
    BY <1>18 DEF gitRebaseCheckpoint, Labelled, SyncLabels
  <2> QED
    BY <1>18, <1>a, <1>b, <2>1, BranchFacts, RebaseFacts
    DEF Fails, Moves, repo, Grounded, Untouched, Placed, AtSource, AtRunBranch, SyncWay,
     CandidateLabels, KnownPolicies, Labelled, SyncLabels, IntLabels
<1>19. CASE Creates(r, "sync create", RunBranch(r), "running")
  BY <1>19, <1>a, <1>b, BranchFacts
  DEF Fails, Moves, repo, Grounded, Untouched, Placed, AtSource, AtRunBranch, SyncWay,
     CandidateLabels, KnownPolicies, Labelled, SyncLabels, IntLabels, Creates
<1>20. CASE Inspects(r, "integrate", "int create", "int create")
  BY <1>20, <1>a, <1>b, BranchFacts, ReadFacts
  DEF Fails, Moves, repo, Grounded, Untouched, Placed, AtSource, AtRunBranch, SyncWay,
     CandidateLabels, KnownPolicies, Labelled, SyncLabels, IntLabels, Inspects
<1>21. CASE Creates(r, "int create", Candidate(r), "int checkpoint")
  BY <1>21, <1>a, <1>b, BranchFacts
  DEF Fails, Moves, repo, Grounded, Untouched, Placed, AtSource, AtRunBranch, SyncWay,
     CandidateLabels, KnownPolicies, Labelled, SyncLabels, IntLabels, Creates
<1>22. CASE checksOut(r)
  BY ZenonT(30), <1>22, <1>a, <1>b, BranchFacts
  DEF Fails, Moves, repo, Grounded, Untouched, Placed, AtSource, AtRunBranch, SyncWay,
     CandidateLabels, KnownPolicies, Labelled, SyncLabels, IntLabels, checksOut, Checkpoints
<1>23. CASE intUpstream(r)
  BY <1>23, <1>a, <1>b, BranchFacts, IntUpstreamFacts
  DEF Fails, Moves, repo, Grounded, Untouched, Placed, AtSource, AtRunBranch, SyncWay,
     CandidateLabels, KnownPolicies, Labelled, SyncLabels, IntLabels
<1>24. CASE Fetches(r, "int fetch", "int merge", "restore")
  BY <1>24, <1>a, <1>b, BranchFacts
  DEF Fails, Moves, repo, Grounded, Untouched, Placed, AtSource, AtRunBranch, SyncWay,
     CandidateLabels, KnownPolicies, Labelled, SyncLabels, IntLabels, Fetches
<1>25. CASE intMerge(r)
  <2>1. /\ pc[r] = "int merge" /\ pc'[r] \in {"restore", "int abort", "int branch"}
        /\ UNCHANGED <<run, upstream>> /\ head = Candidate(r)
    BY <1>25, MergeFacts DEF Fails, Moves, repo, Placed, CandidateLabels
  <2>2. refs'[Source] = refs[Source]
    BY <1>25, <1>a, <2>1, BranchFacts, MergeFacts DEF Fails, repo
  <2>3. refs[Source] = run[r].found
    BY <2>1 DEF Grounded, Untouched, CandidateLabels
  <2> QED
    BY <2>1, <2>2, <2>3 DEF Grounded
<1>26. CASE abortCandidateMerge(r)
  BY <1>26, <1>a, <1>b, BranchFacts, AbortFacts
  DEF Fails, Moves, repo, Grounded, Untouched, Placed, AtSource, AtRunBranch, SyncWay,
     CandidateLabels, KnownPolicies, Labelled, SyncLabels, IntLabels
<1>27. CASE Switches(r, "restore", run[r].source, "failed")
  BY <1>27, <1>a, <1>b, BranchFacts
  DEF Fails, Moves, repo, Grounded, Untouched, Placed, AtSource, AtRunBranch, SyncWay,
     CandidateLabels, KnownPolicies, Labelled, SyncLabels, IntLabels, Switches
<1>28. CASE CreatesAt(r, "int branch", RunBranch(r), Candidate(r), "int source")
  BY <1>28, <1>a, <1>b, BranchFacts
  DEF Fails, Moves, repo, Grounded, Untouched, Placed, AtSource, AtRunBranch, SyncWay,
     CandidateLabels, KnownPolicies, Labelled, SyncLabels, IntLabels, CreatesAt
<1>29. CASE Switches(r, "int source", run[r].source, "int ff")
  BY <1>29, <1>a, <1>b, BranchFacts
  DEF Fails, Moves, repo, Grounded, Untouched, Placed, AtSource, AtRunBranch, SyncWay,
     CandidateLabels, KnownPolicies, Labelled, SyncLabels, IntLabels, Switches
<1>30. CASE Forwards(r, "int ff", refs[Candidate(r)], "int run")
  BY <1>30, <1>a, <1>b, BranchFacts
  DEF Fails, Moves, repo, Grounded, Untouched, Placed, AtSource, AtRunBranch, SyncWay,
     CandidateLabels, KnownPolicies, Labelled, SyncLabels, IntLabels, Forwards
<1>31. CASE Switches(r, "int run", RunBranch(r), "int drop")
  BY <1>31, <1>a, <1>b, BranchFacts
  DEF Fails, Moves, repo, Grounded, Untouched, Placed, AtSource, AtRunBranch, SyncWay,
     CandidateLabels, KnownPolicies, Labelled, SyncLabels, IntLabels, Switches
<1>32. CASE Deletes(r, "int drop", Candidate(r), "running")
  BY <1>32, <1>a, <1>b, BranchFacts
  DEF Fails, Moves, repo, Grounded, Untouched, Placed, AtSource, AtRunBranch, SyncWay,
     CandidateLabels, KnownPolicies, Labelled, SyncLabels, IntLabels, Deletes
<1>33. CASE edit(r)
  BY <1>33, <1>a, <1>b, BranchFacts, EditFacts
  DEF Fails, Moves, repo, Grounded, Untouched, Placed, AtSource, AtRunBranch, SyncWay,
     CandidateLabels, KnownPolicies, Labelled, SyncLabels, IntLabels
<1>34. CASE restoreAutostash(r)
  BY <1>34, <1>a, <1>b, BranchFacts, CleanupFacts
  DEF Fails, Moves, repo, Grounded, Untouched, Placed, AtSource, AtRunBranch, SyncWay,
     CandidateLabels, KnownPolicies, Labelled, SyncLabels, IntLabels
<1>35. CASE finishPreflightCleanup(r)
  BY ZenonT(30), <1>35, <1>a, <1>b, BranchFacts, FinishFacts, ReadFacts
  DEF Fails, Moves, repo, Grounded, Untouched, Placed, AtSource, AtRunBranch, SyncWay,
     CandidateLabels, KnownPolicies, Labelled, SyncLabels, IntLabels
<1>36. CASE kill(r)
  BY <1>36, <1>a, <1>b, BranchFacts, KillFacts
  DEF Fails, Moves, repo, Grounded, Untouched, Placed, AtSource, AtRunBranch, SyncWay,
     CandidateLabels, KnownPolicies, Labelled, SyncLabels, IntLabels
<1> QED
  BY <1>1, <1>2, <1>3, <1>4, <1>5, <1>6, <1>7, <1>8, <1>9, <1>10, <1>11, <1>12, <1>13,
     <1>14, <1>15, <1>16, <1>17, <1>18, <1>19, <1>20, <1>21, <1>22, <1>23, <1>24, <1>25, <1>26,
     <1>27, <1>28, <1>29, <1>30, <1>31, <1>32, <1>33, <1>34, <1>35, <1>36 DEF Outcomes

\* An entry pushed on the stash leaves the others what they hold.
LEMMA EntryFacts ==
    ASSUME stash \in Seq(Entries), NEW e \in Entries, stash' = <<e>> \o stash, NEW r
    PROVE  /\ e.by # r => /\ entriesOf(r) = {} => entriesOf(r)' = {}
                          /\ Saved(r) /\ run' = run => Saved(r)'
           /\ e.by = r /\ entriesOf(r) = {} => entriesOf(r)' = {1} /\ stash'[1] = e
<1>1. /\ DOMAIN stash' = 1..(Len(stash) + 1) /\ DOMAIN stash = 1..Len(stash) /\ Len(stash) \in Nat
      /\ stash'[1] = e /\ \A i \in DOMAIN stash : stash'[i + 1] = stash[i]
  BY StashFacts
<1>2. ASSUME NEW i \in DOMAIN stash', i # 1
      PROVE  i - 1 \in DOMAIN stash /\ stash'[i] = stash[i - 1]
  <2>1. i - 1 \in DOMAIN stash /\ (i - 1) + 1 = i
    BY <1>1, <1>2
  <2> QED BY <1>1, <2>1
<1>3. ASSUME NEW i \in DOMAIN stash PROVE i + 1 \in DOMAIN stash' /\ stash'[i + 1] = stash[i]
  BY <1>1
<1>4. 1 \in DOMAIN stash' /\ stash'[1] = e
  BY <1>1
<1>5. ASSUME e.by # r, NEW i \in entriesOf(r)'
      PROVE  i - 1 \in entriesOf(r) /\ stash'[i] = stash[i - 1]
  <2>1. i \in DOMAIN stash' /\ stash'[i].by = r
    BY DEF entriesOf
  <2>2. i # 1
    BY <1>4, <1>5, <2>1
  <2> QED BY <1>2, <2>1, <2>2 DEF entriesOf
<1>6. ASSUME NEW i \in entriesOf(r) PROVE i + 1 \in entriesOf(r)'
  BY <1>3 DEF entriesOf
<1>7. ASSUME e.by = r, entriesOf(r) = {} PROVE entriesOf(r)' = {1}
  <2>1. ASSUME NEW i \in entriesOf(r)' PROVE i = 1
    <3>1. i \in DOMAIN stash' /\ stash'[i].by = r
      BY DEF entriesOf
    <3> QED BY <1>2, <1>7, <3>1 DEF entriesOf
  <2>2. 1 \in entriesOf(r)'
    BY <1>4, <1>7 DEF entriesOf
  <2> QED BY <2>1, <2>2
<1>8. e.by # r /\ entriesOf(r) = {} => entriesOf(r)' = {}
  BY <1>5
<1>9. e.by # r /\ Saved(r) /\ run' = run => Saved(r)'
  BY <1>5, <1>6 DEF Saved
<1> QED BY <1>4, <1>7, <1>8, <1>9

\* A step of a run that holds no entry, to where the preflight is over.
LEMMA SettleFacts ==
    ASSUME NEW r \in Runs, pc'[r] \in {"running", "failed", "restore"}, ~ run'[r].stashed,
           pc'[r] = "running" => Start(r)' \subseteq refs'[head'] \cup work'
    PROVE  Carried(r)'
<1>1. pc'[r] \notin Unsaved \cup SyncLabels \cup IntLabels \cup {"stashed", "ended", "new"}
  BY DEF Unsaved, SyncLabels, SyncWay, IntLabels, CandidateLabels, KnownPolicies
<1>2. SyncWay \cup {"sync source", "sync return", "sync rebase", "sync create"} \subseteq SyncLabels
      /\ CandidateLabels \cup {"int source", "int ff", "int run", "int drop"} \subseteq IntLabels
      /\ KnownPolicies \subseteq Unsaved
  BY DEF SyncLabels, IntLabels, CandidateLabels, Unsaved
<1> QED BY <1>1, <1>2 DEF Carried

LEMMA CarryStep ==
    ASSUME GitTypeOK, NEW r \in Runs, Outcomes(r), Labelled(r), Placed(r), Grounded(r), Carried(r)
    PROVE  Carried(r)'
<1>a. /\ refs \in [Branches -> SUBSET Changes] /\ head \in Branches
      /\ run \in [Runs -> RunRecords] /\ work \in SUBSET Changes
  BY DEF GitTypeOK
<1>b. run[r].policy \in KnownPolicies
  BY PoliciesAreKnown DEF GitTypeOK, RunRecords
<1>c. stash' = stash => entriesOf(r)' = entriesOf(r)
  BY DEF entriesOf
<1>d. stash' = stash /\ run'[r].foundWork = run[r].foundWork /\ Saved(r) => Saved(r)'
  BY <1>c DEF Saved
<1>e. ASSUME NEW i \in entriesOf(r), Saved(r) PROVE run[r].foundWork \subseteq stash[i].holds
  BY <1>e DEF Saved
<1>1. CASE begin(r)
  <2>1. pc[r] = "new" /\ pc'[r] \in KnownPolicies /\ UNCHANGED repo
    BY <1>1, <1>b, BeginFacts DEF Moves
  <2>2. entriesOf(r)' = {} /\ ~ run'[r].stashed
    BY <1>1, <2>1, <1>c, BeginFacts DEF Carried, Labelled, repo
  <2>3. run'[r].found = refs'[head'] /\ run'[r].foundWork = work'
    BY <1>1, <2>1, BeginFacts DEF repo
  <2>4. /\ pc'[r] \in Unsaved
        /\ pc'[r] \notin SyncLabels \cup IntLabels \cup {"running", "cleanup", "ended", "stashed"}
    BY <2>1 DEF Unsaved, SyncLabels, SyncWay, IntLabels, CandidateLabels, KnownPolicies
  <2>5. SyncWay \cup {"sync source", "sync return", "sync rebase", "sync create"}
       \subseteq SyncLabels
        /\ CandidateLabels \cup {"int source", "int ff", "int run", "int drop"} \subseteq IntLabels
    BY DEF SyncLabels, IntLabels, CandidateLabels
  <2> QED BY <2>1, <2>2, <2>3, <2>4, <2>5 DEF Carried
<1>2. CASE Creates(r, "allow-dirty", RunBranch(r), "allow-dirty checkpoint")
  BY <1>2, <1>a, <1>b, <1>c, <1>d, BranchFacts
  DEF Fails, Moves, repo, Carried, Start, Unsaved, Placed, Grounded, Untouched, AtSource,
     AtRunBranch, SyncWay, CandidateLabels, KnownPolicies, Labelled, SyncLabels, IntLabels,
     Creates
<1>3. CASE Checkpoints(r, "allow-dirty checkpoint", "running")
  <2>1. /\ pc[r] = "allow-dirty checkpoint" /\ pc'[r] \in {"running", "failed"}
        /\ run' = run /\ head' = head
    BY <1>3 DEF Checkpoints, Fails, Moves, repo
  <2>2. refs[head] \cup work \subseteq refs'[head] \cup work'
    BY <1>3, <1>a DEF Checkpoints, Fails, repo
  <2>3. ~ run[r].stashed /\ Start(r) \subseteq refs[head] \cup work
    BY <2>1 DEF Labelled, Carried, Unsaved, Start
  <2>4. Start(r)' = Start(r)
    BY <2>1 DEF Start
  <2> QED BY <2>1, <2>2, <2>3, <2>4, SettleFacts
<1>4. CASE Creates(r, "branch", RunBranch(r), "running")
  BY ZenonT(30), <1>4, <1>a, <1>b, <1>c, <1>d, BranchFacts
  DEF Fails, Moves, repo, Carried, Start, Unsaved, Placed, Grounded, Untouched, AtSource,
     AtRunBranch, SyncWay, CandidateLabels, KnownPolicies, Labelled, SyncLabels, IntLabels,
     Creates
<1>5. CASE preflightClean(r)
  BY <1>5, <1>a, <1>b, <1>c, <1>d, BranchFacts, CleanFacts
  DEF Fails, Moves, repo, Carried, Start, Unsaved, Placed, Grounded, Untouched, AtSource,
     AtRunBranch, SyncWay, CandidateLabels, KnownPolicies, Labelled, SyncLabels, IntLabels
<1>6. CASE gitAutostash(r)
  <2>1. CASE UNCHANGED <<repo, run>> /\ pc[r] = "autostash" /\ pc'[r] \in {"failed", "running"}
             /\ (pc'[r] = "running" => work = {})
    BY <2>1, <1>a, <1>b, <1>c, <1>d
    DEF Fails, Moves, repo, Carried, Start, Unsaved, Placed, Grounded, Untouched, AtSource,
     AtRunBranch, SyncWay, CandidateLabels, KnownPolicies, Labelled, SyncLabels, IntLabels
  <2>2. CASE stash' = <<[by |-> r, holds |-> work]>> \o stash /\ UNCHANGED <<run, refs, head>>
             /\ pc[r] = "autostash" /\ pc'[r] = "stashed"
    <3>1. [by |-> r, holds |-> work] \in Entries /\ stash \in Seq(Entries)
      BY DEF GitTypeOK, Entries
    <3>2. pc[r] = "autostash" /\ pc'[r] \in {"stashed", "failed", "running"} /\ ~ run[r].stashed
      BY <2>2 DEF Labelled, KnownPolicies
    <3>3. entriesOf(r) = {} /\ run[r].foundWork \subseteq work /\ run[r].found \subseteq refs[head]
      BY <3>2 DEF Carried, Unsaved, KnownPolicies
    <3> DEFINE e == [by |-> r, holds |-> work]
    <3>e. e.by = r /\ e.holds = work /\ stash' = <<e>> \o stash /\ e \in Entries
      BY <2>2, <3>1
    <3> HIDE DEF e
    <3>s. entriesOf(r)' = {1} /\ stash'[1] = e
      BY <3>1, <3>3, <3>e, EntryFacts
    <3>4. Saved(r)'
      BY <2>2, <3>3, <3>e, <3>s DEF Saved
    <3>5. UNCHANGED <<run, refs, head>> /\ pc'[r] = "stashed"
      BY <2>2
    <3> QED
      BY <3>2, <3>3, <3>4, <3>5
      DEF Fails, Moves, repo, Carried, Start, Unsaved, Placed, Grounded, Untouched, AtSource,
     AtRunBranch, SyncWay, CandidateLabels, KnownPolicies, Labelled, SyncLabels, IntLabels
  <2> QED BY <1>6, <2>1, <2>2, AutostashFacts DEF Fails, Moves
<1>7. CASE resolveStash(r)
  BY ZenonT(30), <1>7, <1>a, <1>b, <1>c, <1>d, BranchFacts, ResolveFacts, ReadFacts
  DEF Fails, Moves, repo, Carried, Start, Unsaved, Placed, Grounded, Untouched, AtSource,
     AtRunBranch, SyncWay, CandidateLabels, KnownPolicies, Labelled, SyncLabels, IntLabels
<1>8. CASE Inspects(r, "sync", "sync branch", "sync upstream")
  BY ZenonT(30), <1>8, <1>a, <1>b, <1>c, <1>d, BranchFacts, ReadFacts
  DEF Fails, Moves, repo, Carried, Start, Unsaved, Placed, Grounded, Untouched, AtSource,
     AtRunBranch, SyncWay, CandidateLabels, KnownPolicies, Labelled, SyncLabels, IntLabels,
     Inspects
<1>9. CASE Creates(r, "sync branch", RunBranch(r), "sync checkpoint")
  BY <1>9, <1>a, <1>b, <1>c, <1>d, BranchFacts
  DEF Fails, Moves, repo, Carried, Start, Unsaved, Placed, Grounded, Untouched, AtSource,
     AtRunBranch, SyncWay, CandidateLabels, KnownPolicies, Labelled, SyncLabels, IntLabels,
     Creates
<1>10. CASE Checkpoints(r, "sync checkpoint", "sync source")
  <2>1. /\ pc[r] = "sync checkpoint" /\ pc'[r] \in {"sync source", "failed"}
        /\ UNCHANGED <<run, head>> /\ head = RunBranch(r)
    BY <1>10 DEF Checkpoints, Fails, Moves, repo, Placed, AtRunBranch
  <2>2. pc'[r] = "sync source" => refs[head] \cup work \subseteq refs'[head]
    BY <1>10, <1>a DEF Checkpoints, Fails, Moves, repo
  <2>3. Start(r) \subseteq refs[head] \cup work /\ UNCHANGED Start(r)
        /\ ~ run[r].stashed /\ (~ run[r].dirty => run[r].foundWork = {})
    BY <2>1 DEF Carried, Start, Unsaved, Labelled, SyncLabels
  <2> QED
    BY <2>1, <2>2, <2>3
    DEF Carried, Unsaved, SyncWay, SyncLabels, IntLabels, CandidateLabels, KnownPolicies
<1>11. CASE Switches(r, "sync source", run[r].source, "sync upstream")
  BY <1>11, <1>a, <1>b, <1>c, <1>d, BranchFacts
  DEF Fails, Moves, repo, Carried, Start, Unsaved, Placed, Grounded, Untouched, AtSource,
     AtRunBranch, SyncWay, CandidateLabels, KnownPolicies, Labelled, SyncLabels, IntLabels,
     Switches
<1>12. CASE syncUpstream(r)
  BY ZenonT(30), <1>12, <1>a, <1>b, <1>c, <1>d, BranchFacts, UpstreamFacts
  DEF Fails, Moves, repo, Carried, Start, Unsaved, Placed, Grounded, Untouched, AtSource,
     AtRunBranch, SyncWay, CandidateLabels, KnownPolicies, Labelled, SyncLabels, IntLabels,
     afterSync
<1>13. CASE Fetches(r, "sync fetch", "sync compare", "failed")
  BY <1>13, <1>a, <1>b, <1>c, <1>d, BranchFacts
  DEF Fails, Moves, repo, Carried, Start, Unsaved, Placed, Grounded, Untouched, AtSource,
     AtRunBranch, SyncWay, CandidateLabels, KnownPolicies, Labelled, SyncLabels, IntLabels,
     Fetches
<1>14. CASE syncCompare(r)
  BY ZenonT(30), <1>14, <1>a, <1>b, <1>c, <1>d, BranchFacts, CompareFacts
  DEF Fails, Moves, repo, Carried, Start, Unsaved, Placed, Grounded, Untouched, AtSource,
     AtRunBranch, SyncWay, CandidateLabels, KnownPolicies, Labelled, SyncLabels, IntLabels,
     afterSync
<1>15. CASE Forwards(r, "sync ff", upstream.seen, "sync advanced")
  BY <1>15, <1>a, <1>b, <1>c, <1>d, BranchFacts
  DEF Fails, Moves, repo, Carried, Start, Unsaved, Placed, Grounded, Untouched, AtSource,
     AtRunBranch, SyncWay, CandidateLabels, KnownPolicies, Labelled, SyncLabels, IntLabels,
     Forwards
<1>16. CASE syncAdvanced(r)
  BY ZenonT(30), <1>16, <1>a, <1>b, <1>c, <1>d, BranchFacts, AdvancedFacts, ReadFacts
  DEF Fails, Moves, repo, Carried, Start, Unsaved, Placed, Grounded, Untouched, AtSource,
     AtRunBranch, SyncWay, CandidateLabels, KnownPolicies, Labelled, SyncLabels, IntLabels,
     afterSync
<1>17. CASE Switches(r, "sync return", RunBranch(r), afterReturn(r))
  BY <1>17, <1>a, <1>b, <1>c, <1>d, BranchFacts
  DEF Fails, Moves, repo, Carried, Start, Unsaved, Placed, Grounded, Untouched, AtSource,
     AtRunBranch, SyncWay, CandidateLabels, KnownPolicies, Labelled, SyncLabels, IntLabels,
     Switches, afterReturn
<1>18. CASE gitRebaseCheckpoint(r)
  <2>1. run[r].source \in Branches
    BY <1>18 DEF gitRebaseCheckpoint, Labelled, SyncLabels
  <2>2. /\ pc[r] = "sync rebase" /\ pc'[r] \in {"running", "failed", "restore"}
        /\ run' = run /\ head' = head /\ refs[head] \subseteq refs'[head]
    BY <1>18, <1>a, <2>1, RebaseFacts DEF Fails, Moves, repo
  <2>3. ~ run[r].stashed /\ Start(r) \subseteq refs[head]
    BY <2>2 DEF Labelled, SyncLabels, Carried, Placed, AtRunBranch
  <2>4. Start(r)' = Start(r)
    BY <2>2 DEF Start
  <2> QED BY <2>2, <2>3, <2>4, SettleFacts
<1>19. CASE Creates(r, "sync create", RunBranch(r), "running")
  BY ZenonT(30), <1>19, <1>a, <1>b, <1>c, <1>d, BranchFacts
  DEF Fails, Moves, repo, Carried, Start, Unsaved, Placed, Grounded, Untouched, AtSource,
     AtRunBranch, SyncWay, CandidateLabels, KnownPolicies, Labelled, SyncLabels, IntLabels,
     Creates
<1>20. CASE Inspects(r, "integrate", "int create", "int create")
  BY <1>20, <1>a, <1>b, <1>c, <1>d, BranchFacts, ReadFacts
  DEF Fails, Moves, repo, Carried, Start, Unsaved, Placed, Grounded, Untouched, AtSource,
     AtRunBranch, SyncWay, CandidateLabels, KnownPolicies, Labelled, SyncLabels, IntLabels,
     Inspects
<1>21. CASE Creates(r, "int create", Candidate(r), "int checkpoint")
  BY <1>21, <1>a, <1>b, <1>c, <1>d, BranchFacts
  DEF Fails, Moves, repo, Carried, Start, Unsaved, Placed, Grounded, Untouched, AtSource,
     AtRunBranch, SyncWay, CandidateLabels, KnownPolicies, Labelled, SyncLabels, IntLabels,
     Creates
<1>22. CASE checksOut(r)
  BY ZenonT(60), <1>22, <1>a, <1>b, <1>c, <1>d, BranchFacts
  DEF Fails, Moves, repo, Carried, Start, Unsaved, Placed, Grounded, Untouched, AtSource,
     AtRunBranch, SyncWay, CandidateLabels, KnownPolicies, Labelled, SyncLabels, IntLabels,
     checksOut, Checkpoints
<1>23. CASE intUpstream(r)
  BY <1>23, <1>a, <1>b, <1>c, <1>d, BranchFacts, IntUpstreamFacts
  DEF Fails, Moves, repo, Carried, Start, Unsaved, Placed, Grounded, Untouched, AtSource,
     AtRunBranch, SyncWay, CandidateLabels, KnownPolicies, Labelled, SyncLabels, IntLabels
<1>24. CASE Fetches(r, "int fetch", "int merge", "restore")
  BY <1>24, <1>a, <1>b, <1>c, <1>d, BranchFacts
  DEF Fails, Moves, repo, Carried, Start, Unsaved, Placed, Grounded, Untouched, AtSource,
     AtRunBranch, SyncWay, CandidateLabels, KnownPolicies, Labelled, SyncLabels, IntLabels,
     Fetches
<1>25. CASE intMerge(r)
  <2>1. /\ pc[r] = "int merge" /\ pc'[r] \in {"int branch", "int abort", "restore"}
        /\ run' = run /\ head' = head /\ refs[head] \subseteq refs'[head]
    BY <1>25, <1>a, MergeFacts DEF Fails, Moves, repo
  <2>2. /\ ~ run[r].stashed /\ Start(r) \subseteq refs[Candidate(r)] /\ head = Candidate(r)
        /\ (~ run[r].dirty => run[r].foundWork = {})
    BY <2>1 DEF Labelled, IntLabels, CandidateLabels, Carried, Placed
  <2>3. Start(r)' = Start(r)
    BY <2>1 DEF Start
  <2> QED
    BY <2>1, <2>2, <2>3
    DEF Carried, Unsaved, SyncLabels, SyncWay, CandidateLabels, IntLabels, KnownPolicies
<1>26. CASE abortCandidateMerge(r)
  BY <1>26, <1>a, <1>b, <1>c, <1>d, BranchFacts, AbortFacts
  DEF Fails, Moves, repo, Carried, Start, Unsaved, Placed, Grounded, Untouched, AtSource,
     AtRunBranch, SyncWay, CandidateLabels, KnownPolicies, Labelled, SyncLabels, IntLabels
<1>27. CASE Switches(r, "restore", run[r].source, "failed")
  BY <1>27, <1>a, <1>b, <1>c, <1>d, BranchFacts
  DEF Fails, Moves, repo, Carried, Start, Unsaved, Placed, Grounded, Untouched, AtSource,
     AtRunBranch, SyncWay, CandidateLabels, KnownPolicies, Labelled, SyncLabels, IntLabels,
     Switches
<1>28. CASE CreatesAt(r, "int branch", RunBranch(r), Candidate(r), "int source")
  BY <1>28, <1>a, <1>b, <1>c, <1>d, BranchFacts
  DEF Fails, Moves, repo, Carried, Start, Unsaved, Placed, Grounded, Untouched, AtSource,
     AtRunBranch, SyncWay, CandidateLabels, KnownPolicies, Labelled, SyncLabels, IntLabels,
     CreatesAt
<1>29. CASE Switches(r, "int source", run[r].source, "int ff")
  BY <1>29, <1>a, <1>b, <1>c, <1>d, BranchFacts
  DEF Fails, Moves, repo, Carried, Start, Unsaved, Placed, Grounded, Untouched, AtSource,
     AtRunBranch, SyncWay, CandidateLabels, KnownPolicies, Labelled, SyncLabels, IntLabels,
     Switches
<1>30. CASE Forwards(r, "int ff", refs[Candidate(r)], "int run")
  BY <1>30, <1>a, <1>b, <1>c, <1>d, BranchFacts
  DEF Fails, Moves, repo, Carried, Start, Unsaved, Placed, Grounded, Untouched, AtSource,
     AtRunBranch, SyncWay, CandidateLabels, KnownPolicies, Labelled, SyncLabels, IntLabels,
     Forwards
<1>31. CASE Switches(r, "int run", RunBranch(r), "int drop")
  BY <1>31, <1>a, <1>b, <1>c, <1>d, BranchFacts
  DEF Fails, Moves, repo, Carried, Start, Unsaved, Placed, Grounded, Untouched, AtSource,
     AtRunBranch, SyncWay, CandidateLabels, KnownPolicies, Labelled, SyncLabels, IntLabels,
     Switches
<1>32. CASE Deletes(r, "int drop", Candidate(r), "running")
  <2>1. /\ pc[r] = "int drop" /\ pc'[r] \in {"running", "failed"} /\ run' = run /\ head' = head
    BY <1>32 DEF Deletes, Fails, Moves, repo
  <2>2. refs'[head] = refs[head]
    BY <1>32, <1>a DEF Deletes, Fails, repo
  <2>3. ~ run[r].stashed /\ Start(r) \subseteq refs[head]
    BY <2>1 DEF Labelled, IntLabels, Carried, Placed, AtRunBranch
  <2>4. Start(r)' = Start(r)
    BY <2>1 DEF Start
  <2> QED BY <2>1, <2>2, <2>3, <2>4, SettleFacts
<1>33. CASE edit(r)
  BY ZenonT(30), <1>33, <1>a, <1>b, <1>c, <1>d, BranchFacts, EditFacts
  DEF Fails, Moves, repo, Carried, Start, Unsaved, Placed, Grounded, Untouched, AtSource,
     AtRunBranch, SyncWay, CandidateLabels, KnownPolicies, Labelled, SyncLabels, IntLabels
<1>34. CASE restoreAutostash(r)
  BY ZenonT(30), <1>34, <1>a, <1>b, <1>c, <1>d, BranchFacts, CleanupFacts, <1>e
  DEF Fails, Moves, repo, Carried, Start, Unsaved, Placed, Grounded, Untouched, AtSource,
     AtRunBranch, SyncWay, CandidateLabels, KnownPolicies, Labelled, SyncLabels, IntLabels
<1>35. CASE finishPreflightCleanup(r)
  BY ZenonT(30), <1>35, <1>a, <1>b, <1>c, <1>d, BranchFacts, FinishFacts, ReadFacts
  DEF Fails, Moves, repo, Carried, Start, Unsaved, Placed, Grounded, Untouched, AtSource,
     AtRunBranch, SyncWay, CandidateLabels, KnownPolicies, Labelled, SyncLabels, IntLabels
<1>36. CASE kill(r)
  BY <1>36, <1>a, <1>b, <1>c, <1>d, BranchFacts, KillFacts
  DEF Fails, Moves, repo, Carried, Start, Unsaved, Placed, Grounded, Untouched, AtSource,
     AtRunBranch, SyncWay, CandidateLabels, KnownPolicies, Labelled, SyncLabels, IntLabels
<1> QED
  BY <1>1, <1>2, <1>3, <1>4, <1>5, <1>6, <1>7, <1>8, <1>9, <1>10, <1>11, <1>12, <1>13,
     <1>14, <1>15, <1>16, <1>17, <1>18, <1>19, <1>20, <1>21, <1>22, <1>23, <1>24, <1>25, <1>26,
     <1>27, <1>28, <1>29, <1>30, <1>31, <1>32, <1>33, <1>34, <1>35, <1>36 DEF Outcomes

\* While the others have not begun, a run is where its label says, and what it
\* found is where its label says.
SoloInv == \A r \in Runs : Alone(r) => Placed(r) /\ Grounded(r) /\ Carried(r)

LEMMA SoloStarts == Init => SoloInv
<1> SUFFICES ASSUME Init, NEW r \in Runs PROVE Placed(r) /\ Grounded(r) /\ Carried(r)
  BY DEF SoloInv
<1>1. pc[r] = "new" /\ run[r] \in NewRun /\ head = Source /\ stash = <<>>
  BY DEF Init
<1>2. run[r].source = NoBranch /\ ~ run[r].stashed
  BY <1>1 DEF NewRun
<1>3. entriesOf(r) = {}
  BY <1>1 DEF entriesOf
<1>4. Placed(r)
  BY <1>1, <1>2 DEF Placed, AtRunBranch, CandidateLabels
<1>5. Grounded(r)
  BY <1>1 DEF Grounded, Untouched, CandidateLabels, KnownPolicies
<1>6. Carried(r)
  BY <1>1, <1>2, <1>3
  DEF Carried, Unsaved, SyncLabels, SyncWay, IntLabels, CandidateLabels, KnownPolicies
<1> QED BY <1>4, <1>5, <1>6

LEMMA SoloStep ==
    ASSUME GitInv, SoloInv, [Next]_vars
    PROVE  SoloInv'
<1> SUFFICES ASSUME NEW r \in Runs, Alone(r)'
             PROVE  (Placed(r) /\ Grounded(r) /\ Carried(r))'
  BY DEF SoloInv
<1>1. GitTypeOK /\ Labelled(r)
  BY DEF GitInv
<1>2. CASE UNCHANGED <<refs, upstream, head, work, stash, pc, run>>
  <2>1. Placed(r) /\ Grounded(r) /\ Carried(r)
    BY <1>2 DEF SoloInv, Alone
  <2>2. entriesOf(r)' = entriesOf(r)
    BY <1>2 DEF entriesOf
  <2>3. (Saved(r) <=> Saved(r)') /\ Start(r)' = Start(r)
    BY <1>2, <2>2 DEF Saved, Start
  <2>4. Placed(r)' /\ Grounded(r)'
    BY <1>2, <2>1 DEF Placed, Grounded
  <2>5. Carried(r)'
    BY <1>2, <2>1, <2>2, <2>3 DEF Carried
  <2> QED BY <2>4, <2>5
<1>3. CASE stashAside
  <2> DEFINE e == [by |-> "operator", holds |-> {Aside}]
  <2>1. stash' = <<e>> \o stash /\ UNCHANGED <<refs, upstream, head, work, pc, run>>
    BY <1>1, <1>3, AsideFacts
  <2>2. Placed(r) /\ Grounded(r) /\ Carried(r)
    BY <2>1 DEF SoloInv, Alone
  <2>3. e \in Entries /\ stash \in Seq(Entries) /\ e.by # r
    BY <1>1, RunsAssumption DEF GitTypeOK, Entries, Changes
  <2> HIDE DEF e
  <2>4. (entriesOf(r) = {} => entriesOf(r)' = {}) /\ (Saved(r) => Saved(r)')
    BY <2>1, <2>3, EntryFacts
  <2>5. Placed(r)' /\ Grounded(r)' /\ Start(r)' = Start(r)
    BY <2>1, <2>2 DEF Placed, Grounded, Start
  <2>6. Carried(r)'
    BY ZenonT(30), <2>1, <2>2, <2>4, <2>5 DEF Carried
  <2> QED BY <2>5, <2>6
<1>4. ASSUME NEW q \in Runs, Outcomes(q)
      PROVE  (Placed(r) /\ Grounded(r) /\ Carried(r))'
  <2>1. Labelled(q)
    BY DEF GitInv
  <2>2. pc'[q] # "new" /\ \A p \in Runs \ {q} : pc'[p] = pc[p]
    BY <1>1, <1>4, <2>1, OthersStep
  <2>3. q = r
    BY <2>2 DEF Alone
  <2>4. Placed(r) /\ Grounded(r) /\ Carried(r)
    BY <2>2, <2>3 DEF SoloInv, Alone
  <2> QED BY <1>1, <1>4, <2>3, <2>4, PlaceStep, GroundStep, CarryStep
<1> QED BY <1>2, <1>3, <1>4, GitStep

LEMMA SoloAlways == Spec => [](GitInv /\ SoloInv)
<1>1. GitInv /\ SoloInv /\ [Next]_vars => GitInv' /\ SoloInv'
  BY GitStep, SoloStep
<1> QED BY <1>1, GitStarts, SoloStarts, PTL DEF Spec

\* A preflight that fails or is killed, undisturbed by another run, leaves the
\* source branch where it was, or moved as a whole: to the upstream under sync,
\* to what the run branch holds under integrate (git_sync_preflight.go:62-140).
THEOREM SourceMovesAsAWhole == Spec => []SourceMovesWhole
<1>1. GitInv /\ SoloInv => SourceMovesWhole
  BY ZenonT(30) DEF SoloInv, Alone, Placed, Grounded, SourceMovesWhole
<1> QED BY <1>1, SoloAlways, PTL

\* What the operator had in the worktree is there when the run ended, or in the
\* stash entry the recovery artifact names (autostash.go:30-118).
THEOREM WorktreeComesBack == Spec => []WorkComesBack
<1>1. GitInv /\ SoloInv => WorkComesBack
  <2> SUFFICES ASSUME GitInv, SoloInv, NEW r \in Runs, Alone(r)
               PROVE  /\ pc[r] = "ended" =>
                            run[r].found \cup run[r].foundWork \subseteq refs[head] \cup work
                      /\ pc[r] = "failed" /\ run[r].recovery =>
                            \E i \in entriesOf(r) : run[r].foundWork \subseteq stash[i].holds
    BY DEF WorkComesBack, Alone
  <2>1. Carried(r) /\ Labelled(r)
    BY DEF GitInv, SoloInv
  <2> QED BY <2>1 DEF Carried, Saved, Start, Labelled
<1> QED BY <1>1, SoloAlways, PTL

-----------------------------------------------------------------------------
(* The worktree: what an undisturbed run starts from *)

\* Runs that have not begun, or that are over, take no step but to begin.
Idle == {"new", "failed", "ended", "killed"}
OfRun(r) == {RunBranch(r), Candidate(r)}
Isolated == {"branch", "allow-dirty", "sync", "integrate"}
Carrying == {"allow-dirty", "sync", "integrate"}

\* What is checked out at each label, whatever branch the run began on.
Stands(r) ==
    /\ pc[r] \in KnownPolicies => head \notin OfRun(r)
    /\ pc[r] \in SyncLabels \cup IntLabels => run[r].source \notin OfRun(r)
    /\ pc[r] \in SyncWay \cup {"sync branch", "sync return", "sync create", "int create", "int ff",
                              "int run"} => head = run[r].source
    /\ pc[r] \in AtRunBranch => head = RunBranch(r)
    /\ pc[r] \in CandidateLabels => head = Candidate(r)
    /\ pc[r] = "running" /\ run[r].policy \in Isolated => head = RunBranch(r)
    /\ pc[r] = "stashed" => run[r].policy = "autostash"
    /\ pc[r] = "allow-dirty checkpoint" => run[r].policy = "allow-dirty"

\* Where nothing is uncommitted any more.
Committed == {"stashed", "sync source", "sync return", "sync rebase", "sync create", "int ff",
              "int run", "int drop"} \cup SyncWay \cup (CandidateLabels \ {"int checkpoint"})
Clears(r) ==
    /\ pc[r] \in Committed => work = {}
    /\ pc[r] \in {"int create", "int checkpoint"} /\ ~ run[r].dirty => work = {}
    /\ pc[r] = "running" /\ run[r].policy # "branch" => work = {}

\* Where what the run found is.
Brings(r) ==
    /\ pc[r] \in Unsaved => run[r].found \subseteq refs[head] /\ run[r].foundWork \subseteq work
    /\ pc[r] \in SyncWay \cup {"sync source", "sync return", "sync rebase", "sync create"} =>
          IF run[r].dirty THEN Start(r) \subseteq refs[RunBranch(r)]
          ELSE Start(r) \subseteq refs[run[r].source]
    /\ pc[r] \in {"sync return", "sync rebase"} => run[r].dirty
    /\ pc[r] \in CandidateLabels \ {"int checkpoint"} => Start(r) \subseteq refs[Candidate(r)]
    /\ pc[r] \in {"int source", "int ff", "int run", "int drop"}
         => Start(r) \subseteq refs[RunBranch(r)]
    /\ pc[r] = "running" /\ run[r].policy \in Carrying => Start(r) \subseteq refs[head]

\* Where the source branch is, and what the upstream holds.
Follows(r) ==
    /\ pc[r] \in KnownPolicies => refs[head] = run[r].found
    /\ pc[r] \in (SyncLabels \ {"sync advanced", "sync rebase"}) /\ ~ run[r].advanced
         => refs[run[r].source] = run[r].found
    /\ pc[r] \in CandidateLabels \cup {"int create", "int ff"} => refs[run[r].source] = run[r].found
    /\ pc[r] \in {"sync advanced", "sync return", "sync rebase", "sync create"}
          /\ tracks(run[r].source) => upstream.seen \subseteq refs[run[r].source]
    /\ pc[r] \in {"int branch", "int source"} /\ tracks(run[r].source)
         => upstream.seen \subseteq refs[Candidate(r)]
    /\ pc[r] \in {"int source", "int ff"} => refs[RunBranch(r)] = refs[Candidate(r)]
    /\ pc[r] \in {"int ff", "int run", "int drop"} /\ tracks(run[r].source)
         => upstream.seen \subseteq refs[RunBranch(r)]
    /\ pc[r] \in {"int run", "int drop"} => refs[run[r].source] = refs[RunBranch(r)]
    /\ pc[r] = "running" /\ run[r].policy \in {"sync", "integrate"} =>
          /\ tracks(run[r].source) => upstream.seen \subseteq refs[head]
          /\ refs[run[r].source] \subseteq refs[head]

LEMMA StandStep ==
    ASSUME GitTypeOK, NEW r \in Runs, Outcomes(r), Labelled(r), Stands(r),
           pc[r] = "new" => head \notin OfRun(r)
    PROVE  Stands(r)'
<1>a. /\ refs \in [Branches -> SUBSET Changes] /\ head \in Branches
      /\ run \in [Runs -> RunRecords] /\ work \in SUBSET Changes
  BY DEF GitTypeOK
<1>b. run[r].policy \in KnownPolicies
  BY PoliciesAreKnown DEF GitTypeOK, RunRecords
<1>1. CASE begin(r)
  BY <1>1, <1>a, <1>b, BranchFacts, BeginFacts
  DEF Fails, Moves, repo, Stands, OfRun, Isolated, AtRunBranch, Labelled, SyncWay, SyncLabels,
     IntLabels, CandidateLabels, KnownPolicies
<1>2. CASE Creates(r, "allow-dirty", RunBranch(r), "allow-dirty checkpoint")
  BY <1>2, <1>a, <1>b, BranchFacts
  DEF Fails, Moves, repo, Stands, OfRun, Isolated, AtRunBranch, Labelled, SyncWay, SyncLabels,
     IntLabels, CandidateLabels, KnownPolicies, Creates
<1>3. CASE Checkpoints(r, "allow-dirty checkpoint", "running")
  BY <1>3, <1>a, <1>b, BranchFacts
  DEF Fails, Moves, repo, Stands, OfRun, Isolated, AtRunBranch, Labelled, SyncWay, SyncLabels,
     IntLabels, CandidateLabels, KnownPolicies, Checkpoints
<1>4. CASE Creates(r, "branch", RunBranch(r), "running")
  BY <1>4, <1>a, <1>b, BranchFacts
  DEF Fails, Moves, repo, Stands, OfRun, Isolated, AtRunBranch, Labelled, SyncWay, SyncLabels,
     IntLabels, CandidateLabels, KnownPolicies, Creates
<1>5. CASE preflightClean(r)
  BY <1>5, <1>a, <1>b, BranchFacts, CleanFacts
  DEF Fails, Moves, repo, Stands, OfRun, Isolated, AtRunBranch, Labelled, SyncWay, SyncLabels,
     IntLabels, CandidateLabels, KnownPolicies
<1>6. CASE gitAutostash(r)
  BY <1>6, <1>a, <1>b, BranchFacts, AutostashFacts
  DEF Fails, Moves, repo, Stands, OfRun, Isolated, AtRunBranch, Labelled, SyncWay, SyncLabels,
     IntLabels, CandidateLabels, KnownPolicies
<1>7. CASE resolveStash(r)
  BY <1>7, <1>a, <1>b, BranchFacts, ResolveFacts, ReadFacts
  DEF Fails, Moves, repo, Stands, OfRun, Isolated, AtRunBranch, Labelled, SyncWay, SyncLabels,
     IntLabels, CandidateLabels, KnownPolicies
<1>8. CASE Inspects(r, "sync", "sync branch", "sync upstream")
  BY <1>8, <1>a, <1>b, BranchFacts, ReadFacts
  DEF Fails, Moves, repo, Stands, OfRun, Isolated, AtRunBranch, Labelled, SyncWay, SyncLabels,
     IntLabels, CandidateLabels, KnownPolicies, Inspects
<1>9. CASE Creates(r, "sync branch", RunBranch(r), "sync checkpoint")
  BY <1>9, <1>a, <1>b, BranchFacts
  DEF Fails, Moves, repo, Stands, OfRun, Isolated, AtRunBranch, Labelled, SyncWay, SyncLabels,
     IntLabels, CandidateLabels, KnownPolicies, Creates
<1>10. CASE Checkpoints(r, "sync checkpoint", "sync source")
  BY <1>10, <1>a, <1>b, BranchFacts
  DEF Fails, Moves, repo, Stands, OfRun, Isolated, AtRunBranch, Labelled, SyncWay, SyncLabels,
     IntLabels, CandidateLabels, KnownPolicies, Checkpoints
<1>11. CASE Switches(r, "sync source", run[r].source, "sync upstream")
  BY <1>11, <1>a, <1>b, BranchFacts
  DEF Fails, Moves, repo, Stands, OfRun, Isolated, AtRunBranch, Labelled, SyncWay, SyncLabels,
     IntLabels, CandidateLabels, KnownPolicies, Switches
<1>12. CASE syncUpstream(r)
  BY <1>12, <1>a, <1>b, BranchFacts, UpstreamFacts
  DEF Fails, Moves, repo, Stands, OfRun, Isolated, AtRunBranch, Labelled, SyncWay, SyncLabels,
     IntLabels, CandidateLabels, KnownPolicies, afterSync
<1>13. CASE Fetches(r, "sync fetch", "sync compare", "failed")
  BY <1>13, <1>a, <1>b, BranchFacts
  DEF Fails, Moves, repo, Stands, OfRun, Isolated, AtRunBranch, Labelled, SyncWay, SyncLabels,
     IntLabels, CandidateLabels, KnownPolicies, Fetches
<1>14. CASE syncCompare(r)
  BY <1>14, <1>a, <1>b, BranchFacts, CompareFacts
  DEF Fails, Moves, repo, Stands, OfRun, Isolated, AtRunBranch, Labelled, SyncWay, SyncLabels,
     IntLabels, CandidateLabels, KnownPolicies, afterSync
<1>15. CASE Forwards(r, "sync ff", upstream.seen, "sync advanced")
  BY <1>15, <1>a, <1>b, BranchFacts
  DEF Fails, Moves, repo, Stands, OfRun, Isolated, AtRunBranch, Labelled, SyncWay, SyncLabels,
     IntLabels, CandidateLabels, KnownPolicies, Forwards
<1>16. CASE syncAdvanced(r)
  BY <1>16, <1>a, <1>b, BranchFacts, AdvancedFacts, ReadFacts
  DEF Fails, Moves, repo, Stands, OfRun, Isolated, AtRunBranch, Labelled, SyncWay, SyncLabels,
     IntLabels, CandidateLabels, KnownPolicies, afterSync
<1>17. CASE Switches(r, "sync return", RunBranch(r), afterReturn(r))
  BY <1>17, <1>a, <1>b, BranchFacts
  DEF Fails, Moves, repo, Stands, OfRun, Isolated, AtRunBranch, Labelled, SyncWay, SyncLabels,
     IntLabels, CandidateLabels, KnownPolicies, Switches, afterReturn
<1>18. CASE gitRebaseCheckpoint(r)
  <2>1. run[r].source \in Branches
    BY <1>18 DEF gitRebaseCheckpoint, Labelled, SyncLabels
  <2> QED
    BY <1>18, <2>1, <1>a, <1>b, BranchFacts, RebaseFacts
    DEF Fails, Moves, repo, Stands, OfRun, Isolated, AtRunBranch, Labelled, SyncWay, SyncLabels,
       IntLabels, CandidateLabels, KnownPolicies
<1>19. CASE Creates(r, "sync create", RunBranch(r), "running")
  BY <1>19, <1>a, <1>b, BranchFacts
  DEF Fails, Moves, repo, Stands, OfRun, Isolated, AtRunBranch, Labelled, SyncWay, SyncLabels,
     IntLabels, CandidateLabels, KnownPolicies, Creates
<1>20. CASE Inspects(r, "integrate", "int create", "int create")
  BY <1>20, <1>a, <1>b, BranchFacts, ReadFacts
  DEF Fails, Moves, repo, Stands, OfRun, Isolated, AtRunBranch, Labelled, SyncWay, SyncLabels,
     IntLabels, CandidateLabels, KnownPolicies, Inspects
<1>21. CASE Creates(r, "int create", Candidate(r), "int checkpoint")
  BY <1>21, <1>a, <1>b, BranchFacts
  DEF Fails, Moves, repo, Stands, OfRun, Isolated, AtRunBranch, Labelled, SyncWay, SyncLabels,
     IntLabels, CandidateLabels, KnownPolicies, Creates
<1>22. CASE checksOut(r)
  BY <1>22, <1>a, <1>b, BranchFacts
  DEF Fails, Moves, repo, Stands, OfRun, Isolated, AtRunBranch, Labelled, SyncWay, SyncLabels,
     IntLabels, CandidateLabels, KnownPolicies, checksOut, Checkpoints
<1>23. CASE intUpstream(r)
  BY <1>23, <1>a, <1>b, BranchFacts, IntUpstreamFacts
  DEF Fails, Moves, repo, Stands, OfRun, Isolated, AtRunBranch, Labelled, SyncWay, SyncLabels,
     IntLabels, CandidateLabels, KnownPolicies
<1>24. CASE Fetches(r, "int fetch", "int merge", "restore")
  BY <1>24, <1>a, <1>b, BranchFacts
  DEF Fails, Moves, repo, Stands, OfRun, Isolated, AtRunBranch, Labelled, SyncWay, SyncLabels,
     IntLabels, CandidateLabels, KnownPolicies, Fetches
<1>25. CASE intMerge(r)
  BY <1>25, <1>a, <1>b, BranchFacts, MergeFacts
  DEF Fails, Moves, repo, Stands, OfRun, Isolated, AtRunBranch, Labelled, SyncWay, SyncLabels,
     IntLabels, CandidateLabels, KnownPolicies
<1>26. CASE abortCandidateMerge(r)
  BY <1>26, <1>a, <1>b, BranchFacts, AbortFacts
  DEF Fails, Moves, repo, Stands, OfRun, Isolated, AtRunBranch, Labelled, SyncWay, SyncLabels,
     IntLabels, CandidateLabels, KnownPolicies
<1>27. CASE Switches(r, "restore", run[r].source, "failed")
  BY <1>27, <1>a, <1>b, BranchFacts
  DEF Fails, Moves, repo, Stands, OfRun, Isolated, AtRunBranch, Labelled, SyncWay, SyncLabels,
     IntLabels, CandidateLabels, KnownPolicies, Switches
<1>28. CASE CreatesAt(r, "int branch", RunBranch(r), Candidate(r), "int source")
  BY <1>28, <1>a, <1>b, BranchFacts
  DEF Fails, Moves, repo, Stands, OfRun, Isolated, AtRunBranch, Labelled, SyncWay, SyncLabels,
     IntLabels, CandidateLabels, KnownPolicies, CreatesAt
<1>29. CASE Switches(r, "int source", run[r].source, "int ff")
  BY <1>29, <1>a, <1>b, BranchFacts
  DEF Fails, Moves, repo, Stands, OfRun, Isolated, AtRunBranch, Labelled, SyncWay, SyncLabels,
     IntLabels, CandidateLabels, KnownPolicies, Switches
<1>30. CASE Forwards(r, "int ff", refs[Candidate(r)], "int run")
  BY <1>30, <1>a, <1>b, BranchFacts
  DEF Fails, Moves, repo, Stands, OfRun, Isolated, AtRunBranch, Labelled, SyncWay, SyncLabels,
     IntLabels, CandidateLabels, KnownPolicies, Forwards
<1>31. CASE Switches(r, "int run", RunBranch(r), "int drop")
  BY <1>31, <1>a, <1>b, BranchFacts
  DEF Fails, Moves, repo, Stands, OfRun, Isolated, AtRunBranch, Labelled, SyncWay, SyncLabels,
     IntLabels, CandidateLabels, KnownPolicies, Switches
<1>32. CASE Deletes(r, "int drop", Candidate(r), "running")
  BY <1>32, <1>a, <1>b, BranchFacts
  DEF Fails, Moves, repo, Stands, OfRun, Isolated, AtRunBranch, Labelled, SyncWay, SyncLabels,
     IntLabels, CandidateLabels, KnownPolicies, Deletes
<1>33. CASE edit(r)
  BY <1>33, <1>a, <1>b, BranchFacts, EditFacts
  DEF Fails, Moves, repo, Stands, OfRun, Isolated, AtRunBranch, Labelled, SyncWay, SyncLabels,
     IntLabels, CandidateLabels, KnownPolicies
<1>34. CASE restoreAutostash(r)
  BY <1>34, <1>a, <1>b, BranchFacts, CleanupFacts
  DEF Fails, Moves, repo, Stands, OfRun, Isolated, AtRunBranch, Labelled, SyncWay, SyncLabels,
     IntLabels, CandidateLabels, KnownPolicies
<1>35. CASE finishPreflightCleanup(r)
  BY <1>35, <1>a, <1>b, BranchFacts, FinishFacts, ReadFacts
  DEF Fails, Moves, repo, Stands, OfRun, Isolated, AtRunBranch, Labelled, SyncWay, SyncLabels,
     IntLabels, CandidateLabels, KnownPolicies
<1>36. CASE kill(r)
  BY <1>36, <1>a, <1>b, BranchFacts, KillFacts
  DEF Fails, Moves, repo, Stands, OfRun, Isolated, AtRunBranch, Labelled, SyncWay, SyncLabels,
     IntLabels, CandidateLabels, KnownPolicies
<1> QED
  BY <1>1, <1>2, <1>3, <1>4, <1>5, <1>6, <1>7, <1>8, <1>9, <1>10, <1>11, <1>12, <1>13, <1>14, <1>15,
     <1>16, <1>17, <1>18, <1>19, <1>20, <1>21, <1>22, <1>23, <1>24, <1>25, <1>26, <1>27, <1>28,
     <1>29, <1>30, <1>31, <1>32, <1>33, <1>34, <1>35, <1>36 DEF Outcomes

LEMMA ClearStep ==
    ASSUME GitTypeOK, NEW r \in Runs, Outcomes(r), Labelled(r), Clears(r)
    PROVE  Clears(r)'
<1>a. /\ refs \in [Branches -> SUBSET Changes] /\ head \in Branches
      /\ run \in [Runs -> RunRecords] /\ work \in SUBSET Changes
  BY DEF GitTypeOK
<1>b. run[r].policy \in KnownPolicies
  BY PoliciesAreKnown DEF GitTypeOK, RunRecords
<1>1. CASE begin(r)
  BY <1>1, <1>a, <1>b, BranchFacts, BeginFacts
  DEF Fails, Moves, repo, Clears, Committed, Labelled, SyncWay, SyncLabels, IntLabels,
     CandidateLabels, KnownPolicies
<1>2. CASE Creates(r, "allow-dirty", RunBranch(r), "allow-dirty checkpoint")
  BY <1>2, <1>a, <1>b, BranchFacts
  DEF Fails, Moves, repo, Clears, Committed, Labelled, SyncWay, SyncLabels, IntLabels,
     CandidateLabels, KnownPolicies, Creates
<1>3. CASE Checkpoints(r, "allow-dirty checkpoint", "running")
  BY <1>3, <1>a, <1>b, BranchFacts
  DEF Fails, Moves, repo, Clears, Committed, Labelled, SyncWay, SyncLabels, IntLabels,
     CandidateLabels, KnownPolicies, Checkpoints
<1>4. CASE Creates(r, "branch", RunBranch(r), "running")
  BY <1>4, <1>a, <1>b, BranchFacts
  DEF Fails, Moves, repo, Clears, Committed, Labelled, SyncWay, SyncLabels, IntLabels,
     CandidateLabels, KnownPolicies, Creates
<1>5. CASE preflightClean(r)
  BY <1>5, <1>a, <1>b, BranchFacts, CleanFacts
  DEF Fails, Moves, repo, Clears, Committed, Labelled, SyncWay, SyncLabels, IntLabels,
     CandidateLabels, KnownPolicies
<1>6. CASE gitAutostash(r)
  BY <1>6, <1>a, <1>b, BranchFacts, AutostashFacts
  DEF Fails, Moves, repo, Clears, Committed, Labelled, SyncWay, SyncLabels, IntLabels,
     CandidateLabels, KnownPolicies
<1>7. CASE resolveStash(r)
  BY <1>7, <1>a, <1>b, BranchFacts, ResolveFacts, ReadFacts
  DEF Fails, Moves, repo, Clears, Committed, Labelled, SyncWay, SyncLabels, IntLabels,
     CandidateLabels, KnownPolicies
<1>8. CASE Inspects(r, "sync", "sync branch", "sync upstream")
  BY <1>8, <1>a, <1>b, BranchFacts, ReadFacts
  DEF Fails, Moves, repo, Clears, Committed, Labelled, SyncWay, SyncLabels, IntLabels,
     CandidateLabels, KnownPolicies, Inspects
<1>9. CASE Creates(r, "sync branch", RunBranch(r), "sync checkpoint")
  BY <1>9, <1>a, <1>b, BranchFacts
  DEF Fails, Moves, repo, Clears, Committed, Labelled, SyncWay, SyncLabels, IntLabels,
     CandidateLabels, KnownPolicies, Creates
<1>10. CASE Checkpoints(r, "sync checkpoint", "sync source")
  BY <1>10, <1>a, <1>b, BranchFacts
  DEF Fails, Moves, repo, Clears, Committed, Labelled, SyncWay, SyncLabels, IntLabels,
     CandidateLabels, KnownPolicies, Checkpoints
<1>11. CASE Switches(r, "sync source", run[r].source, "sync upstream")
  BY <1>11, <1>a, <1>b, BranchFacts
  DEF Fails, Moves, repo, Clears, Committed, Labelled, SyncWay, SyncLabels, IntLabels,
     CandidateLabels, KnownPolicies, Switches
<1>12. CASE syncUpstream(r)
  BY <1>12, <1>a, <1>b, BranchFacts, UpstreamFacts
  DEF Fails, Moves, repo, Clears, Committed, Labelled, SyncWay, SyncLabels, IntLabels,
     CandidateLabels, KnownPolicies, afterSync
<1>13. CASE Fetches(r, "sync fetch", "sync compare", "failed")
  BY <1>13, <1>a, <1>b, BranchFacts
  DEF Fails, Moves, repo, Clears, Committed, Labelled, SyncWay, SyncLabels, IntLabels,
     CandidateLabels, KnownPolicies, Fetches
<1>14. CASE syncCompare(r)
  BY <1>14, <1>a, <1>b, BranchFacts, CompareFacts
  DEF Fails, Moves, repo, Clears, Committed, Labelled, SyncWay, SyncLabels, IntLabels,
     CandidateLabels, KnownPolicies, afterSync
<1>15. CASE Forwards(r, "sync ff", upstream.seen, "sync advanced")
  BY <1>15, <1>a, <1>b, BranchFacts
  DEF Fails, Moves, repo, Clears, Committed, Labelled, SyncWay, SyncLabels, IntLabels,
     CandidateLabels, KnownPolicies, Forwards
<1>16. CASE syncAdvanced(r)
  BY <1>16, <1>a, <1>b, BranchFacts, AdvancedFacts, ReadFacts
  DEF Fails, Moves, repo, Clears, Committed, Labelled, SyncWay, SyncLabels, IntLabels,
     CandidateLabels, KnownPolicies, afterSync
<1>17. CASE Switches(r, "sync return", RunBranch(r), afterReturn(r))
  BY <1>17, <1>a, <1>b, BranchFacts
  DEF Fails, Moves, repo, Clears, Committed, Labelled, SyncWay, SyncLabels, IntLabels,
     CandidateLabels, KnownPolicies, Switches, afterReturn
<1>18. CASE gitRebaseCheckpoint(r)
  <2>1. run[r].source \in Branches
    BY <1>18 DEF gitRebaseCheckpoint, Labelled, SyncLabels
  <2> QED
    BY <1>18, <2>1, <1>a, <1>b, BranchFacts, RebaseFacts
    DEF Fails, Moves, repo, Clears, Committed, Labelled, SyncWay, SyncLabels, IntLabels,
       CandidateLabels, KnownPolicies
<1>19. CASE Creates(r, "sync create", RunBranch(r), "running")
  BY <1>19, <1>a, <1>b, BranchFacts
  DEF Fails, Moves, repo, Clears, Committed, Labelled, SyncWay, SyncLabels, IntLabels,
     CandidateLabels, KnownPolicies, Creates
<1>20. CASE Inspects(r, "integrate", "int create", "int create")
  BY <1>20, <1>a, <1>b, BranchFacts, ReadFacts
  DEF Fails, Moves, repo, Clears, Committed, Labelled, SyncWay, SyncLabels, IntLabels,
     CandidateLabels, KnownPolicies, Inspects
<1>21. CASE Creates(r, "int create", Candidate(r), "int checkpoint")
  BY <1>21, <1>a, <1>b, BranchFacts
  DEF Fails, Moves, repo, Clears, Committed, Labelled, SyncWay, SyncLabels, IntLabels,
     CandidateLabels, KnownPolicies, Creates
<1>22. CASE checksOut(r)
  BY <1>22, <1>a, <1>b, BranchFacts
  DEF Fails, Moves, repo, Clears, Committed, Labelled, SyncWay, SyncLabels, IntLabels,
     CandidateLabels, KnownPolicies, checksOut, Checkpoints
<1>23. CASE intUpstream(r)
  BY <1>23, <1>a, <1>b, BranchFacts, IntUpstreamFacts
  DEF Fails, Moves, repo, Clears, Committed, Labelled, SyncWay, SyncLabels, IntLabels,
     CandidateLabels, KnownPolicies
<1>24. CASE Fetches(r, "int fetch", "int merge", "restore")
  BY <1>24, <1>a, <1>b, BranchFacts
  DEF Fails, Moves, repo, Clears, Committed, Labelled, SyncWay, SyncLabels, IntLabels,
     CandidateLabels, KnownPolicies, Fetches
<1>25. CASE intMerge(r)
  BY <1>25, <1>a, <1>b, BranchFacts, MergeFacts
  DEF Fails, Moves, repo, Clears, Committed, Labelled, SyncWay, SyncLabels, IntLabels,
     CandidateLabels, KnownPolicies
<1>26. CASE abortCandidateMerge(r)
  BY <1>26, <1>a, <1>b, BranchFacts, AbortFacts
  DEF Fails, Moves, repo, Clears, Committed, Labelled, SyncWay, SyncLabels, IntLabels,
     CandidateLabels, KnownPolicies
<1>27. CASE Switches(r, "restore", run[r].source, "failed")
  BY <1>27, <1>a, <1>b, BranchFacts
  DEF Fails, Moves, repo, Clears, Committed, Labelled, SyncWay, SyncLabels, IntLabels,
     CandidateLabels, KnownPolicies, Switches
<1>28. CASE CreatesAt(r, "int branch", RunBranch(r), Candidate(r), "int source")
  BY <1>28, <1>a, <1>b, BranchFacts
  DEF Fails, Moves, repo, Clears, Committed, Labelled, SyncWay, SyncLabels, IntLabels,
     CandidateLabels, KnownPolicies, CreatesAt
<1>29. CASE Switches(r, "int source", run[r].source, "int ff")
  BY <1>29, <1>a, <1>b, BranchFacts
  DEF Fails, Moves, repo, Clears, Committed, Labelled, SyncWay, SyncLabels, IntLabels,
     CandidateLabels, KnownPolicies, Switches
<1>30. CASE Forwards(r, "int ff", refs[Candidate(r)], "int run")
  BY <1>30, <1>a, <1>b, BranchFacts
  DEF Fails, Moves, repo, Clears, Committed, Labelled, SyncWay, SyncLabels, IntLabels,
     CandidateLabels, KnownPolicies, Forwards
<1>31. CASE Switches(r, "int run", RunBranch(r), "int drop")
  BY <1>31, <1>a, <1>b, BranchFacts
  DEF Fails, Moves, repo, Clears, Committed, Labelled, SyncWay, SyncLabels, IntLabels,
     CandidateLabels, KnownPolicies, Switches
<1>32. CASE Deletes(r, "int drop", Candidate(r), "running")
  BY <1>32, <1>a, <1>b, BranchFacts
  DEF Fails, Moves, repo, Clears, Committed, Labelled, SyncWay, SyncLabels, IntLabels,
     CandidateLabels, KnownPolicies, Deletes
<1>33. CASE edit(r)
  BY <1>33, <1>a, <1>b, BranchFacts, EditFacts
  DEF Fails, Moves, repo, Clears, Committed, Labelled, SyncWay, SyncLabels, IntLabels,
     CandidateLabels, KnownPolicies
<1>34. CASE restoreAutostash(r)
  BY <1>34, <1>a, <1>b, BranchFacts, CleanupFacts
  DEF Fails, Moves, repo, Clears, Committed, Labelled, SyncWay, SyncLabels, IntLabels,
     CandidateLabels, KnownPolicies
<1>35. CASE finishPreflightCleanup(r)
  BY <1>35, <1>a, <1>b, BranchFacts, FinishFacts, ReadFacts
  DEF Fails, Moves, repo, Clears, Committed, Labelled, SyncWay, SyncLabels, IntLabels,
     CandidateLabels, KnownPolicies
<1>36. CASE kill(r)
  BY ZenonT(30), <1>36, <1>a, <1>b, BranchFacts, KillFacts
  DEF Fails, Moves, repo, Clears, Committed, Labelled, SyncWay, SyncLabels, IntLabels,
     CandidateLabels, KnownPolicies
<1> QED
  BY <1>1, <1>2, <1>3, <1>4, <1>5, <1>6, <1>7, <1>8, <1>9, <1>10, <1>11, <1>12, <1>13, <1>14, <1>15,
     <1>16, <1>17, <1>18, <1>19, <1>20, <1>21, <1>22, <1>23, <1>24, <1>25, <1>26, <1>27, <1>28,
     <1>29, <1>30, <1>31, <1>32, <1>33, <1>34, <1>35, <1>36 DEF Outcomes

LEMMA BringStep ==
    ASSUME GitTypeOK, NEW r \in Runs, Outcomes(r), Labelled(r), Stands(r), Clears(r), Brings(r)
    PROVE  Brings(r)'
<1>a. /\ refs \in [Branches -> SUBSET Changes] /\ head \in Branches
      /\ run \in [Runs -> RunRecords] /\ work \in SUBSET Changes
  BY DEF GitTypeOK
<1>b. run[r].policy \in KnownPolicies
  BY PoliciesAreKnown DEF GitTypeOK, RunRecords
<1>1. CASE begin(r)
  <2>1. pc[r] = "new" /\ pc'[r] \in KnownPolicies /\ UNCHANGED repo
    BY <1>1, <1>b, BeginFacts DEF Moves
  <2>2. run'[r].found = refs'[head'] /\ run'[r].foundWork = work'
    BY <1>1, <2>1, BeginFacts DEF repo
  <2>3. /\ pc'[r] \in Unsaved
        /\ pc'[r] \notin SyncLabels \cup IntLabels \cup {"running"}
    BY <2>1 DEF Unsaved, SyncLabels, SyncWay, IntLabels, CandidateLabels, KnownPolicies
  <2>4. SyncWay \cup {"sync source", "sync return", "sync rebase", "sync create"}
          \subseteq SyncLabels
        /\ CandidateLabels \cup {"int source", "int ff", "int run", "int drop"} \subseteq IntLabels
    BY DEF SyncLabels, IntLabels, CandidateLabels
  <2> QED BY <2>1, <2>2, <2>3, <2>4 DEF Brings
<1>2. CASE Creates(r, "allow-dirty", RunBranch(r), "allow-dirty checkpoint")
  BY ZenonT(30), <1>2, <1>a, <1>b, BranchFacts
  DEF Fails, Moves, repo, Brings, Start, Unsaved, Carrying, Stands, OfRun, Isolated, AtRunBranch,
     Clears, Committed, Labelled, SyncWay, SyncLabels, IntLabels, CandidateLabels, KnownPolicies,
     Creates
<1>3. CASE Checkpoints(r, "allow-dirty checkpoint", "running")
  <2>1. /\ pc[r] = "allow-dirty checkpoint" /\ pc'[r] \in {"running", "failed"}
        /\ run' = run /\ head' = head
    BY <1>3 DEF Checkpoints, Fails, Moves, repo
  <2>2. pc'[r] = "running" =>
           (work = {} /\ refs' = refs) \/ refs'[head] = refs[head] \cup work
    BY <1>3, <1>a DEF Checkpoints, Fails, Moves, repo
  <2>3. run[r].found \subseteq refs[head] /\ run[r].foundWork \subseteq work
    BY <2>1 DEF Brings, Unsaved
  <2>4. pc'[r] = "running" => Start(r) \subseteq refs'[head]
    BY <2>2, <2>3 DEF Start
  <2>5. Start(r)' = Start(r)
    BY <2>1 DEF Start
  <2> QED BY <2>1, <2>4, <2>5
      DEF Brings, Unsaved, SyncLabels, SyncWay, CandidateLabels, IntLabels, KnownPolicies
<1>4. CASE Creates(r, "branch", RunBranch(r), "running")
  BY <1>4, <1>a, <1>b, BranchFacts
  DEF Fails, Moves, repo, Brings, Start, Unsaved, Carrying, Stands, OfRun, Isolated, AtRunBranch,
     Clears, Committed, Labelled, SyncWay, SyncLabels, IntLabels, CandidateLabels, KnownPolicies,
     Creates
<1>5. CASE preflightClean(r)
  BY <1>5, <1>a, <1>b, BranchFacts, CleanFacts
  DEF Fails, Moves, repo, Brings, Start, Unsaved, Carrying, Stands, OfRun, Isolated, AtRunBranch,
     Clears, Committed, Labelled, SyncWay, SyncLabels, IntLabels, CandidateLabels, KnownPolicies
<1>6. CASE gitAutostash(r)
  BY <1>6, <1>a, <1>b, BranchFacts, AutostashFacts
  DEF Fails, Moves, repo, Brings, Start, Unsaved, Carrying, Stands, OfRun, Isolated, AtRunBranch,
     Clears, Committed, Labelled, SyncWay, SyncLabels, IntLabels, CandidateLabels, KnownPolicies
<1>7. CASE resolveStash(r)
  BY <1>7, <1>a, <1>b, BranchFacts, ResolveFacts, ReadFacts
  DEF Fails, Moves, repo, Brings, Start, Unsaved, Carrying, Stands, OfRun, Isolated, AtRunBranch,
     Clears, Committed, Labelled, SyncWay, SyncLabels, IntLabels, CandidateLabels, KnownPolicies
<1>8. CASE Inspects(r, "sync", "sync branch", "sync upstream")
  BY <1>8, <1>a, <1>b, BranchFacts, ReadFacts
  DEF Fails, Moves, repo, Brings, Start, Unsaved, Carrying, Stands, OfRun, Isolated, AtRunBranch,
     Clears, Committed, Labelled, SyncWay, SyncLabels, IntLabels, CandidateLabels, KnownPolicies,
     Inspects
<1>9. CASE Creates(r, "sync branch", RunBranch(r), "sync checkpoint")
  BY ZenonT(30), <1>9, <1>a, <1>b, BranchFacts
  DEF Fails, Moves, repo, Brings, Start, Unsaved, Carrying, Stands, OfRun, Isolated, AtRunBranch,
     Clears, Committed, Labelled, SyncWay, SyncLabels, IntLabels, CandidateLabels, KnownPolicies,
     Creates
<1>10. CASE Checkpoints(r, "sync checkpoint", "sync source")
  BY ZenonT(60), <1>10, <1>a, <1>b, BranchFacts
  DEF Fails, Moves, repo, Brings, Start, Unsaved, Carrying, Stands, OfRun, Isolated, AtRunBranch,
     Clears, Committed, Labelled, SyncWay, SyncLabels, IntLabels, CandidateLabels, KnownPolicies,
     Checkpoints
<1>11. CASE Switches(r, "sync source", run[r].source, "sync upstream")
  BY <1>11, <1>a, <1>b, BranchFacts
  DEF Fails, Moves, repo, Brings, Start, Unsaved, Carrying, Stands, OfRun, Isolated, AtRunBranch,
     Clears, Committed, Labelled, SyncWay, SyncLabels, IntLabels, CandidateLabels, KnownPolicies,
     Switches
<1>12. CASE syncUpstream(r)
  BY <1>12, <1>a, <1>b, BranchFacts, UpstreamFacts
  DEF Fails, Moves, repo, Brings, Start, Unsaved, Carrying, Stands, OfRun, Isolated, AtRunBranch,
     Clears, Committed, Labelled, SyncWay, SyncLabels, IntLabels, CandidateLabels, KnownPolicies,
     afterSync
<1>13. CASE Fetches(r, "sync fetch", "sync compare", "failed")
  BY <1>13, <1>a, <1>b, BranchFacts
  DEF Fails, Moves, repo, Brings, Start, Unsaved, Carrying, Stands, OfRun, Isolated, AtRunBranch,
     Clears, Committed, Labelled, SyncWay, SyncLabels, IntLabels, CandidateLabels, KnownPolicies,
     Fetches
<1>14. CASE syncCompare(r)
  BY <1>14, <1>a, <1>b, BranchFacts, CompareFacts
  DEF Fails, Moves, repo, Brings, Start, Unsaved, Carrying, Stands, OfRun, Isolated, AtRunBranch,
     Clears, Committed, Labelled, SyncWay, SyncLabels, IntLabels, CandidateLabels, KnownPolicies,
     afterSync
<1>15. CASE Forwards(r, "sync ff", upstream.seen, "sync advanced")
  BY ZenonT(30), <1>15, <1>a, <1>b, BranchFacts
  DEF Fails, Moves, repo, Brings, Start, Unsaved, Carrying, Stands, OfRun, Isolated, AtRunBranch,
     Clears, Committed, Labelled, SyncWay, SyncLabels, IntLabels, CandidateLabels, KnownPolicies,
     Forwards
<1>16. CASE syncAdvanced(r)
  BY ZenonT(30), <1>16, <1>a, <1>b, BranchFacts, AdvancedFacts, ReadFacts
  DEF Fails, Moves, repo, Brings, Start, Unsaved, Carrying, Stands, OfRun, Isolated, AtRunBranch,
     Clears, Committed, Labelled, SyncWay, SyncLabels, IntLabels, CandidateLabels, KnownPolicies,
     afterSync
<1>17. CASE Switches(r, "sync return", RunBranch(r), afterReturn(r))
  BY <1>17, <1>a, <1>b, BranchFacts
  DEF Fails, Moves, repo, Brings, Start, Unsaved, Carrying, Stands, OfRun, Isolated, AtRunBranch,
     Clears, Committed, Labelled, SyncWay, SyncLabels, IntLabels, CandidateLabels, KnownPolicies,
     Switches, afterReturn
<1>18. CASE gitRebaseCheckpoint(r)
  <2>1. run[r].source \in Branches
    BY <1>18 DEF gitRebaseCheckpoint, Labelled, SyncLabels
  <2>2. /\ pc[r] = "sync rebase" /\ pc'[r] \in {"running", "failed", "restore"}
        /\ run' = run /\ head' = head /\ refs[head] \subseteq refs'[head]
    BY <1>18, <1>a, <2>1, RebaseFacts DEF Fails, Moves, repo
  <2>3. Start(r) \subseteq refs[head]
    BY <2>2 DEF Brings, Stands, AtRunBranch
  <2>4. Start(r)' = Start(r)
    BY <2>2 DEF Start
  <2> QED BY <2>2, <2>3, <2>4
      DEF Brings, Unsaved, SyncLabels, SyncWay, CandidateLabels, IntLabels, KnownPolicies
<1>19. CASE Creates(r, "sync create", RunBranch(r), "running")
  BY ZenonT(30), <1>19, <1>a, <1>b, BranchFacts
  DEF Fails, Moves, repo, Brings, Start, Unsaved, Carrying, Stands, OfRun, Isolated, AtRunBranch,
     Clears, Committed, Labelled, SyncWay, SyncLabels, IntLabels, CandidateLabels, KnownPolicies,
     Creates
<1>20. CASE Inspects(r, "integrate", "int create", "int create")
  BY <1>20, <1>a, <1>b, BranchFacts, ReadFacts
  DEF Fails, Moves, repo, Brings, Start, Unsaved, Carrying, Stands, OfRun, Isolated, AtRunBranch,
     Clears, Committed, Labelled, SyncWay, SyncLabels, IntLabels, CandidateLabels, KnownPolicies,
     Inspects
<1>21. CASE Creates(r, "int create", Candidate(r), "int checkpoint")
  BY ZenonT(30), <1>21, <1>a, <1>b, BranchFacts
  DEF Fails, Moves, repo, Brings, Start, Unsaved, Carrying, Stands, OfRun, Isolated, AtRunBranch,
     Clears, Committed, Labelled, SyncWay, SyncLabels, IntLabels, CandidateLabels, KnownPolicies,
     Creates
<1>22. CASE checksOut(r)
  <2>1. /\ pc[r] = "int checkpoint" /\ pc'[r] \in {"int upstream", "failed"}
        /\ run' = run /\ head' = head /\ head = Candidate(r)
    BY <1>22 DEF checksOut, Checkpoints, Fails, Moves, repo, Stands, CandidateLabels
  <2>2. pc'[r] # "failed" => work = {} \/ refs'[head] = refs[head] \cup work
    BY <1>22, <1>a, <2>1 DEF checksOut, Checkpoints, Fails, Moves, repo, Clears
  <2>3. refs[head] \subseteq refs'[head]
    BY <1>22, <1>a DEF checksOut, Checkpoints, Fails, repo
  <2>4. run[r].found \subseteq refs[head] /\ run[r].foundWork \subseteq work
    BY <2>1 DEF Brings, Unsaved
  <2>5. pc'[r] # "failed" => Start(r) \subseteq refs'[Candidate(r)]
    BY <2>1, <2>2, <2>3, <2>4 DEF Start
  <2>6. Start(r)' = Start(r)
    BY <2>1 DEF Start
  <2> QED BY <2>1, <2>5, <2>6
      DEF Brings, Unsaved, SyncLabels, SyncWay, CandidateLabels, IntLabels, KnownPolicies
<1>23. CASE intUpstream(r)
  BY <1>23, <1>a, <1>b, BranchFacts, IntUpstreamFacts
  DEF Fails, Moves, repo, Brings, Start, Unsaved, Carrying, Stands, OfRun, Isolated, AtRunBranch,
     Clears, Committed, Labelled, SyncWay, SyncLabels, IntLabels, CandidateLabels, KnownPolicies
<1>24. CASE Fetches(r, "int fetch", "int merge", "restore")
  BY <1>24, <1>a, <1>b, BranchFacts
  DEF Fails, Moves, repo, Brings, Start, Unsaved, Carrying, Stands, OfRun, Isolated, AtRunBranch,
     Clears, Committed, Labelled, SyncWay, SyncLabels, IntLabels, CandidateLabels, KnownPolicies,
     Fetches
<1>25. CASE intMerge(r)
  <2>1. /\ pc[r] = "int merge" /\ pc'[r] \in {"int branch", "int abort", "restore"}
        /\ run' = run /\ head' = head /\ refs[head] \subseteq refs'[head]
    BY <1>25, <1>a, MergeFacts DEF Fails, Moves, repo
  <2>2. Start(r) \subseteq refs[Candidate(r)] /\ head = Candidate(r)
    BY <2>1 DEF CandidateLabels, Brings, Stands
  <2>3. Start(r)' = Start(r)
    BY <2>1 DEF Start
  <2> QED BY <2>1, <2>2, <2>3
      DEF Brings, Unsaved, SyncLabels, SyncWay, CandidateLabels, IntLabels, KnownPolicies
<1>26. CASE abortCandidateMerge(r)
  BY <1>26, <1>a, <1>b, BranchFacts, AbortFacts
  DEF Fails, Moves, repo, Brings, Start, Unsaved, Carrying, Stands, OfRun, Isolated, AtRunBranch,
     Clears, Committed, Labelled, SyncWay, SyncLabels, IntLabels, CandidateLabels, KnownPolicies
<1>27. CASE Switches(r, "restore", run[r].source, "failed")
  BY <1>27, <1>a, <1>b, BranchFacts
  DEF Fails, Moves, repo, Brings, Start, Unsaved, Carrying, Stands, OfRun, Isolated, AtRunBranch,
     Clears, Committed, Labelled, SyncWay, SyncLabels, IntLabels, CandidateLabels, KnownPolicies,
     Switches
<1>28. CASE CreatesAt(r, "int branch", RunBranch(r), Candidate(r), "int source")
  BY <1>28, <1>a, <1>b, BranchFacts
  DEF Fails, Moves, repo, Brings, Start, Unsaved, Carrying, Stands, OfRun, Isolated, AtRunBranch,
     Clears, Committed, Labelled, SyncWay, SyncLabels, IntLabels, CandidateLabels, KnownPolicies,
     CreatesAt
<1>29. CASE Switches(r, "int source", run[r].source, "int ff")
  BY <1>29, <1>a, <1>b, BranchFacts
  DEF Fails, Moves, repo, Brings, Start, Unsaved, Carrying, Stands, OfRun, Isolated, AtRunBranch,
     Clears, Committed, Labelled, SyncWay, SyncLabels, IntLabels, CandidateLabels, KnownPolicies,
     Switches
<1>30. CASE Forwards(r, "int ff", refs[Candidate(r)], "int run")
  BY <1>30, <1>a, <1>b, BranchFacts
  DEF Fails, Moves, repo, Brings, Start, Unsaved, Carrying, Stands, OfRun, Isolated, AtRunBranch,
     Clears, Committed, Labelled, SyncWay, SyncLabels, IntLabels, CandidateLabels, KnownPolicies,
     Forwards
<1>31. CASE Switches(r, "int run", RunBranch(r), "int drop")
  BY <1>31, <1>a, <1>b, BranchFacts
  DEF Fails, Moves, repo, Brings, Start, Unsaved, Carrying, Stands, OfRun, Isolated, AtRunBranch,
     Clears, Committed, Labelled, SyncWay, SyncLabels, IntLabels, CandidateLabels, KnownPolicies,
     Switches
<1>32. CASE Deletes(r, "int drop", Candidate(r), "running")
  <2>1. /\ pc[r] = "int drop" /\ pc'[r] \in {"running", "failed"}
        /\ UNCHANGED <<run, head>> /\ head = RunBranch(r)
    BY <1>32 DEF Deletes, Fails, Moves, repo, Stands, AtRunBranch
  <2>2. refs'[RunBranch(r)] = refs[RunBranch(r)]
    BY <1>32, <1>a, BranchFacts DEF Deletes, Fails, repo
  <2>3. Start(r) \subseteq refs[RunBranch(r)] /\ UNCHANGED Start(r)
    BY <2>1 DEF Brings, Start
  <2> QED
    BY <2>1, <2>2, <2>3 DEF Brings, Unsaved, SyncWay, CandidateLabels, KnownPolicies
<1>33. CASE edit(r)
  BY <1>33, <1>a, <1>b, BranchFacts, EditFacts
  DEF Fails, Moves, repo, Brings, Start, Unsaved, Carrying, Stands, OfRun, Isolated, AtRunBranch,
     Clears, Committed, Labelled, SyncWay, SyncLabels, IntLabels, CandidateLabels, KnownPolicies
<1>34. CASE restoreAutostash(r)
  BY <1>34, <1>a, <1>b, BranchFacts, CleanupFacts
  DEF Fails, Moves, repo, Brings, Start, Unsaved, Carrying, Stands, OfRun, Isolated, AtRunBranch,
     Clears, Committed, Labelled, SyncWay, SyncLabels, IntLabels, CandidateLabels, KnownPolicies
<1>35. CASE finishPreflightCleanup(r)
  BY <1>35, <1>a, <1>b, BranchFacts, FinishFacts, ReadFacts
  DEF Fails, Moves, repo, Brings, Start, Unsaved, Carrying, Stands, OfRun, Isolated, AtRunBranch,
     Clears, Committed, Labelled, SyncWay, SyncLabels, IntLabels, CandidateLabels, KnownPolicies
<1>36. CASE kill(r)
  BY <1>36, <1>a, <1>b, BranchFacts, KillFacts
  DEF Fails, Moves, repo, Brings, Start, Unsaved, Carrying, Stands, OfRun, Isolated, AtRunBranch,
     Clears, Committed, Labelled, SyncWay, SyncLabels, IntLabels, CandidateLabels, KnownPolicies
<1> QED
  BY <1>1, <1>2, <1>3, <1>4, <1>5, <1>6, <1>7, <1>8, <1>9, <1>10, <1>11, <1>12, <1>13, <1>14, <1>15,
     <1>16, <1>17, <1>18, <1>19, <1>20, <1>21, <1>22, <1>23, <1>24, <1>25, <1>26, <1>27, <1>28,
     <1>29, <1>30, <1>31, <1>32, <1>33, <1>34, <1>35, <1>36 DEF Outcomes

LEMMA FollowStep ==
    ASSUME GitTypeOK, NEW r \in Runs, Outcomes(r), Labelled(r), Stands(r), Brings(r), Follows(r)
    PROVE  Follows(r)'
<1>a. /\ refs \in [Branches -> SUBSET Changes] /\ head \in Branches
      /\ run \in [Runs -> RunRecords] /\ work \in SUBSET Changes
  BY DEF GitTypeOK
<1>b. run[r].policy \in KnownPolicies
  BY PoliciesAreKnown DEF GitTypeOK, RunRecords
<1>1. CASE begin(r)
  BY ZenonT(30), <1>1, <1>a, <1>b, BranchFacts, BeginFacts
  DEF Fails, Moves, repo, Follows, tracks, Start, Unsaved, Stands, OfRun, Isolated, AtRunBranch,
     Brings, Carrying, Labelled, SyncWay, SyncLabels, IntLabels, CandidateLabels, KnownPolicies
<1>2. CASE Creates(r, "allow-dirty", RunBranch(r), "allow-dirty checkpoint")
  BY <1>2, <1>a, <1>b, BranchFacts
  DEF Fails, Moves, repo, Follows, tracks, Start, Unsaved, Stands, OfRun, Isolated, AtRunBranch,
     Brings, Carrying, Labelled, SyncWay, SyncLabels, IntLabels, CandidateLabels, KnownPolicies,
     Creates
<1>3. CASE Checkpoints(r, "allow-dirty checkpoint", "running")
  BY <1>3, <1>a, <1>b, BranchFacts
  DEF Fails, Moves, repo, Follows, tracks, Start, Unsaved, Stands, OfRun, Isolated, AtRunBranch,
     Brings, Carrying, Labelled, SyncWay, SyncLabels, IntLabels, CandidateLabels, KnownPolicies,
     Checkpoints
<1>4. CASE Creates(r, "branch", RunBranch(r), "running")
  BY <1>4, <1>a, <1>b, BranchFacts
  DEF Fails, Moves, repo, Follows, tracks, Start, Unsaved, Stands, OfRun, Isolated, AtRunBranch,
     Brings, Carrying, Labelled, SyncWay, SyncLabels, IntLabels, CandidateLabels, KnownPolicies,
     Creates
<1>5. CASE preflightClean(r)
  BY <1>5, <1>a, <1>b, BranchFacts, CleanFacts
  DEF Fails, Moves, repo, Follows, tracks, Start, Unsaved, Stands, OfRun, Isolated, AtRunBranch,
     Brings, Carrying, Labelled, SyncWay, SyncLabels, IntLabels, CandidateLabels, KnownPolicies
<1>6. CASE gitAutostash(r)
  BY <1>6, <1>a, <1>b, BranchFacts, AutostashFacts
  DEF Fails, Moves, repo, Follows, tracks, Start, Unsaved, Stands, OfRun, Isolated, AtRunBranch,
     Brings, Carrying, Labelled, SyncWay, SyncLabels, IntLabels, CandidateLabels, KnownPolicies
<1>7. CASE resolveStash(r)
  BY <1>7, <1>a, <1>b, BranchFacts, ResolveFacts, ReadFacts
  DEF Fails, Moves, repo, Follows, tracks, Start, Unsaved, Stands, OfRun, Isolated, AtRunBranch,
     Brings, Carrying, Labelled, SyncWay, SyncLabels, IntLabels, CandidateLabels, KnownPolicies
<1>8. CASE Inspects(r, "sync", "sync branch", "sync upstream")
  BY <1>8, <1>a, <1>b, BranchFacts, ReadFacts
  DEF Fails, Moves, repo, Follows, tracks, Start, Unsaved, Stands, OfRun, Isolated, AtRunBranch,
     Brings, Carrying, Labelled, SyncWay, SyncLabels, IntLabels, CandidateLabels, KnownPolicies,
     Inspects
<1>9. CASE Creates(r, "sync branch", RunBranch(r), "sync checkpoint")
  <2>1. /\ pc[r] = "sync branch" /\ pc'[r] \in {"sync checkpoint", "failed"}
        /\ UNCHANGED <<run, upstream>>
        /\ run[r].source \in Branches /\ run[r].source \notin OfRun(r)
    BY <1>9
    DEF Creates, Fails, Moves, repo, Labelled, Stands, SyncLabels, SyncWay, IntLabels,
        CandidateLabels, AtRunBranch, tracks
  <2>2. refs'[run[r].source] = refs[run[r].source]
    BY <1>9, <1>a, <2>1, BranchFacts
    DEF Creates, Fails, Moves, repo, OfRun
  <2>t. tracks(run[r].source)' = tracks(run[r].source)
    BY <2>1 DEF tracks
  <2> QED BY <2>1, <2>2, <2>t
      DEF Follows, SyncLabels, SyncWay, CandidateLabels, IntLabels, KnownPolicies
<1>10. CASE Checkpoints(r, "sync checkpoint", "sync source")
  <2>1. /\ pc[r] = "sync checkpoint" /\ pc'[r] \in {"sync source", "failed"} /\ head = RunBranch(r)
        /\ UNCHANGED <<run, upstream>>
        /\ run[r].source \in Branches /\ run[r].source \notin OfRun(r)
    BY <1>10
    DEF Checkpoints, Fails, Moves, repo, Labelled, Stands, SyncLabels, SyncWay, IntLabels,
        CandidateLabels, AtRunBranch, tracks
  <2>2. refs'[run[r].source] = refs[run[r].source]
    BY <1>10, <1>a, <2>1, BranchFacts
    DEF Checkpoints, Fails, Moves, repo, OfRun
  <2>t. tracks(run[r].source)' = tracks(run[r].source)
    BY <2>1 DEF tracks
  <2> QED BY <2>1, <2>2, <2>t
      DEF Follows, SyncLabels, SyncWay, CandidateLabels, IntLabels, KnownPolicies
<1>11. CASE Switches(r, "sync source", run[r].source, "sync upstream")
  BY <1>11, <1>a, <1>b, BranchFacts
  DEF Fails, Moves, repo, Follows, tracks, Start, Unsaved, Stands, OfRun, Isolated, AtRunBranch,
     Brings, Carrying, Labelled, SyncWay, SyncLabels, IntLabels, CandidateLabels, KnownPolicies,
     Switches
<1>12. CASE syncUpstream(r)
  BY <1>12, <1>a, <1>b, BranchFacts, UpstreamFacts
  DEF Fails, Moves, repo, Follows, tracks, Start, Unsaved, Stands, OfRun, Isolated, AtRunBranch,
     Brings, Carrying, Labelled, SyncWay, SyncLabels, IntLabels, CandidateLabels, KnownPolicies,
     afterSync
<1>13. CASE Fetches(r, "sync fetch", "sync compare", "failed")
  BY <1>13, <1>a, <1>b, BranchFacts
  DEF Fails, Moves, repo, Follows, tracks, Start, Unsaved, Stands, OfRun, Isolated, AtRunBranch,
     Brings, Carrying, Labelled, SyncWay, SyncLabels, IntLabels, CandidateLabels, KnownPolicies,
     Fetches
<1>14. CASE syncCompare(r)
  BY ZenonT(30), <1>14, <1>a, <1>b, BranchFacts, CompareFacts
  DEF Fails, Moves, repo, Follows, tracks, Start, Unsaved, Stands, OfRun, Isolated, AtRunBranch,
     Brings, Carrying, Labelled, SyncWay, SyncLabels, IntLabels, CandidateLabels, KnownPolicies,
     afterSync
<1>15. CASE Forwards(r, "sync ff", upstream.seen, "sync advanced")
  <2>1. /\ pc[r] = "sync ff" /\ pc'[r] \in {"sync advanced", "failed"} /\ head = run[r].source
        /\ UNCHANGED <<run, upstream>>
        /\ run[r].source \in Branches /\ run[r].source \notin OfRun(r)
    BY <1>15
    DEF Forwards, Fails, Moves, repo, Labelled, Stands, SyncLabels, SyncWay, IntLabels,
        CandidateLabels, AtRunBranch, tracks
  <2>2. pc'[r] = "sync advanced" => refs'[run[r].source] = upstream.seen
    BY <1>15, <1>a, <2>1, BranchFacts
    DEF Forwards, Fails, Moves, repo, OfRun
  <2>t. tracks(run[r].source)' = tracks(run[r].source)
    BY <2>1 DEF tracks
  <2> QED BY <2>1, <2>2, <2>t
      DEF Follows, SyncLabels, SyncWay, CandidateLabels, IntLabels, KnownPolicies
<1>16. CASE syncAdvanced(r)
  BY ZenonT(30), <1>16, <1>a, <1>b, BranchFacts, AdvancedFacts, ReadFacts
  DEF Fails, Moves, repo, Follows, tracks, Start, Unsaved, Stands, OfRun, Isolated, AtRunBranch,
     Brings, Carrying, Labelled, SyncWay, SyncLabels, IntLabels, CandidateLabels, KnownPolicies,
     afterSync
<1>17. CASE Switches(r, "sync return", RunBranch(r), afterReturn(r))
  BY ZenonT(30), <1>17, <1>a, <1>b, BranchFacts
  DEF Fails, Moves, repo, Follows, tracks, Start, Unsaved, Stands, OfRun, Isolated, AtRunBranch,
     Brings, Carrying, Labelled, SyncWay, SyncLabels, IntLabels, CandidateLabels, KnownPolicies,
     Switches, afterReturn
<1>18. CASE gitRebaseCheckpoint(r)
  <2>0. run[r].source \in Branches
    BY <1>18 DEF gitRebaseCheckpoint, Labelled, SyncLabels
  <2>1. /\ pc[r] = "sync rebase" /\ pc'[r] \in {"running", "failed", "restore"}
        /\ head = RunBranch(r) /\ head' = head
        /\ UNCHANGED <<run, upstream>>
        /\ run[r].source \in Branches /\ run[r].source \notin OfRun(r)
    BY <1>18, <2>0, RebaseFacts
    DEF gitRebaseCheckpoint, Fails, Moves, repo, Labelled, Stands, SyncLabels, SyncWay, IntLabels,
        CandidateLabels, AtRunBranch, tracks
  <2>2. /\ refs'[run[r].source] = refs[run[r].source]
        /\ pc'[r] = "running" => refs'[head] = refs[head] \cup refs[run[r].source]
    BY <1>18, <1>a, <2>1, BranchFacts, <2>0, RebaseFacts
    DEF gitRebaseCheckpoint, Fails, Moves, repo, OfRun
  <2>t. tracks(run[r].source)' = tracks(run[r].source)
    BY <2>1 DEF tracks
  <2> QED BY <2>1, <2>2, <2>t
      DEF Follows, SyncLabels, SyncWay, CandidateLabels, IntLabels, KnownPolicies
<1>19. CASE Creates(r, "sync create", RunBranch(r), "running")
  <2>1. /\ pc[r] = "sync create" /\ pc'[r] \in {"running", "failed"} /\ head = run[r].source
        /\ UNCHANGED <<run, upstream>>
        /\ run[r].source \in Branches /\ run[r].source \notin OfRun(r)
    BY <1>19
    DEF Creates, Fails, Moves, repo, Labelled, Stands, SyncLabels, SyncWay, IntLabels,
        CandidateLabels, AtRunBranch, tracks
  <2>2. /\ refs'[run[r].source] = refs[run[r].source]
        /\ pc'[r] = "running" => refs'[head'] = refs[head]
    BY <1>19, <1>a, <2>1, BranchFacts
    DEF Creates, Fails, Moves, repo, OfRun
  <2>t. tracks(run[r].source)' = tracks(run[r].source)
    BY <2>1 DEF tracks
  <2> QED BY <2>1, <2>2, <2>t
      DEF Follows, SyncLabels, SyncWay, CandidateLabels, IntLabels, KnownPolicies
<1>20. CASE Inspects(r, "integrate", "int create", "int create")
  BY <1>20, <1>a, <1>b, BranchFacts, ReadFacts
  DEF Fails, Moves, repo, Follows, tracks, Start, Unsaved, Stands, OfRun, Isolated, AtRunBranch,
     Brings, Carrying, Labelled, SyncWay, SyncLabels, IntLabels, CandidateLabels, KnownPolicies,
     Inspects
<1>21. CASE Creates(r, "int create", Candidate(r), "int checkpoint")
  <2>1. /\ pc[r] = "int create" /\ pc'[r] \in {"int checkpoint", "failed"}
        /\ UNCHANGED <<run, upstream>>
        /\ run[r].source \in Branches /\ run[r].source \notin OfRun(r)
    BY <1>21
    DEF Creates, Fails, Moves, repo, Labelled, Stands, SyncLabels, SyncWay, IntLabels,
        CandidateLabels, AtRunBranch, tracks
  <2>2. refs'[run[r].source] = refs[run[r].source]
    BY <1>21, <1>a, <2>1, BranchFacts
    DEF Creates, Fails, Moves, repo, OfRun
  <2>t. tracks(run[r].source)' = tracks(run[r].source)
    BY <2>1 DEF tracks
  <2> QED BY <2>1, <2>2, <2>t
      DEF Follows, SyncLabels, SyncWay, CandidateLabels, IntLabels, KnownPolicies
<1>22. CASE checksOut(r)
  <2>1. /\ pc[r] = "int checkpoint" /\ pc'[r] \in {"int upstream", "failed"} /\ head = Candidate(r)
        /\ UNCHANGED <<run, upstream>>
        /\ run[r].source \in Branches /\ run[r].source \notin OfRun(r)
    BY <1>22
    DEF checksOut, Checkpoints, Fails, Moves, repo, Labelled, Stands, SyncLabels, SyncWay,
        IntLabels, CandidateLabels, AtRunBranch, tracks
  <2>2. refs'[run[r].source] = refs[run[r].source]
    BY <1>22, <1>a, <2>1, BranchFacts
    DEF checksOut, Checkpoints, Fails, Moves, repo, OfRun
  <2>t. tracks(run[r].source)' = tracks(run[r].source)
    BY <2>1 DEF tracks
  <2> QED BY <2>1, <2>2, <2>t
      DEF Follows, SyncLabels, SyncWay, CandidateLabels, IntLabels, KnownPolicies
<1>23. CASE intUpstream(r)
  BY <1>23, <1>a, <1>b, BranchFacts, IntUpstreamFacts
  DEF Fails, Moves, repo, Follows, tracks, Start, Unsaved, Stands, OfRun, Isolated, AtRunBranch,
     Brings, Carrying, Labelled, SyncWay, SyncLabels, IntLabels, CandidateLabels, KnownPolicies
<1>24. CASE Fetches(r, "int fetch", "int merge", "restore")
  BY <1>24, <1>a, <1>b, BranchFacts
  DEF Fails, Moves, repo, Follows, tracks, Start, Unsaved, Stands, OfRun, Isolated, AtRunBranch,
     Brings, Carrying, Labelled, SyncWay, SyncLabels, IntLabels, CandidateLabels, KnownPolicies,
     Fetches
<1>25. CASE intMerge(r)
  <2>1. /\ pc[r] = "int merge" /\ pc'[r] \in {"int branch", "int abort", "restore"}
        /\ head = Candidate(r)
        /\ UNCHANGED <<run, upstream>>
        /\ run[r].source \in Branches /\ run[r].source \notin OfRun(r)
    BY <1>25, MergeFacts
    DEF intMerge, Fails, Moves, repo, Labelled, Stands, SyncLabels, SyncWay, IntLabels,
        CandidateLabels, AtRunBranch, tracks
  <2>2. /\ refs'[run[r].source] = refs[run[r].source]
        /\ pc'[r] = "int branch" =>
              \/ upstream.seen \subseteq refs'[Candidate(r)]
              \/ upstream.seen \subseteq refs[run[r].source] /\ refs' = refs
    BY ZenonT(30), <1>25, <1>a, <2>1, BranchFacts, MergeFacts
    DEF intMerge, Fails, Moves, repo, OfRun
  <2>t. tracks(run[r].source)' = tracks(run[r].source)
    BY <2>1 DEF tracks
  <2>3. refs[run[r].source] \subseteq refs[Candidate(r)]
    BY <2>1 DEF Follows, Brings, Start, CandidateLabels
  <2> QED BY <2>1, <2>2, <2>t, <2>3
      DEF Follows, SyncLabels, SyncWay, CandidateLabels, IntLabels, KnownPolicies
<1>26. CASE abortCandidateMerge(r)
  BY <1>26, <1>a, <1>b, BranchFacts, AbortFacts
  DEF Fails, Moves, repo, Follows, tracks, Start, Unsaved, Stands, OfRun, Isolated, AtRunBranch,
     Brings, Carrying, Labelled, SyncWay, SyncLabels, IntLabels, CandidateLabels, KnownPolicies
<1>27. CASE Switches(r, "restore", run[r].source, "failed")
  BY <1>27, <1>a, <1>b, BranchFacts
  DEF Fails, Moves, repo, Follows, tracks, Start, Unsaved, Stands, OfRun, Isolated, AtRunBranch,
     Brings, Carrying, Labelled, SyncWay, SyncLabels, IntLabels, CandidateLabels, KnownPolicies,
     Switches
<1>28. CASE CreatesAt(r, "int branch", RunBranch(r), Candidate(r), "int source")
  <2>1. /\ pc[r] = "int branch" /\ pc'[r] \in {"int source", "restore"}
        /\ UNCHANGED <<run, upstream>>
        /\ run[r].source \in Branches /\ run[r].source \notin OfRun(r)
    BY <1>28
    DEF CreatesAt, Fails, Moves, repo, Labelled, Stands, SyncLabels, SyncWay, IntLabels,
        CandidateLabels, AtRunBranch, tracks
  <2>2. /\ refs'[run[r].source] = refs[run[r].source] /\ refs'[Candidate(r)] = refs[Candidate(r)]
        /\ pc'[r] = "int source" => refs'[RunBranch(r)] = refs[Candidate(r)]
    BY <1>28, <1>a, <2>1, BranchFacts
    DEF CreatesAt, Fails, Moves, repo, OfRun
  <2>t. tracks(run[r].source)' = tracks(run[r].source)
    BY <2>1 DEF tracks
  <2> QED BY <2>1, <2>2, <2>t
      DEF Follows, SyncLabels, SyncWay, CandidateLabels, IntLabels, KnownPolicies
<1>29. CASE Switches(r, "int source", run[r].source, "int ff")
  BY <1>29, <1>a, <1>b, BranchFacts
  DEF Fails, Moves, repo, Follows, tracks, Start, Unsaved, Stands, OfRun, Isolated, AtRunBranch,
     Brings, Carrying, Labelled, SyncWay, SyncLabels, IntLabels, CandidateLabels, KnownPolicies,
     Switches
<1>30. CASE Forwards(r, "int ff", refs[Candidate(r)], "int run")
  <2>1. /\ pc[r] = "int ff" /\ pc'[r] \in {"int run", "failed"} /\ head = run[r].source
        /\ UNCHANGED <<run, upstream>>
        /\ run[r].source \in Branches /\ run[r].source \notin OfRun(r)
    BY <1>30
    DEF Forwards, Fails, Moves, repo, Labelled, Stands, SyncLabels, SyncWay, IntLabels,
        CandidateLabels, AtRunBranch, tracks
  <2>2. /\ refs'[RunBranch(r)] = refs[RunBranch(r)]
        /\ pc'[r] = "int run" => refs'[run[r].source] = refs[Candidate(r)]
    BY <1>30, <1>a, <2>1, BranchFacts
    DEF Forwards, Fails, Moves, repo, OfRun
  <2>t. tracks(run[r].source)' = tracks(run[r].source)
    BY <2>1 DEF tracks
  <2> QED BY <2>1, <2>2, <2>t
      DEF Follows, SyncLabels, SyncWay, CandidateLabels, IntLabels, KnownPolicies
<1>31. CASE Switches(r, "int run", RunBranch(r), "int drop")
  BY <1>31, <1>a, <1>b, BranchFacts
  DEF Fails, Moves, repo, Follows, tracks, Start, Unsaved, Stands, OfRun, Isolated, AtRunBranch,
     Brings, Carrying, Labelled, SyncWay, SyncLabels, IntLabels, CandidateLabels, KnownPolicies,
     Switches
<1>32. CASE Deletes(r, "int drop", Candidate(r), "running")
  <2>1. /\ pc[r] = "int drop" /\ pc'[r] \in {"running", "failed"} /\ head = RunBranch(r)
        /\ head' = head
        /\ UNCHANGED <<run, upstream>>
        /\ run[r].source \in Branches /\ run[r].source \notin OfRun(r)
    BY <1>32
    DEF Deletes, Fails, Moves, repo, Labelled, Stands, SyncLabels, SyncWay, IntLabels,
        CandidateLabels, AtRunBranch, tracks
  <2>2. refs'[run[r].source] = refs[run[r].source] /\ refs'[head] = refs[head]
    BY <1>32, <1>a, <2>1, BranchFacts
    DEF Deletes, Fails, Moves, repo, OfRun
  <2>t. tracks(run[r].source)' = tracks(run[r].source)
    BY <2>1 DEF tracks
  <2> QED BY <2>1, <2>2, <2>t
      DEF Follows, SyncLabels, SyncWay, CandidateLabels, IntLabels, KnownPolicies
<1>33. CASE edit(r)
  BY <1>33, <1>a, <1>b, BranchFacts, EditFacts
  DEF Fails, Moves, repo, Follows, tracks, Start, Unsaved, Stands, OfRun, Isolated, AtRunBranch,
     Brings, Carrying, Labelled, SyncWay, SyncLabels, IntLabels, CandidateLabels, KnownPolicies
<1>34. CASE restoreAutostash(r)
  BY <1>34, <1>a, <1>b, BranchFacts, CleanupFacts
  DEF Fails, Moves, repo, Follows, tracks, Start, Unsaved, Stands, OfRun, Isolated, AtRunBranch,
     Brings, Carrying, Labelled, SyncWay, SyncLabels, IntLabels, CandidateLabels, KnownPolicies
<1>35. CASE finishPreflightCleanup(r)
  BY <1>35, <1>a, <1>b, BranchFacts, FinishFacts, ReadFacts
  DEF Fails, Moves, repo, Follows, tracks, Start, Unsaved, Stands, OfRun, Isolated, AtRunBranch,
     Brings, Carrying, Labelled, SyncWay, SyncLabels, IntLabels, CandidateLabels, KnownPolicies
<1>36. CASE kill(r)
  BY <1>36, <1>a, <1>b, BranchFacts, KillFacts
  DEF Fails, Moves, repo, Follows, tracks, Start, Unsaved, Stands, OfRun, Isolated, AtRunBranch,
     Brings, Carrying, Labelled, SyncWay, SyncLabels, IntLabels, CandidateLabels, KnownPolicies
<1> QED
  BY <1>1, <1>2, <1>3, <1>4, <1>5, <1>6, <1>7, <1>8, <1>9, <1>10, <1>11, <1>12, <1>13, <1>14, <1>15,
     <1>16, <1>17, <1>18, <1>19, <1>20, <1>21, <1>22, <1>23, <1>24, <1>25, <1>26, <1>27, <1>28,
     <1>29, <1>30, <1>31, <1>32, <1>33, <1>34, <1>35, <1>36 DEF Outcomes

LEMMA BeginAlone ==
    ASSUME GitTypeOK, NEW r \in Runs, begin(r)
    PROVE  /\ pc[r] \in Idle
           /\ run'[r].alone => \A q \in Runs \ {r} : pc[q] \in Idle
           /\ \A q \in Runs \ {r} : run'[q].alone => run[q].alone /\ pc[q] \in Idle
           /\ \A q \in Runs \ {r} : run'[q].policy = run[q].policy
<1>1. run \in [Runs -> RunRecords] /\ pc[r] = "new"
  BY DEF GitTypeOK, begin
<1>2. run'[r] = [run[r] EXCEPT !.alone = ~Overlaps(r), !.found = refs[head], !.foundWork = work]
  BY DEF begin
<1>3. run[r] \in RunRecords
  BY <1>1
<1>4. run'[r].alone = ~Overlaps(r)
  BY <1>2, <1>3 DEF RunRecords
<1>5. ASSUME NEW q \in Runs \ {r}
      PROVE  /\ run'[q].alone => run[q].alone /\ pc[q] \in Idle
             /\ run'[q].policy = run[q].policy
  <2>1. run'[q] = [run[q] EXCEPT !.alone =
                      run[q].alone /\ pc[q] \in {"new", "failed", "ended", "killed"}]
    BY DEF begin
  <2>2. run[q] \in RunRecords
    BY <1>1
  <2>3. run'[q].alone = (run[q].alone /\ pc[q] \in Idle) /\ run'[q].policy = run[q].policy
    BY <2>1, <2>2 DEF RunRecords, Idle
  <2> QED BY <2>3
<1> QED BY <1>1, <1>4, <1>5 DEF Overlaps, Idle

\* Nobody but a run that begins disturbs another one.
LEMMA AloneStep ==
    ASSUME GitTypeOK, NEW r \in Runs, Outcomes(r), Labelled(r)
    PROVE  /\ pc[r] \notin Idle => \A q \in Runs : run'[q].alone = run[q].alone
           /\ pc[r] \in Idle =>
                 /\ run'[r].alone => \A q \in Runs \ {r} : pc[q] \in Idle
                 /\ \A q \in Runs \ {r} : run'[q].alone => run[q].alone /\ pc[q] \in Idle
           /\ \A q \in Runs \ {r} : run'[q].policy = run[q].policy
<1>a. /\ refs \in [Branches -> SUBSET Changes] /\ head \in Branches
      /\ run \in [Runs -> RunRecords] /\ work \in SUBSET Changes
  BY DEF GitTypeOK
<1>b. run[r].policy \in KnownPolicies
  BY PoliciesAreKnown DEF GitTypeOK, RunRecords
<1>1. CASE begin(r)
  BY <1>1, BeginAlone DEF Idle, begin
<1>2. CASE Creates(r, "allow-dirty", RunBranch(r), "allow-dirty checkpoint")
  BY <1>2, <1>a, <1>b
  DEF Fails, Moves, repo, Idle, Creates
<1>3. CASE Checkpoints(r, "allow-dirty checkpoint", "running")
  BY <1>3, <1>a, <1>b
  DEF Fails, Moves, repo, Idle, Checkpoints
<1>4. CASE Creates(r, "branch", RunBranch(r), "running")
  BY <1>4, <1>a, <1>b
  DEF Fails, Moves, repo, Idle, Creates
<1>5. CASE preflightClean(r)
  BY <1>5, <1>a, <1>b, CleanFacts
  DEF Fails, Moves, repo, Idle
<1>6. CASE gitAutostash(r)
  BY <1>6, <1>a, <1>b, AutostashFacts
  DEF Fails, Moves, repo, Idle
<1>7. CASE resolveStash(r)
  <2>1. pc[r] = "stashed" /\ (run' = run \/ run' = [run EXCEPT ![r].stashed = TRUE])
    BY <1>7, ResolveFacts DEF Fails, Moves
  <2>2. /\ \A q \in Runs : UNCHANGED run[q].alone
        /\ \A q \in Runs \ {r} : UNCHANGED run[q].policy
    BY <2>1, <1>a, ReadFacts
  <2> QED BY <2>1, <2>2 DEF Idle
<1>8. CASE Inspects(r, "sync", "sync branch", "sync upstream")
  BY ZenonT(30), <1>8, <1>a, <1>b, ReadFacts
  DEF Fails, Moves, repo, Idle, Inspects
<1>9. CASE Creates(r, "sync branch", RunBranch(r), "sync checkpoint")
  BY <1>9, <1>a, <1>b
  DEF Fails, Moves, repo, Idle, Creates
<1>10. CASE Checkpoints(r, "sync checkpoint", "sync source")
  BY <1>10, <1>a, <1>b
  DEF Fails, Moves, repo, Idle, Checkpoints
<1>11. CASE Switches(r, "sync source", run[r].source, "sync upstream")
  BY <1>11, <1>a, <1>b
  DEF Fails, Moves, repo, Idle, Switches
<1>12. CASE syncUpstream(r)
  BY <1>12, <1>a, <1>b, UpstreamFacts
  DEF Fails, Moves, repo, Idle, afterSync
<1>13. CASE Fetches(r, "sync fetch", "sync compare", "failed")
  BY <1>13, <1>a, <1>b
  DEF Fails, Moves, repo, Idle, Fetches
<1>14. CASE syncCompare(r)
  BY <1>14, <1>a, <1>b, CompareFacts
  DEF Fails, Moves, repo, Idle, afterSync
<1>15. CASE Forwards(r, "sync ff", upstream.seen, "sync advanced")
  BY <1>15, <1>a, <1>b
  DEF Fails, Moves, repo, Idle, Forwards
<1>16. CASE syncAdvanced(r)
  <2>1. pc[r] = "sync advanced" /\ run' = [run EXCEPT ![r].advanced = TRUE]
    BY <1>16, AdvancedFacts DEF Moves
  <2>2. run'[r].alone = run[r].alone /\ \A q \in Runs \ {r} : run'[q] = run[q]
    BY <1>a, <2>1, ReadFacts
  <2> QED BY <2>1, <2>2 DEF Idle
<1>17. CASE Switches(r, "sync return", RunBranch(r), afterReturn(r))
  BY <1>17, <1>a, <1>b
  DEF Fails, Moves, repo, Idle, Switches, afterReturn
<1>18. CASE gitRebaseCheckpoint(r)
  <2>1. run[r].source \in Branches
    BY <1>18 DEF gitRebaseCheckpoint, Labelled, SyncLabels
  <2> QED
    BY <1>18, <2>1, <1>a, RebaseFacts
    DEF Fails, Moves, repo, Idle
<1>19. CASE Creates(r, "sync create", RunBranch(r), "running")
  BY <1>19, <1>a, <1>b
  DEF Fails, Moves, repo, Idle, Creates
<1>20. CASE Inspects(r, "integrate", "int create", "int create")
  BY ZenonT(30), <1>20, <1>a, <1>b, ReadFacts
  DEF Fails, Moves, repo, Idle, Inspects
<1>21. CASE Creates(r, "int create", Candidate(r), "int checkpoint")
  BY <1>21, <1>a, <1>b
  DEF Fails, Moves, repo, Idle, Creates
<1>22. CASE checksOut(r)
  BY <1>22, <1>a, <1>b
  DEF Fails, Moves, repo, Idle, checksOut, Checkpoints
<1>23. CASE intUpstream(r)
  BY <1>23, <1>a, <1>b, IntUpstreamFacts
  DEF Fails, Moves, repo, Idle
<1>24. CASE Fetches(r, "int fetch", "int merge", "restore")
  BY <1>24, <1>a, <1>b
  DEF Fails, Moves, repo, Idle, Fetches
<1>25. CASE intMerge(r)
  BY <1>25, <1>a, <1>b, MergeFacts
  DEF Fails, Moves, repo, Idle
<1>26. CASE abortCandidateMerge(r)
  BY <1>26, <1>a, <1>b, AbortFacts
  DEF Fails, Moves, repo, Idle
<1>27. CASE Switches(r, "restore", run[r].source, "failed")
  BY <1>27, <1>a, <1>b
  DEF Fails, Moves, repo, Idle, Switches
<1>28. CASE CreatesAt(r, "int branch", RunBranch(r), Candidate(r), "int source")
  BY <1>28, <1>a, <1>b
  DEF Fails, Moves, repo, Idle, CreatesAt
<1>29. CASE Switches(r, "int source", run[r].source, "int ff")
  BY <1>29, <1>a, <1>b
  DEF Fails, Moves, repo, Idle, Switches
<1>30. CASE Forwards(r, "int ff", refs[Candidate(r)], "int run")
  BY <1>30, <1>a, <1>b
  DEF Fails, Moves, repo, Idle, Forwards
<1>31. CASE Switches(r, "int run", RunBranch(r), "int drop")
  BY <1>31, <1>a, <1>b
  DEF Fails, Moves, repo, Idle, Switches
<1>32. CASE Deletes(r, "int drop", Candidate(r), "running")
  BY <1>32, <1>a, <1>b
  DEF Fails, Moves, repo, Idle, Deletes
<1>33. CASE edit(r)
  BY <1>33, <1>a, <1>b, EditFacts
  DEF Fails, Moves, repo, Idle
<1>34. CASE restoreAutostash(r)
  BY <1>34, <1>a, <1>b, CleanupFacts
  DEF Fails, Moves, repo, Idle
<1>35. CASE finishPreflightCleanup(r)
  <2>1. pc[r] = "cleanup failed" /\ run' = [run EXCEPT ![r].recovery = TRUE]
    BY <1>35, FinishFacts DEF Moves
  <2>2. /\ \A q \in Runs : UNCHANGED run[q].alone
        /\ \A q \in Runs \ {r} : UNCHANGED run[q].policy
    BY <2>1, <1>a, ReadFacts
  <2> QED BY <2>1, <2>2 DEF Idle
<1>36. CASE kill(r)
  BY <1>36, <1>a, <1>b, KillFacts
  DEF Fails, Moves, repo, Idle
<1> QED
  BY ZenonT(30), <1>1, <1>2, <1>3, <1>4, <1>5, <1>6, <1>7, <1>8, <1>9, <1>10, <1>11, <1>12, <1>13, <1>14, <1>15,
     <1>16, <1>17, <1>18, <1>19, <1>20, <1>21, <1>22, <1>23, <1>24, <1>25, <1>26, <1>27, <1>28,
     <1>29, <1>30, <1>31, <1>32, <1>33, <1>34, <1>35, <1>36 DEF Outcomes

\* A run that is alone has the worktree to itself from its begin to its end.
StartInv ==
    \A r \in Runs : run[r].alone =>
        /\ pc[r] \notin Idle => \A q \in Runs \ {r} : pc[q] \in Idle
        /\ Stands(r) /\ Clears(r) /\ Brings(r) /\ Follows(r)

\* Before a run begins and after it is over nothing is claimed of it.
NothingOfIdle ==
    \A r \in Runs : pc[r] \in Idle => Stands(r) /\ Clears(r) /\ Brings(r) /\ Follows(r)

LEMMA IdleFacts == NothingOfIdle
<1> SUFFICES ASSUME NEW r \in Runs, pc[r] \in Idle
             PROVE  Stands(r) /\ Clears(r) /\ Brings(r) /\ Follows(r)
  BY DEF NothingOfIdle
<1>1. Stands(r)
  BY DEF Idle, Stands, KnownPolicies, SyncLabels, SyncWay, IntLabels, CandidateLabels, AtRunBranch
<1>2. Clears(r)
  BY DEF Idle, Clears, Committed, SyncWay, CandidateLabels
<1>3. Brings(r)
  BY DEF Idle, Brings, Unsaved, KnownPolicies, SyncWay, CandidateLabels
<1>4. Follows(r)
  BY DEF Idle, Follows, KnownPolicies, SyncLabels, SyncWay, CandidateLabels
<1> QED BY <1>1, <1>2, <1>3, <1>4

LEMMA StartStep ==
    ASSUME GitInv, StartInv, [Next]_vars
    PROVE  StartInv'
<1>1. GitTypeOK /\ \A r \in Runs : Labelled(r) /\ NoBranchYet(r)
  BY DEF GitInv
<1>2. CASE UNCHANGED <<refs, upstream, head, work, pc, run>>
  <2> SUFFICES ASSUME NEW r \in Runs, run'[r].alone
               PROVE  /\ pc'[r] \notin Idle => \A q \in Runs \ {r} : pc'[q] \in Idle
                      /\ (Stands(r) /\ Clears(r) /\ Brings(r) /\ Follows(r))'
    BY DEF StartInv
  <2>1. /\ pc[r] \notin Idle => \A q \in Runs \ {r} : pc[q] \in Idle
        /\ Stands(r) /\ Clears(r) /\ Brings(r) /\ Follows(r)
    BY <1>2 DEF StartInv
  <2>2. Start(r)' = Start(r) /\ tracks(run[r].source)' = tracks(run[r].source)
    BY <1>2 DEF Start, tracks
  <2>3. Stands(r)' /\ Clears(r)'
    BY <1>2, <2>1 DEF Stands, Clears
  <2>4. Brings(r)'
    BY <1>2, <2>1, <2>2 DEF Brings
  <2>5. Follows(r)'
    BY ZenonT(30), <1>2, <2>1, <2>2 DEF Follows
  <2> QED BY <1>2, <2>1, <2>3, <2>4, <2>5
<1>3. CASE stashAside
  BY <1>2, <1>3 DEF stashAside
<1>4. ASSUME NEW p \in Runs, Outcomes(p) PROVE StartInv'
  <2> SUFFICES ASSUME NEW r \in Runs, run'[r].alone
               PROVE  /\ pc'[r] \notin Idle => \A q \in Runs \ {r} : pc'[q] \in Idle
                      /\ (Stands(r) /\ Clears(r) /\ Brings(r) /\ Follows(r))'
    BY DEF StartInv
  <2>1. /\ pc[p] \notin Idle => \A q \in Runs : run'[q].alone = run[q].alone
        /\ pc[p] \in Idle =>
              /\ run'[p].alone => \A q \in Runs \ {p} : pc[q] \in Idle
              /\ \A q \in Runs \ {p} : run'[q].alone => run[q].alone /\ pc[q] \in Idle
    BY <1>1, <1>4, AloneStep
  <2>2. \A q \in Runs \ {p} : pc'[q] = pc[q]
    BY <1>1, <1>4, OthersStep
  <2>3. CASE p = r
    <3>1. Stands(r) /\ Clears(r) /\ Brings(r) /\ Follows(r)
      BY <2>1, <2>3, IdleFacts DEF StartInv, NothingOfIdle
    <3>2. \A q \in Runs \ {r} : pc'[q] \in Idle
      BY <2>1, <2>2, <2>3 DEF StartInv
    <3>3. pc[r] = "new" => head \notin OfRun(r)
      BY <1>1 DEF GitTypeOK, NoBranchYet, OfRun
    <3> QED
      BY <1>1, <1>4, <2>3, <3>1, <3>2, <3>3, StandStep, ClearStep, BringStep, FollowStep
  <2>4. CASE p # r
    <3>1. pc[r] \in Idle
      BY <2>1, <2>4 DEF StartInv
    <3>2. pc'[r] \in Idle
      BY <2>2, <2>4, <3>1
    <3>3. NothingOfIdle'
      BY IdleFacts, PTL
    <3>4. (Stands(r) /\ Clears(r) /\ Brings(r) /\ Follows(r))'
      BY <3>2, <3>3 DEF NothingOfIdle, Idle
    <3> QED BY <3>2, <3>4
  <2> QED BY <2>3, <2>4
<1> QED BY <1>2, <1>3, <1>4, GitStep

\* A preflight that succeeds, undisturbed by another run, hands over the whole
\* starting point: on the run's own branch where the policy isolates, with nothing
\* uncommitted but under git_safety=branch, and with the source, the operator's
\* changes and the fetched upstream where the policy carries them
\* (git_sync_preflight.go:10-140).
THEOREM StartsWhole == Spec => []RunStartsWhole
<1>1. Init => StartInv
  BY IdleFacts DEF Init, StartInv, Idle, NothingOfIdle
<1>2. GitInv /\ StartInv /\ [Next]_vars => GitInv' /\ StartInv'
  BY GitStep, StartStep
<1>3. GitInv /\ StartInv => RunStartsWhole
  <2> SUFFICES ASSUME GitInv, StartInv, NEW r \in Runs, pc[r] = "running", run[r].alone
               PROVE  /\ run[r].policy \in Isolated => head = RunBranch(r)
                      /\ run[r].policy # "branch" => work = {}
                      /\ run[r].policy \in Carrying => Start(r) \subseteq refs[head]
                      /\ run[r].policy \in {"sync", "integrate"} =>
                            /\ tracks(run[r].source) => upstream.seen \subseteq refs[head]
                            /\ refs[run[r].source] \subseteq refs[head]
    BY DEF RunStartsWhole, Isolated, Carrying, Start
  <2>1. Stands(r) /\ Clears(r) /\ Brings(r) /\ Follows(r)
    BY DEF StartInv
  <2> QED BY <2>1 DEF Stands, Clears, Brings, Follows
<1> QED BY <1>1, <1>2, <1>3, GitStarts, PTL DEF Spec

-----------------------------------------------------------------------------
(* Options: the last value of a list *)

LEMMA MaxFacts ==
    ASSUME NEW n \in Nat, NEW T \in SUBSET (1..n), T # {}
    PROVE  Max(T) \in T /\ \A i \in T : i <= Max(T)
<1> DEFINE M == {n - i : i \in T}
<1>1. M \in SUBSET Nat /\ M # {}
  <2>1. ASSUME NEW i \in T PROVE n - i \in Nat
    <3>1. i \in Nat /\ i <= n
      OBVIOUS
    <3> QED BY <3>1
  <2> QED BY <2>1
<1>2. PICK m \in M : \A k \in M : m <= k
  <2> HIDE DEF M
  <2> QED BY <1>1, MinFacts
<1>3. PICK x \in T : m = n - x
  OBVIOUS
<1>4. ASSUME NEW i \in T PROVE x >= i
  <2>1. n - i \in M /\ i \in Int /\ x \in Int
    OBVIOUS
  <2>2. n - x <= n - i
    BY <1>2, <1>3, <2>1
  <2> HIDE DEF M
  <2> QED BY <2>1, <2>2
<1>5. \A i \in T : x >= i
  BY <1>4
<1> QED BY <1>5 DEF Max

\* The last value that is set is one of them, and none is set after it.
LEMMA LastSetFacts ==
    ASSUME NEW n \in Nat, NEW s, DOMAIN s = 1..n
    PROVE  \/ LastSet(s) = Unset /\ \A i \in 1..n : s[i] = Unset
           \/ \E k \in 1..n : /\ LastSet(s) = s[k] /\ s[k] # Unset
                              /\ \A j \in 1..n : j > k => s[j] = Unset
<1> DEFINE T == {i \in DOMAIN s : s[i] # Unset}
<1>1. LastSet(s) = IF T = {} THEN Unset ELSE s[Max(T)]
  BY DEF LastSet
<1>2. T \in SUBSET (1..n)
  OBVIOUS
<1>3. CASE T = {}
  BY <1>1, <1>3
<1>4. CASE T # {}
  <2>0. Max(T) \in T /\ \A i \in T : i <= Max(T)
    <3> HIDE DEF T
    <3> QED BY <1>2, <1>4, MaxFacts
  <2>1. PICK k \in T : k = Max(T) /\ \A i \in T : i <= k
    BY <2>0
  <2>2. k \in 1..n /\ s[k] # Unset
    OBVIOUS
  <2>3. \A j \in 1..n : j > k => s[j] = Unset
    <3> SUFFICES ASSUME NEW j \in 1..n, s[j] # Unset PROVE ~ (j > k)
      OBVIOUS
    <3>1. j \in T
      OBVIOUS
    <3>2. j <= k /\ j \in Int
      BY <2>1, <3>1
    <3> QED BY <2>2, <3>2
  <2>4. LastSet(s) = s[k]
    BY <1>1, <1>4, <2>1
  <2> QED BY <2>2, <2>3, <2>4
<1> QED BY <1>3, <1>4

LEMMA LastOfTwo ==
    ASSUME NEW a, NEW b
    PROVE  LastSet(<<a, b>>) = IF b # Unset THEN b ELSE a
<1> DEFINE s == <<a, b>>
<1>1. DOMAIN s = 1..2 /\ s[1] = a /\ s[2] = b
  OBVIOUS
<1> HIDE DEF s
<1>2. \/ LastSet(s) = Unset /\ \A i \in 1..2 : s[i] = Unset
      \/ \E k \in 1..2 : /\ LastSet(s) = s[k] /\ s[k] # Unset
                         /\ \A j \in 1..2 : j > k => s[j] = Unset
  BY <1>1, LastSetFacts
<1>3. \/ LastSet(s) = Unset /\ a = Unset /\ b = Unset
      \/ LastSet(s) = a /\ a # Unset /\ b = Unset
      \/ LastSet(s) = b /\ b # Unset
  <2>1. 1 \in 1..2 /\ 2 \in 1..2 /\ 2 > 1 /\ \A k \in 1..2 : k = 1 \/ k = 2
    OBVIOUS
  <2> QED BY <1>1, <1>2, <2>1
<1> QED BY <1>3 DEF s

LEMMA LastOfThree ==
    ASSUME NEW a, NEW b, NEW c
    PROVE  LastSet(<<a, b, c>>) = IF c # Unset THEN c ELSE IF b # Unset THEN b ELSE a
<1> DEFINE s == <<a, b, c>>
<1>1. DOMAIN s = 1..3 /\ s[1] = a /\ s[2] = b /\ s[3] = c
  OBVIOUS
<1> HIDE DEF s
<1>2. \/ LastSet(s) = Unset /\ \A i \in 1..3 : s[i] = Unset
      \/ \E k \in 1..3 : /\ LastSet(s) = s[k] /\ s[k] # Unset
                         /\ \A j \in 1..3 : j > k => s[j] = Unset
  BY <1>1, LastSetFacts
<1>3. \/ LastSet(s) = Unset /\ a = Unset /\ b = Unset /\ c = Unset
      \/ LastSet(s) = a /\ a # Unset /\ b = Unset /\ c = Unset
      \/ LastSet(s) = b /\ b # Unset /\ c = Unset
      \/ LastSet(s) = c /\ c # Unset
  <2>1. /\ 1 \in 1..3 /\ 2 \in 1..3 /\ 3 \in 1..3 /\ 2 > 1 /\ 3 > 1 /\ 3 > 2
        /\ \A k \in 1..3 : k = 1 \/ k = 2 \/ k = 3
    OBVIOUS
  <2> QED BY <1>1, <1>2, <2>1
<1> QED BY <1>3 DEF s

\* A value that others may override: the last of them that is set, if any is.
LEMMA LastOfMore ==
    ASSUME NEW a, NEW n \in Nat, NEW g, DOMAIN g = 1..n, g = [i \in 1..n |-> g[i]]
    PROVE  LET last == LastSet(<<a>> \o g) IN
           /\ (\E i \in 1..n : g[i] # Unset) => last # Unset /\ \E i \in 1..n : last = g[i]
           /\ (\A i \in 1..n : g[i] = Unset) => last = a
<1> DEFINE S == {a} \cup {g[i] : i \in 1..n}
           s == <<a>> \o g
<1>1. <<a>> \in Seq(S) /\ g \in Seq(S) /\ Len(g) = n /\ Len(<<a>>) = 1 /\ <<a>>[1] = a
  <2>1. g \in [1..n -> S]
    OBVIOUS
  <2> QED BY <2>1, LenProperties
<1>2. s \in Seq(S) /\ Len(s) = n + 1 /\ s[1] = a /\ \A i \in 1..n : s[i + 1] = g[i]
  <2> HIDE DEF S
  <2>1. /\ s \in Seq(S) /\ Len(s) = Len(<<a>>) + Len(g)
        /\ \A i \in 1..Len(s) : s[i] = IF i <= Len(<<a>>) THEN <<a>>[i] ELSE g[i - Len(<<a>>)]
    BY <1>1, ConcatProperties
  <2> HIDE DEF s
  <2>a. ASSUME NEW j \in 1..Len(s) PROVE s[j] = IF j <= 1 THEN a ELSE g[j - 1]
    <3>1. s[j] = IF j <= Len(<<a>>) THEN <<a>>[j] ELSE g[j - Len(<<a>>)]
      BY <2>1
    <3>2. s[j] = IF j <= 1 THEN <<a>>[j] ELSE g[j - 1]
      BY <1>1, <3>1
    <3>3. j <= 1 => j = 1
      OBVIOUS
    <3> QED BY <1>1, <3>2, <3>3
  <2>2. Len(s) = n + 1 /\ s[1] = a
    <3>1. Len(s) = n + 1
      BY <1>1, <2>1
    <3>2. 1 \in 1..Len(s) /\ 1 <= Len(<<a>>)
      BY <1>1, <3>1
    <3>3. s[1] = <<a>>[1]
      BY <2>1, <3>2
    <3> QED BY <1>1, <3>1, <3>3
  <2>3. ASSUME NEW i \in 1..n PROVE s[i + 1] = g[i]
    <3>1. i + 1 \in 1..Len(s) /\ ~ (i + 1 <= 1) /\ i + 1 - 1 = i
      BY <2>2
    <3>2. s[i + 1] = IF i + 1 <= 1 THEN a ELSE g[i + 1 - 1]
      BY <2>a, <3>1
    <3> QED BY <3>1, <3>2
  <2> QED BY <2>1, <2>2, <2>3
<1>3. DOMAIN s = 1..(n + 1) /\ n + 1 \in Nat
  <2> HIDE DEF s, S
  <2> QED BY <1>2, LenProperties
<1> HIDE DEF s, S
<1>4. \/ LastSet(s) = Unset /\ \A i \in 1..(n + 1) : s[i] = Unset
      \/ \E k \in 1..(n + 1) : /\ LastSet(s) = s[k] /\ s[k] # Unset
                               /\ \A j \in 1..(n + 1) : j > k => s[j] = Unset
  BY <1>3, LastSetFacts
<1>5. ASSUME NEW i \in 1..n, g[i] # Unset
      PROVE  LastSet(s) # Unset /\ \E k \in 1..n : LastSet(s) = g[k]
  <2>0. i \in Nat /\ i + 1 \in 1..(n + 1)
    OBVIOUS
  <2>1. s[i + 1] # Unset
    BY <1>2, <1>5
  <2>2. PICK k \in 1..(n + 1) : /\ LastSet(s) = s[k] /\ s[k] # Unset
                                /\ \A j \in 1..(n + 1) : j > k => s[j] = Unset
    BY <1>4, <2>0, <2>1
  <2>3. k >= i + 1
    <3>1. ~ (i + 1 > k)
      BY <2>0, <2>1, <2>2
    <3>2. k \in Int /\ i + 1 \in Int
      BY <2>0
    <3> QED BY <3>1, <3>2
  <2>4. k - 1 \in 1..n /\ k - 1 + 1 = k
    BY <2>3
  <2>5. s[k] = g[k - 1]
    BY <1>2, <2>4
  <2> QED BY <2>2, <2>4, <2>5
<1>6. ASSUME \A i \in 1..n : g[i] = Unset PROVE LastSet(s) = a
  <2>1. ASSUME NEW k \in 1..(n + 1), s[k] # Unset PROVE k = 1
    <3>1. CASE k # 1
      <4>1. k - 1 \in 1..n /\ k - 1 + 1 = k
        BY <3>1
      <4>2. s[k] = g[k - 1]
        BY <1>2, <4>1
      <4> QED BY <1>6, <2>1, <4>1, <4>2
    <3> QED BY <3>1
  <2>2. 1 \in 1..(n + 1)
    OBVIOUS
  <2> QED BY <1>2, <1>4, <2>1, <2>2
<1> QED BY <1>5, <1>6 DEF s

-----------------------------------------------------------------------------
(* Options: pins *)

Slots == {"editor", "reviewer", "scout"}

LEMMA ModeSlots == ASSUME NEW workflow PROVE SlotsForMode(workflow) \subseteq Slots
BY DEF SlotsForMode, Slots

LEMMA FlagTuples ==
    ASSUME NEW slot \in Slots
    PROVE  \E n \in Nat : DOMAIN SlotFlags[slot] = 1..n
<1>1. CASE slot = "editor"
  <2>1. SlotFlags[slot] = <<"mc", "model", "solo", "worker", "coder">>
    BY <1>1 DEF SlotFlags
  <2> QED BY <2>1
<1>2. CASE slot = "reviewer"
  <2>1. SlotFlags[slot] = <<"ma", "reviewer", "supervisor">>
    BY <1>2 DEF SlotFlags
  <2> QED BY <2>1
<1>3. CASE slot = "scout"
  <2>1. SlotFlags[slot] = <<"scout">>
    BY <1>3 DEF SlotFlags
  <2> QED BY <2>1
<1> QED BY <1>1, <1>2, <1>3 DEF Slots

\* What the flags name for a slot.
Named(f, slot) == {f[SlotFlags[slot][i]] : i \in DOMAIN SlotFlags[slot]} \ {Unset}

\* The flags of a slot win over the profile.
LEMMA ExplicitFacts ==
    ASSUME NEW p, NEW f, NEW workflow, NEW slot \in Slots
    PROVE  /\ Named(f, slot) # {} => Explicit(p, f, workflow)[slot] \in Named(f, slot)
           /\ Named(f, slot) = {} => Explicit(p, f, workflow)[slot] = profileTargets(p, workflow)[slot]
<1>1. PICK n \in Nat : DOMAIN SlotFlags[slot] = 1..n
  BY FlagTuples
<1> DEFINE g == [i \in DOMAIN SlotFlags[slot] |-> f[SlotFlags[slot][i]]]
           a == profileTargets(p, workflow)[slot]
           named == Named(f, slot)
           e == Explicit(p, f, workflow)[slot]
<1>2. e = LastSet(<<a>> \o g)
  BY DEF Explicit, Slots
<1>3. DOMAIN g = 1..n /\ g = [i \in 1..n |-> g[i]]
  BY <1>1
<1>4. /\ \A i \in 1..n : g[i] # Unset => g[i] \in named
      /\ \A t \in named : t # Unset /\ \E i \in 1..n : g[i] = t
  BY <1>1 DEF Named
<1> HIDE DEF g, a, named, e
<1>5. /\ (\E i \in 1..n : g[i] # Unset) => e # Unset /\ \E i \in 1..n : e = g[i]
      /\ (\A i \in 1..n : g[i] = Unset) => e = a
  <2>1. LET last == LastSet(<<a>> \o g) IN
        /\ (\E i \in 1..n : g[i] # Unset) => last # Unset /\ \E i \in 1..n : last = g[i]
        /\ (\A i \in 1..n : g[i] = Unset) => last = a
    BY <1>1, <1>3, LastOfMore, Zenon
  <2> QED BY <1>2, <2>1, Zenon
<1>6. ASSUME named # {} PROVE e \in named
  BY <1>4, <1>5, <1>6
<1>7. ASSUME named = {} PROVE e = a
  BY <1>4, <1>5, <1>7
<1> QED BY <1>6, <1>7 DEF named, e, a

\* The router takes no slot that is pinned.
LEMMA PinsAreNotRouted ==
    ASSUME NEW f, NEW workflow, NEW explicit, NEW down,
           NEW slot \in SlotsForMode(workflow), Parses(explicit[slot])
    PROVE  slot \notin Routed(routeJob(f, workflow, explicit, down))
<1> DEFINE pinned == pinnedRoutingSlots(explicit, workflow)
           decision == routeJob(f, workflow, explicit, down)
<1>1. slot \in DOMAIN pinned
  BY DEF pinnedRoutingSlots
<1>2. CASE f["job"] = Unset
  <2>1. decision = <<>>
    BY <1>2 DEF routeJob
  <2>2. DOMAIN decision = {}
    BY <2>1
  <2> QED BY <2>2 DEF Routed
<1>3. CASE f["job"] # Unset
  <2> DEFINE job == Jobs[f["job"]]
             out == {f["exclude"]}
  <2>1. decision = Route(job, workflow, pinned, out, down)
    BY <1>3 DEF routeJob
  <2> HIDE DEF pinned, job, out
  <2>2. ASSUME NEW avoided
        PROVE  staff(job, workflow, slot, pinned, out, down, avoided).source = "operator"
    BY <1>1 DEF staff
  <2>3. Route(job, workflow, pinned, out, down)[slot].source = "operator"
    <3>1. CASE slot = "editor"
      BY <2>2, <3>1 DEF Route
    <3>2. CASE slot # "editor"
      BY <2>2, <3>2 DEF Route
    <3> QED BY <3>1, <3>2
  <2> QED BY <2>1, <2>3 DEF Routed
<1> QED BY <1>2, <1>3

\* What a slot takes that was named for it.
LEMMA NamedIsTaken ==
    ASSUME NEW f, NEW workflow, NEW explicit, NEW down,
           NEW slot \in SlotsForMode(workflow), Parses(explicit[slot])
    PROVE  applyRoutedTargets(routeJob(f, workflow, explicit, down), explicit, workflow)[slot]
             = explicit[slot]
<1> DEFINE decision == routeJob(f, workflow, explicit, down)
           conf == configuredTargetsForMode(cfg.defaults, workflow)
<1>1. slot \in Slots /\ slot \notin Routed(decision)
  BY ModeSlots, PinsAreNotRouted
<1>2. explicit[slot] # Unset
  BY EmptyAssumption
<1> HIDE DEF decision, conf
<1>3. LastSet(<<conf[slot], explicit[slot]>>) = explicit[slot]
  BY <1>2, LastOfTwo
<1> QED BY <1>1, <1>3 DEF applyRoutedTargets, Slots, conf, decision

\* A slot that was named but is not the router's takes what was named.
LEMMA UnroutedIsTaken ==
    ASSUME NEW decision, NEW explicit, NEW workflow, NEW slot \in Slots,
           slot \notin Routed(decision), explicit[slot] # Unset
    PROVE  applyRoutedTargets(decision, explicit, workflow)[slot] = explicit[slot]
<1> DEFINE conf == configuredTargetsForMode(cfg.defaults, workflow)
<1> HIDE DEF conf
<1>1. LastSet(<<conf[slot], explicit[slot]>>) = explicit[slot]
  BY LastOfTwo
<1> QED BY <1>1 DEF applyRoutedTargets, Slots, conf

\* What the resolution hands on.
LEMMA ResolvedFacts ==
    ASSUME ResolveOptions, stage' # "rejected"
    PROVE  LET f == layer["flags"]
               workflow == resolveMode(cfg.defaults, cfg.profile, f)
               explicit == Explicit(cfg.profile, f, workflow)
           IN  /\ stage = "loaded" /\ stage' = "resolved"
               /\ UNCHANGED <<layer, profiled, trusted, cfg>>
               /\ \E down : LET decision == routeJob(f, workflow, explicit, down) IN
                    /\ opts' = Assemble(f, workflow, explicit, decision)
                    /\ Staffed(decision)
BY DEF ResolveOptions

LEMMA ResolvedPins ==
    ASSUME ResolveOptions, stage' # "rejected"
    PROVE  ParsedPinsAreKept'
<1> DEFINE f == layer["flags"]
           workflow == resolveMode(cfg.defaults, cfg.profile, f)
           explicit == Explicit(cfg.profile, f, workflow)
<1>1. PICK down : opts' = Assemble(f, workflow, explicit, routeJob(f, workflow, explicit, down))
  BY ResolvedFacts
<1>2. UNCHANGED <<layer, cfg>>
  BY ResolvedFacts
<1> DEFINE decision == routeJob(f, workflow, explicit, down)
           target == applyRoutedTargets(decision, explicit, workflow)
<1>3. opts'.mode = workflow /\ opts'.target = target /\ opts'.routed = Routed(decision)
  BY <1>1 DEF Assemble
<1> HIDE DEF f, workflow, explicit, decision, target
<1> SUFFICES ASSUME NEW slot \in SlotsForMode(workflow), NamedFor(slot)' # {}
             PROVE  \/ opts'.target[slot] \in NamedFor(slot)'
                    \/ slot \in opts'.routed /\ \E t \in NamedFor(slot)' : ~ Parses(t)
  BY <1>3 DEF ParsedPinsAreKept
<1>4. slot \in Slots
  BY ModeSlots
<1> DEFINE named == Named(f, slot)
           profile == profileTargets(cfg.profile, workflow)[slot]
<1>5. FlagTargets(slot)' = named /\ ProfileTarget(slot)' = profile
  BY <1>2, <1>3 DEF FlagTargets, ProfileTarget, Named, f
<1>6. /\ named # {} => explicit[slot] \in named
      /\ named = {} => explicit[slot] = profile
  BY <1>4, ExplicitFacts DEF explicit
<1>7. Unset \notin named
  BY DEF Named
<1> HIDE DEF named, profile
<1>8. explicit[slot] \in NamedFor(slot)' /\ explicit[slot] # Unset
  BY <1>5, <1>6, <1>7 DEF NamedFor
<1>9. CASE Parses(explicit[slot])
  <2>1. target[slot] = explicit[slot]
    BY <1>9, NamedIsTaken DEF target, decision
  <2> QED BY <1>3, <1>8, <2>1
<1>10. CASE ~ Parses(explicit[slot]) /\ slot \in Routed(decision)
  BY <1>3, <1>8, <1>10
<1>11. CASE slot \notin Routed(decision)
  <2>1. target[slot] = explicit[slot]
    BY <1>4, <1>8, <1>11, UnroutedIsTaken DEF target
  <2> QED BY <1>3, <1>8, <2>1
<1> QED BY <1>9, <1>10, <1>11

-----------------------------------------------------------------------------
(* Options: what starting and losing roles changes *)

Whole(o) ==
    {"degraded", "test", "limit", "loss", "fallbacks", "byTarget", "adapter", "routed"}
    \subseteq DOMAIN o
\* What no replacement changes.
Decided(o) == <<o.test, o.limit, o.loss, o.fallbacks, o.byTarget, o.adapter, o.routed>>

\* A replacement is reported, and changes only who works.
LEMMA ReplaceFacts ==
    ASSUME NEW o, Whole(o), NEW slot, NEW t
    PROVE  /\ replace(o, slot, t).degraded /\ Whole(replace(o, slot, t))
           /\ Decided(replace(o, slot, t)) = Decided(o)
BY DEF replace, Whole, Decided

LEMMA SelectFacts ==
    ASSUME NEW o, Whole(o), NEW slot, NEW up
    PROVE  LET r == selectRunnableRoleAdapter(o, slot, up) IN
           Whole(r) /\ (r = o \/ r = NoOptions \/ (r.degraded /\ Decided(r) = Decided(o)))
<1>1. Whole(NoOptions)
  BY DEF Whole, NoOptions
<1> QED BY <1>1, ReplaceFacts DEF selectRunnableRoleAdapter

LEMMA StartFacts ==
    ASSUME start, Whole(opts)
    PROVE  /\ stage = "resolved" /\ UNCHANGED <<layer, profiled, trusted, cfg>> /\ Whole(opts')
           /\ \/ stage' = "lost" /\ opts' = opts
              \/ stage' = "running" /\ opts' = opts
              \/ stage' = "running" /\ opts'.degraded /\ Decided(opts') = Decided(opts)
<1>1. PICK up \in Runnable :
         LET edits == selectRunnableRoleAdapter(opts, "editor", up)
             team  == IF edits = NoOptions \/ opts.mode = "solo" THEN edits
                      ELSE selectRunnableRoleAdapter(edits, "reviewer", up)
         IN  IF team = NoOptions
             THEN stage' = "lost" /\ UNCHANGED opts
             ELSE stage' = "running" /\ opts' = team
  BY DEF start
<1> DEFINE edits == selectRunnableRoleAdapter(opts, "editor", up)
           both == selectRunnableRoleAdapter(edits, "reviewer", up)
           team == IF edits = NoOptions \/ opts.mode = "solo" THEN edits ELSE both
<1>2. /\ Whole(edits)
      /\ edits = opts \/ edits = NoOptions \/ (edits.degraded /\ Decided(edits) = Decided(opts))
  BY SelectFacts
<1>3. /\ Whole(both)
      /\ both = edits \/ both = NoOptions \/ (both.degraded /\ Decided(both) = Decided(edits))
  <2> HIDE DEF edits
  <2> QED BY <1>2, SelectFacts
<1>4. \/ team = NoOptions /\ stage' = "lost" /\ opts' = opts
      \/ team # NoOptions /\ stage' = "running" /\ opts' = team
  BY <1>1
<1> HIDE DEF edits, both
<1>5. /\ Whole(team)
      /\ team = opts \/ team = NoOptions \/ (team.degraded /\ Decided(team) = Decided(opts))
  BY <1>2, <1>3
<1> HIDE DEF team
<1> QED BY <1>4, <1>5 DEF start

LEMMA LossFacts ==
    ASSUME reviewerLost \/ editorLost, Whole(opts)
    PROVE  /\ stage = "running" /\ UNCHANGED <<layer, profiled, trusted, cfg>> /\ Whole(opts')
           /\ \/ stage' = "lost" /\ opts' = opts
              \/ stage' = stage /\ opts'.degraded /\ Decided(opts') = Decided(opts)
<1>0. ASSUME NEW slot, NEW t
      PROVE  /\ replace(opts, slot, t).degraded /\ Whole(replace(opts, slot, t))
             /\ Decided(replace(opts, slot, t)) = Decided(opts)
  BY ReplaceFacts
<1>1. CASE reviewerLost
  <2>1. \/ stage' = "lost" /\ UNCHANGED opts
        \/ UNCHANGED stage /\ \E t : opts' = replace(opts, "reviewer", t)
    BY <1>1 DEF reviewerLost
  <2>2. stage = "running" /\ UNCHANGED <<layer, profiled, trusted, cfg>>
    BY <1>1 DEF reviewerLost
  <2>3. CASE stage' = "lost" /\ UNCHANGED opts
    <3>1. Whole(opts')
      BY <2>3
    <3> QED BY <2>2, <2>3, <3>1
  <2>4. CASE UNCHANGED stage /\ \E t : opts' = replace(opts, "reviewer", t)
    BY <1>0, <2>2, <2>4
  <2> QED BY <2>1, <2>3, <2>4
<1>2. CASE editorLost
  <2>1. \/ stage' = "lost" /\ UNCHANGED opts
        \/ UNCHANGED stage /\ \E t : opts' = replace(opts, "editor", t)
    BY <1>2 DEF editorLost
  <2>2. stage = "running" /\ UNCHANGED <<layer, profiled, trusted, cfg>>
    BY <1>2 DEF editorLost
  <2>3. CASE stage' = "lost" /\ UNCHANGED opts
    <3>1. Whole(opts')
      BY <2>3
    <3> QED BY <2>2, <2>3, <3>1
  <2>4. CASE UNCHANGED stage /\ \E t : opts' = replace(opts, "editor", t)
    BY <1>0, <2>2, <2>4
  <2> QED BY <2>1, <2>3, <2>4
<1> QED BY <1>1, <1>2

LEMMA WholeKept == Whole(opts) /\ [OptionsNext]_optionsVars => Whole(opts')
<1> SUFFICES ASSUME Whole(opts), [OptionsNext]_optionsVars PROVE Whole(opts')
  OBVIOUS
<1>1. CASE writeSetting \/ LoadConfig
  <2>1. UNCHANGED opts
    BY <1>1 DEF writeSetting, LoadConfig
  <2> QED BY <2>1
<1>2. CASE ResolveOptions
  <2>1. \/ UNCHANGED opts
        \/ \E f, m, explicit, decision : opts' = Assemble(f, m, explicit, decision)
    BY <1>2 DEF ResolveOptions
  <2>2. \A f, m, explicit, decision : Whole(Assemble(f, m, explicit, decision))
    BY DEF Assemble, Whole
  <2> QED BY <2>1, <2>2
<1>3. CASE start
  BY <1>3, StartFacts
<1>4. CASE reviewerLost \/ editorLost
  BY <1>4, LossFacts
<1>5. CASE UNCHANGED optionsVars
  BY <1>5 DEF optionsVars
<1> QED BY <1>1, <1>2, <1>3, <1>4, <1>5 DEF OptionsNext

LEMMA WholeInitially == OptionsInit => Whole(opts)
BY DEF OptionsInit, NoOptions, Whole

\* A step after which the run is resolved or running is its resolution, leaves
\* its options as they were, or reports a replacement.
LEMMA SettledStep ==
    ASSUME Whole(opts), [OptionsNext]_optionsVars, Settled'
    PROVE  \/ ResolveOptions /\ stage' # "rejected"
           \/ Settled /\ UNCHANGED <<layer, trusted, cfg, opts>>
           \/ /\ Settled /\ UNCHANGED <<layer, trusted, cfg>>
              /\ opts'.degraded /\ Decided(opts') = Decided(opts)
<1>1. CASE writeSetting
  BY <1>1 DEF writeSetting, Settled
<1>2. CASE LoadConfig
  BY <1>2 DEF LoadConfig, Settled
<1>3. CASE ResolveOptions
  BY <1>3 DEF Settled
<1>4. CASE start
  BY <1>4, StartFacts DEF Settled
<1>5. CASE reviewerLost \/ editorLost
  BY <1>5, LossFacts DEF Settled
<1>6. CASE UNCHANGED optionsVars
  BY <1>6 DEF optionsVars, Settled
<1> QED BY <1>1, <1>2, <1>3, <1>4, <1>5, <1>6 DEF OptionsNext

LEMMA PinsStep ==
    Whole(opts) /\ ParsedPinsAreKept /\ [OptionsNext]_optionsVars => ParsedPinsAreKept'
<1> SUFFICES ASSUME Whole(opts), ParsedPinsAreKept, [OptionsNext]_optionsVars
             PROVE  ParsedPinsAreKept'
  OBVIOUS
<1>1. CASE ~ Settled' \/ opts'.degraded
  BY <1>1 DEF ParsedPinsAreKept
<1>2. CASE Settled' /\ ~ opts'.degraded
  <2>1. CASE ResolveOptions /\ stage' # "rejected"
    BY <2>1, ResolvedPins
  <2>2. CASE Settled /\ UNCHANGED <<layer, trusted, cfg, opts>>
    <3>1. \A slot : NamedFor(slot)' = NamedFor(slot)
      BY <2>2 DEF NamedFor, FlagTargets, ProfileTarget
    <3>2. opts' = opts /\ ~ opts.degraded
      BY <1>2, <2>2
    <3> QED BY <2>2, <3>1, <3>2 DEF ParsedPinsAreKept
  <2> QED BY <1>2, <2>1, <2>2, SettledStep
<1> QED BY <1>1, <1>2

\* Operators' choices win, in every behaviour, whatever is written where; one
\* that does not parse is not a pin, and the router alone may take its slot.
THEOREM PinsAreKeptAlways == OptionsSpec => []ParsedPinsAreKept
<1>1. OptionsInit => Whole(opts) /\ ParsedPinsAreKept
  BY WholeInitially DEF OptionsInit, ParsedPinsAreKept, Settled
<1>2. Whole(opts) /\ ParsedPinsAreKept /\ [OptionsNext]_optionsVars
        => (Whole(opts) /\ ParsedPinsAreKept)'
  BY WholeKept, PinsStep
<1> QED BY <1>1, <1>2, PTL DEF OptionsSpec

-----------------------------------------------------------------------------
(* Options: what a repository decides *)

\* The values a key has outside the repository's file.
Own(key) ==
    {layer[s][key] : s \in Tables \ {"repo", "repoProfile"}} \cup {BuiltIn[key], Unset}
Guarded == Authority \cup AdapterAuthority

LEMMA GuardedFacts ==
    /\ Authority \subseteq Keys /\ Authority \subseteq ProfileKeys /\ AdapterAuthority \subseteq Keys
    /\ AdapterAuthority \subseteq AdapterKeys
    /\ \A k \in Guarded : k \in Keys /\ k # "mode" /\ k # "relay_coder"
BY DEF Guarded, Authority, AdapterAuthority, AdapterKeys, Keys, ProfileKeys

\* One layer over another: x is what the key has where it has b below and s above.
Over(x, b, s) ==
    /\ x = b \/ x = s
    /\ s = Unset => x = b
    /\ b # Unset => x # Unset

LEMMA OverTwice ==
    ASSUME NEW x, NEW y, NEW b, NEW s, Over(y, b, s), Over(x, y, s)
    PROVE  Over(x, b, s)
BY DEF Over

LEMMA OverlayFacts ==
    ASSUME NEW base, NEW src, NEW keys, NEW k \in Keys
    PROVE  Over(overlay(base, src, keys)[k], base[k], src[k])
BY DEF overlay, Over

LEMMA LayersFacts ==
    ASSUME NEW base, NEW src, NEW k \in Guarded
    PROVE  Over(mergeConfig(base, src)[k], base[k], src[k])
<1>0. k \in Keys /\ k # "mode" /\ k # "relay_coder"
  BY GuardedFacts
<1> DEFINE d == mergeDefaults(base, src)
<1>1. d[k] = overlay(base, src, ProfileKeys)[k]
  BY <1>0 DEF mergeDefaults, overlay
<1>2. Over(d[k], base[k], src[k])
  BY <1>0, <1>1, OverlayFacts
<1> HIDE DEF d
<1>3. Over(overlay(d, src, AdapterKeys)[k], d[k], src[k])
  BY <1>0, OverlayFacts
<1>4. mergeConfig(base, src) = overlay(d, src, AdapterKeys)
  BY DEF mergeConfig, mergeAdapters, d
<1> QED BY <1>2, <1>3, <1>4, OverTwice

LEMMA MergeEnvFacts ==
    ASSUME NEW base, NEW env, NEW k \in Guarded
    PROVE  Over(mergeEnvConfig(base, env)[k], base[k], env[k])
<1>0. k \in Keys /\ k # "mode" /\ k # "relay_coder"
  BY GuardedFacts
<1> DEFINE r == mergeEnvRoles(base, env)
           s == mergeEnvSettings(r, env)
<1>1. r[k] = overlay(base, env, RoleKeys \cup {"mode"})[k]
  BY <1>0 DEF mergeEnvRoles, overlay
<1>2. Over(r[k], base[k], env[k])
  BY <1>0, <1>1, OverlayFacts
<1> HIDE DEF r
<1>3. Over(s[k], r[k], env[k])
  BY <1>0, OverlayFacts DEF mergeEnvSettings
<1> HIDE DEF s
<1>4. Over(mergeEnvAdapters(s, env)[k], s[k], env[k])
  BY <1>0, OverlayFacts DEF mergeEnvAdapters
<1>5. mergeEnvConfig(base, env) = mergeEnvAdapters(s, env)
  BY DEF mergeEnvConfig, r, s
<1> QED BY <1>2, <1>3, <1>4, <1>5, OverTwice

\* The defaults of the operator alone, the repository's file having no say.
LEMMA LoadedDefaults ==
    ASSUME NEW k \in Guarded, NEW theirs
    PROVE  LET user == mergeConfig(BuiltIn, layer["user"])
               defaults == mergeEnvConfig(mergeConfig(user, theirs), envLookup)
           IN  /\ theirs[k] = Unset => defaults[k] \in Own(k)
               /\ BuiltIn[k] # Unset => defaults[k] # Unset
<1>0. k \in Keys
  BY GuardedFacts
<1> DEFINE user == mergeConfig(BuiltIn, layer["user"])
           both == mergeConfig(user, theirs)
           defaults == mergeEnvConfig(both, envLookup)
<1>1. Over(user[k], BuiltIn[k], layer["user"][k])
  BY LayersFacts
<1> HIDE DEF user
<1>2. Over(both[k], user[k], theirs[k])
  BY LayersFacts
<1> HIDE DEF both
<1>3. Over(defaults[k], both[k], envLookup[k])
  BY MergeEnvFacts
<1> HIDE DEF defaults
<1>4. Over(envLookup[k], layer["dotenv"][k], layer["env"][k])
  BY <1>0, OverlayFacts DEF envLookup
<1>5. {layer["user"][k], layer["dotenv"][k], layer["env"][k], BuiltIn[k], Unset} \subseteq Own(k)
  BY DEF Own, Tables
<1>6. theirs[k] = Unset => defaults[k] \in Own(k)
  BY <1>1, <1>2, <1>3, <1>4, <1>5 DEF Over
<1>7. BuiltIn[k] # Unset => defaults[k] # Unset
  BY <1>1, <1>2, <1>3 DEF Over
<1> QED BY <1>6, <1>7 DEF defaults, both, user

\* What is loaded when the repository is not trusted, and the loss of a scout
\* being decided whoever wrote the files.
OwnConfig ==
    /\ ~ trusted => /\ \A k \in Authority : cfg.defaults[k] \in Own(k) /\ cfg.profile[k] \in Own(k)
                    /\ \A k \in AdapterAuthority : cfg.defaults[k] \in Own(k)
    /\ cfg.defaults["loss.scout"] # Unset

LEMMA LoadOwn ==
    ASSUME LoadConfig, stage' = "loaded"
    PROVE  OwnConfig'
<1> DEFINE theirs == IF trusted THEN layer["repo"] ELSE sanitizeAdapters(sanitizeDefaults(layer["repo"]))
           repoP == IF trusted THEN layer["repoProfile"] ELSE sanitizeProfile(layer["repoProfile"])
           user == mergeConfig(BuiltIn, layer["user"])
           defaults == mergeEnvConfig(mergeConfig(user, theirs), envLookup)
           both == mergeProfiles(mergeProfiles(Blank(Keys), layer["userProfile"]), repoP)
           profile == IF profiled THEN both ELSE Blank(Keys)
<1>1. cfg'.defaults = defaults /\ cfg'.profile = profile /\ UNCHANGED <<layer, trusted>>
  BY DEF LoadConfig
<1>2. ASSUME ~ trusted, NEW k \in Guarded PROVE theirs[k] = Unset
  BY <1>2, GuardedFacts DEF sanitizeAdapters, sanitizeDefaults, Guarded
<1>3. ASSUME ~ trusted, NEW k \in Authority PROVE repoP[k] = Unset
  BY <1>3, GuardedFacts DEF sanitizeProfile
<1> HIDE DEF theirs, repoP
<1>4. \A k \in Guarded : /\ theirs[k] = Unset => defaults[k] \in Own(k)
                         /\ BuiltIn[k] # Unset => defaults[k] # Unset
  BY LoadedDefaults
<1> HIDE DEF defaults
<1>5. ASSUME ~ trusted, NEW k \in Authority PROVE profile[k] \in Own(k)
  <2>0. k \in Keys /\ Blank(Keys)[k] = Unset
    BY GuardedFacts DEF Blank
  <2> DEFINE users == mergeProfiles(Blank(Keys), layer["userProfile"])
  <2>1. Over(users[k], Blank(Keys)[k], layer["userProfile"][k])
    BY <2>0, OverlayFacts DEF mergeProfiles
  <2> HIDE DEF users
  <2>2. Over(mergeProfiles(users, repoP)[k], users[k], repoP[k])
    BY <2>0, OverlayFacts DEF mergeProfiles
  <2>3. {layer["userProfile"][k], Unset} \subseteq Own(k)
    BY DEF Own, Tables
  <2>4. both[k] \in Own(k)
    BY <1>3, <1>5, <2>0, <2>1, <2>2, <2>3 DEF Over, users
  <2> HIDE DEF both
  <2> QED BY <2>0, <2>3, <2>4
<1> HIDE DEF profile
<1>6. \A k : Own(k)' = Own(k)
  BY <1>1 DEF Own
<1>7. "loss.scout" \in Guarded
  BY DEF Guarded, Authority
<1>8. cfg'.defaults["loss.scout"] # Unset
  BY <1>1, <1>4, <1>7, BuiltInAssumption
<1>9. ASSUME ~ trusted'
      PROVE  /\ \A k \in Authority : cfg'.defaults[k] \in Own(k)' /\ cfg'.profile[k] \in Own(k)'
             /\ \A k \in AdapterAuthority : cfg'.defaults[k] \in Own(k)'
  <2>1. ~ trusted
    BY <1>1, <1>9
  <2>2. \A k \in Guarded : defaults[k] \in Own(k)
    BY <1>2, <1>4, <2>1
  <2>3. \A k \in Authority : profile[k] \in Own(k)
    BY <1>5, <2>1
  <2> QED BY <1>1, <1>6, <2>2, <2>3 DEF Guarded
<1> QED BY <1>8, <1>9 DEF OwnConfig

LEMMA LayeredFacts ==
    ASSUME OwnConfig, ~ trusted, NEW k \in Authority
    PROVE  Layered(k) \in Own(k)
<1>1. Layered(k) = IF cfg.profile[k] # Unset THEN cfg.profile[k] ELSE cfg.defaults[k]
  BY LastOfTwo DEF Layered
<1> QED BY <1>1 DEF OwnConfig

-----------------------------------------------------------------------------
(* Options: lists of replacements *)

\* One step of the normalization, and the function that takes them in turn.
AddTarget(out, t, primary) ==
    IF \/ t = primary \/ ~Parses(t) \/ Len(out) = 5
       \/ \E i \in DOMAIN out : out[i] = t
    THEN out ELSE Append(out, t)
Added(raw, primary, g) ==
    g = [s \in SUBSET (DOMAIN raw) |->
           IF s = {} THEN <<>>
           ELSE AddTarget(g[s \ {Max(s)}], raw[Max(s)], primary)]

LEMMA NormalizeIs ==
    ASSUME NEW raw, NEW primary, \E g : Added(raw, primary, g)
    PROVE  \E g : Added(raw, primary, g)
                  /\ normalizeFallbackTargets(raw, primary) = g[DOMAIN raw]
<1> DEFINE g == CHOOSE h : Added(raw, primary, h)
<1>1. Added(raw, primary, g)
  BY Zenon
<1>2. normalizeFallbackTargets(raw, primary) = g[DOMAIN raw]
  BY Zenon DEF normalizeFallbackTargets, FoldLeft, MapThenFoldSet, Added, AddTarget
<1> QED BY <1>1, <1>2

\* A list of at most one name keeps it or drops it.
LEMMA NormalizeFacts ==
    ASSUME NEW v, NEW primary
    PROVE  \/ normalizeFallbackTargets(List(v), primary) = <<>>
           \/ normalizeFallbackTargets(List(v), primary) = <<v>>
<1> DEFINE raw == List(v)
<1>1. CASE v = Unset
  <2>1. DOMAIN raw = {}
    BY <1>1 DEF List
  <2> HIDE DEF raw
  <2> DEFINE h == [s \in SUBSET (DOMAIN raw) |-> <<>>]
  <2>2. Added(raw, primary, h)
    BY <2>1 DEF Added
  <2>3. PICK g : Added(raw, primary, g) /\ normalizeFallbackTargets(raw, primary) = g[DOMAIN raw]
    BY <2>2, NormalizeIs
  <2>4. g[{}] = <<>>
    <3>1. \A s \in SUBSET (DOMAIN raw) :
             g[s] = IF s = {} THEN <<>> ELSE AddTarget(g[s \ {Max(s)}], raw[Max(s)], primary)
      BY <2>3, Zenon DEF Added
    <3> QED BY <3>1
  <2> QED BY <2>1, <2>3, <2>4 DEF raw
<1>2. CASE v # Unset
  <2>1. DOMAIN raw = {1} /\ raw[1] = v
    BY <1>2 DEF List
  <2> HIDE DEF raw
  <2>2. Max({1}) = 1
    <3>1. \E x \in {1} : \A y \in {1} : x >= y
      OBVIOUS
    <3>2. Max({1}) \in {1}
      BY <3>1 DEF Max
    <3> QED BY <3>2
  <2> DEFINE h == [s \in SUBSET (DOMAIN raw) |-> IF s = {} THEN <<>> ELSE AddTarget(<<>>, v, primary)]
  <2>3. Added(raw, primary, h)
    <3>1. \A s \in SUBSET (DOMAIN raw) : s = {} \/ s = {1}
      BY <2>1
    <3>2. h[{}] = <<>>
      OBVIOUS
    <3>3. ASSUME NEW s \in SUBSET (DOMAIN raw), s # {}
          PROVE  AddTarget(h[s \ {Max(s)}], raw[Max(s)], primary) = AddTarget(<<>>, v, primary)
      <4>1. s = {1} /\ s \ {Max(s)} = {} /\ Max(s) = 1
        BY <2>2, <3>1, <3>3
      <4> HIDE DEF h
      <4> QED BY <2>1, <3>2, <4>1
    <3>4. h = [s \in SUBSET (DOMAIN raw) |->
                 IF s = {} THEN <<>> ELSE AddTarget(h[s \ {Max(s)}], raw[Max(s)], primary)]
      BY <3>3
    <3> HIDE DEF h
    <3> QED BY <3>4, Zenon DEF Added
  <2>4. PICK g : Added(raw, primary, g) /\ normalizeFallbackTargets(raw, primary) = g[DOMAIN raw]
    BY <2>3, NormalizeIs
  <2>5. \A s \in SUBSET (DOMAIN raw) :
           g[s] = IF s = {} THEN <<>> ELSE AddTarget(g[s \ {Max(s)}], raw[Max(s)], primary)
    BY <2>4, Zenon DEF Added
  <2>6. g[{}] = <<>> /\ {1} \ {Max({1})} = {}
    BY <2>2, <2>5
  <2>7. g[{1}] = AddTarget(<<>>, v, primary)
    <3>1. {1} \in SUBSET (DOMAIN raw) /\ {1} # {}
      BY <2>1
    <3>2. g[{1}] = AddTarget(g[{1} \ {Max({1})}], raw[Max({1})], primary)
      BY <2>5, <3>1
    <3> QED BY <2>1, <2>2, <2>6, <3>2
  <2>8. AddTarget(<<>>, v, primary) = <<>> \/ AddTarget(<<>>, v, primary) = <<v>>
    BY DEF AddTarget
  <2> QED BY <2>1, <2>4, <2>7, <2>8 DEF raw
<1> QED BY <1>1, <1>2

-----------------------------------------------------------------------------
(* Options: authority *)

\* The lists of a slot are the configured ones where the router had no say.
LEMMA UnroutedFallbacks ==
    ASSUME NEW f, NEW workflow, NEW explicit, NEW down,
           Routed(routeJob(f, workflow, explicit, down)) = {},
           NEW slot \in DOMAIN routeJob(f, workflow, explicit, down)
    PROVE  routeJob(f, workflow, explicit, down)[slot].fallbacks = <<>>
<1> DEFINE decision == routeJob(f, workflow, explicit, down)
<1>1. decision[slot].source # "router"
  BY DEF Routed
<1>2. CASE f["job"] = Unset
  BY <1>2 DEF routeJob
<1>3. CASE f["job"] # Unset
  <2> DEFINE job == Jobs[f["job"]]
             out == {f["exclude"]}
             pinned == pinnedRoutingSlots(explicit, workflow)
  <2>1. decision = Route(job, workflow, pinned, out, down)
    BY <1>3 DEF routeJob
  <2>2. slot \in SlotsForMode(workflow)
    BY <2>1 DEF Route
  <2> HIDE DEF pinned, job, out, decision
  <2>3. ASSUME NEW avoided,
               staff(job, workflow, slot, pinned, out, down, avoided).source # "router"
        PROVE  staff(job, workflow, slot, pinned, out, down, avoided).fallbacks = <<>>
    BY <2>3 DEF staff, NoPick
  <2>4. \E avoided : decision[slot] = staff(job, workflow, slot, pinned, out, down, avoided)
    <3>1. CASE slot = "editor"
      BY <2>1, <2>2, <3>1 DEF Route
    <3>2. CASE slot # "editor"
      BY <2>1, <2>2, <3>2 DEF Route
    <3> QED BY <3>1, <3>2
  <2>5. decision[slot].fallbacks = <<>>
    BY <1>1, <2>3, <2>4 DEF decision
  <2> QED BY <2>5 DEF decision
<1> QED BY <1>2, <1>3

LEMMA ListFacts ==
    ASSUME NEW v
    PROVE  List(v) \o <<>> = List(v)
<1>1. CASE v = Unset
  BY <1>1 DEF List
<1>2. CASE v # Unset
  <2>1. List(v) = <<v>>
    BY <1>2 DEF List
  <2>2. <<v>> \o <<>> = <<v>>
    BY SMTT(30)
  <2> QED BY <2>1, <2>2
<1> QED BY <1>1, <1>2

\* A list of replacements of a run that the router did not touch holds at most
\* the one that was configured.
LEMMA ResolvedFallbacks ==
    ASSUME NEW f, NEW workflow, NEW explicit, NEW down,
           Routed(routeJob(f, workflow, explicit, down)) = {},
           NEW r \in {"worker", "reviewer", "supervisor"}
    PROVE  LET o == Assemble(f, workflow, explicit, routeJob(f, workflow, explicit, down)) IN
           \/ o.fallbacks[r] = <<>>
           \/ o.fallbacks[r] = <<Layered(FallbackKey[r])>>
<1> DEFINE decision == routeJob(f, workflow, explicit, down)
           o == Assemble(f, workflow, explicit, decision)
           conf == [worker     |-> List(Layered("fallback.worker")),
                    reviewer   |-> List(Layered("fallback.reviewer")),
                    supervisor |-> List(Layered("fallback.supervisor"))]
           merged == mergeRoutingFallbacks(conf, decision, workflow)
           target == applyRoutedTargets(decision, explicit, workflow)
<1>1. \A slot : (IF slot \in DOMAIN decision THEN decision[slot].fallbacks ELSE <<>>) = <<>>
  BY UnroutedFallbacks
<1>2. conf[r] = List(Layered(FallbackKey[r])) /\ DOMAIN conf = {"worker", "reviewer", "supervisor"}
  BY DEF FallbackKey
<1>3. conf[r] \o <<>> = conf[r]
  <2> HIDE DEF conf
  <2> QED BY <1>2, ListFacts
<1>4. o.fallbacks = [k \in DOMAIN merged |->
          normalizeFallbackTargets(merged[k], IF k = "worker" THEN target.editor ELSE target.reviewer)]
  BY DEF Assemble
<1> HIDE DEF conf, decision, target, o
<1>5. merged[r] = conf[r] /\ DOMAIN merged = {"worker", "reviewer", "supervisor"}
  BY <1>1, <1>2, <1>3 DEF mergeRoutingFallbacks
<1> HIDE DEF merged
<1>6. \E primary : o.fallbacks[r] = normalizeFallbackTargets(List(Layered(FallbackKey[r])), primary)
  BY <1>2, <1>4, <1>5
<1>7. o.fallbacks[r] = <<>> \/ o.fallbacks[r] = <<Layered(FallbackKey[r])>>
  BY <1>6, NormalizeFacts
<1> QED BY <1>7 DEF o, decision

LEMMA RepoOnlyFacts == \A k : \A v \in Own(k) : v \notin RepoOnly(k)
BY DEF Own, RepoOnly

LEMMA ResolvedAuthority ==
    ASSUME OwnConfig, ResolveOptions, stage' # "rejected"
    PROVE  AuthorityIsTrusted'
<1> DEFINE f == layer["flags"]
           workflow == resolveMode(cfg.defaults, cfg.profile, f)
           explicit == Explicit(cfg.profile, f, workflow)
<1>1. PICK down : opts' = Assemble(f, workflow, explicit, routeJob(f, workflow, explicit, down))
  BY ResolvedFacts
<1>2. layer' = layer /\ trusted' = trusted
  BY ResolvedFacts
<1>3. \A k : RepoOnly(k)' = RepoOnly(k)
  BY <1>2 DEF RepoOnly
<1> HIDE DEF f, workflow, explicit
<1> DEFINE decision == routeJob(f, workflow, explicit, down)
<1>4. /\ opts'.test = LastSet(<<Layered("test"), f["test"]>>)
      /\ opts'.limit = Layered("limit")
      /\ opts'.loss = [worker |-> Layered("loss.worker"), reviewer |-> lossOf("loss.reviewer"),
                       supervisor |-> lossOf("loss.supervisor"), scout |-> scoutLoss(f)]
      /\ opts'.adapter = [k \in AdapterKeys |-> cfg.defaults[k]]
      /\ opts'.byTarget = normalizeFallbackTargets(List(Layered("by_target")), Keyed)
      /\ opts'.routed = Routed(decision)
      /\ DOMAIN opts'.fallbacks = {"worker", "reviewer", "supervisor"}
  BY <1>1 DEF Assemble, mergeRoutingFallbacks
<1> SUFFICES ASSUME ~ trusted
             PROVE  /\ opts'.test \notin RepoOnly("test") \/ f["test"] = opts'.test
                    /\ \A r \in DOMAIN opts'.loss :
                          opts'.loss[r] \notin RepoOnly(LossKey[r]) \/ opts'.loss[r] = "block"
                    /\ \A r \in DOMAIN opts'.fallbacks : \A i \in DOMAIN opts'.fallbacks[r] :
                          opts'.fallbacks[r][i] \in RepoOnly(FallbackKey[r]) => opts'.routed # {}
                    /\ opts'.limit \notin RepoOnly("limit")
                    /\ \A k \in AdapterAuthority : opts'.adapter[k] \notin RepoOnly(k)
                    /\ \A i \in DOMAIN opts'.byTarget : opts'.byTarget[i] \notin RepoOnly("by_target")
  BY <1>2, <1>3 DEF AuthorityIsTrusted, f
<1>5. \A k \in Authority : Layered(k) \notin RepoOnly(k)
  BY LayeredFacts, RepoOnlyFacts
<1>6. opts'.test \notin RepoOnly("test") \/ f["test"] = opts'.test
  <2>1. opts'.test = IF f["test"] # Unset THEN f["test"] ELSE Layered("test")
    BY <1>4, LastOfTwo
  <2>2. "test" \in Authority
    BY DEF Authority
  <2> QED BY <1>5, <2>1, <2>2
<1>7. \A r \in DOMAIN opts'.loss :
         opts'.loss[r] \notin RepoOnly(LossKey[r]) \/ opts'.loss[r] = "block"
  <2>1. ASSUME NEW k \in {"loss.reviewer", "loss.supervisor"}
        PROVE  lossOf(k) = "block" \/ lossOf(k) = Layered(k)
    BY LastOfTwo DEF lossOf
  <2>2. scoutLoss(f) = "block" \/ scoutLoss(f) = Layered("loss.scout")
    <3> DEFINE legacy == IF Layered("scout_failure_policy") = "fail" THEN "block" ELSE "degrade"
               strict == IF f["strict-scout"] # Unset THEN "block" ELSE Unset
    <3>1. Layered("loss.scout") # Unset
      BY LastOfTwo DEF Layered, OwnConfig
    <3>2. scoutLoss(f) = LastSet(<<legacy, Layered("loss.scout"), strict>>)
      BY DEF scoutLoss
    <3>3. strict # Unset => strict = "block"
      OBVIOUS
    <3> HIDE DEF legacy, strict
    <3>4. scoutLoss(f) = IF strict # Unset THEN strict
                         ELSE IF Layered("loss.scout") # Unset THEN Layered("loss.scout") ELSE legacy
      BY <3>2, LastOfThree
    <3> QED BY <3>1, <3>3, <3>4
  <2>3. {"loss.worker", "loss.reviewer", "loss.supervisor", "loss.scout"} \subseteq Authority
    BY DEF Authority
  <2>4. /\ opts'.loss["worker"] = Layered("loss.worker")
        /\ opts'.loss["reviewer"] = lossOf("loss.reviewer")
        /\ opts'.loss["supervisor"] = lossOf("loss.supervisor")
        /\ opts'.loss["scout"] = scoutLoss(f)
        /\ DOMAIN opts'.loss = {"worker", "reviewer", "supervisor", "scout"}
    BY <1>4
  <2>5. /\ LossKey["worker"] = "loss.worker" /\ LossKey["reviewer"] = "loss.reviewer"
        /\ LossKey["supervisor"] = "loss.supervisor" /\ LossKey["scout"] = "loss.scout"
    BY DEF LossKey
  <2>6. opts'.loss["worker"] \notin RepoOnly(LossKey["worker"])
    BY <1>5, <2>3, <2>4, <2>5
  <2>7. opts'.loss["reviewer"] \notin RepoOnly(LossKey["reviewer"]) \/ opts'.loss["reviewer"] = "block"
    BY <1>5, <2>1, <2>3, <2>4, <2>5
  <2>8. \/ opts'.loss["supervisor"] \notin RepoOnly(LossKey["supervisor"])
        \/ opts'.loss["supervisor"] = "block"
    BY <1>5, <2>1, <2>3, <2>4, <2>5
  <2>9. opts'.loss["scout"] \notin RepoOnly(LossKey["scout"]) \/ opts'.loss["scout"] = "block"
    BY <1>5, <2>2, <2>3, <2>4, <2>5
  <2> QED BY <2>4, <2>6, <2>7, <2>8, <2>9
<1>8. ASSUME NEW r \in DOMAIN opts'.fallbacks, NEW i \in DOMAIN opts'.fallbacks[r],
             opts'.fallbacks[r][i] \in RepoOnly(FallbackKey[r]), opts'.routed = {}
      PROVE  FALSE
  <2>1. r \in {"worker", "reviewer", "supervisor"} /\ Routed(decision) = {}
    BY <1>4, <1>8
  <2>2. opts'.fallbacks[r] = <<>> \/ opts'.fallbacks[r] = <<Layered(FallbackKey[r])>>
    BY <1>1, <2>1, ResolvedFallbacks
  <2>3. opts'.fallbacks[r][i] = Layered(FallbackKey[r])
    BY <1>8, <2>2
  <2>4. FallbackKey[r] \in Authority
    BY <2>1 DEF FallbackKey, Authority
  <2> QED BY <1>5, <1>8, <2>3, <2>4
<1>9. opts'.limit \notin RepoOnly("limit")
  <2>1. "limit" \in Authority
    BY DEF Authority
  <2> QED BY <1>4, <1>5, <2>1
<1>10. \A k \in AdapterAuthority : opts'.adapter[k] \notin RepoOnly(k)
  <2>1. \A k \in AdapterAuthority : opts'.adapter[k] = cfg.defaults[k]
    BY <1>4, GuardedFacts
  <2> QED BY <2>1, RepoOnlyFacts DEF OwnConfig
<1>11. \A i \in DOMAIN opts'.byTarget : opts'.byTarget[i] \notin RepoOnly("by_target")
  <2>1. opts'.byTarget = <<>> \/ opts'.byTarget = <<Layered("by_target")>>
    BY <1>4, NormalizeFacts
  <2>2. "by_target" \in Authority
    BY DEF Authority
  <2>3. \A i \in DOMAIN opts'.byTarget : opts'.byTarget[i] = Layered("by_target")
    BY <2>1
  <2> QED BY <1>5, <2>2, <2>3
<1> QED BY <1>6, <1>7, <1>8, <1>9, <1>10, <1>11

LoadedOwn == stage \in {"loaded", "resolved", "running"} => OwnConfig

LEMMA LoadedOwnStep == Whole(opts) /\ LoadedOwn /\ [OptionsNext]_optionsVars => LoadedOwn'
<1> SUFFICES ASSUME Whole(opts), LoadedOwn, [OptionsNext]_optionsVars,
                    stage' \in {"loaded", "resolved", "running"}
             PROVE  OwnConfig'
  BY DEF LoadedOwn
<1>0. ASSUME UNCHANGED <<layer, trusted, cfg>>, stage \in {"loaded", "resolved", "running"}
      PROVE  OwnConfig'
  BY <1>0 DEF LoadedOwn, OwnConfig, Own
<1>1. CASE writeSetting
  BY <1>1 DEF writeSetting
<1>2. CASE LoadConfig
  <2>1. stage' = "loaded"
    BY <1>2 DEF LoadConfig
  <2> QED BY <1>2, <2>1, LoadOwn
<1>3. CASE ResolveOptions
  BY <1>0, <1>3 DEF ResolveOptions
<1>4. CASE start
  BY <1>0, <1>4, StartFacts
<1>5. CASE reviewerLost \/ editorLost
  BY <1>0, <1>5, LossFacts
<1>6. CASE UNCHANGED optionsVars
  BY <1>0, <1>6 DEF optionsVars
<1> QED BY <1>1, <1>2, <1>3, <1>4, <1>5, <1>6 DEF OptionsNext

LEMMA AuthorityStep ==
    Whole(opts) /\ LoadedOwn /\ AuthorityIsTrusted /\ [OptionsNext]_optionsVars
    => AuthorityIsTrusted'
<1> SUFFICES ASSUME Whole(opts), LoadedOwn, AuthorityIsTrusted, [OptionsNext]_optionsVars
             PROVE  AuthorityIsTrusted'
  OBVIOUS
<1>1. CASE ~ Settled'
  BY <1>1 DEF AuthorityIsTrusted
<1>2. CASE Settled'
  <2>1. CASE ResolveOptions /\ stage' # "rejected"
    <3>1. OwnConfig
      BY <2>1, ResolvedFacts DEF LoadedOwn
    <3> QED BY <2>1, <3>1, ResolvedAuthority
  <2>2. CASE Settled /\ UNCHANGED <<layer, trusted>> /\ Decided(opts') = Decided(opts)
    <3>1. \A k : RepoOnly(k)' = RepoOnly(k)
      BY <2>2 DEF RepoOnly
    <3>2. /\ opts'.test = opts.test /\ opts'.limit = opts.limit /\ opts'.loss = opts.loss
          /\ opts'.fallbacks = opts.fallbacks /\ opts'.byTarget = opts.byTarget
          /\ opts'.adapter = opts.adapter /\ opts'.routed = opts.routed
      BY <2>2 DEF Decided
    <3> QED BY <2>2, <3>1, <3>2 DEF AuthorityIsTrusted
  <2> QED BY <1>2, <2>1, <2>2, SettledStep
<1> QED BY <1>1, <1>2

\* A repository that is not trusted decides neither the command that tests, nor
\* a limit, nor what happens to a role that is lost, nor who replaces it, nor
\* how an adapter is started: in every behaviour, whatever its file and its
\* profiles say, where the operator's own configuration is any at all.
THEOREM AuthorityIsKept == OptionsSpec => []AuthorityIsTrusted
<1>1. OptionsInit => Whole(opts) /\ LoadedOwn /\ AuthorityIsTrusted
  BY WholeInitially DEF OptionsInit, LoadedOwn, AuthorityIsTrusted, Settled
<1>2. Whole(opts) /\ LoadedOwn /\ AuthorityIsTrusted /\ [OptionsNext]_optionsVars
      => (Whole(opts) /\ LoadedOwn /\ AuthorityIsTrusted)'
  BY WholeKept, LoadedOwnStep, AuthorityStep
<1> QED BY <1>1, <1>2, PTL DEF OptionsSpec


-----------------------------------------------------------------------------
(* Options: totals, ranks and the independent reviewer *)

PickOne(s) == CHOOSE x \in s : TRUE
\* The function that totals every part of the shares, one by one.
Totals(share, g) ==
    g = [s \in SUBSET DOMAIN share |->
           IF s = {} THEN 0 ELSE share[PickOne(s)] + g[s \ {PickOne(s)}]]
\* The same of the parts that have at most n of them.
TotalsUpTo(share, g, n) ==
    /\ g \in [SUBSET DOMAIN share -> Int]
    /\ \A s \in SUBSET DOMAIN share : Cardinality(s) <= n =>
          g[s] = IF s = {} THEN 0 ELSE share[PickOne(s)] + g[s \ {PickOne(s)}]

LEMMA PickOneFacts ==
    ASSUME NEW D, IsFiniteSet(D), NEW s \in SUBSET D, s # {}
    PROVE  /\ PickOne(s) \in s /\ PickOne(s) \in D /\ s \ {PickOne(s)} \in SUBSET D
           /\ Cardinality(s) \in Nat /\ Cardinality(s) > 0
           /\ Cardinality(s \ {PickOne(s)}) = Cardinality(s) - 1
<1>1. PickOne(s) \in s
  BY DEF PickOne
<1>2. IsFiniteSet(s)
  BY FS_Subset
<1>3. Cardinality(s) \in Nat /\ Cardinality(s) # 0
  BY <1>2, FS_CardinalityType, FS_EmptySet
<1>4. Cardinality(s \ {PickOne(s)}) = Cardinality(s) - 1
  BY <1>1, <1>2, FS_RemoveElement
<1> QED BY <1>1, <1>3, <1>4

\* There is such a function, as there is one up to every size.
LEMMA TotalsExist ==
    ASSUME NEW D, IsFiniteSet(D), NEW share \in [D -> Int]
    PROVE  \E g : Totals(share, g)
<1> DEFINE bad == {n \in Nat : ~ \E g : TotalsUpTo(share, g, n)}
<1>0. DOMAIN share = D
  OBVIOUS
<1>1. bad = {}
  <2> SUFFICES ASSUME bad # {} PROVE FALSE
    OBVIOUS
  <2>1. PICK n \in bad : \A m \in bad : n <= m
    <3>1. bad \in SUBSET Nat
      OBVIOUS
    <3> HIDE DEF bad
    <3> QED BY <3>1, MinFacts
  <2>2. n # 0
    <3> DEFINE g == [s \in SUBSET D |-> 0]
    <3>1. ASSUME NEW s \in SUBSET D, Cardinality(s) <= 0, s # {} PROVE FALSE
      <4>1. Cardinality(s) \in Nat /\ Cardinality(s) > 0
        BY <3>1, PickOneFacts
      <4> QED BY <3>1, <4>1
    <3>2. g \in [SUBSET D -> Int] /\ \A s \in SUBSET D : g[s] = 0
      OBVIOUS
    <3> HIDE DEF g
    <3>3. TotalsUpTo(share, g, 0)
      BY <1>0, <3>1, <3>2 DEF TotalsUpTo
    <3> QED BY <3>3
  <2>3. n \in Nat /\ n - 1 \in Nat /\ ~ (n <= n - 1)
    BY <2>2
  <2>4. n - 1 \notin bad
    BY <2>1, <2>3
  <2>5. PICK g : TotalsUpTo(share, g, n - 1)
    BY <2>3, <2>4
  <2> DEFINE h == [s \in SUBSET D |->
                     IF s = {} THEN 0 ELSE share[PickOne(s)] + g[s \ {PickOne(s)}]]
  <2>6. h \in [SUBSET D -> Int]
    <3> SUFFICES ASSUME NEW s \in SUBSET D, s # {}
                 PROVE  share[PickOne(s)] + g[s \ {PickOne(s)}] \in Int
      OBVIOUS
    <3>1. PickOne(s) \in D /\ s \ {PickOne(s)} \in SUBSET D
      BY PickOneFacts
    <3> QED BY <1>0, <2>5, <3>1 DEF TotalsUpTo
  <2>7. \A s \in SUBSET D : Cardinality(s) <= n - 1 => h[s] = g[s]
    BY <1>0, <2>5 DEF TotalsUpTo
  <2>8. \A s \in SUBSET D :
           h[s] = IF s = {} THEN 0 ELSE share[PickOne(s)] + g[s \ {PickOne(s)}]
    OBVIOUS
  <2> HIDE DEF h
  <2>9. ASSUME NEW s \in SUBSET D, s # {}, Cardinality(s) <= n
        PROVE  h[s] = share[PickOne(s)] + h[s \ {PickOne(s)}]
    <3>0. /\ s \ {PickOne(s)} \in SUBSET D /\ Cardinality(s) \in Nat
          /\ Cardinality(s \ {PickOne(s)}) = Cardinality(s) - 1
      BY <2>9, PickOneFacts
    <3>1. s \ {PickOne(s)} \in SUBSET D /\ Cardinality(s \ {PickOne(s)}) <= n - 1
      BY <2>3, <2>9, <3>0
    <3> QED BY <2>7, <2>8, <2>9, <3>1
  <2>10. TotalsUpTo(share, h, n)
    BY <1>0, <2>6, <2>8, <2>9 DEF TotalsUpTo
  <2> QED BY <2>10
<1>2. Cardinality(D) \in Nat
  BY FS_CardinalityType
<1>3. PICK g : TotalsUpTo(share, g, Cardinality(D))
  BY <1>1, <1>2
<1>4. ASSUME NEW s \in SUBSET D PROVE Cardinality(s) <= Cardinality(D)
  BY FS_Subset
<1>5. Totals(share, g)
  BY <1>0, <1>3, <1>4 DEF TotalsUpTo, Totals
<1> QED BY <1>5

LEMMA TotalIs ==
    ASSUME NEW share, \E g : Totals(share, g)
    PROVE  \E g : Totals(share, g) /\ Total(share) = g[DOMAIN share]
<1> DEFINE g == CHOOSE h : Totals(share, h)
<1>1. Totals(share, g)
  BY Zenon
<1>2. Total(share) = g[DOMAIN share]
  BY DEF Total, MapThenSumSet, MapThenFoldSet, Totals, PickOne
<1> QED BY <1>1, <1>2

\* Integers over a finite set total to an integer.
LEMMA TotalInt ==
    ASSUME NEW D, IsFiniteSet(D), NEW share \in [D -> Int]
    PROVE  Total(share) \in Int
<1>1. PICK g : Totals(share, g) /\ Total(share) = g[D]
  <2>1. \E g : Totals(share, g)
    BY TotalsExist
  <2> QED BY <2>1, TotalIs
<1>2. /\ g[{}] = 0
      /\ \A s \in SUBSET D : s # {} => g[s] = share[PickOne(s)] + g[s \ {PickOne(s)}]
  <2>1. \A s \in SUBSET DOMAIN share :
           g[s] = IF s = {} THEN 0 ELSE share[PickOne(s)] + g[s \ {PickOne(s)}]
    BY <1>1, Zenon DEF Totals
  <2> QED BY <2>1
<1> DEFINE sizes == {n \in Nat : \E s \in SUBSET D : Cardinality(s) = n /\ g[s] \notin Int}
<1>3. sizes = {}
  <2> SUFFICES ASSUME sizes # {} PROVE FALSE
    OBVIOUS
  <2>1. PICK n \in sizes : \A m \in sizes : n <= m
    <3>1. sizes \in SUBSET Nat
      OBVIOUS
    <3> HIDE DEF sizes
    <3> QED BY <3>1, MinFacts
  <2>2. PICK s \in SUBSET D : Cardinality(s) = n /\ g[s] \notin Int
    OBVIOUS
  <2>3. s # {}
    <3>1. ASSUME s = {} PROVE g[s] = 0
      BY <1>2, <3>1
    <3> QED BY <2>2, <3>1
  <2>4. /\ PickOne(s) \in D /\ s \ {PickOne(s)} \in SUBSET D
        /\ Cardinality(s \ {PickOne(s)}) = n - 1 /\ n > 0 /\ n \in Nat
    BY <2>2, <2>3, PickOneFacts
  <2>5. n - 1 \in Nat /\ ~ (n <= n - 1)
    BY <2>4
  <2>6. g[s \ {PickOne(s)}] \in Int
    BY <2>1, <2>4, <2>5
  <2>7. g[s] = share[PickOne(s)] + g[s \ {PickOne(s)}]
    BY <1>2, <2>3
  <2> QED BY <2>2, <2>4, <2>6, <2>7
<1>4. Cardinality(D) \in Nat
  BY FS_CardinalityType
<1> QED BY <1>1, <1>3, <1>4

\* What a requirement prefers, every card of the roster rates.
Rated(need) == \A c \in Roster : need.prefer \in Seq(DOMAIN c.level)

LEMMA ScoreFacts ==
    ASSUME NEW c \in Roster, NEW need, Rated(need)
    PROVE  /\ totalLevels(c) \in Int /\ scoreCandidate(c, need) \in Int
           /\ c.level["reliability"] \in Int /\ -c.order \in Int
<1> DEFINE D == DOMAIN c.level
           prefer == need.prefer
           share == [i \in DOMAIN prefer |-> (Len(prefer) - i + 1) * c.level[prefer[i]]]
<1>1. IsFiniteSet(D) /\ "reliability" \in D /\ c.order \in Int /\ c.level \in [D -> Int]
  BY RosterAssumption
<1>2. totalLevels(c) \in Int
  <2> HIDE DEF D
  <2> QED BY <1>1, TotalInt DEF totalLevels
<1>3. prefer \in Seq(D)
  BY DEF Rated
<1>4. IsFiniteSet(DOMAIN prefer) /\ share \in [DOMAIN prefer -> Int]
  <2> HIDE DEF D, prefer
  <2>1. Len(prefer) \in Nat /\ DOMAIN prefer = 1..Len(prefer) /\ \A i \in 1..Len(prefer) : prefer[i] \in D
    BY <1>3, LenProperties, ElementOfSeq
  <2>2. IsFiniteSet(1..Len(prefer))
    BY <2>1, FS_Interval
  <2>3. ASSUME NEW i \in DOMAIN prefer
        PROVE  (Len(prefer) - i + 1) * c.level[prefer[i]] \in Int
    <3>1. c.level[prefer[i]] \in Int /\ Len(prefer) - i + 1 \in Int
      BY <1>1, <2>1
    <3> QED BY <3>1
  <2> QED BY <2>1, <2>2, <2>3
<1>5. scoreCandidate(c, need) \in Int
  <2>1. Total(share) \in Int
    <3> HIDE DEF share
    <3> QED BY <1>4, TotalInt
  <2> QED BY <1>2, <2>1 DEF scoreCandidate
<1>6. c.level["reliability"] \in Int /\ -c.order \in Int
  BY <1>1
<1> QED BY <1>2, <1>5, <1>6

\* The ranking is the lexicographic order on four integers.
Above(m, n) ==
    \/ m[1] > n[1]
    \/ m[1] = n[1] /\ m[2] > n[2]
    \/ m[1] = n[1] /\ m[2] = n[2] /\ m[3] > n[3]
    \/ m[1] = n[1] /\ m[2] = n[2] /\ m[3] = n[3] /\ m[4] > n[4]

LEMMA FourLevels ==
    ASSUME NEW m, NEW n, \E i \in 1..4 : m[i] > n[i] /\ \A j \in 1..(i - 1) : m[j] = n[j]
    PROVE  Above(m, n)
<1>1. PICK i \in 1..4 : m[i] > n[i] /\ \A j \in 1..(i - 1) : m[j] = n[j]
  OBVIOUS
<1>2. CASE i = 1
  BY <1>1, <1>2 DEF Above
<1>3. CASE i = 2
  <2>1. 1 \in 1..(i - 1)
    BY <1>3
  <2> QED BY <1>1, <1>3, <2>1 DEF Above
<1>4. CASE i = 3
  <2>1. 1 \in 1..(i - 1) /\ 2 \in 1..(i - 1)
    BY <1>4
  <2> QED BY <1>1, <1>4, <2>1 DEF Above
<1>5. CASE i = 4
  <2>1. 1 \in 1..(i - 1) /\ 2 \in 1..(i - 1) /\ 3 \in 1..(i - 1)
    BY <1>5
  <2> QED BY <1>1, <1>5, <2>1 DEF Above
<1> QED BY <1>2, <1>3, <1>4, <1>5

LEMMA AboveIsFour ==
    ASSUME NEW m, NEW n, Above(m, n)
    PROVE  \E i \in 1..4 : m[i] > n[i] /\ \A j \in 1..(i - 1) : m[j] = n[j]
<1>1. /\ 1 \in 1..4 /\ 2 \in 1..4 /\ 3 \in 1..4 /\ 4 \in 1..4
      /\ \A j \in 1..(1 - 1) : FALSE
      /\ \A j \in 1..(2 - 1) : j = 1
      /\ \A j \in 1..(3 - 1) : j = 1 \/ j = 2
      /\ \A j \in 1..(4 - 1) : j = 1 \/ j = 2 \/ j = 3
  OBVIOUS
<1>2. CASE m[1] > n[1]
  BY <1>1, <1>2
<1>3. CASE m[1] = n[1] /\ m[2] > n[2]
  BY <1>1, <1>3
<1>4. CASE m[1] = n[1] /\ m[2] = n[2] /\ m[3] > n[3]
  BY <1>1, <1>4
<1>5. CASE m[1] = n[1] /\ m[2] = n[2] /\ m[3] = n[3] /\ m[4] > n[4]
  BY <1>1, <1>5
<1> QED BY <1>2, <1>3, <1>4, <1>5 DEF Above

LEMMA RanksIs ==
    ASSUME NEW a, NEW b, NEW need
    PROVE  Ranks(a, b, need) <=> Above(Merit(a, need), Merit(b, need))
BY FourLevels, AboveIsFour DEF Ranks, Outranks

LEMMA AboveOrders ==
    ASSUME NEW k, NEW m, NEW n, \A i \in 1..4 : k[i] \in Int /\ m[i] \in Int /\ n[i] \in Int
    PROVE  ~ Above(m, m) /\ (Above(k, m) /\ Above(m, n) => Above(k, n))
<1>1. /\ k[1] \in Int /\ k[2] \in Int /\ k[3] \in Int /\ k[4] \in Int
      /\ m[1] \in Int /\ m[2] \in Int /\ m[3] \in Int /\ m[4] \in Int
      /\ n[1] \in Int /\ n[2] \in Int /\ n[3] \in Int /\ n[4] \in Int
  OBVIOUS
<1> QED BY <1>1, SMTT(30) DEF Above

LEMMA RanksOrder ==
    ASSUME NEW need, Rated(need), NEW a \in Roster, NEW b \in Roster, NEW c \in Roster
    PROVE  ~ Ranks(b, b, need) /\ (Ranks(a, b, need) /\ Ranks(b, c, need) => Ranks(a, c, need))
<1>1. ASSUME NEW x \in Roster PROVE \A i \in 1..4 : Merit(x, need)[i] \in Int
  BY ScoreFacts DEF Merit
<1>2. /\ ~ Above(Merit(b, need), Merit(b, need))
      /\ (Above(Merit(a, need), Merit(b, need)) /\ Above(Merit(b, need), Merit(c, need))
            => Above(Merit(a, need), Merit(c, need)))
  BY <1>1, AboveOrders
<1> QED BY <1>2, RanksIs

\* Of two cards one outranks the other, as no two have the same place.
LEMMA RanksTotal ==
    ASSUME NEW need, Rated(need), NEW a \in Roster, NEW b \in Roster, a # b
    PROVE  Ranks(a, b, need) \/ Ranks(b, a, need)
<1> DEFINE m == Merit(a, need)
           n == Merit(b, need)
<1>1. /\ m[1] \in Int /\ m[2] \in Int /\ m[3] \in Int /\ m[4] \in Int
      /\ n[1] \in Int /\ n[2] \in Int /\ n[3] \in Int /\ n[4] \in Int
  BY ScoreFacts DEF Merit
<1>2. m[4] # n[4]
  <2>1. a.order \in Int /\ b.order \in Int /\ a.order # b.order
    BY RosterAssumption
  <2> QED BY <2>1 DEF Merit
<1> HIDE DEF m, n
<1>3. Above(m, n) \/ Above(n, m)
  BY <1>1, <1>2, SMTT(30) DEF Above
<1> QED BY <1>3, RanksIs DEF m, n

\* Who outranks another has fewer ahead of it, and is ahead of that one.
Ahead(E, c, need) == {d \in E : Ranks(d, c, need)}

LEMMA AheadFacts ==
    ASSUME NEW need, Rated(need), NEW E \in SUBSET Roster, NEW c \in E
    PROVE  /\ IsFiniteSet(E) /\ Cardinality(E) \in Nat
           /\ Cardinality(Ahead(E, c, need)) \in Nat
           /\ Cardinality(Ahead(E, c, need)) < Cardinality(E)
           /\ \A d \in E : Ranks(d, c, need)
                 => Cardinality(Ahead(E, d, need)) < Cardinality(Ahead(E, c, need))
<1>1. IsFiniteSet(E) /\ Cardinality(E) \in Nat
  BY RosterAssumption, FS_Subset, FS_CardinalityType
<1>2. ASSUME NEW x \in E
      PROVE  IsFiniteSet(Ahead(E, x, need)) /\ Cardinality(Ahead(E, x, need)) \in Nat
  <2>1. Ahead(E, x, need) \in SUBSET E
    BY DEF Ahead
  <2> QED BY <1>1, <2>1, FS_Subset, FS_CardinalityType
<1>3. ASSUME NEW S, IsFiniteSet(S), NEW T \in SUBSET S, S # T
      PROVE  Cardinality(T) < Cardinality(S)
  <2>1. IsFiniteSet(T) /\ Cardinality(T) <= Cardinality(S) /\ Cardinality(S) # Cardinality(T)
    BY <1>3, FS_Subset
  <2>2. Cardinality(T) \in Nat /\ Cardinality(S) \in Nat
    BY <1>3, <2>1, FS_CardinalityType
  <2> QED BY <2>1, <2>2
<1>4. Cardinality(Ahead(E, c, need)) < Cardinality(E)
  <2>1. Ahead(E, c, need) \in SUBSET E /\ c \notin Ahead(E, c, need)
    BY RanksOrder DEF Ahead
  <2> QED BY <1>1, <1>3, <2>1
<1>5. ASSUME NEW d \in E, Ranks(d, c, need)
      PROVE  Cardinality(Ahead(E, d, need)) < Cardinality(Ahead(E, c, need))
  <2>1. ASSUME NEW x \in Ahead(E, d, need) PROVE x \in Ahead(E, c, need)
    <3>1. x \in E /\ Ranks(x, d, need)
      BY DEF Ahead
    <3>2. Ranks(x, c, need)
      BY <1>5, <3>1, RanksOrder
    <3> QED BY <3>1, <3>2 DEF Ahead
  <2>2. d \in Ahead(E, c, need) /\ d \notin Ahead(E, d, need)
    BY <1>5, RanksOrder DEF Ahead
  <2>3. Ahead(E, d, need) \in SUBSET Ahead(E, c, need)
    BY <2>1
  <2> QED BY <1>2, <1>3, <2>2, <2>3
<1> QED BY <1>1, <1>2, <1>4, <1>5

LEMMA OntoFacts ==
    ASSUME NEW S, NEW T, IsFiniteSet(T), Cardinality(S) = Cardinality(T), NEW f \in Injection(S, T)
    PROVE  f \in Surjection(S, T)
  BY FS_Injection

\* A ranking holds every card once, each behind the ones that outrank it and
\* before the others (rankCandidates, whose sort has no ties).
THEOREM RankingSorts ==
    ASSUME NEW need, Rated(need), NEW E \in SUBSET Roster
    PROVE  /\ Ranking(E, need) \in Bijection(1..Cardinality(E), E)
           /\ \A i, j \in 1..Cardinality(E) :
                 i < j <=> Ranks(Ranking(E, need)[i], Ranking(E, need)[j], need)
<1> DEFINE n == Cardinality(E)
           size(c) == Cardinality(Ahead(E, c, need))
           place == [c \in E |-> size(c) + 1]
           ranked == Ranking(E, need)
           at(i) == CHOOSE c \in E : Cardinality({d \in E : Ranks(d, c, need)}) = i - 1
<1>0. ranked = [i \in 1..n |-> at(i)]
  BY DEF Ranking
<1>1. IsFiniteSet(E) /\ n \in Nat
  BY RosterAssumption, FS_Subset, FS_CardinalityType
<1>2. \A c \in E : /\ size(c) \in Nat /\ size(c) < n
                  /\ \A d \in E : Ranks(d, c, need) => size(d) < size(c)
  BY AheadFacts
<1> HIDE DEF n, size, ranked, at
<1>3. \A c \in E, d \in E : c # d => Ranks(c, d, need) \/ Ranks(d, c, need)
  BY RanksTotal
<1>4. \A c \in E, d \in E : size(c) = size(d) => c = d
  BY <1>2, <1>3
<1>5. place \in Surjection(E, 1..n)
  <2>1. place \in [E -> 1..n]
    BY <1>1, <1>2
  <2>2. \A c, d \in E : place[c] = place[d] => c = d
    BY <1>2, <1>4
  <2>3. place \in Injection(E, 1..n)
    BY <2>1, <2>2 DEF Injection, IsInjective
  <2>4. IsFiniteSet(1..n) /\ Cardinality(1..n) = n
    BY <1>1, FS_Interval
  <2>5. Cardinality(E) = n
    BY DEF n
  <2> HIDE DEF place
  <2> QED BY <2>3, <2>4, <2>5, OntoFacts
<1>6. ASSUME NEW i \in 1..n PROVE ranked[i] \in E /\ size(ranked[i]) = i - 1
  <2>1. PICK c \in E : place[c] = i
    BY <1>5 DEF Surjection
  <2>2. size(c) = i - 1
    BY <1>1, <1>2, <2>1
  <2>3. at(i) = CHOOSE x \in E : size(x) = i - 1
    BY DEF at, size, Ahead
  <2>4. ranked[i] = at(i)
    BY <1>0
  <2> QED BY <2>2, <2>3, <2>4
<1>7. ranked \in [1..n -> E]
  BY <1>0, <1>6
<1>8. ranked \in Injection(1..n, E)
  <2>1. \A i, j \in 1..n : ranked[i] = ranked[j] => i = j
    BY <1>1, <1>6
  <2> QED BY <1>7, <2>1 DEF Injection, IsInjective
<1>9. ranked \in Surjection(1..n, E)
  <2>1. ASSUME NEW c \in E PROVE \E i \in 1..n : ranked[i] = c
    <3>1. size(c) + 1 \in 1..n /\ (size(c) + 1) - 1 = size(c)
      BY <1>1, <1>2
    <3> QED BY <1>4, <1>6, <3>1
  <2> QED BY <1>7, <2>1 DEF Surjection
<1>10. ASSUME NEW i \in 1..n, NEW j \in 1..n
       PROVE  i < j <=> Ranks(ranked[i], ranked[j], need)
  <2>1. /\ ranked[i] \in E /\ size(ranked[i]) = i - 1
        /\ ranked[j] \in E /\ size(ranked[j]) = j - 1
    BY <1>6
  <2>2. ASSUME i < j PROVE Ranks(ranked[i], ranked[j], need)
    <3>1. ranked[i] # ranked[j] /\ ~ (size(ranked[j]) < size(ranked[i]))
      BY <1>1, <2>1, <2>2
    <3> QED BY <1>2, <1>3, <2>1, <3>1
  <2>3. ASSUME Ranks(ranked[i], ranked[j], need) PROVE i < j
    <3>1. size(ranked[i]) < size(ranked[j])
      BY <1>2, <2>1, <2>3
    <3> QED BY <1>1, <2>1, <3>1
  <2> QED BY <2>2, <2>3
<1> QED BY <1>8, <1>9, <1>10 DEF Bijection, n, ranked

\* Who is ranked satisfies every hard constraint.
LEMMA RankedAreEligible ==
    ASSUME NEW job, NEW workflow, NEW slot, NEW out, NEW down, NEW avoided,
           Rated(Requirement(job, slot))
    PROVE  LET ranked == rankCandidates(job, workflow, slot, out, down, avoided)
               fit == Eligible(job, workflow, slot, out, down, avoided)
           IN  /\ fit \in SUBSET Roster
               /\ DOMAIN ranked = 1..Len(ranked) /\ Len(ranked) \in Nat
               /\ (Len(ranked) = 0) = (ranked = <<>>)
               /\ \A i \in 1..Len(ranked) : ranked[i] \in fit
<1> DEFINE need == Requirement(job, slot)
           fit == Eligible(job, workflow, slot, out, down, avoided)
           ranked == rankCandidates(job, workflow, slot, out, down, avoided)
<1>1. fit \in SUBSET Roster
  BY DEF Eligible
<1>2. ranked = Ranking(fit, need)
  BY DEF rankCandidates
<1> HIDE DEF need, fit, ranked
<1>3. IsFiniteSet(fit) /\ Cardinality(fit) \in Nat
  BY <1>1, RosterAssumption, FS_Subset, FS_CardinalityType
<1>4. ranked \in [1..Cardinality(fit) -> fit]
  BY <1>1, <1>2, RankingSorts DEF Bijection, Injection, need
<1>5. ranked \in Seq(fit) /\ Len(ranked) = Cardinality(fit)
  BY <1>3, <1>4
<1>6. (Len(ranked) = 0) = (ranked = <<>>)
  BY <1>5
<1> QED BY <1>1, <1>3, <1>4, <1>5, <1>6 DEF need, fit, ranked

LEMMA FirstIsEligible ==
    ASSUME NEW job, NEW workflow, NEW slot, NEW out, NEW down, NEW avoided,
           Rated(Requirement(job, slot)),
           rankCandidates(job, workflow, slot, out, down, avoided) # <<>>
    PROVE  LET first == rankCandidates(job, workflow, slot, out, down, avoided)[1] IN
           first \in Roster /\ first.family # avoided
<1>1. rankCandidates(job, workflow, slot, out, down, avoided)[1]
        \in Eligible(job, workflow, slot, out, down, avoided)
  <2>1. 1 \in 1..Len(rankCandidates(job, workflow, slot, out, down, avoided))
    BY RankedAreEligible
  <2> QED BY <2>1, RankedAreEligible
<1> QED BY <1>1 DEF Eligible

\* Nobody the router names for a slot, to fill it or as a replacement, breaks a
\* hard constraint: each is the target of a card that is eligible for the slot.
THEOREM NamedAreEligible ==
    ASSUME NEW job, NEW workflow, NEW slot, NEW pinned, NEW out, NEW down, NEW avoided,
           Rated(Requirement(job, slot)),
           staff(job, workflow, slot, pinned, out, down, avoided).source = "router"
    PROVE  LET s == staff(job, workflow, slot, pinned, out, down, avoided)
               fit == Eligible(job, workflow, slot, out, down, avoided)
           IN  /\ \E c \in fit : c.target = s.target /\ c.family = s.family
               /\ Len(s.fallbacks) <= maxRoutingFallbacks
               /\ \A i \in DOMAIN s.fallbacks : \E c \in fit : c.target = s.fallbacks[i]
<1> DEFINE ranked == rankCandidates(job, workflow, slot, out, down, avoided)
           fit == Eligible(job, workflow, slot, out, down, avoided)
           s == staff(job, workflow, slot, pinned, out, down, avoided)
           most == Min({Len(ranked) - 1, maxRoutingFallbacks})
<1>1. slot \notin DOMAIN pinned /\ ranked # <<>>
  BY DEF staff, NoPick
<1>2. /\ Len(ranked) \in Nat /\ (Len(ranked) = 0) = (ranked = <<>>)
      /\ \A i \in 1..Len(ranked) : ranked[i] \in fit
  BY RankedAreEligible
<1>3. /\ s.target = ranked[1].target /\ s.family = ranked[1].family
      /\ s.fallbacks = [i \in 1..most |-> ranked[i + 1].target]
  BY <1>1 DEF staff
<1> HIDE DEF ranked, fit, s
<1>4. Len(ranked) >= 1 /\ 1 \in 1..Len(ranked)
  BY <1>1, <1>2
<1>5. most \in Nat /\ most <= Len(ranked) - 1 /\ most <= maxRoutingFallbacks
  <2>1. {Len(ranked) - 1, maxRoutingFallbacks} \in SUBSET Nat
    BY <1>2, <1>4 DEF maxRoutingFallbacks
  <2>2. /\ Min({Len(ranked) - 1, maxRoutingFallbacks}) \in {Len(ranked) - 1, maxRoutingFallbacks}
        /\ \A n \in {Len(ranked) - 1, maxRoutingFallbacks} :
              Min({Len(ranked) - 1, maxRoutingFallbacks}) <= n
    BY <2>1, MinFacts
  <2> QED BY <2>1, <2>2
<1> HIDE DEF most
<1>6. Len(s.fallbacks) = most /\ DOMAIN s.fallbacks = 1..most
  BY <1>3, <1>5
<1>7. ASSUME NEW i \in 1..most PROVE \E c \in fit : c.target = s.fallbacks[i]
  <2>1. i + 1 \in 1..Len(ranked)
    BY <1>2, <1>5
  <2>2. s.fallbacks[i] = ranked[i + 1].target
    BY <1>3
  <2> QED BY <1>2, <2>1, <2>2
<1>8. \E c \in fit : c.target = s.target /\ c.family = s.family
  BY <1>2, <1>3, <1>4
<1> QED BY <1>5, <1>6, <1>7, <1>8 DEF s, fit

\* A slot the router filled holds a card of the roster whose family is not the
\* one to avoid.
LEMMA StaffedByRouter ==
    ASSUME NEW job, NEW workflow, NEW slot, NEW pinned, NEW out, NEW down, NEW avoided,
           Rated(Requirement(job, slot)),
           staff(job, workflow, slot, pinned, out, down, avoided).source = "router"
    PROVE  LET s == staff(job, workflow, slot, pinned, out, down, avoided) IN
           \E c \in Roster : c.target = s.target /\ c.family = s.family /\ c.family # avoided
<1> DEFINE ranked == rankCandidates(job, workflow, slot, out, down, avoided)
           s == staff(job, workflow, slot, pinned, out, down, avoided)
<1>1. slot \notin DOMAIN pinned /\ ranked # <<>>
  BY DEF staff, NoPick
<1>2. ranked[1] \in Roster /\ ranked[1].family # avoided
  BY <1>1, FirstIsEligible
<1> HIDE DEF ranked
<1>3. s.target = ranked[1].target /\ s.family = ranked[1].family
  BY <1>1 DEF staff, ranked
<1> QED BY <1>2, <1>3

\* A pinned slot keeps what was pinned, with the family that is known of it.
LEMMA StaffedByOperator ==
    ASSUME NEW job, NEW workflow, NEW slot, NEW pinned, NEW out, NEW down, NEW avoided,
           slot \in DOMAIN pinned
    PROVE  LET s == staff(job, workflow, slot, pinned, out, down, avoided) IN
           s.source = "operator" /\ s.target = pinned[slot] /\ s.family = familyForTarget(pinned[slot])
BY DEF staff

LEMMA StaffedFrom ==
    ASSUME NEW job, NEW workflow, NEW slot, NEW pinned, NEW out, NEW down, NEW avoided,
           slot \notin DOMAIN pinned
    PROVE  staff(job, workflow, slot, pinned, out, down, avoided).source \in {"router", "none"}
BY DEF staff, NoPick

\* The family that is known of a target is that of a card of it, if it has one.
LEMMA FamilyIsOfACard ==
    ASSUME NEW t, cardForTarget(t) # {}
    PROVE  \E d \in cardForTarget(t) : d.family = familyForTarget(t)
<1> DEFINE S == cardForTarget(t)
           before(c) == {d \in S : d.order < c.order}
           size(c) == Cardinality(before(c))
<1>1. S \in SUBSET Roster /\ IsFiniteSet(S)
  BY RosterAssumption, FS_Subset DEF cardForTarget
<1> HIDE DEF S
<1>2. ASSUME NEW c \in S PROVE IsFiniteSet(before(c)) /\ size(c) \in Nat
  BY <1>1, FS_Subset, FS_CardinalityType
<1> DEFINE T == {size(c) : c \in S}
<1>3. T \in SUBSET Nat /\ T # {}
  BY <1>2 DEF S
<1>4. PICK c \in S : \A d \in S : size(c) <= size(d)
  <2>1. Min(T) \in T /\ \A n \in T : Min(T) <= n
    BY <1>3, MinFacts
  <2> QED BY <2>1
<1>5. ASSUME NEW d \in S PROVE c.order <= d.order
  <2>1. SUFFICES ASSUME d.order < c.order PROVE FALSE
    BY <1>1, RosterAssumption
  <2>2. \A e \in S : e.order \in Int
    BY <1>1, RosterAssumption
  <2>3. before(d) \subseteq before(c) /\ d \in before(c) /\ d \notin before(d)
    BY <2>1, <2>2
  <2>4. /\ size(d) <= size(c)
        /\ size(c) = size(d) => before(c) = before(d)
    <3>1. before(d) \in SUBSET before(c) /\ IsFiniteSet(before(c))
      BY <1>2, <2>3
    <3> HIDE DEF before
    <3> QED BY <3>1, FS_Subset
  <2>5. size(c) # size(d)
    BY <2>3, <2>4
  <2>6. size(c) \in Nat /\ size(d) \in Nat /\ size(c) <= size(d)
    BY <1>2, <1>4
  <2> HIDE DEF size
  <2> QED BY <2>4, <2>5, <2>6
<1>6. \E e \in S : \A d \in S : e.order <= d.order
  BY <1>5
<1> DEFINE first == CHOOSE e \in S : \A d \in S : e.order <= d.order
<1>7. first \in S
  BY <1>6
<1>8. familyForTarget(t) = first.family
  BY DEF familyForTarget, S
<1> QED BY <1>7, <1>8 DEF S

LEMMA RolesRated ==
    ASSUME NEW job \in DOMAIN Jobs, NEW slot
    PROVE  Rated(Requirement(Jobs[job], slot))
<1>1. CASE slot \in DOMAIN Jobs[job].roles
  BY <1>1, JobsAssumption DEF Rated, Requirement
<1>2. CASE slot \notin DOMAIN Jobs[job].roles
  <2>1. Requirement(Jobs[job], slot).prefer = <<>>
    BY <1>2 DEF Requirement, NoRequirement
  <2>2. ASSUME NEW S PROVE <<>> \in Seq(S)
    OBVIOUS
  <2> QED BY <2>1, <2>2 DEF Rated
<1> QED BY <1>1, <1>2

\* What a resolved run's router saw.
LEMMA ResolvedJob ==
    ASSUME ResolveOptions, stage' # "rejected"
    PROVE  LET f == layer["flags"]
               workflow == resolveMode(cfg.defaults, cfg.profile, f)
               explicit == Explicit(cfg.profile, f, workflow)
           IN  /\ f["job"] \in {Unset} \cup DOMAIN Jobs
               /\ \E down : LET decision == routeJob(f, workflow, explicit, down) IN
                    opts' = Assemble(f, workflow, explicit, decision) /\ Staffed(decision)
BY DEF ResolveOptions

LEMMA ResolvedAudit ==
    ASSUME ResolveOptions, stage' # "rejected"
    PROVE  AuditIsOfAnotherFamily'
<1> SUFFICES ASSUME opts'.diverse, "reviewer" \in opts'.routed, "reviewer" \in SlotsForMode(opts'.mode)
             PROVE  \E c \in cardForTarget(opts'.target.reviewer) :
                       \/ \E d \in cardForTarget(opts'.target.editor) : c.family # d.family
                       \/ /\ cardForTarget(opts'.target.editor) = {}
                          /\ "editor" \notin opts'.routed
                          /\ c.family # AdapterOf[opts'.target.editor]
  BY DEF AuditIsOfAnotherFamily
<1> DEFINE f == layer["flags"]
           workflow == resolveMode(cfg.defaults, cfg.profile, f)
           explicit == Explicit(cfg.profile, f, workflow)
           pinned == pinnedRoutingSlots(explicit, workflow)
           job == Jobs[f["job"]]
           out == {f["exclude"]}
<1>1. f["job"] \in {Unset} \cup DOMAIN Jobs
  BY ResolvedJob
<1>2. PICK down : /\ opts' = Assemble(f, workflow, explicit, routeJob(f, workflow, explicit, down))
                  /\ Staffed(routeJob(f, workflow, explicit, down))
  BY ResolvedJob
<1> DEFINE decision == routeJob(f, workflow, explicit, down)
           target == applyRoutedTargets(decision, explicit, workflow)
<1>3. /\ opts'.mode = workflow /\ opts'.target = target /\ opts'.routed = Routed(decision)
      /\ opts'.diverse = (f["job"] # Unset /\ Jobs[f["job"]].diverse)
  BY <1>2 DEF Assemble
<1>4. f["job"] \in DOMAIN Jobs /\ job.diverse /\ f["job"] # Unset
  BY <1>1, <1>3
<1>5. decision = Route(job, workflow, pinned, out, down)
  BY <1>4 DEF routeJob
<1> HIDE DEF pinned, out, f, workflow, explicit
<1>6. "editor" \in SlotsForMode(workflow) /\ "reviewer" \in SlotsForMode(workflow)
  BY <1>3 DEF SlotsForMode
<1> DEFINE editor == staff(job, workflow, "editor", pinned, out, down, Unset)
           reviewer == staff(job, workflow, "reviewer", pinned, out, down, editor.family)
<1>7. decision["editor"] = editor /\ decision["reviewer"] = reviewer
      /\ DOMAIN decision = SlotsForMode(workflow)
  BY <1>4, <1>5, <1>6 DEF Route
<1>8. Rated(Requirement(job, "editor")) /\ Rated(Requirement(job, "reviewer"))
  BY <1>4, RolesRated
<1>9. reviewer.source = "router" /\ editor.source # "none"
  BY <1>2, <1>3, <1>6, <1>7 DEF Routed, Staffed
<1> HIDE DEF job
<1>10. PICK c \in Roster : /\ c.target = reviewer.target /\ c.family = reviewer.family
                           /\ c.family # editor.family
  BY <1>8, <1>9, StaffedByRouter
<1>11. target.reviewer = reviewer.target
  BY <1>6, <1>7, <1>9 DEF applyRoutedTargets, Routed
<1>12. c \in cardForTarget(target.reviewer)
  BY <1>10, <1>11 DEF cardForTarget
<1>13. \/ \E d \in cardForTarget(target.editor) : d.family = editor.family
       \/ /\ cardForTarget(target.editor) = {} /\ "editor" \notin Routed(decision)
          /\ editor.family = AdapterOf[target.editor]
  <2>1. CASE editor.source = "router"
    <3>1. PICK d \in Roster : d.target = editor.target /\ d.family = editor.family
      BY <1>8, <2>1, StaffedByRouter
    <3>2. target.editor = editor.target
      BY <1>6, <1>7, <2>1 DEF applyRoutedTargets, Routed
    <3> QED BY <3>1, <3>2 DEF cardForTarget
  <2>2. CASE editor.source # "router"
    <3>1. "editor" \in DOMAIN pinned
      BY <1>9, <2>2, StaffedFrom
    <3>2. editor.target = pinned["editor"] /\ editor.family = familyForTarget(pinned["editor"])
      BY <3>1, StaffedByOperator
    <3>3. pinned["editor"] = explicit["editor"] /\ Parses(explicit["editor"])
      BY <3>1 DEF pinned, pinnedRoutingSlots
    <3>4. target["editor"] = explicit["editor"]
      BY <1>6, <3>3, NamedIsTaken
    <3>5. editor.family = familyForTarget(target.editor)
      BY <3>2, <3>3, <3>4
    <3>6. "editor" \notin Routed(decision)
      BY <1>7, <2>2 DEF Routed
    <3>7. CASE cardForTarget(target.editor) # {}
      BY <3>5, <3>7, FamilyIsOfACard
    <3>8. CASE cardForTarget(target.editor) = {}
      BY <3>5, <3>6, <3>8 DEF familyForTarget
    <3> QED BY <3>7, <3>8
  <2> QED BY <2>1, <2>2
<1> HIDE DEF decision, target, editor, reviewer
<1> QED BY <1>3, <1>10, <1>12, <1>13

LEMMA AuditStep ==
    Whole(opts) /\ AuditIsOfAnotherFamily /\ [OptionsNext]_optionsVars => AuditIsOfAnotherFamily'
<1> SUFFICES ASSUME Whole(opts), AuditIsOfAnotherFamily, [OptionsNext]_optionsVars
             PROVE  AuditIsOfAnotherFamily'
  OBVIOUS
<1>1. CASE ~ Settled' \/ opts'.degraded
  BY <1>1 DEF AuditIsOfAnotherFamily
<1>2. CASE Settled' /\ ~ opts'.degraded
  <2>1. CASE ResolveOptions /\ stage' # "rejected"
    BY <2>1, ResolvedAudit
  <2>2. CASE Settled /\ UNCHANGED <<layer, trusted, cfg, opts>>
    BY <1>2, <2>2 DEF AuditIsOfAnotherFamily
  <2> QED BY <1>2, <2>1, <2>2, SettledStep
<1> QED BY <1>1, <1>2

\* A job that asks for a diverse reviewer never gets one of the editor's family
\* from the router, unless the run says that it is degraded, for any roster and
\* whatever is written where: by the cards of both, and where a pinned editor has
\* none, by its adapter.
THEOREM AuditStaysIndependent == OptionsSpec => []AuditIsOfAnotherFamily
<1>1. OptionsInit => Whole(opts) /\ AuditIsOfAnotherFamily
  BY WholeInitially DEF OptionsInit, AuditIsOfAnotherFamily, Settled
<1>2. Whole(opts) /\ AuditIsOfAnotherFamily /\ [OptionsNext]_optionsVars
        => (Whole(opts) /\ AuditIsOfAnotherFamily)'
  BY WholeKept, AuditStep
<1> QED BY <1>1, <1>2, PTL DEF OptionsSpec
=============================================================================
