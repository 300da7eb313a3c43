------------------------------- MODULE Routing -------------------------------
(* How a team is composed for a job: agent cards rate targets, a job says    *)
(* what each slot of a workflow needs, and the router fills the slots that   *)
(* the operator left open. Selection does no I/O: it is a function of the    *)
(* cards, the job, the pinned slots and what was found out about adapters.   *)
EXTENDS Integers, Sequences, FiniteSets, SequencesExt, FiniteSetsExt

CONSTANTS
    Roster,    \* the agent cards after every layer of configuration
    Jobs,      \* job name -> its specification
    AdapterOf  \* target -> adapter id; Unset when the target does not parse

\* What a key, a flag or a name holds that nobody wrote.
Unset == ""

Parses(t) == t \in DOMAIN AdapterOf /\ AdapterOf[t] # Unset

\* A card rates its target on every capability.
ASSUME RosterAssumption ==
    /\ IsFiniteSet(Roster)
    /\ \A c \in Roster :
          /\ Parses(c.target)
          /\ c.order \in Int /\ \A d \in Roster : d.order = c.order => d = c
          /\ c.family # Unset
          /\ IsFiniteSet(DOMAIN c.level) /\ "reliability" \in DOMAIN c.level
          /\ c.level \in [DOMAIN c.level -> Int]
ASSUME JobsAssumption ==
    \A job \in DOMAIN Jobs : \A slot \in DOMAIN Jobs[job].roles : \A c \in Roster :
        Jobs[job].roles[slot].prefer \in Seq(DOMAIN c.level)
ASSUME EmptyAssumption == ~ Parses(Unset)

SlotsForMode(mode) ==
    CASE mode = "solo"  -> {"editor"}
      [] mode = "relay" -> {"editor", "reviewer", "scout"}
      [] OTHER          -> {"editor", "reviewer"}

SlotRole(slot, mode) ==
    CASE slot = "scout" -> "scout"
      [] slot = "reviewer" -> IF mode = "adversarial" THEN "adversary" ELSE "supervisor"
      [] OTHER -> "coder"

\* The role boundary every path enforces.
ValidateRoleTarget(role, t) ==
    CASE AdapterOf[t] = "agy" -> role = "scout"
      [] AdapterOf[t] \in {"openai-compatible", "mistral-acp"} -> role \in {"adversary", "scout"}
      [] AdapterOf[t] = "gosling" -> role = "coder"
      [] OTHER -> TRUE

\* The boundary of claude, which the one above leaves to its callers.
validateRoutedTargetRole(role, t) ==
    AdapterOf[t] = "claude" => role \in {"supervisor", "adversary"}

-----------------------------------------------------------------------------
(* Ranking.                                                                   *)

Total(share) == MapThenSumSet(LAMBDA k : share[k], DOMAIN share)

totalLevels(card) == Total(card.level)

\* The first preference weighs most; with none, the overall rating ranks.
scoreCandidate(card, need) ==
    IF need.prefer = <<>> THEN totalLevels(card)
    ELSE Total([i \in DOMAIN need.prefer |->
                  (Len(need.prefer) - i + 1) * card.level[need.prefer[i]]])

unmetRequirement(card, need) ==
    \E c \in DOMAIN need.require : card.level[c] < need.require[c]

isExcluded(card, excluded) ==
    {card.key, card.target, AdapterOf[card.target]} \cap excluded # {}

Merit(c, need) == <<scoreCandidate(c, need), c.level["reliability"], totalLevels(c), -c.order>>

Outranks(m, n) ==
    \E i \in 1..4 : /\ m[i] > n[i]
                    /\ \A j \in 1..(i - 1) : m[j] = n[j]

Ranks(a, b, need) == Outranks(Merit(a, need), Merit(b, need))

NoRequirement == [require |-> <<>>, prefer |-> <<>>, tokens |-> 0, candidates |-> {}]

Requirement(job, slot) ==
    IF slot \in DOMAIN job.roles THEN job.roles[slot] ELSE NoRequirement

\* Cards each behind the ones that outrank it.
Ranking(cards, need) ==
    [i \in 1..Cardinality(cards) |->
       CHOOSE c \in cards : Cardinality({d \in cards : Ranks(d, c, need)}) = i - 1]

\* The cards that satisfy every hard constraint. An avoided family is one like
\* the others: it is never relaxed.
Eligible(job, mode, slot, excluded, down, avoided) ==
    LET need == Requirement(job, slot)
        role == SlotRole(slot, mode)
    IN  {c \in Roster :
            /\ ~c.disabled
            /\ ~isExcluded(c, excluded)
            /\ need.candidates = {} \/ c.key \in need.candidates
            /\ slot \in c.slots
            /\ ValidateRoleTarget(role, c.target)
            /\ validateRoutedTargetRole(role, c.target)
            /\ AdapterOf[c.target] \notin down
            /\ ~unmetRequirement(c, need)
            /\ c.tokens >= need.tokens
            /\ c.family # avoided}

rankCandidates(job, mode, slot, excluded, down, avoided) ==
    Ranking(Eligible(job, mode, slot, excluded, down, avoided), Requirement(job, slot))

cardForTarget(t) == {c \in Roster : c.target = t}

\* The family of its first card; without a card the adapter id stands for it.
familyForTarget(t) ==
    IF cardForTarget(t) = {} THEN AdapterOf[t]
    ELSE (CHOOSE c \in cardForTarget(t) : \A d \in cardForTarget(t) : c.order <= d.order).family

-----------------------------------------------------------------------------
(* Composing the team. A pinned slot is recorded, never selected again.       *)

maxRoutingFallbacks == 2

NoPick == [source |-> "none", target |-> Unset, family |-> Unset, fallbacks |-> <<>>]

\* Mutant of staff: the family of a pinned editor is forgotten.
staffForgetting(job, mode, slot, pinned, excluded, down, avoided) ==
    IF slot \in DOMAIN pinned
    THEN [source |-> "operator", target |-> pinned[slot], family |-> Unset, fallbacks |-> <<>>]
    ELSE LET ranked == rankCandidates(job, mode, slot, excluded, down, avoided) IN
         IF ranked = <<>> THEN NoPick
         ELSE [source |-> "router", target |-> ranked[1].target, family |-> ranked[1].family,
               fallbacks |-> <<>>]

staff(job, mode, slot, pinned, excluded, down, avoided) ==
    IF slot \in DOMAIN pinned
    THEN [source |-> "operator", target |-> pinned[slot],
          family |-> familyForTarget(pinned[slot]), fallbacks |-> <<>>]
    ELSE LET ranked == rankCandidates(job, mode, slot, excluded, down, avoided) IN
         IF ranked = <<>> THEN NoPick
         ELSE [source |-> "router", target |-> ranked[1].target, family |-> ranked[1].family,
               fallbacks |-> [i \in 1..Min({Len(ranked) - 1, maxRoutingFallbacks})
                                |-> ranked[i + 1].target]]

\* The editor is chosen first, as a diverse reviewer depends on it.
Route(job, mode, pinned, excluded, down) ==
    LET editor == staff(job, mode, "editor", pinned, excluded, down, Unset)
        avoided(slot) == IF slot = "reviewer" /\ job.diverse THEN editor.family ELSE Unset
    IN  [slot \in SlotsForMode(mode) |->
           IF slot = "editor" THEN editor
           ELSE staff(job, mode, slot, pinned, excluded, down, avoided(slot))]

Staffed(decision) == \A slot \in DOMAIN decision : decision[slot].source # "none"
=============================================================================
