------------------------------- MODULE Options -------------------------------
(* From configuration to a running team. Layers of configuration (built-in,  *)
(* user file, repository file, environment), a profile and the flags of one  *)
(* invocation resolve to the options of a run; a job routes the slots nobody *)
(* pinned; before the first round each role takes a target whose adapter is  *)
(* runnable, and a role that is lost later may be replaced.                  *)
EXTENDS Routing

CONSTANTS
    Settings,    \* the <<source, key, value>> that may be written down
    MaxSettings, \* bound: how many of them one behaviour writes
    FamilyOf,    \* target -> the model family it really belongs to
    Keyed,       \* the target that has replacements of its own (by_target)
    BuiltIn,     \* built-in defaults: key -> value
    Bogus,       \* a value that no check of a setting accepts
    Adapters     \* every adapter id

ASSUME SettingsAssumption == \A s \in Settings : Len(s) = 3
\* DefaultConfig says what to do without a scout.
ASSUME BuiltInAssumption == BuiltIn["loss.scout"] # Unset

RoleKeys  == {"coder", "relay_coder", "adversary", "worker", "supervisor", "scout"}

\* Settings that reach a command, a limit or who works; "test" stands for the
\* command settings, "limit" for the limits.
Authority == {"test", "limit", "loss.worker", "loss.reviewer", "loss.supervisor", "loss.scout",
              "fallback.worker", "fallback.reviewer", "fallback.supervisor", "by_target"}

\* Settings of the adapters and services, which profiles do not have. What a
\* process is started with and where a request goes are the operator's.
AdapterKeys      == {"model", "args", "endpoint", "steward", "presets"}
AdapterAuthority == AdapterKeys \ {"model"}

ProfileKeys == RoleKeys \cup Authority \cup {"mode", "rounds", "scout_failure_policy"}
Keys        == ProfileKeys \cup AdapterKeys
Flags       == {"mode", "relay", "solo", "mc", "model", "worker", "coder", "ma",
                "reviewer", "supervisor", "scout", "job", "exclude", "test", "rounds",
                "strict-scout", "args"}

VARIABLES
    layer,    \* source -> key -> value, or Unset
    profiled, \* the invocation names the profile
    trusted,  \* the invocation trusts the repository's file
    stage,    \* "editing" -> "loaded" -> "resolved" -> "running"; or "rejected", "lost"
    cfg,      \* the merged configuration: defaults and profile
    opts      \* the options of the run, with what became of its team

optionsVars == <<layer, profiled, trusted, stage, cfg, opts>>

Blank(keys) == [k \in keys |-> Unset]
Tables == {"user", "repo", "env", "dotenv", "userProfile", "repoProfile"}

NoOptions ==
    [mode |-> Unset, target |-> Blank({"editor", "reviewer", "scout"}),
     fallbacks |-> [r \in {"worker", "reviewer", "supervisor"} |-> <<>>],
     byTarget |-> <<>>, loss |-> Blank({"worker", "reviewer", "supervisor", "scout"}),
     test |-> Unset, limit |-> Unset, rounds |-> Unset, args |-> <<>>,
     adapter |-> Blank(AdapterKeys),
     routed |-> {}, diverse |-> FALSE, degraded |-> FALSE]

NoConfig == [defaults |-> Blank(Keys), profile |-> Blank(Keys)]

OptionsInit ==
    /\ layer = [s \in Tables \cup {"flags"} |-> IF s = "flags" THEN Blank(Flags) ELSE Blank(Keys)]
    /\ profiled \in BOOLEAN /\ trusted \in BOOLEAN
    /\ stage = "editing" /\ cfg = NoConfig /\ opts = NoOptions

Written == Cardinality({w \in (Tables \cup {"flags"}) \X (Keys \cup Flags) :
                          w[2] \in DOMAIN layer[w[1]] /\ layer[w[1]][w[2]] # Unset})

\* Somebody writes one key of one file, or one flag of the command line.
writeSetting ==
    /\ stage = "editing" /\ Written < MaxSettings
    /\ \E s \in Settings :
         /\ layer[s[1]][s[2]] = Unset
         /\ layer' = [layer EXCEPT ![s[1]][s[2]] = s[3]]
    /\ UNCHANGED <<profiled, trusted, stage, cfg, opts>>

-----------------------------------------------------------------------------
(* Loading: later layers override the keys they set.                          *)

overlay(base, src, keys) ==
    [k \in Keys |-> IF k \in keys /\ src[k] # Unset THEN src[k] ELSE base[k]]

\* A file that predates modes and names only a coder or an adversary selects
\* the adversarial mode; one in relay mode that names a coder means the relay's.
mergeDefaults(base, src) ==
    LET legacy == /\ src["mode"] = Unset /\ src["worker"] = Unset /\ src["supervisor"] = Unset
                  /\ (src["coder"] # Unset \/ src["adversary"] # Unset)
        relayCoder == src["mode"] = "relay" /\ src["coder"] # Unset /\ src["relay_coder"] = Unset
    IN  [overlay(base, src, ProfileKeys) EXCEPT
           !["mode"] = IF legacy THEN "adversarial" ELSE @,
           !["relay_coder"] = IF relayCoder THEN src["coder"] ELSE @]

mergeAdapters(base, src) == overlay(base, src, AdapterKeys)
mergeProfiles(base, src) == overlay(base, src, ProfileKeys)

\* Mutant of sanitizeProfile: only the defaults are stripped.
keepProfile(src) == src

\* What only the operator may decide is dropped from a repository's file,
\* from its defaults, from each of its profiles and from its adapters.
sanitizeDefaults(src) == [k \in Keys |-> IF k \in Authority THEN Unset ELSE src[k]]
sanitizeProfile(src)  == [k \in Keys |-> IF k \in Authority THEN Unset ELSE src[k]]
sanitizeAdapters(src) == [k \in Keys |-> IF k \in AdapterAuthority THEN Unset ELSE src[k]]

mergeConfig(base, src) == mergeAdapters(mergeDefaults(base, src), src)

\* The process environment wins over the file in the working directory.
envLookup == overlay(layer["dotenv"], layer["env"], Keys)

\* The environment knows both old spellings too, whatever other roles it names.
mergeEnvRoles(base, env) ==
    LET legacy == env["mode"] = Unset /\ (env["coder"] # Unset \/ env["adversary"] # Unset)
        relayCoder == env["mode"] = "relay" /\ env["coder"] # Unset /\ env["relay_coder"] = Unset
    IN  [overlay(base, env, RoleKeys \cup {"mode"}) EXCEPT
           !["mode"] = IF legacy THEN "adversarial" ELSE @,
           !["relay_coder"] = IF relayCoder THEN env["coder"] ELSE @]

\* Fallbacks have no variables; neither have the test presets.
mergeEnvSettings(base, env) ==
    overlay(base, env, {"test", "limit", "loss.worker", "loss.reviewer", "loss.supervisor",
                        "loss.scout", "rounds", "scout_failure_policy"})
mergeEnvAdapters(base, env) == overlay(base, env, AdapterKeys \ {"steward", "presets"})

mergeEnvConfig(base, env) == mergeEnvAdapters(mergeEnvSettings(mergeEnvRoles(base, env), env), env)

\* Adapters, services and commands are checked when they are loaded, the rest
\* when a run's options are resolved.
validateConfig(defaults) == \A k \in AdapterKeys \cup {"test"} : defaults[k] # Bogus

LoadConfig ==
    LET repo  == IF trusted THEN layer["repo"] ELSE sanitizeAdapters(sanitizeDefaults(layer["repo"]))
        repoP == IF trusted THEN layer["repoProfile"] ELSE sanitizeProfile(layer["repoProfile"])
        defaults == mergeEnvConfig(mergeConfig(mergeConfig(BuiltIn, layer["user"]), repo), envLookup)
    IN
    /\ stage = "editing"
    /\ IF validateConfig(defaults)
       THEN /\ stage' = "loaded"
            /\ cfg' = [defaults |-> defaults,
                       profile  |-> IF profiled
                                    THEN mergeProfiles(mergeProfiles(Blank(Keys), layer["userProfile"]), repoP)
                                    ELSE Blank(Keys)]
       ELSE stage' = "rejected" /\ UNCHANGED cfg
    /\ UNCHANGED <<layer, profiled, trusted, opts>>

-----------------------------------------------------------------------------
(* Resolving: the flags win over the profile, and the profile over the       *)
(* defaults; a job fills what is left open.                                   *)

\* The last value that is set, Unset when none is.
LastSet(s) ==
    LET set == {i \in DOMAIN s : s[i] # Unset} IN IF set = {} THEN Unset ELSE s[Max(set)]

profileMode(p) ==
    CASE p["mode"] # Unset                            -> p["mode"]
      [] p["mode"] = Unset /\ p["scout"] # Unset         -> "relay"
      [] p["mode"] = Unset /\ p["scout"] = Unset /\ (p["coder"] # Unset \/ p["adversary"] # Unset)
           -> "adversarial"
      [] p["mode"] = Unset /\ p["scout"] = Unset /\ p["coder"] = Unset /\ p["adversary"] = Unset
           /\ (p["worker"] # Unset \/ p["supervisor"] # Unset) -> "supervisor"
      [] OTHER -> Unset

\* A job selects the workflow unless a flag or the profile pinned it.
resolveMode(d, p, f) ==
    LET explicit == LastSet(<<profileMode(p), f["mode"],
                              IF f["relay"] # Unset THEN "relay" ELSE Unset,
                              IF f["solo"] # Unset THEN "solo" ELSE Unset>>)
    IN  CASE explicit # Unset   -> explicit
          [] explicit = Unset /\ f["job"] # Unset -> Jobs[f["job"]].mode
          [] OTHER -> d["mode"]

configuredTargetsForMode(d, mode) ==
    [slot \in {"editor", "reviewer", "scout"} |->
       CASE slot = "editor" /\ mode \in {"solo", "supervisor"} -> d["worker"]
         [] slot = "editor" /\ mode = "adversarial" -> d["coder"]
         [] slot = "editor" /\ mode = "relay" -> LastSet(<<d["coder"], d["relay_coder"]>>)
         [] slot = "reviewer" /\ mode = "adversarial" -> d["adversary"]
         [] slot = "reviewer" /\ mode \in {"supervisor", "relay"} -> d["supervisor"]
         [] slot = "scout" /\ mode = "relay" -> d["scout"]
         [] OTHER -> Unset]

profileTargets(p, mode) ==
    [slot \in {"editor", "reviewer", "scout"} |->
       CASE slot = "editor" /\ mode \in {"solo", "supervisor"} -> p["worker"]
         [] slot = "editor" /\ mode = "adversarial" -> p["coder"]
         [] slot = "editor" /\ mode = "relay" -> LastSet(<<p["coder"], p["worker"]>>)
         [] slot = "reviewer" /\ mode = "adversarial" -> p["adversary"]
         [] slot = "reviewer" /\ mode \in {"supervisor", "relay"} -> p["supervisor"]
         [] slot = "scout" /\ mode = "relay" -> p["scout"]
         [] OTHER -> Unset]

\* A key of the profile over the same key of the defaults.
Layered(key) == LastSet(<<cfg.defaults[key], cfg.profile[key]>>)

SlotFlags == [editor   |-> <<"mc", "model", "solo", "worker", "coder">>,
              reviewer |-> <<"ma", "reviewer", "supervisor">>,
              scout    |-> <<"scout">>]

\* A role flag outside its mode is rejected, not ignored.
FlagsFit(f, mode) ==
    /\ f["worker"] # Unset     => mode # "adversarial"
    /\ f["coder"] # Unset      => mode \in {"adversarial", "relay"}
    /\ f["ma"] # Unset         => mode # "solo"
    /\ f["reviewer"] # Unset   => mode = "adversarial"
    /\ f["supervisor"] # Unset => mode \in {"supervisor", "relay"}
    /\ f["scout"] # Unset      => mode = "relay"
    /\ f["strict-scout"] # Unset => mode = "relay"

\* Each setting that was chosen is one the program knows; the mode is looked
\* at before --relay and before a job replaces it.
validateSettings(o, f) ==
    /\ Bogus # LastSet(<<cfg.defaults["mode"], profileMode(cfg.profile), f["mode"],
                         IF f["solo"] # Unset THEN "solo" ELSE Unset>>)
    /\ Bogus \notin {o.limit, Layered("scout_failure_policy")}
    /\ \A r \in DOMAIN o.loss : o.loss[r] # Bogus

\* Mutant of Explicit: the profile wins over the flags.
ProfileFirst(p, f, mode) ==
    [slot \in {"editor", "reviewer", "scout"} |->
       LastSet([i \in DOMAIN SlotFlags[slot] |-> f[SlotFlags[slot][i]]]
               \o <<profileTargets(p, mode)[slot]>>)]

\* What an operator named for each slot, by profile or flag.
Explicit(p, f, mode) ==
    [slot \in {"editor", "reviewer", "scout"} |->
       LastSet(<<profileTargets(p, mode)[slot]>>
               \o [i \in DOMAIN SlotFlags[slot] |-> f[SlotFlags[slot][i]]])]

\* A slot counts as pinned only when what was named for it parses.
pinnedRoutingSlots(explicit, mode) ==
    LET pinned == {s \in SlotsForMode(mode) : Parses(explicit[s])}
    IN  [s \in pinned |-> explicit[s]]

normalizeFallbackTargets(raw, primary) ==
    LET add(out, t) == IF \/ t = primary \/ ~Parses(t) \/ Len(out) = 5
                          \/ \E i \in DOMAIN out : out[i] = t
                       THEN out ELSE Append(out, t)
    IN  FoldLeft(add, <<>>, raw)

List(value) == IF value = Unset THEN <<>> ELSE <<value>>

mergeRoutingFallbacks(configured, decision, mode) ==
    LET routed(slot) == IF slot \in DOMAIN decision THEN decision[slot].fallbacks ELSE <<>>
    IN  [configured EXCEPT
           !.worker     = @ \o routed("editor"),
           !.reviewer   = IF mode = "adversarial" THEN @ \o routed("reviewer") ELSE @,
           !.supervisor = IF mode = "adversarial" THEN @ ELSE @ \o routed("reviewer")]

\* The label under which a slot finds its fallbacks and its loss policy.
roleLabel(slot, mode) ==
    CASE slot = "editor" -> "worker"
      [] slot = "reviewer" /\ mode = "adversarial" -> "reviewer"
      [] OTHER -> "supervisor"

fallbackTargetsForRole(o, slot) ==
    LET primary == o.target[slot]
        keyed == IF primary = Keyed THEN o.byTarget ELSE <<>>
    IN  normalizeFallbackTargets(keyed \o o.fallbacks[roleLabel(slot, o.mode)], primary)

validateRunRoles(o) ==
    \A slot \in SlotsForMode(o.mode) : ValidateRoleTarget(SlotRole(slot, o.mode), o.target[slot])

validateRunFallbacks(o) ==
    \A slot \in SlotsForMode(o.mode) \ {"scout"} :
        \A i \in DOMAIN fallbackTargetsForRole(o, slot) :
            ValidateRoleTarget(SlotRole(slot, o.mode), fallbackTargetsForRole(o, slot)[i])

\* Claude only reviews; this looks at the targets, not at their fallbacks.
validateClaudeRoleAssignments(o) ==
    \A slot \in SlotsForMode(o.mode) :
        validateRoutedTargetRole(SlotRole(slot, o.mode), o.target[slot])

\* The slots the router may fill, with what it decided: nothing without a job.
routeJob(f, mode, explicit, down) ==
    IF f["job"] = Unset THEN <<>>
    ELSE Route(Jobs[f["job"]], mode, pinnedRoutingSlots(explicit, mode), {f["exclude"]}, down)

Routed(decision) == {s \in DOMAIN decision : decision[s].source = "router"}

\* Slots the router staffed take its target, the others what was configured.
applyRoutedTargets(decision, explicit, mode) ==
    [slot \in {"editor", "reviewer", "scout"} |->
       IF slot \in Routed(decision) THEN decision[slot].target
       ELSE LastSet(<<configuredTargetsForMode(cfg.defaults, mode)[slot], explicit[slot]>>)]

lossOf(role) == LastSet(<<"block", Layered(role)>>)

\* The older knob of the scout counts where its loss policy is not set.
scoutLoss(f) ==
    LET legacy == IF Layered("scout_failure_policy") = "fail" THEN "block" ELSE "degrade"
    IN  LastSet(<<legacy, Layered("loss.scout"), IF f["strict-scout"] # Unset THEN "block" ELSE Unset>>)

\* A job's rounds yield to those a flag or the profile names.
resolveRounds(f) ==
    LastSet(<<cfg.defaults["rounds"], IF f["job"] # Unset THEN Jobs[f["job"]].rounds ELSE Unset,
              cfg.profile["rounds"], f["rounds"]>>)

\* Arguments of the command line follow the configured ones.
mergePassthrough(base, raw) == List(base) \o List(raw)

Assemble(f, mode, explicit, decision) ==
    LET target == applyRoutedTargets(decision, explicit, mode)
        configured == [worker     |-> List(Layered("fallback.worker")),
                       reviewer   |-> List(Layered("fallback.reviewer")),
                       supervisor |-> List(Layered("fallback.supervisor"))]
        merged == mergeRoutingFallbacks(configured, decision, mode)
    IN  [mode |-> mode, target |-> target,
         fallbacks |-> [r \in DOMAIN merged |->
            normalizeFallbackTargets(merged[r],
                                     IF r = "worker" THEN target.editor ELSE target.reviewer)],
         byTarget |-> normalizeFallbackTargets(List(Layered("by_target")), Keyed),
         loss |-> [worker |-> Layered("loss.worker"), reviewer |-> lossOf("loss.reviewer"),
                   supervisor |-> lossOf("loss.supervisor"), scout |-> scoutLoss(f)],
         test |-> LastSet(<<Layered("test"), f["test"]>>), limit |-> Layered("limit"),
         rounds |-> resolveRounds(f),
         args |-> mergePassthrough(cfg.defaults["args"], f["args"]),
         adapter |-> [k \in AdapterKeys |-> cfg.defaults[k]],
         routed |-> Routed(decision),
         diverse |-> f["job"] # Unset /\ Jobs[f["job"]].diverse,
         degraded |-> FALSE]

\* An adapter that a probe finds missing is out of the router's reach; an
\* invocation that does not probe assumes that all are there.
ResolveOptions ==
    LET f == layer["flags"]
        mode == resolveMode(cfg.defaults, cfg.profile, f)
        explicit == Explicit(cfg.profile, f, mode)
    IN
    /\ stage = "loaded"
    /\ \E down \in {{}} \cup {{a} : a \in Adapters} :
         LET decision == routeJob(f, mode, explicit, down)
             o == Assemble(f, mode, explicit, decision)
             accepted == /\ f["job"] \in {Unset} \cup DOMAIN Jobs
                         /\ FlagsFit(f, mode)
                         /\ Staffed(decision)
                         /\ \A slot \in SlotsForMode(mode) : Parses(o.target[slot])
         IN  IF /\ accepted /\ validateSettings(o, f)
                /\ validateRunRoles(o) /\ validateRunFallbacks(o) /\ validateClaudeRoleAssignments(o)
             THEN stage' = "resolved" /\ opts' = o
             ELSE stage' = "rejected" /\ UNCHANGED opts
    /\ UNCHANGED <<layer, profiled, trusted, cfg>>

-----------------------------------------------------------------------------
(* Starting and losing roles. Adapters come and go while a run lives, so each *)
(* choice finds its own set of them runnable.                                 *)

Replaces(policy) == policy \in {"replace_then_block", "replace_then_degrade"}

\* The first target of the list whose adapter is runnable; Unset when none is.
FirstRunnable(list, up) ==
    LET runnable == {i \in DOMAIN list : AdapterOf[list[i]] \in up}
    IN  IF runnable = {} THEN Unset ELSE list[Min(runnable)]

replace(o, slot, t) == [o EXCEPT !.target[slot] = t, !.degraded = TRUE]

\* The primary if it is runnable, else a replacement if the policy has one.
selectRunnableRoleAdapter(o, slot, up) ==
    LET primary == o.target[slot]
        other == FirstRunnable(fallbackTargetsForRole(o, slot), up)
    IN  CASE AdapterOf[primary] \in up -> o
          [] AdapterOf[primary] \notin up /\ other # Unset
               /\ Replaces(o.loss[roleLabel(slot, o.mode)]) -> replace(o, slot, other)
          [] OTHER -> NoOptions

Runnable == {Adapters \ {a} : a \in Adapters} \cup {Adapters}

start ==
    /\ stage = "resolved"
    /\ \E up \in Runnable :
         LET edits == selectRunnableRoleAdapter(opts, "editor", up)
             team  == IF edits = NoOptions \/ opts.mode = "solo" THEN edits
                      ELSE selectRunnableRoleAdapter(edits, "reviewer", up)
         IN  IF team = NoOptions
             THEN stage' = "lost" /\ UNCHANGED opts
             ELSE stage' = "running" /\ opts' = team
    /\ UNCHANGED <<layer, profiled, trusted, cfg>>

\* A call of the reviewer fails: each replacement that is runnable is tried.
reviewerLost ==
    /\ stage = "running" /\ opts.mode # "solo"
    /\ LET list == fallbackTargetsForRole(opts, "reviewer") IN
       IF Replaces(opts.loss[roleLabel("reviewer", opts.mode)])
       THEN \/ stage' = "lost" /\ UNCHANGED opts
            \/ \E i \in DOMAIN list : opts' = replace(opts, "reviewer", list[i]) /\ UNCHANGED stage
       ELSE stage' = "lost" /\ UNCHANGED opts
    /\ UNCHANGED <<layer, profiled, trusted, cfg>>

\* A recovery decision hands the work to the first runnable replacement.
editorLost ==
    /\ stage = "running" /\ Replaces(opts.loss["worker"])
    /\ \E up \in Runnable :
         LET t == FirstRunnable(fallbackTargetsForRole(opts, "editor"), up) IN
         IF t = Unset THEN stage' = "lost" /\ UNCHANGED opts
         ELSE opts' = replace(opts, "editor", t) /\ UNCHANGED stage
    /\ UNCHANGED <<layer, profiled, trusted, cfg>>

OptionsNext ==
    \/ writeSetting \/ LoadConfig \/ ResolveOptions
    \/ start \/ reviewerLost \/ editorLost

OptionsSpec == OptionsInit /\ [][OptionsNext]_optionsVars

-----------------------------------------------------------------------------
(* Properties.                                                                *)

Settled == stage \in {"resolved", "running"}

\* What the flags, and else the profile, name for a slot.
FlagTargets(slot) == {layer["flags"][SlotFlags[slot][i]] : i \in DOMAIN SlotFlags[slot]} \ {Unset}
ProfileTarget(slot) == profileTargets(cfg.profile, opts.mode)[slot]

\* What an operator named for a slot: by flag, and if by none, by the profile.
NamedFor(slot) ==
    IF FlagTargets(slot) # {} THEN FlagTargets(slot) ELSE {ProfileTarget(slot)} \ {Unset}

\* A slot that a flag or the profile names holds what they name, whatever files,
\* environment, job, probe, exclusions and the other slots say, as long as
\* nothing was replaced. Only a name that does not parse is no pin
\* (pinnedRoutingSlots): the router may staff that slot, and nothing else may.
ParsedPinsAreKept ==
    Settled /\ ~opts.degraded =>
        \A slot \in SlotsForMode(opts.mode) :
            \/ NamedFor(slot) = {}
            \/ opts.target[slot] \in NamedFor(slot)
            \/ slot \in opts.routed /\ \E t \in NamedFor(slot) : ~Parses(t)

\* An operator's choice always wins (README.md:116), also one that does not
\* parse: the comment in pinnedRoutingSlots expects it to be reported.
PinsAreKept ==
    Settled /\ ~opts.degraded =>
        \A slot \in SlotsForMode(opts.mode) :
            NamedFor(slot) # {} => opts.target[slot] \in NamedFor(slot)

\* A job that asks for a diverse reviewer gets one, unless the run says that a
\* role was replaced: the reviewer the router chose has a card of another family
\* than a card of the editor, and nothing but an operator's pin puts an editor
\* without a card beside it, whose adapter then counts as its family.
AuditIsOfAnotherFamily ==
    Settled /\ opts.diverse /\ ~opts.degraded
    /\ "reviewer" \in opts.routed /\ "reviewer" \in SlotsForMode(opts.mode)
        => \E c \in cardForTarget(opts.target.reviewer) :
              \/ \E d \in cardForTarget(opts.target.editor) : c.family # d.family
              \/ /\ cardForTarget(opts.target.editor) = {}
                 /\ "editor" \notin opts.routed
                 /\ c.family # AdapterOf[opts.target.editor]

\* The same of the families that the models really belong to ("never quietly",
\* README.md:129).
AuditIsIndependent ==
    Settled /\ opts.diverse /\ ~opts.degraded
    /\ "reviewer" \in opts.routed /\ "reviewer" \in SlotsForMode(opts.mode)
        => FamilyOf[opts.target.reviewer] # FamilyOf[opts.target.editor]

\* The values a key has in the repository's file and nowhere else.
RepoOnly(key) ==
    {layer[s][key] : s \in {"repo", "repoProfile"}}
    \ ({layer[s][key] : s \in Tables \ {"repo", "repoProfile"}} \cup {BuiltIn[key], Unset})

LossKey == [worker |-> "loss.worker", reviewer |-> "loss.reviewer",
            supervisor |-> "loss.supervisor", scout |-> "loss.scout"]
FallbackKey == [worker |-> "fallback.worker", reviewer |-> "fallback.reviewer",
                supervisor |-> "fallback.supervisor"]

\* A repository that is not trusted decides nothing of what only the operator
\* may decide: neither the command that tests, nor what happens to a role
\* that is lost, nor who replaces it comes from its file or its profiles.
AuthorityIsTrusted ==
    Settled /\ ~trusted =>
        /\ opts.test \notin RepoOnly("test") \/ layer["flags"]["test"] = opts.test
        /\ \A r \in DOMAIN opts.loss : opts.loss[r] \notin RepoOnly(LossKey[r]) \/ opts.loss[r] = "block"
        /\ \A r \in DOMAIN opts.fallbacks : \A i \in DOMAIN opts.fallbacks[r] :
               opts.fallbacks[r][i] \in RepoOnly(FallbackKey[r]) => opts.routed # {}
        /\ opts.limit \notin RepoOnly("limit")
        /\ \A k \in AdapterAuthority : opts.adapter[k] \notin RepoOnly(k)
        /\ \A i \in DOMAIN opts.byTarget : opts.byTarget[i] \notin RepoOnly("by_target")
=============================================================================
