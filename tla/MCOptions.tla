------------------------------ MODULE MCOptions ------------------------------
EXTENDS Options

Level(c, a, r) == [coding |-> c, audit |-> a, reliability |-> r]
Card(k, o, t, f, s, l) ==
    [key |-> k, order |-> o, target |-> t, family |-> f, slots |-> s, level |-> l,
     tokens |-> 0, disabled |-> FALSE]

MCRoster == {
    Card("terra", 1, "codex:terra", "openai", {"editor", "reviewer"}, Level(4, 2, 3)),
    Card("sol", 2, "codex:sol", "openai", {"editor", "reviewer"}, Level(3, 3, 3)),
    Card("grok", 3, "grok:grok", "xai", {"editor", "reviewer"}, Level(3, 2, 2)),
    Card("sonnet", 4, "claude:sonnet", "anthropic", {"reviewer"}, Level(3, 3, 3)),
    Card("gemma", 5, "oai:gemma", "local", {"scout"}, Level(1, 1, 1))}

MCAdapterOf == ("codex:terra" :> "codex") @@ ("codex:sol" :> "codex") @@ ("codex" :> "codex")
    @@ ("grok:grok" :> "grok") @@ ("claude:sonnet" :> "claude")
    @@ ("oai:gemma" :> "openai-compatible") @@ (":model" :> "")

MCFamilyOf == ("codex:terra" :> "openai") @@ ("codex:sol" :> "openai") @@ ("codex" :> "openai")
    @@ ("grok:grok" :> "xai") @@ ("claude:sonnet" :> "anthropic") @@ ("oai:gemma" :> "local")

Need(req, pref) == [require |-> req, prefer |-> pref, tokens |-> 0, candidates |-> {}]

MCJobs ==
    ("patch" :> [mode |-> "supervisor", diverse |-> TRUE, rounds |-> "1",
       roles |-> [editor   |-> Need([coding |-> 3], <<"coding", "reliability">>),
                  reviewer |-> Need([audit |-> 2], <<"audit">>)]]) @@
    ("research" :> [mode |-> "relay", diverse |-> FALSE, rounds |-> "",
       roles |-> [editor |-> Need([coding |-> 3], <<>>), reviewer |-> Need([audit |-> 3], <<"audit">>)]]) @@
    ("audit" :> [mode |-> "adversarial", diverse |-> TRUE, rounds |-> "1",
       roles |-> [editor   |-> Need([coding |-> 2], <<"coding">>),
                  reviewer |-> Need([audit |-> 2], <<"audit">>)]])

MCBuiltIn == [k \in Keys |->
    CASE k = "mode" -> "supervisor"
      [] k = "worker" -> "codex:terra"
      [] k \in {"coder", "relay_coder"} -> "codex:sol"
      [] k \in {"supervisor", "adversary"} -> "claude:sonnet"
      [] k = "scout" -> "oai:gemma"
      [] k = "loss.worker" -> "replace_then_block"
      [] k \in {"loss.reviewer", "loss.supervisor"} -> "block"
      [] k = "fallback.worker" -> "codex:sol"
      [] k = "loss.scout" -> "degrade"
      [] k = "rounds" -> "2"
      [] OTHER -> ""]

MCAdapters == {"codex", "grok", "claude", "openai-compatible"}

\* What may be written: the operator's files and environment, the
\* repository's file, both sides of the profile, and the flags.
MCSettings ==
    ({"user", "env"} \X {"mode"} \X {"relay"}) \cup
    ({"dotenv"} \X {"coder"} \X {"grok:grok"}) \cup
    ({"repo", "repoProfile"} \X {"fallback.worker", "by_target"} \X {"grok:grok"}) \cup
    ({"repo", "repoProfile"} \X {"loss.supervisor"} \X {"replace_then_block"}) \cup
    ({"repo", "repoProfile"} \X {"test"} \X {"repo test"}) \cup
    ({"repo"} \X {"args", "endpoint"} \X {"theirs"}) \cup
    ({"userProfile"} \X {"loss.supervisor", "loss.reviewer"} \X {"replace_then_degrade"}) \cup
    ({"user"} \X {"by_target"} \X {"codex:sol"}) \cup
    ({"user"} \X {"endpoint", "limit"} \X {"bogus"}) \cup
    ({"userProfile"} \X {"mode"} \X {"solo", "adversarial"}) \cup
    ({"userProfile", "repoProfile"} \X {"worker"} \X {"codex:sol"}) \cup
    ({"flags"} \X {"job"} \X {"patch", "audit", "research", "unknown"}) \cup
    ({"flags"} \X {"mode"} \X {"adversarial"}) \cup
    ({"flags"} \X {"relay", "strict-scout"} \X {"yes"}) \cup
    ({"flags"} \X {"solo", "mc", "worker"} \X {"grok:grok"}) \cup
    ({"flags"} \X {"ma", "supervisor"} \X {"grok:grok"}) \cup
    ({"flags"} \X {"model"} \X {"claude:sonnet"}) \cup
    ({"flags"} \X {"exclude"} \X {"codex", "sonnet"})
    \* Pins of a model that has no card, and pins that do not parse.
    \cup ({"flags"} \X {"mc", "worker"} \X {"codex", ":model"})
    \cup ({"flags"} \X {"ma"} \X {":model"})
=============================================================================
