------------------------------ MODULE MCChoices ------------------------------
(* What is decided before and between the calls of agents: the options and   *)
(* the team of a run, and its topology, packages and scopes. A behaviour has  *)
(* one of the two; the other is over.                                         *)
EXTENDS MCOptions, MCWorkPlans

OptionsOver ==
    /\ layer = [s \in Tables \cup {"flags"} |-> IF s = "flags" THEN Blank(Flags) ELSE Blank(Keys)]
    /\ profiled = FALSE /\ trusted = FALSE
    /\ stage = "rejected" /\ cfg = NoConfig /\ opts = NoOptions

WorkOver ==
    /\ request = CHOOSE r \in Requests : TRUE
    /\ mode = request.mode /\ advice = [worker |-> "none", supervisor |-> "none"]
    /\ step = "done" /\ round = 1 /\ completed = 0 /\ scout = "none"
    /\ plan = NoPlan /\ selected = "" /\ items = <<>> /\ scope = {}
    /\ disk = [plan |-> NoPlan, phase |-> "planning", round |-> 1]
    /\ worked = {} /\ approved = {} /\ resumes = 0

Init ==
    \/ OptionsInit /\ WorkOver
    \/ OptionsOver /\ WorkInit

Next ==
    \/ OptionsNext /\ UNCHANGED workVars
    \/ WorkNext /\ UNCHANGED optionsVars

Spec == Init /\ [][Next]_<<optionsVars, workVars>>
=============================================================================
