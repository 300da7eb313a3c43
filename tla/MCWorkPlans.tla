----------------------------- MODULE MCWorkPlans -----------------------------
EXTENDS WorkPlans

Dir(p)  == [path |-> p, dir |-> TRUE]
File(p) == [path |-> p, dir |-> FALSE]

MCPaths == {<<"a">>, <<"a", "x">>, <<"a", "y">>, <<"b">>}

MCOperatorScopes == {{}, {Root}, {Dir(<<"a">>)}, {File(<<"a", "x">>), File(<<"b">>)}}

MCRequests ==
    {o \in [mode: {"supervisor", "relay"}, explicit: BOOLEAN, strict: BOOLEAN, failPolicy: BOOLEAN,
            contextPolicy: {"warn", "skip", "block"}, slicing: BOOLEAN, auto: BOOLEAN,
            requested: {"", "p2", "p9"}, operator: MCOperatorScopes] :
        /\ o.mode = "supervisor" => ~o.explicit /\ ~o.strict /\ ~o.failPolicy /\ o.contextPolicy = "warn"
        /\ o.mode = "relay" => ~o.slicing
        /\ ~o.slicing => ~o.auto /\ o.requested = ""
        /\ ~o.slicing => o.operator \in {{}, {Dir(<<"a">>)}}
        /\ o.strict => o.failPolicy}

Pkg(i, l, s) == [id |-> i, long |-> l, scope |-> s]
MCAnswers ==
    {[packages |-> <<Pkg("p1", l1, s1), Pkg("p2", l2, s2)>>, selected |-> sel] :
        l1 \in BOOLEAN, l2 \in BOOLEAN, sel \in {"", "p2"},
        s1 \in {{Dir(<<"a">>)}, {File(<<"b">>)}},
        s2 \in {{File(<<"a", "y">>)}, {Root}, {[path |-> <<"..">>, dir |-> FALSE]}, {}}}
    \cup {[packages |-> <<Pkg("p1", FALSE, {Root}), Pkg("p1", FALSE, {Root})>>, selected |-> ""],
          [packages |-> <<Pkg("p1", FALSE, {Root}), Pkg("p2", FALSE, {Root}), Pkg("p3", FALSE, {Root})>>,
           selected |-> "p3"],
          [packages |-> <<>>, selected |-> "p1"]}
=============================================================================
