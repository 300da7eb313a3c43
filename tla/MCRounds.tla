------------------------------ MODULE MCRounds -------------------------------
EXTENDS ReviewRounds

\* A reply is repaired by the worker, or a second reviewer is asked.  With two
\* packages the tests pass at the baseline; with one they may fail there already.
\* Without tests the operator gives a command.
MCSettings ==
    {[reviewers |-> c[1], repair |-> c[1] = 1, packages |-> c[2], tests |-> c[3] # "none",
      oldFails |-> c[3] = "old", failOnReview |-> f, commands |-> IF c[3] = "none" THEN 1 ELSE 0] :
        c \in {<<1, 1, "none">>, <<2, 1, "old">>, <<1, 2, "new">>}, f \in BOOLEAN}

\* Nothing is recognised, or the old failure only, or the new one as well.
MCNamings == {{}, {Old}, {Old, "bug"}}
=============================================================================
