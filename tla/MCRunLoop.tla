----------------------------- MODULE MCRunLoop ------------------------------
\* Model of RunLoop for TLC: two contents besides the clean one, of which one
\* fails the tests.
EXTENDS RunLoop

CONSTANTS clean, good, bad

MCContents == {clean, good, bad}
MCFailing == {bad}

=============================================================================
