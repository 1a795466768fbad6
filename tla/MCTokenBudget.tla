----------------------------- MODULE MCTokenBudget -----------------------------
EXTENDS TokenBudget

CONSTANTS r1, r2, r3

Use(i, o) == [input |-> i, output |-> o]

\* No usage, usage out of scope, and one or two tokens in scope.
InputUsages == {Use(0, 0), Use(0, 1), Use(1, 0), Use(2, 1)}
=============================================================================
