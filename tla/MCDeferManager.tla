--------------------------- MODULE MCDeferManager ---------------------------
(* A small instance of the approval table for TLC.  t1 and t2 are two       *)
(* confirmations that carry the same caller-chosen id; t3 is a deferred      *)
(* decision with an id of its own.                                           *)
EXTENDS DeferManager, TLC

CONSTANTS t1, t2, t3, shared, own3, hash, h1, h2

Same == (hash :> h1)
Other == (hash :> h2)

\* What an operator sends back besides no binding at all: it fits t3's
\* approval or contradicts it.
MCBindings == {Same, Other}

MCTasks == {t1, t2, t3}
MCIds == {shared, own3}
MCIdOf == t1 :> shared @@ t2 :> shared @@ t3 :> own3
MCBindingOf == t1 :> NoBinding @@ t2 :> NoBinding @@ t3 :> Same
=============================================================================
