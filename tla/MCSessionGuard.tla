----------------------------- MODULE MCSessionGuard -----------------------------
EXTENDS SessionGuard

CONSTANTS s1, s2, r1, r2, r3

OneSession  == [r \in Requests |-> s1]
OddOneOut   == [r \in Requests |-> IF r = r1 THEN s1 ELSE s2]

\* Every request is an event of its own, or r2 comes under the event id of r1.
OwnEvents == [r \in Requests |-> r]
TwoTries  == [r \in Requests |-> IF r = r2 THEN r1 ELSE r]

\* No session scope, or one that lets r1 pass and denies r3 its capability.
Unscoped == [r \in Requests |-> "neutral"]

Scoped ==
  [r \in Requests |->
     CASE r = r1 -> "allow" [] r = r3 -> "capability" [] OTHER -> "neutral"]
=============================================================================
