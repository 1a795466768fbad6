----------------------------- MODULE MCTieredReview -----------------------------
EXTENDS TieredReview

CONSTANTS s1, s2

Plain == [kind |-> "pre_action", level |-> Low, authority |-> "plain", routing |-> 0,
          policy |-> "none", trigger |-> "none", l3 |-> FALSE, pending |-> FALSE,
          scope |-> "none"]

Route == [Plain EXCEPT !.authority = "contextual", !.level = High, !.routing = 2]

\* Actions on contextual routes, a hard block, and actions and observations
\* that are reviewed because of a request, of their risk or of a key domain.
Cases == <<
  Route,
  [Route EXCEPT !.pending = TRUE, !.scope = "allow"],
  [Route EXCEPT !.routing = 3, !.l3 = TRUE, !.policy = "defer"],
  [Route EXCEPT !.l3 = TRUE, !.level = Medium, !.scope = "capability"],
  [Plain EXCEPT !.authority = "hard", !.level = Critical, !.scope = "defer"],
  [Plain EXCEPT !.scope = "defer"],
  [Plain EXCEPT !.level = Medium, !.policy = "block"],
  [Plain EXCEPT !.level = High, !.trigger = "key", !.policy = "defer"],
  [Plain EXCEPT !.trigger = "manual", !.policy = "defer", !.scope = "deny"],
  [Plain EXCEPT !.level = Medium, !.kind = "observed", !.trigger = "key"]>>

AllCases == 1..Len(Cases)
Halves == [e \in AllCases |-> IF e % 2 = 0 THEN s2 ELSE s1]
=============================================================================
