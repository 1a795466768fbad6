--------------------------- MODULE MCDecisionFlow ---------------------------
(* Small instances of the decision flow for TLC.  a1 and a2 carry the same   *)
(* confirmation, so they share its approval id; a3 and a4 carry the same     *)
(* action, and each would wait on an id of its own; a5 carries a             *)
(* confirmation whose configuration disables the bridge.                     *)
EXTENDS DecisionFlow, TLC

CONSTANTS a1, a2, a3, a4, a5, confirm, action, unrouted, c, c5, d3, d4

MCRequests == {confirm, action, unrouted}
MCConfirmations == {confirm, unrouted}
MCRouted == {confirm, action}

MCAttemptsMixed == {a1, a2, a3}
MCRequestOfMixed == a1 :> confirm @@ a2 :> confirm @@ a3 :> action
MCIdsMixed == {c, d3}
MCApprovalOfMixed == a1 :> c @@ a2 :> c @@ a3 :> d3

MCAttemptsAction == {a3, a4, a5}
MCRequestOfAction == a3 :> action @@ a4 :> action @@ a5 :> unrouted
MCIdsAction == {c5, d3, d4}
MCApprovalOfAction == a3 :> d3 @@ a4 :> d4 @@ a5 :> c5
=============================================================================
