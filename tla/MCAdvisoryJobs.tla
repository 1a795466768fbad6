---------------------------- MODULE MCAdvisoryJobs ----------------------------
EXTENDS AdvisoryJobs

\* A high-risk decision on a heartbeat, and a harmless one with an alert pending.
MCEvents ==
  {[risk |-> "high", compat |-> TRUE, alert |-> FALSE],
   [risk |-> "low", compat |-> FALSE, alert |-> TRUE]}
=============================================================================
