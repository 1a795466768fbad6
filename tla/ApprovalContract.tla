-------------------------- MODULE ApprovalContract --------------------------
(***************************************************************************)
(* What the approval bridge promises one caller, without tables, records,  *)
(* ids or events: a request is turned away, or it is opened and then       *)
(* closed once, with the answer an operator gave while it was open or, its *)
(* time being over, with the configured timeout action.                    *)
(***************************************************************************)
CONSTANTS Tasks, Answers, TimeoutAction

VARIABLES
  phase,    \* request -> "new", "refused", "open", "closed" or "dropped"
  said,     \* request -> the answer that stands for it, or "none"
  expired,  \* requests whose time is over
  verdict   \* request -> what its caller was told, or "none"

cvars == <<phase, said, expired, verdict>>

Init ==
  /\ phase = [t \in Tasks |-> "new"]
  /\ said = [t \in Tasks |-> "none"]
  /\ expired = {}
  /\ verdict = [t \in Tasks |-> "none"]

Open(t) ==
  /\ phase[t] = "new"
  /\ phase' = [phase EXCEPT ![t] = "open"]
  /\ UNCHANGED <<said, expired, verdict>>

TurnAway(t) ==
  /\ phase[t] = "new"
  /\ phase' = [phase EXCEPT ![t] = "refused"]
  /\ UNCHANGED <<said, expired, verdict>>

\* One answer per request, and only while it is open.
Say(t, d) ==
  /\ phase[t] = "open"
  /\ said[t] = "none"
  /\ said' = [said EXCEPT ![t] = d]
  /\ UNCHANGED <<phase, expired, verdict>>

Expire(t) ==
  /\ phase[t] = "open"
  /\ t \notin expired
  /\ expired' = expired \union {t}
  /\ UNCHANGED <<phase, said, verdict>>

Close(t) ==
  /\ phase[t] = "open"
  /\ \/ said[t] # "none" /\ verdict' = [verdict EXCEPT ![t] = said[t]]
     \/ t \in expired /\ verdict' = [verdict EXCEPT ![t] = TimeoutAction]
  /\ phase' = [phase EXCEPT ![t] = "closed"]
  /\ UNCHANGED <<said, expired>>

Drop(t) ==
  /\ phase[t] = "open"
  /\ phase' = [phase EXCEPT ![t] = "dropped"]
  /\ UNCHANGED <<said, expired, verdict>>

Step(t) ==
  \/ Open(t) \/ TurnAway(t) \/ Expire(t) \/ Close(t) \/ Drop(t)
  \/ \E d \in Answers : Say(t, d)

Next == \E t \in Tasks : Step(t)

Spec ==
  /\ Init
  /\ [][Next]_cvars
  /\ \A t \in Tasks : WF_cvars(Expire(t)) /\ WF_cvars(Close(t))
=============================================================================
