--------------------------- MODULE SessionEnforcement ---------------------------
(***************************************************************************)
(* The session lock (gateway/policy/session_enforcement.py): its table and *)
(* its operations, as functions of the table.  Time is kept as the age of  *)
(* a lock, in ticks of the clock since its last_high_risk_at.              *)
(***************************************************************************)
EXTENDS Integers, FiniteSets, SequencesExt

CONSTANTS
  Sessions,
  Enabled,     \* the threshold is evaluated at all
  Threshold,   \* high-risk events that lock a session
  LockAction,  \* what a locked session's actions become
  Cooldown,    \* ticks after which a lock expires, 0 for never
  MaxTracked,  \* capacity of the table
  Unlocked     \* no lock on the session

LockActions == {"defer", "block", "l3_require"}

Locks == [action : LockActions, age : 0..Cooldown]

\* by : session -> its lock or Unlocked, order : the locked sessions as dict
\* keys are ordered.
NoLocks == [by |-> [s \in Sessions |-> Unlocked], order |-> <<>>]

Locked(p, s) == p.by[s] # Unlocked

Expired(p, s) == Cooldown > 0 /\ Locked(p, s) /\ p.by[s].age >= Cooldown

\* Fault: the key stays behind.
UnlockLeavingKey(p, s) == [p EXCEPT !.by[s] = Unlocked]

\* del self._enforced[s]
Unlock(p, s) ==
  [by |-> [p.by EXCEPT ![s] = Unlocked], order |-> RemoveFirst(p.order, s)]

\* check(): a lock that has expired is dropped when somebody looks.
Checked(p, s) == IF Expired(p, s) THEN Unlock(p, s) ELSE p

\* A lock is put under the session, in its old place if it had one; when there
\* is one too many the oldest key goes.
Put(p, s, lock) ==
  LET by    == [p.by EXCEPT ![s] = lock]
      order == IF Locked(p, s) THEN p.order ELSE Append(p.order, s)
  IN  IF Len(order) > MaxTracked
      THEN [by |-> [by EXCEPT ![Head(order)] = Unlocked], order |-> Tail(order)]
      ELSE [by |-> by, order |-> order]

\* force(): a new lock whatever was there.
Forced(p, s, action) == Put(p, s, [action |-> action, age |-> 0])

\* Fault: a session over the threshold toggles its lock.
EvaluatedToggling(p, s, count) ==
  IF ~Enabled \/ count < Threshold THEN p
  ELSE IF Locked(p, s) THEN Unlock(p, s)
  ELSE Put(p, s, [action |-> LockAction, age |-> 0])

\* evaluate_threshold(): at or over the threshold, a lock that is there starts
\* its cooldown again and a session without one gets one.
Evaluated(p, s, count) ==
  IF ~Enabled \/ count < Threshold THEN p
  ELSE IF Locked(p, s) THEN [p EXCEPT !.by[s].age = 0]
  ELSE Put(p, s, [action |-> LockAction, age |-> 0])

\* release()
Released(p, s) == IF Locked(p, s) THEN Unlock(p, s) ELSE p

\* One tick of the clock; ages past the cooldown make no difference.
Older(p) ==
  [p EXCEPT !.by = [s \in Sessions |->
     IF Locked(p, s) /\ p.by[s].age < Cooldown
     THEN [p.by[s] EXCEPT !.age = @ + 1] ELSE p.by[s]]]

IsLockTable(p) ==
  /\ p.by \in [Sessions -> {Unlocked} \union Locks]
  /\ ToSet(p.order) = {s \in Sessions : Locked(p, s)}
  /\ IsInjective(p.order)
  /\ Len(p.order) <= MaxTracked
=============================================================================
