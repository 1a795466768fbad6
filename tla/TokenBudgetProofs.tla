-------------------------- MODULE TokenBudgetProofs --------------------------
(***************************************************************************)
(* Proofs about the daily token budget, for any requests, any usages that  *)
(* responses may report, any limit and scope, any number of calls of the   *)
(* engine and any number of days.                                          *)
(***************************************************************************)
EXTENDS TokenBudget, TLAPS

Usage == [input : Nat, output : Nat]

Tracker ==
  [input : Nat, output : Nat, unknown : Nat, day : 0..LastDay,
   notified : BOOLEAN]

\* The type of every variable of the budget.
BudgetTypeOK ==
  /\ today \in 0..LastDay
  /\ tracker \in Tracker
  /\ lastUsage \in [Inner -> Usage]
  /\ stage \in [Requests -> {"new", "recognising", "evaluating", "done"}]
  /\ exhausted \in [Requests -> BOOLEAN]
  /\ calls \in [Requests -> Nat]
  /\ event \in {NoEvent} \union 0..LastDay
  /\ announced \in [0..LastDay -> Nat]
  /\ reported \in [0..LastDay -> Nat]
  /\ stragglers \subseteq Requests

\* What is announced, and on which day.
AnnouncedOnce ==
  /\ tracker.notified <=> InScope(tracker) >= Limit
  /\ tracker.notified => event = tracker.day
  /\ announced[tracker.day] = IF tracker.notified THEN 1 ELSE 0
  /\ \A d \in 0..LastDay : announced[d] <= 1

\* Nothing has happened yet on a day the tracker has not come to.
FutureIsClear ==
  /\ tracker.day <= today
  /\ \A d \in 0..LastDay : d > tracker.day => announced[d] = 0 /\ reported[d] = 0

\* A request that has read a budget not used up is, once it is used up, one of
\* those that were in flight at that moment.
OvershootKnown ==
  \A r \in Requests :
    /\ stage[r] = "recognising" => ~exhausted[r]
    /\ tracker.notified /\ r \in InFlight /\ ~exhausted[r] => r \in stragglers

BudgetInv ==
  BudgetTypeOK /\ AnnouncedOnce /\ FutureIsClear /\ NothingLost /\ OvershootKnown

-----------------------------------------------------------------------------
\* The tokens in scope are a number, those of a new day and of no usage none.
LEMMA ScopeFacts ==
  /\ \A u \in Usage : InScope(u) \in Nat
  /\ \A t \in Tracker : InScope(t) \in Nat
  /\ InScope(None) = 0
  /\ \A d : InScope(NewDay(d)) = 0
BY BudgetAssumption DEF Usage, Tracker, InScope, None, NewDay

\* The tracker as a method first makes it belongs to today.
LEMMA CurrentFacts ==
  ASSUME BudgetTypeOK
  PROVE  /\ Current(tracker) \in Tracker
         /\ Current(tracker).day = today
         /\ tracker.day = today => Current(tracker) = tracker
         /\ tracker.day # today =>
              InScope(Current(tracker)) = 0 /\ ~Current(tracker).notified
<1>1. CASE tracker.day = today
  BY <1>1 DEF Current, BudgetTypeOK
<1>2. CASE tracker.day # today
  BY <1>2, ScopeFacts DEF Current, NewDay, BudgetTypeOK, Tracker
<1> QED BY <1>1, <1>2

\* A charge adds exactly the tokens in scope of the usage, to those of today,
\* and notes whether the limit has been reached.
LEMMA ChargedFacts ==
  ASSUME BudgetTypeOK, NEW u \in Usage
  PROVE  /\ Charged(tracker, u) \in Tracker
         /\ Charged(tracker, u).day = today
         /\ InScope(Charged(tracker, u)) = InScope(Current(tracker)) + InScope(u)
         /\ u # None =>
              Charged(tracker, u).notified =
                (Current(tracker).notified \/ InScope(Charged(tracker, u)) >= Limit)
         /\ u = None =>
              Charged(tracker, u).notified = Current(tracker).notified
<1>1. PICK c \in Tracker : c = Current(tracker)
  BY CurrentFacts
<1>2. c.day = today
  BY <1>1, CurrentFacts
<1>3. CASE u = None
  <2>1. Charged(tracker, u) = [c EXCEPT !.unknown = @ + 1]
    BY <1>1, <1>3 DEF Charged
  <2>2. InScope(Charged(tracker, u)) = InScope(c)
    BY <2>1, BudgetAssumption DEF InScope, Tracker
  <2>3. InScope(u) = 0 /\ InScope(c) \in Nat
    BY <1>3, ScopeFacts
  <2> QED BY <1>1, <1>2, <1>3, <2>1, <2>2, <2>3 DEF Tracker
<1>4. CASE u # None
  <2>1. PICK a : a = [c EXCEPT !.input = @ + u.input, !.output = @ + u.output]
    OBVIOUS
  <2>2. a \in Tracker /\ a.day = c.day /\ a.notified = c.notified
    <3>1. PICK b : b = [c EXCEPT !.input = @ + u.input]
      OBVIOUS
    <3>2. b \in Tracker /\ b.day = c.day /\ b.notified = c.notified
      BY <3>1 DEF Tracker, Usage
    <3>3. a = [b EXCEPT !.output = @ + u.output]
      BY <2>1, <3>1 DEF Tracker
    <3> QED BY <3>2, <3>3 DEF Tracker, Usage
  <2>3. InScope(a) = InScope(c) + InScope(u)
    BY <2>1, BudgetAssumption DEF InScope, Tracker, Usage
  <2>4. Charged(tracker, u) = [a EXCEPT !.notified = a.notified \/ ~CanSpend(a)]
    BY <1>1, <1>4, <2>1 DEF Charged
  <2>5. InScope(a) \in Nat
    BY <2>2, ScopeFacts
  <2>6. ~CanSpend(a) <=> InScope(a) >= Limit
    BY <2>5, BudgetAssumption DEF CanSpend
  <2>7. /\ Charged(tracker, u) \in Tracker
        /\ Charged(tracker, u).day = a.day
        /\ Charged(tracker, u).notified = (a.notified \/ ~CanSpend(a))
    BY <2>2, <2>4 DEF Tracker, CanSpend
  <2>8. InScope(Charged(tracker, u)) = InScope(a)
    BY <2>2, <2>4, BudgetAssumption DEF InScope, Tracker
  <2> QED BY <1>1, <1>2, <1>4, <2>2, <2>3, <2>6, <2>7, <2>8
<1> QED BY <1>3, <1>4

-----------------------------------------------------------------------------
\* At the start nothing has been used or announced.
THEOREM InitBudgetInv == Init => BudgetInv
<1> SUFFICES ASSUME Init PROVE BudgetInv
  OBVIOUS
<1>1. tracker \in Tracker /\ tracker.day = 0 /\ ~tracker.notified
      /\ InScope(tracker) = 0
  BY ScopeFacts, BudgetAssumption DEF Init, NewDay, Tracker
<1>2. BudgetTypeOK
  BY <1>1, BudgetAssumption DEF Init, BudgetTypeOK, None, Usage, Inner
<1> QED
  BY <1>1, <1>2, BudgetAssumption
  DEF Init, BudgetInv, AnnouncedOnce, FutureIsClear, NothingLost,
      OvershootKnown, InFlight

\* Making the tracker current keeps what is known of it.
LEMMA CurrentKeeps ==
  ASSUME BudgetInv
  PROVE  /\ Current(tracker).notified <=> InScope(Current(tracker)) >= Limit
         /\ Current(tracker).notified => event = today /\ tracker.notified
         /\ announced[today] = IF Current(tracker).notified THEN 1 ELSE 0
         /\ InScope(Current(tracker)) >= reported[today]
         /\ InScope(Current(tracker)) \in Nat
         /\ \A d \in 0..LastDay : d > today => announced[d] = 0 /\ reported[d] = 0
<1> USE DEF BudgetInv
<1>0. tracker.day \in 0..LastDay /\ today \in 0..LastDay /\ tracker.day <= today
  BY DEF BudgetTypeOK, Tracker, FutureIsClear
<1>1. CASE tracker.day = today
  BY <1>0, <1>1, CurrentFacts, ScopeFacts
  DEF AnnouncedOnce, FutureIsClear, NothingLost
<1>2. CASE tracker.day # today
  <2>1. tracker.day < today
    BY <1>0, <1>2
  <2>2. announced[today] = 0 /\ reported[today] = 0
    BY <1>0, <2>1 DEF FutureIsClear
  <2>3. \A d \in 0..LastDay : d > today => d > tracker.day
    BY <1>0
  <2> QED BY <1>2, <2>2, <2>3, CurrentFacts, BudgetAssumption DEF FutureIsClear
<1> QED BY <1>1, <1>2

\* What a call, answered or not, does to the tracker, the announcements and
\* those in flight: the tokens added are at least the tokens reported.
LEMMA CallKeeps ==
  ASSUME BudgetInv, NEW p \in Inner, Call(p)
  PROVE  /\ tracker' \in Tracker /\ lastUsage' \in [Inner -> Usage]
         /\ event' \in {NoEvent} \union 0..LastDay
         /\ announced' \in [0..LastDay -> Nat]
         /\ reported' \in [0..LastDay -> Nat]
         /\ stragglers' \subseteq Requests
         /\ AnnouncedOnce' /\ FutureIsClear' /\ NothingLost'
         /\ tracker'.notified =>
              stragglers' = InFlight
              \/ (stragglers' = stragglers /\ tracker.notified)
<1> USE DEF BudgetInv
<1>1. PICK u \in Usage :
        /\ Charge(p, u)
        /\ \/ reported' = reported
           \/ reported' = [reported EXCEPT ![today] = @ + InScope(u)]
  <2>1. CASE Fails(p)
    BY <2>1 DEF Fails, BudgetTypeOK
  <2>2. CASE Responds(p)
    BY <2>2, BudgetAssumption DEF Responds, Usage
  <2> QED BY <2>1, <2>2 DEF Call
<1>2. tracker' = Charged(tracker, u) /\ today' = today
      /\ lastUsage' = [lastUsage EXCEPT ![p] = u]
  BY <1>1 DEF Charge
<1>3. today \in 0..LastDay /\ InScope(u) \in Nat
  BY ScopeFacts DEF BudgetTypeOK
<1>4. tracker' \in Tracker /\ tracker'.day = today
  BY <1>2, ChargedFacts
<1>5. InScope(tracker') = InScope(Current(tracker)) + InScope(u)
      /\ InScope(Current(tracker)) \in Nat
  BY <1>2, ChargedFacts, CurrentKeeps
<1>6. tracker'.notified <=> InScope(tracker') >= Limit
  <2>1. CASE u = None
    <3>1. InScope(u) = 0
      BY <2>1, ScopeFacts
    <3> QED BY <1>2, <1>5, <2>1, <3>1, ChargedFacts, CurrentKeeps
  <2>2. CASE u # None
    <3>1. InScope(Current(tracker)) >= Limit => InScope(tracker') >= Limit
      BY <1>3, <1>5, BudgetAssumption
    <3> QED BY <1>2, <2>2, <3>1, ChargedFacts, CurrentKeeps
  <2> QED BY <2>1, <2>2
<1>7. reported' \in [0..LastDay -> Nat]
      /\ (\A d \in 0..LastDay : d # today => reported'[d] = reported[d])
      /\ reported'[today] <= reported[today] + InScope(u)
  <2>1. reported \in [0..LastDay -> Nat]
    BY DEF BudgetTypeOK
  <2>2. CASE reported' = reported
    BY <1>3, <2>1, <2>2
  <2>3. CASE reported' = [reported EXCEPT ![today] = @ + InScope(u)]
    BY <1>3, <2>1, <2>3
  <2> QED BY <1>1, <2>2, <2>3
<1>8. NothingLost'
  <2>1. InScope(tracker') >= reported'[today]
    BY <1>3, <1>5, <1>7, CurrentKeeps DEF BudgetTypeOK
  <2> QED BY <1>4, <2>1 DEF NothingLost
<1>9. Current(tracker).notified => tracker'.notified
  BY <1>3, <1>5, <1>6, CurrentKeeps, BudgetAssumption
<1>10. CASE Crosses(tracker, u)
  <2>1. ~Current(tracker).notified /\ tracker'.notified
    BY <1>2, <1>10 DEF Crosses
  <2>2. event' = today /\ announced' = [announced EXCEPT ![today] = @ + 1]
        /\ stragglers' = InFlight
    BY <1>1, <1>10 DEF Charge
  <2>3. announced' \in [0..LastDay -> Nat] /\ announced'[today] = 1
        /\ \A d \in 0..LastDay : d # today => announced'[d] = announced[d]
    BY <1>3, <2>1, <2>2, CurrentKeeps DEF BudgetTypeOK
  <2>4. AnnouncedOnce'
    BY <1>3, <1>4, <1>6, <2>1, <2>2, <2>3 DEF AnnouncedOnce
  <2>5. FutureIsClear'
    BY <1>2, <1>3, <1>4, <1>7, <2>3, CurrentKeeps DEF FutureIsClear
  <2>6. stragglers' \subseteq Requests
    BY <2>2 DEF InFlight
  <2> QED BY <1>2, <1>3, <1>4, <1>7, <1>8, <2>2, <2>3, <2>4, <2>5, <2>6
          DEF BudgetTypeOK
<1>11. CASE ~Crosses(tracker, u)
  <2>1. Current(tracker).notified = tracker'.notified
    BY <1>2, <1>9, <1>11, <1>4, CurrentFacts DEF Crosses, Tracker
  <2>2. event' = event /\ announced' = announced /\ stragglers' = stragglers
    BY <1>1, <1>11 DEF Charge
  <2>3. AnnouncedOnce'
    BY <1>4, <1>6, <2>1, <2>2, CurrentKeeps DEF AnnouncedOnce
  <2>4. FutureIsClear'
    BY <1>2, <1>3, <1>4, <1>7, <2>2, CurrentKeeps DEF FutureIsClear
  <2>5. tracker'.notified => tracker.notified
    BY <2>1, CurrentKeeps
  <2> QED BY <1>2, <1>3, <1>4, <1>7, <1>8, <2>2, <2>3, <2>4, <2>5
          DEF BudgetTypeOK
<1> QED BY <1>10, <1>11

\* A call keeps the account of the overshoot when no request gets in flight.
LEMMA CallOvershoot ==
  ASSUME BudgetInv, NEW p \in Inner, Call(p),
         \A r \in Requests :
           /\ stage'[r] = "recognising" => stage[r] = "recognising"
           /\ stage'[r] = "evaluating" =>
                stage[r] \in {"recognising", "evaluating"}
  PROVE  OvershootKnown'
<1>1. exhausted' = exhausted
  BY DEF Call, Responds, Fails, Charge
<1>2. InFlight' \subseteq InFlight
  BY DEF InFlight
<1>3. tracker'.notified =>
        stragglers' = InFlight
        \/ (stragglers' = stragglers /\ tracker.notified)
  BY CallKeeps
<1> QED BY <1>1, <1>2, <1>3 DEF BudgetInv, OvershootKnown

\* Reading the tracker, by a request or a report, keeps the account of tokens
\* and announcements.
LEMMA ReadKeeps ==
  ASSUME BudgetInv, tracker' = Current(tracker), today' = today,
         UNCHANGED <<announced, reported>>,
         event' = event \/ ~tracker'.notified
  PROVE  /\ tracker' \in Tracker /\ tracker'.day = today
         /\ AnnouncedOnce' /\ FutureIsClear' /\ NothingLost'
         /\ tracker'.notified => tracker.notified
<1>1. tracker' \in Tracker /\ tracker'.day = today /\ today \in 0..LastDay
  BY CurrentFacts DEF BudgetInv, BudgetTypeOK
<1>2. AnnouncedOnce'
  BY <1>1, CurrentKeeps DEF AnnouncedOnce, BudgetInv
<1>3. FutureIsClear'
  BY <1>1, CurrentKeeps DEF FutureIsClear
<1>4. NothingLost'
  BY <1>1, CurrentKeeps DEF NothingLost
<1> QED BY <1>1, <1>2, <1>3, <1>4, CurrentKeeps

-----------------------------------------------------------------------------
\* Every step keeps the invariant.
THEOREM NextBudgetInv == BudgetInv /\ [Next]_vars => BudgetInv'
<1> SUFFICES ASSUME BudgetInv, [Next]_vars PROVE BudgetInv'
  OBVIOUS
<1>1. BudgetTypeOK
  BY DEF BudgetInv
<1>2. ASSUME NEW r \in Requests, Arrive(r) PROVE BudgetInv'
  <2>1. tracker' \in Tracker /\ AnnouncedOnce' /\ FutureIsClear' /\ NothingLost'
        /\ (tracker'.notified => tracker.notified)
    BY <1>2, ReadKeeps DEF Arrive
  <2>2. BudgetTypeOK'
    BY <1>1, <1>2, <2>1 DEF Arrive, BudgetTypeOK
  <2>3. CanSpend(tracker') <=> ~tracker'.notified
    <3>1. InScope(tracker') \in Nat
      BY <2>1, ScopeFacts
    <3>2. tracker'.notified <=> InScope(tracker') >= Limit
      BY <2>1 DEF AnnouncedOnce
    <3> QED BY <3>1, <3>2, BudgetAssumption DEF CanSpend
  <2>4. exhausted' = [exhausted EXCEPT ![r] = tracker'.notified]
    BY <1>2, <2>1, <2>3 DEF Arrive, Tracker
  <2>5. stage' = [stage EXCEPT ![r] =
          IF Recogniser /\ ~tracker'.notified THEN "recognising" ELSE "evaluating"]
    BY <1>2, <2>3 DEF Arrive
  <2>6. stragglers' = stragglers
    BY <1>2 DEF Arrive
  <2>7. OvershootKnown'
    BY <1>1, <2>1, <2>4, <2>5, <2>6
    DEF BudgetInv, OvershootKnown, InFlight, BudgetTypeOK
  <2> QED BY <2>1, <2>2, <2>7 DEF BudgetInv
<1>3. ASSUME NEW r \in Requests, Recognised(r) PROVE BudgetInv'
  <2>1. PICK next \in {"evaluating", "done"} : stage' = [stage EXCEPT ![r] = next]
    BY <1>3 DEF Recognised
  <2>2. Call("anti") /\ calls' = calls /\ stage[r] = "recognising"
    BY <1>3 DEF Recognised
  <2>3. stage' \in [Requests -> {"new", "recognising", "evaluating", "done"}]
    BY <1>1, <2>1 DEF BudgetTypeOK
  <2>4. OvershootKnown'
    BY <1>1, <2>1, <2>2, <2>3, CallOvershoot DEF Inner, BudgetTypeOK
  <2>5. today' = today /\ exhausted' = exhausted
    BY <2>2 DEF Call, Responds, Fails, Charge
  <2>6. BudgetTypeOK'
    BY <1>1, <2>2, <2>3, <2>5, CallKeeps DEF Inner, BudgetTypeOK
  <2> QED BY <2>2, <2>4, <2>6, CallKeeps DEF BudgetInv, Inner
<1>4. ASSUME NEW r \in Requests, Review(r) PROVE BudgetInv'
  <2>1. Call("main") /\ stage' = stage /\ calls' = [calls EXCEPT ![r] = @ + 1]
    BY <1>4 DEF Review
  <2>2. OvershootKnown'
    BY <1>1, <2>1, CallOvershoot DEF Inner, BudgetTypeOK
  <2>3. today' = today /\ exhausted' = exhausted
    BY <2>1 DEF Call, Responds, Fails, Charge
  <2>4. BudgetTypeOK'
    BY <1>1, <2>1, <2>3, CallKeeps DEF Inner, BudgetTypeOK
  <2> QED BY <2>1, <2>2, <2>4, CallKeeps DEF BudgetInv, Inner
<1>5. ASSUME NEW r \in Requests, Decide(r) PROVE BudgetInv'
  <2>1. stage' = [stage EXCEPT ![r] = "done"]
        /\ UNCHANGED <<today, tracker, lastUsage, exhausted, calls, event,
                       announced, reported, stragglers>>
    BY <1>5 DEF Decide
  <2>2. BudgetTypeOK'
    BY <1>1, <2>1 DEF BudgetTypeOK
  <2>3. OvershootKnown'
    BY <1>1, <2>1 DEF BudgetInv, OvershootKnown, InFlight, BudgetTypeOK
  <2>4. AnnouncedOnce' /\ FutureIsClear' /\ NothingLost'
    BY <2>1 DEF BudgetInv, AnnouncedOnce, FutureIsClear, NothingLost
  <2> QED BY <2>2, <2>3, <2>4 DEF BudgetInv
<1>6. ASSUME Report PROVE BudgetInv'
  <2>0. CanSpend(Current(tracker)) <=> ~Current(tracker).notified
    BY CurrentKeeps, BudgetAssumption DEF CanSpend
  <2>1. event' = event \/ ~tracker'.notified
    BY <1>6, <2>0 DEF Report
  <2>2. tracker' \in Tracker /\ AnnouncedOnce' /\ FutureIsClear' /\ NothingLost'
        /\ (tracker'.notified => tracker.notified)
    BY <1>6, <2>1, ReadKeeps DEF Report
  <2>3. BudgetTypeOK'
    BY <1>1, <1>6, <2>2 DEF Report, BudgetTypeOK
  <2>4. OvershootKnown'
    BY <1>6, <2>2 DEF Report, BudgetInv, OvershootKnown, InFlight
  <2> QED BY <2>2, <2>3, <2>4 DEF BudgetInv
<1>7. ASSUME Midnight PROVE BudgetInv'
  <2>1. BudgetTypeOK'
    BY <1>1, <1>7, BudgetAssumption DEF Midnight, BudgetTypeOK
  <2>2. FutureIsClear'
    BY <1>1, <1>7 DEF Midnight, BudgetInv, FutureIsClear, BudgetTypeOK, Tracker
  <2>3. AnnouncedOnce' /\ NothingLost' /\ OvershootKnown'
    BY <1>7 DEF Midnight, BudgetInv, AnnouncedOnce, NothingLost, OvershootKnown,
                InFlight
  <2> QED BY <2>1, <2>2, <2>3 DEF BudgetInv
<1>8. CASE UNCHANGED vars
  BY <1>8 DEF vars, BudgetInv, BudgetTypeOK, AnnouncedOnce, FutureIsClear,
              NothingLost, OvershootKnown, InFlight
<1> QED BY <1>2, <1>3, <1>4, <1>5, <1>6, <1>7, <1>8 DEF Next

\* The account of the budget, as a whole, holds in every behaviour.
THEOREM BudgetInductive == Spec => []BudgetInv
BY InitBudgetInv, NextBudgetInv, PTL DEF Spec

\* The exhaustion of a day is announced once, when the tokens reach the limit
\* and not before, and reports show the announcement of that day.
THEOREM AnnouncedExactly == Spec => []ExhaustionAnnounced
<1>1. BudgetInv => ExhaustionAnnounced
  <2> SUFFICES ASSUME BudgetInv PROVE ExhaustionAnnounced
    OBVIOUS
  <2>1. InScope(tracker) \in Nat
    BY ScopeFacts DEF BudgetInv, BudgetTypeOK
  <2> QED BY <2>1, BudgetAssumption DEF BudgetInv, AnnouncedOnce, ExhaustionAnnounced
<1> QED BY <1>1, BudgetInductive, PTL

\* Every token that a response reported is charged to its day.
THEOREM TokensKept == Spec => []NothingLost
BY BudgetInductive, PTL DEF BudgetInv

\* Once the budget is used up, calls are made only for requests that were in
\* flight then, or that the engine reviews anyhow.
THEOREM OvershootBounded == Spec => StragglersOnly
<1>1. BudgetInv /\ [Next]_vars =>
        [\A r \in Requests :
           /\ tracker.day = today /\ InScope(tracker) >= Limit
           /\ calls'[r] # calls[r] \/ (stage[r] = "recognising" /\ stage'[r] # stage[r])
           => r \in stragglers \union Triggered]_vars
  <2> SUFFICES ASSUME BudgetInv, Next, NEW r \in Requests,
                      InScope(tracker) >= Limit,
                      \/ calls'[r] # calls[r]
                      \/ stage[r] = "recognising" /\ stage'[r] # stage[r]
               PROVE  r \in stragglers \union Triggered
    OBVIOUS
  <2>1. tracker.notified
    BY DEF BudgetInv, AnnouncedOnce
  <2>2. CASE stage[r] = "recognising"
    BY <2>1, <2>2 DEF BudgetInv, OvershootKnown, InFlight
  <2>3. CASE stage[r] # "recognising"
    <3>1. calls'[r] # calls[r]
      BY <2>3
    <3>2. PICK q \in Requests : Review(q)
      BY <3>1 DEF Next, Arrive, Recognised, Decide, Report, Midnight
    <3>3. q = r
      BY <3>1, <3>2 DEF Review, BudgetInv, BudgetTypeOK
    <3>4. stage[r] = "evaluating" /\ (exhausted[r] => r \in Triggered)
      BY <3>2, <3>3 DEF Review
    <3> QED BY <2>1, <3>4 DEF BudgetInv, OvershootKnown, InFlight
  <2> QED BY <2>2, <2>3
<1> QED BY <1>1, BudgetInductive, PTL DEF StragglersOnly, Spec
=============================================================================
