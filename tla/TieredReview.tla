------------------------------ MODULE TieredReview ------------------------------
(***************************************************************************)
(* One evaluation of the policy engine (gateway/policy/engine.py): which   *)
(* reviewers it asks, how their results are merged (CompositeAnalyzer in   *)
(* gateway/analysis/semantic_analyzer.py), what becomes of the risk of the *)
(* first tier, and the verdict; with the two things the engine remembers   *)
(* of a session between evaluations: the L3 reviews that L2 asked for, and *)
(* whether an output of it was found contaminated.                         *)
(*                                                                         *)
(* The second tier is the rule-based analyzer and an LLM, the third is the *)
(* agent.  An evaluation blocks the event loop, so evaluations follow one  *)
(* another and findings come between them; the steps of an evaluation are  *)
(* those a timeout can fall between.  What the first tier says of an event *)
(* is part of the event.  Left out: payloads too long for a prompt, the    *)
(* fast path for read-only actions, and the eviction of sessions beyond    *)
(* the ten thousand the tracker holds.                                     *)
(***************************************************************************)
EXTENDS Integers, Sequences

CONSTANTS
  Sessions, Events,
  SessionOf,   \* the session of an event
  L1,          \* event -> what the first tier says of it
  Strategy,    \* what a contaminated output does: log, upgrade_next, upgrade_session
  Benchmark,   \* the automatic reviews of benchmark mode are disabled
  ReplaceL2,   \* requests for L2 go to L3
  Cap          \* L3 reviews per session that L2 may ask for

Low == 0
Medium == 1
High == 2
Critical == 3

\* 0 is no confidence; 2 is the least that clears, 3 the least that is decisive.
Confidences == 0..4

Verdicts == {"allow", "defer", "block"}

Findings == [
  kind      : {"pre_action", "observed"},
  level     : Low..Critical,
  authority : {"hard", "contextual", "plain"},
  routing   : 0..3,                     \* the tier its intents ask for, 0 for none
  policy    : {"none", "defer", "block"},  \* the verdict they ask for
  trigger   : {"none", "key", "manual"},
  l3        : BOOLEAN,                  \* a clearance has to be of L3
  pending   : BOOLEAN,                  \* the rules leave it to a deeper review
  scope     : {"none", "defer", "deny", "capability", "allow"}]

ASSUME ReviewAssumption ==
  /\ SessionOf \in [Events -> Sessions]
  /\ L1 \in [Events -> Findings]
  /\ Strategy \in {"log", "upgrade_next", "upgrade_session"}
  /\ Benchmark \in BOOLEAN /\ ReplaceL2 \in BOOLEAN
  /\ Cap \in Nat

VARIABLES
  runs,          \* session -> the L3 reviews counted against the cap
  contaminated,  \* the sessions marked as contaminated
  review         \* the evaluation under way

vars == <<runs, contaminated, review>>

Idle == [stage |-> "idle"]

Init ==
  /\ runs = [s \in Sessions |-> 0]
  /\ contaminated = {}
  /\ review = Idle

-----------------------------------------------------------------------------
(* What the reviewers may say of an event x.  "clear" grants the event its *)
(* route, "asks" requests L3, "pending" leaves the matter to a deeper      *)
(* review.                                                                 *)

Contextual(x) == x.authority = "contextual"

AtLeast(a, b) == IF a >= b THEN a ELSE b

Degraded(x) ==
  [level |-> x.level, conf |-> 0, tier |-> 1,
   clear |-> FALSE, asks |-> FALSE, pending |-> FALSE]

Clears(x, level, conf) == Contextual(x) /\ level <= Medium /\ conf >= 2

\* The rules never go below the first tier.  If they have nothing against an
\* event of a contextual route they clear it, or say what is pending.
RuleResults(x) ==
  {[level |-> l, conf |-> 4, tier |-> 2,
    clear |-> FALSE, asks |-> FALSE, pending |-> FALSE] : l \in x.level..Critical}
  \union
  IF ~Contextual(x) THEN {}
  ELSE {[level |-> x.level, conf |-> IF x.pending THEN 0 ELSE 4, tier |-> 2,
         clear |-> ~x.pending, asks |-> FALSE, pending |-> x.pending]}

\* The LLM may well find less than the first tier.
LLMResults(x) ==
  {Degraded(x)} \union
  {[level |-> l, conf |-> c, tier |-> 2,
    clear |-> Clears(x, l, c), asks |-> a, pending |-> FALSE] :
     l \in {Low, High, Critical}, c \in {1, 2, 3}, a \in BOOLEAN}

AgentResults(x) ==
  {Degraded(x)} \union
  {[level |-> AtLeast(l, x.level), conf |-> c, tier |-> 3,
    clear |-> Clears(x, l, c), asks |-> FALSE, pending |-> FALSE] :
     l \in {Low, High, Critical}, c \in {1, 2, 3}}

-----------------------------------------------------------------------------
(* CompositeAnalyzer: a first reviewer, and a second if it is needed. *)

\* An adverse verdict on a contextual route.
Adverse(r) == ~r.clear /\ r.conf > 0 /\ r.level >= High /\ ~r.pending

\* No second opinion is sought on this.
Decisive(x, r) ==
  /\ r.conf >= 3 /\ r.level >= High
  /\ Contextual(x) => IF r.clear THEN ~r.asks ELSE Adverse(r)

\* A result that counts: where L3 is forced, a clearance of the first
\* reviewer does not.
Counts(x, forced, first, r) ==
  r.conf > 0 /\ ~(first /\ Contextual(x) /\ forced /\ r.clear)

\* The result at one of the places I of s that is best by Key, the earliest if
\* there are several.
FirstBest(s, I, Key(_)) ==
  s[CHOOSE i \in I :
      \A j \in I :
        Key(s[i]) > Key(s[j]) \/ (Key(s[i]) = Key(s[j]) /\ i <= j)]

Severity(r) == 5 * r.level + r.conf
Depth(r) == r.tier

\* Fault: on a contextual route a clearance beats an adverse verdict.
MergedClearFirst(x, s, valid) ==
  LET clears == {i \in valid : s[i].clear}
  IN  IF Contextual(x) /\ clears # {} THEN FirstBest(s, clears, Depth)
      ELSE FirstBest(s, valid, Severity)

\* The highest risk wins; on a contextual route an adverse verdict beats a
\* clearance, and the deepest clearance everything else.
Merged(x, s, valid) ==
  LET blocks == {i \in valid : Adverse(s[i])}
      clears == {i \in valid : s[i].clear}
  IN  IF Contextual(x) /\ blocks # {} THEN FirstBest(s, blocks, Severity)
      ELSE IF Contextual(x) /\ clears # {} THEN FirstBest(s, clears, Depth)
      ELSE FirstBest(s, valid, Severity)

\* What a composite says whose reviewers, in their order, have said s.
Composite(x, forced, s) ==
  LET valid  == {i \in DOMAIN s : Counts(x, forced, i = 1, s[i])}
      deeper == Contextual(x) /\ s[1].pending
  IN  IF valid = {} THEN [Degraded(x) EXCEPT !.asks = deeper]
      ELSE [Merged(x, s, valid) EXCEPT
              !.asks = deeper \/ \E i \in valid : s[i].asks]

-----------------------------------------------------------------------------
(* The verdict. *)

\* What an enforced session scope makes of the verdict v: a denial, a bounded
\* read-only action let through unless a review failed, a deferral.
Scoped(x, v, status) ==
  CASE x.scope = "deny" -> "block"
    [] x.scope = "capability" -> IF v = "defer" THEN v ELSE "block"
    [] x.scope = "allow" -> IF status = "failed_closed" THEN v ELSE "allow"
    [] x.scope = "defer" /\ v = "allow" -> "defer"
    [] OTHER -> v

ByPolicy(x) == IF x.policy = "none" THEN "allow" ELSE x.policy

\* Fault: the intents are looked at before the risk.
DecideByIntents(x, level, status) ==
  LET v == IF x.authority = "hard" THEN "block"
           ELSE IF Contextual(x)
                THEN IF status = "cleared" THEN ByPolicy(x) ELSE "block"
                ELSE IF x.policy = "none" /\ level >= High THEN "block"
                ELSE ByPolicy(x)
  IN  IF x.kind = "observed" THEN "allow" ELSE Scoped(x, v, status)

Decide(x, level, status) ==
  LET v == IF x.authority = "hard" THEN "block"
           ELSE IF Contextual(x)
                THEN IF status = "cleared" THEN ByPolicy(x) ELSE "block"
                ELSE IF level >= High THEN "block" ELSE ByPolicy(x)
  IN  IF x.kind = "observed" THEN "allow" ELSE Scoped(x, v, status)

\* The evaluation ends with this risk, status and tier.
Concluded(level, status, tier) ==
  [review EXCEPT !.stage = "done", !.level = level, !.status = status,
                 !.tier = tier,
                 !.verdict = Decide(L1[review.event], level, status)]

-----------------------------------------------------------------------------
(* The way to the review. *)

\* Fault: benchmark mode drops a review that contamination asks for.
ReviewedAlways(x, tier, upgraded) ==
  LET trigger == IF Contextual(x) \/ x.routing > 0 THEN "routed"
                 ELSE IF x.trigger = "key" THEN "key"
                 ELSE IF x.kind = "pre_action" /\ x.level = Medium THEN "medium"
                 ELSE x.trigger
  IN  /\ ~(Benchmark /\ trigger \in {"key", "medium"})
      /\ tier > 1 \/ trigger # "none"

\* The event is reviewed: at a tier that was asked for, or automatically.
\* Benchmark mode drops the review of an event that would be reviewed
\* automatically, unless it is due to contamination.
Reviewed(x, tier, upgraded) ==
  LET trigger == IF Contextual(x) \/ x.routing > 0 THEN "routed"
                 ELSE IF x.trigger = "key" THEN "key"
                 ELSE IF x.kind = "pre_action" /\ x.level = Medium THEN "medium"
                 ELSE x.trigger
  IN  /\ upgraded \/ ~(Benchmark /\ trigger \in {"key", "medium"})
      /\ tier > 1 \/ trigger # "none"

\* The tier after contamination, routing intents and configuration.
Tier(x, asked, upgraded) ==
  LET a == IF upgraded THEN 2 ELSE asked
      b == IF x.routing = 3 THEN 3 ELSE IF x.routing = 2 THEN AtLeast(a, 2) ELSE a
  IN  IF b = 2 /\ ReplaceL2 THEN 3 ELSE b

Begin(e, asked) ==
  LET x == L1[e]
      s == SessionOf[e]
      tainted == /\ x.kind = "pre_action" /\ s \in contaminated
                 /\ Strategy \in {"upgrade_next", "upgrade_session"}
      upgraded == tainted /\ asked = 1
      tier == Tier(x, asked, upgraded)
      start == [stage |-> "rules", event |-> e, asked |-> asked, tainted |-> tainted,
                forced |-> tier = 3, said |-> <<>>, second |-> Degraded(x),
                granted |-> FALSE, level |-> x.level, status |-> "l1", tier |-> 1,
                verdict |-> Decide(x, x.level, "l1")]
  IN  /\ review.stage = "idle"
      /\ contaminated' = IF tainted /\ Strategy = "upgrade_next"
                         THEN contaminated \ {s} ELSE contaminated
      /\ review' = IF Reviewed(x, tier, upgraded) THEN start
                   ELSE [start EXCEPT !.stage = "done"]
      /\ UNCHANGED runs

-----------------------------------------------------------------------------
(* The review. *)

X == L1[review.event]
S == SessionOf[review.event]

\* L2 asks for a review of L3 on a contextual route that does not have one.
Requests(first) == Contextual(X) /\ ~review.forced /\ first.asks

Grants(first) == Requests(first) /\ runs[S] < Cap

\* The second tier has said s: its result is decisive, or the agent is asked.
SecondTier(s) ==
  LET first   == Composite(X, review.forced, s)
      further == review.forced \/ ~Decisive(X, first)
      granted == further /\ Grants(first)
  IN  /\ review' = [review EXCEPT !.stage = IF further THEN "agent" ELSE "merge",
                                  !.said = s, !.second = first,
                                  !.granted = granted]
      /\ UNCHANGED <<runs, contaminated>>

Rules ==
  /\ review.stage = "rules"
  /\ \E r \in RuleResults(X) :
       IF review.forced \/ ~Decisive(X, r)
       THEN /\ review' = [review EXCEPT !.stage = "llm", !.said = <<r>>]
            /\ UNCHANGED <<runs, contaminated>>
       ELSE SecondTier(<<r>>)

LLM ==
  /\ review.stage = "llm"
  /\ \E r \in LLMResults(X) : SecondTier(Append(review.said, r))

\* The agent reviews when it is forced or was granted, or finds a reason of
\* its own in the history of the session; otherwise it says nothing.
Agent ==
  /\ review.stage = "agent"
  /\ \E r \in AgentResults(X) :
       review' = [review EXCEPT !.stage = "merge", !.said = Append(@, r)]
  /\ UNCHANGED <<runs, contaminated>>

\* The review may raise the risk of the first tier, never lower it.
Raised(x, r) == AtLeast(x.level, r.level)

\* The agent was asked: its word is the last of those said.
AgentAsked == review.forced \/ ~Decisive(X, review.second)

\* The result of both tiers becomes the snapshot.  The count goes up if the
\* result says that a review was granted, which it says unless nobody had
\* anything of worth to say.
Merge ==
  LET said   == review.said
      pair   == IF AgentAsked THEN <<review.second, said[Len(said)]>>
                ELSE <<review.second>>
      result == Composite(X, review.forced, pair)
  IN  /\ review.stage = "merge"
      /\ runs' = IF review.granted /\ result.conf > 0
                 THEN [runs EXCEPT ![S] = @ + 1] ELSE runs
      /\ review' =
           IF Contextual(X)
           THEN IF result.tier > 1 /\ result.clear /\ (X.l3 => result.tier = 3)
                THEN Concluded(Medium, "cleared", result.tier)
                ELSE Concluded(X.level, "failed_closed", result.tier)
           ELSE IF result.tier = 1
                THEN Concluded(X.level, "degraded", 1)
                ELSE Concluded(Raised(X, result), "completed", result.tier)
      /\ UNCHANGED contaminated

\* The time for the review is up, which may be none at all: its result is lost,
\* and with it the count.
Fails ==
  /\ review.stage \in {"rules", "llm", "agent"}
  /\ review' = Concluded(X.level,
                 IF Contextual(X) THEN "failed_closed" ELSE "fallback", 1)
  /\ UNCHANGED <<runs, contaminated>>

Return ==
  /\ review.stage = "done"
  /\ review' = Idle
  /\ UNCHANGED <<runs, contaminated>>

\* The analysis of an output of the session finds it contaminated.
Finding(s) ==
  /\ review.stage = "idle"
  /\ contaminated' = contaminated \union {s}
  /\ UNCHANGED <<runs, review>>

Next ==
  \/ \E e \in Events, asked \in 1..3 : Begin(e, asked)
  \/ Rules \/ LLM \/ Agent \/ Merge \/ Fails \/ Return
  \/ \E s \in Sessions : Finding(s)

Spec == Init /\ [][Next]_vars

-----------------------------------------------------------------------------
Done == review.stage = "done"

\* An action on a contextual route goes ahead, or to an operator, only if a
\* reviewer cleared it, of the tier that is required, and none of those who
\* were heard was against it: a review that fails, times out or comes to
\* nothing blocks, and no scope lets the action through after that.
ReviewFailsClosed ==
  Done /\ Contextual(X) /\ X.kind = "pre_action" /\ review.verdict # "block" =>
    /\ \E i \in DOMAIN review.said :
         /\ review.said[i].clear
         /\ X.l3 => review.said[i].tier = 3
    /\ \A i \in DOMAIN review.said : ~Adverse(review.said[i])

\* No review makes an action less risky than the first tier found it, save a
\* clearance of its contextual route: whatever the LLM says, and however the
\* review ends, an action that was to be blocked is.
RiskNeverLowered ==
  Done /\ review.status # "cleared" =>
    /\ review.level >= X.level
    /\ X.kind = "pre_action" /\ X.level >= High /\ X.scope # "allow" =>
         review.verdict = "block"

\* The mark of a contaminated session buys a review, and what it finds counts:
\* although benchmark mode drops such reviews, an action asked for at L1 is
\* judged by at least the highest risk that a reviewer is sure enough of, and
\* blocked if that is high; unless the time was up, which the snapshot says
\* ("fallback").  The mark may be spent by then: it buys no second review.
ContaminationReviewed ==
  Done /\ review.tainted /\ review.asked = 1 /\ ~Contextual(X) =>
    \/ review.status = "fallback"
    \/ /\ review.said # <<>>
       /\ \A i \in DOMAIN review.said :
            review.said[i].conf > 0 => review.said[i].level <= review.level
       /\ review.level >= High /\ X.scope # "allow" => review.verdict = "block"
=============================================================================
