-------------------------- MODULE TieredReviewProofs --------------------------
(***************************************************************************)
(* Proofs about the evaluations of the policy engine, for any sessions and *)
(* events, any findings of the first tier, any strategy and cap.           *)
(***************************************************************************)
EXTENDS TieredReview, TLAPS

Answer ==
  [level : Low..Critical, conf : Confidences, tier : 1..3,
   clear : BOOLEAN, asks : BOOLEAN, pending : BOOLEAN]

\* Only what has no confidence may be the first tier's word again.
Result == {r \in Answer : r.conf > 0 => r.tier > 1}

Statuses ==
  {"l1", "cleared", "failed_closed", "degraded", "completed", "fallback"}

Review ==
  [stage : {"rules", "llm", "agent", "merge", "done"}, event : Events,
   asked : 1..3, tainted : BOOLEAN, forced : BOOLEAN, said : Seq(Result),
   second : Result, granted : BOOLEAN, level : Low..Critical,
   status : Statuses, tier : 1..3, verdict : Verdicts]

ReviewTypeOK ==
  /\ runs \in [Sessions -> Nat]
  /\ contaminated \subseteq Sessions
  /\ review = Idle \/ review \in Review

\* If the result r has any confidence, c has too and is no less severe.
AsSevere(c, r) == r.conf > 0 => c.conf > 0 /\ r.level <= c.level

\* How many of those who were heard belong to the second tier.
SecondSaid ==
  IF review.stage = "merge" /\ AgentAsked THEN Len(review.said) - 1
  ELSE Len(review.said)

\* Who has been heard at each stage.
HeardInTurn ==
  /\ review.stage = "rules" => review.said = <<>>
  /\ review.stage = "llm" => Len(review.said) = 1
  /\ review.stage = "agent" => AgentAsked
  /\ review.stage \in {"agent", "merge"} => SecondSaid \in 1..2

\* The result of the second tier hides no objection of a reviewer, and
\* clears only what one of them did.
SecondFaithful ==
  review.stage \in {"agent", "merge"} =>
    /\ Contextual(X) => \A i \in 1..SecondSaid :
         Adverse(review.said[i]) => Adverse(review.second)
    /\ review.second.clear => \E i \in 1..SecondSaid :
         review.said[i].clear /\ review.said[i].tier = review.second.tier

\* On a route that is not contextual it is no less severe than any of them.
SecondSevere ==
  review.stage \in {"agent", "merge"} /\ ~Contextual(X) =>
    \A i \in 1..SecondSaid : AsSevere(review.second, review.said[i])

\* Only actions find a mark.
ActionsTainted ==
  review.stage # "idle" /\ review.tainted => X.kind = "pre_action"

ReviewInv ==
  /\ ReviewTypeOK
  /\ HeardInTurn /\ SecondFaithful /\ SecondSevere /\ ActionsTainted
  /\ ReviewFailsClosed /\ RiskNeverLowered /\ ContaminationReviewed

-----------------------------------------------------------------------------
(* The merge. *)

\* Among one or two numbers there is a greatest, and of equals a first.
LEMMA GreatestExists ==
  ASSUME NEW I \in SUBSET (1..2), I # {}, NEW f \in [I -> Int]
  PROVE  \E k \in I : \A j \in I : f[k] > f[j] \/ (f[k] = f[j] /\ k <= j)
<1>1. CASE I = {1}
  BY <1>1
<1>2. CASE I = {2}
  BY <1>2
<1>3. CASE I = {1, 2}
  <2>1. f[1] \in Int /\ f[2] \in Int
    BY <1>3
  <2>2. CASE f[1] >= f[2]
    BY <1>3, <2>1, <2>2
  <2>3. CASE f[2] > f[1]
    BY <1>3, <2>1, <2>3
  <2> QED
    BY <2>1, <2>2, <2>3
<1>4. \A k \in I : k = 1 \/ k = 2
  OBVIOUS
<1>5. I = {1} \/ I = {2} \/ I = {1, 2}
  BY <1>4, ZenonT(30)
<1> QED
  BY <1>1, <1>2, <1>3, <1>5

\* What is chosen as the most severe is one of those to choose from.
LEMMA MostSevere ==
  ASSUME NEW s \in Seq(Result), NEW I \in SUBSET (1..2), I # {}, I \subseteq DOMAIN s
  PROVE  \E k \in I : /\ FirstBest(s, I, Severity) = s[k]
                     /\ \A j \in I : s[j].level <= s[k].level
<1> DEFINE f == [i \in I |-> Severity(s[i])]
<1>1. \A i \in I : s[i] \in Result
  OBVIOUS
<1>2. \A i \in I : Severity(s[i]) \in Int
  BY <1>1 DEF Severity, Result, Answer, Low, Critical, Confidences
<1>3. f \in [I -> Int]
  BY <1>2
<1>4. \E k \in I : \A j \in I : f[k] > f[j] \/ (f[k] = f[j] /\ k <= j)
  <2> HIDE DEF f
  <2> QED BY <1>3, GreatestExists
<1> DEFINE Best(k) == \A j \in I : Severity(s[k]) > Severity(s[j])
                                    \/ (Severity(s[k]) = Severity(s[j]) /\ k <= j)
           b == CHOOSE k \in I : Best(k)
<1>5. \E k \in I : Best(k)
  BY <1>4
<1>6. b \in I /\ Best(b)
  <2> HIDE DEF Best
  <2> QED BY <1>5
<1>7. FirstBest(s, I, Severity) = s[b]
  BY DEF FirstBest
<1>8. \A j \in I : s[j].level <= s[b].level
  <2> HIDE DEF b
  <2> SUFFICES ASSUME NEW j \in I  PROVE s[j].level <= s[b].level
    OBVIOUS
  <2>1. 5 * s[b].level + s[b].conf >= 5 * s[j].level + s[j].conf
    BY <1>2, <1>6 DEF Severity
  <2>2. /\ s[b].level \in Int /\ s[j].level \in Int
        /\ s[b].conf \in 0..4 /\ s[j].conf \in 0..4
    BY <1>1, <1>6 DEF Result, Answer, Low, Critical, Confidences
  <2>3. \A m, n \in Int : \A c, d \in 0..4 :
          5 * m + c >= 5 * n + d => n <= m
    OBVIOUS
  <2> HIDE DEF f, Best
  <2> QED BY <2>1, <2>2, <2>3
<1> QED
  BY <1>6, <1>7, <1>8

\* The same of the deepest.
LEMMA Deepest ==
  ASSUME NEW s \in Seq(Result), NEW I \in SUBSET (1..2), I # {}, I \subseteq DOMAIN s
  PROVE  \E k \in I : FirstBest(s, I, Depth) = s[k]
<1> DEFINE f == [i \in I |-> Depth(s[i])]
<1>1. \A i \in I : s[i] \in Result
  OBVIOUS
<1>2. \A i \in I : Depth(s[i]) \in Int
  BY <1>1 DEF Depth, Result, Answer
<1>3. f \in [I -> Int]
  BY <1>2
<1>4. \E k \in I : \A j \in I : f[k] > f[j] \/ (f[k] = f[j] /\ k <= j)
  <2> HIDE DEF f
  <2> QED BY <1>3, GreatestExists
<1>5. \E k \in I : \A j \in I :
        Depth(s[k]) > Depth(s[j]) \/ (Depth(s[k]) = Depth(s[j]) /\ k <= j)
  BY <1>4
<1> QED
  BY <1>5 DEF FirstBest

\* The merge takes one of the results that count, on a contextual route an
\* adverse one if there is any.
LEMMA MergedFacts ==
  ASSUME NEW x \in Findings, NEW s \in Seq(Result),
         NEW I \in SUBSET (1..2), I # {}, I \subseteq DOMAIN s
  PROVE  \E k \in I :
           /\ Merged(x, s, I) = s[k]
           /\ Contextual(x) /\ (\E i \in I : Adverse(s[i])) => Adverse(s[k])
           /\ ~Contextual(x) => \A i \in I : s[i].level <= s[k].level
<1> DEFINE blocks == {i \in I : Adverse(s[i])}
           clears == {i \in I : s[i].clear}
<1>1. CASE Contextual(x) /\ blocks # {}
  <2>1. Merged(x, s, I) = FirstBest(s, blocks, Severity)
    BY <1>1 DEF Merged
  <2>2. \E k \in blocks : FirstBest(s, blocks, Severity) = s[k]
    <3>1. blocks \in SUBSET (1..2) /\ blocks \subseteq DOMAIN s
      OBVIOUS
    <3> HIDE DEF blocks
    <3>2. PICK k \in blocks : /\ FirstBest(s, blocks, Severity) = s[k]
                             /\ \A j \in blocks : s[j].level <= s[k].level
      BY <1>1, <3>1, MostSevere
    <3> QED BY <3>2
  <2>3. PICK k \in blocks : Merged(x, s, I) = s[k]
    BY <2>1, <2>2
  <2> QED
    BY <1>1, <2>3
<1>2. CASE ~(Contextual(x) /\ blocks # {}) /\ Contextual(x) /\ clears # {}
  <2>1. Merged(x, s, I) = FirstBest(s, clears, Depth)
    BY <1>2 DEF Merged
  <2>2. \E k \in clears : FirstBest(s, clears, Depth) = s[k]
    <3>1. clears \in SUBSET (1..2) /\ clears \subseteq DOMAIN s
      OBVIOUS
    <3> HIDE DEF clears
    <3> QED BY <1>2, <3>1, Deepest
  <2> QED
    BY <1>2, <2>1, <2>2
<1>3. CASE ~(Contextual(x) /\ blocks # {}) /\ ~(Contextual(x) /\ clears # {})
  <2>1. Merged(x, s, I) = FirstBest(s, I, Severity)
    BY <1>3 DEF Merged
  <2> QED
    BY <1>3, <2>1, MostSevere
<1> QED
  BY <1>1, <1>2, <1>3

\* What a composite of one or two results says: it hides no objection, and
\* clears only what one of them does.
LEMMA CompositeFacts ==
  ASSUME NEW x \in Findings, NEW forced \in BOOLEAN,
         NEW s \in Seq(Result), Len(s) \in 1..2
  PROVE  LET c == Composite(x, forced, s)
         IN  /\ c \in Result
             /\ Contextual(x) =>
                  \A i \in DOMAIN s : Adverse(s[i]) => Adverse(c)
             /\ c.clear => \E i \in DOMAIN s : s[i].clear /\ s[i].tier = c.tier
             /\ ~Contextual(x) => \A i \in DOMAIN s : AsSevere(c, s[i])
<1> DEFINE I == {i \in DOMAIN s : Counts(x, forced, i = 1, s[i])}
           c == Composite(x, forced, s)
           deeper == Contextual(x) /\ s[1].pending
<1>1. DOMAIN s \subseteq 1..2 /\ 1 \in DOMAIN s
  OBVIOUS
<1>2. \A i \in DOMAIN s : s[i] \in Result
  OBVIOUS
<1>3. \A i \in DOMAIN s :
        /\ Adverse(s[i]) => i \in I
        /\ ~Contextual(x) /\ s[i].conf > 0 => i \in I
  BY <1>2 DEF Adverse, Counts, Result, Answer
<1>4. CASE I = {}
  <2>1. c = [Degraded(x) EXCEPT !.asks = deeper]
    BY <1>4 DEF Composite
  <2>2. x.level \in Low..Critical
    BY DEF Findings
  <2>3. deeper \in BOOLEAN
    BY DEF Contextual
  <2>4. c \in Result /\ ~c.clear
    <3>1. c = [level |-> x.level, conf |-> 0, tier |-> 1, clear |-> FALSE,
               asks |-> deeper, pending |-> FALSE]
      BY <2>1 DEF Degraded
    <3> HIDE DEF deeper, c
    <3> QED BY <3>1, <2>2, <2>3 DEF Result, Answer, Confidences
  <2>5. \A i \in DOMAIN s :
          ~Adverse(s[i]) /\ (~Contextual(x) => AsSevere(c, s[i]))
    BY <1>3, <1>4 DEF AsSevere
  <2> QED
    BY <2>4, <2>5
<1>5. CASE I # {}
  <2> DEFINE asks == deeper \/ \E i \in I : s[i].asks
  <2>1. c = [Merged(x, s, I) EXCEPT !.asks = asks]
    BY <1>5 DEF Composite
  <2>2. I \in SUBSET (1..2) /\ I \subseteq DOMAIN s
    BY <1>1
  <2>3. PICK k \in I :
          /\ Merged(x, s, I) = s[k]
          /\ Contextual(x) /\ (\E i \in I : Adverse(s[i])) => Adverse(s[k])
          /\ ~Contextual(x) => \A i \in I : s[i].level <= s[k].level
    <3> HIDE DEF I
    <3> QED BY <1>5, <2>2, MergedFacts
  <2>4. s[k] \in Result /\ k \in DOMAIN s
    BY <1>2
  <2>5. asks \in BOOLEAN
    OBVIOUS
  <2>6. /\ c \in Result
        /\ c.clear = s[k].clear /\ c.tier = s[k].tier
        /\ c.level = s[k].level /\ c.conf = s[k].conf
        /\ Adverse(s[k]) => Adverse(c)
    <3>1. c = [s[k] EXCEPT !.asks = asks]
      BY <2>1, <2>3
    <3> HIDE DEF asks, c
    <3> QED BY <2>4, <2>5, <3>1 DEF Result, Answer, Adverse
  <2>7. Contextual(x) => \A i \in DOMAIN s : Adverse(s[i]) => Adverse(c)
    BY <1>3, <2>3, <2>6
  <2>8. s[k].conf > 0
    BY <2>3 DEF Counts
  <2>9. ~Contextual(x) => \A i \in DOMAIN s : AsSevere(c, s[i])
    <3> HIDE DEF I, c
    <3> QED BY <1>3, <2>3, <2>6, <2>8 DEF AsSevere
  <2> QED
    BY <2>4, <2>6, <2>7, <2>9
<1> QED
  BY <1>4, <1>5

-----------------------------------------------------------------------------
(* Results and verdicts. *)

\* One more has been heard.
LEMMA AppendFacts ==
  ASSUME NEW s \in Seq(Result), NEW r \in Result
  PROVE  /\ Append(s, r) \in Seq(Result)
         /\ Len(Append(s, r)) = Len(s) + 1 /\ Len(s) \in Nat
         /\ \A i \in 1..Len(s) : Append(s, r)[i] = s[i]
         /\ Append(s, r)[Len(s) + 1] = r
OBVIOUS

\* Whatever a reviewer may say is a result.
LEMMA ResultTypes ==
  ASSUME NEW x \in Findings
  PROVE  /\ RuleResults(x) \subseteq Result
         /\ LLMResults(x) \subseteq Result
         /\ AgentResults(x) \subseteq Result
         /\ Degraded(x) \in Result
<1>1. x.level \in Low..Critical /\ x.pending \in BOOLEAN
  BY DEF Findings
<1>2. Degraded(x) \in Result
  BY <1>1 DEF Degraded, Result, Answer, Confidences
<1>3. RuleResults(x) \subseteq Result
  <2>1. \A l \in x.level..Critical :
          [level |-> l, conf |-> 4, tier |-> 2, clear |-> FALSE,
           asks |-> FALSE, pending |-> FALSE] \in Result
    <3>1. \A l \in x.level..Critical : l \in Low..Critical
      BY <1>1 DEF Low, Critical
    <3> QED BY <3>1 DEF Result, Answer, Confidences
  <2>2. [level |-> x.level, conf |-> IF x.pending THEN 0 ELSE 4, tier |-> 2,
         clear |-> ~x.pending, asks |-> FALSE, pending |-> x.pending] \in Result
    BY <1>1 DEF Result, Answer, Confidences
  <2>3. ASSUME NEW r \in RuleResults(x)  PROVE r \in Result
    BY <2>1, <2>2, <2>3 DEF RuleResults
  <2> QED BY <2>3
<1>4. \A l \in Low..Critical : \A k \in Confidences :
        Clears(x, l, k) \in BOOLEAN /\ AtLeast(l, x.level) \in Low..Critical
  BY <1>1 DEF Clears, Contextual, AtLeast, Low, Critical
<1>5. LLMResults(x) \subseteq Result
  <2> SUFFICES ASSUME NEW l \in {Low, High, Critical}, NEW k \in {1, 2, 3},
                      NEW a \in BOOLEAN
               PROVE  [level |-> l, conf |-> k, tier |-> 2,
                       clear |-> Clears(x, l, k), asks |-> a,
                       pending |-> FALSE] \in Result
    BY <1>2 DEF LLMResults
  <2>1. l \in Low..Critical /\ k \in Confidences
    BY DEF Low, High, Critical, Confidences
  <2> QED
    BY <1>4, <2>1 DEF Result, Answer
<1>6. AgentResults(x) \subseteq Result
  <2> SUFFICES ASSUME NEW l \in {Low, High, Critical}, NEW k \in {1, 2, 3}
               PROVE  [level |-> AtLeast(l, x.level), conf |-> k, tier |-> 3,
                       clear |-> Clears(x, l, k), asks |-> FALSE,
                       pending |-> FALSE] \in Result
    <3>1. ASSUME NEW r \in AgentResults(x), r # Degraded(x)
          PROVE  \E l \in {Low, High, Critical}, k \in {1, 2, 3} :
                   r = [level |-> AtLeast(l, x.level), conf |-> k, tier |-> 3,
                        clear |-> Clears(x, l, k), asks |-> FALSE,
                        pending |-> FALSE]
      BY <3>1, SMTT(30) DEF AgentResults
    <3> QED BY <1>2, <3>1
  <2>1. l \in Low..Critical /\ k \in Confidences
    BY DEF Low, High, Critical, Confidences
  <2> QED
    BY <1>4, <2>1 DEF Result, Answer
<1> QED
  BY <1>2, <1>3, <1>5, <1>6

\* A verdict blocks a contextual route that failed closed, and a high risk that
\* nothing has cleared.
LEMMA DecideFacts ==
  ASSUME NEW x \in Findings, NEW level \in Low..Critical, NEW status \in Statuses
  PROVE  /\ Decide(x, level, status) \in Verdicts
         /\ x.kind = "pre_action" =>
              /\ Contextual(x) /\ status = "failed_closed" =>
                   Decide(x, level, status) = "block"
              /\ status # "cleared" /\ level >= High /\ x.scope # "allow" =>
                   Decide(x, level, status) = "block"
              /\ ~Contextual(x) /\ level >= High /\ x.scope # "allow" =>
                   Decide(x, level, status) = "block"
<1>1. /\ x.policy \in {"none", "defer", "block"}
      /\ x.scope \in {"none", "defer", "deny", "capability", "allow"}
      /\ x.kind \in {"pre_action", "observed"}
  BY DEF Findings
<1>2. ByPolicy(x) \in Verdicts
  BY <1>1 DEF ByPolicy, Verdicts
<1>3. \A v \in Verdicts :
        /\ Scoped(x, v, status) \in Verdicts
        /\ v = "block" /\ (x.scope = "allow" => status = "failed_closed") =>
             Scoped(x, v, status) = "block"
  BY <1>1 DEF Scoped, Verdicts
<1>4. "block" \in Verdicts /\ "allow" \in Verdicts
  BY DEF Verdicts
<1> QED
  BY <1>1, <1>2, <1>3, <1>4 DEF Decide

-----------------------------------------------------------------------------
(* The steps of an evaluation. *)

\* The initial state, in which no review is under way.
THEOREM InitReviewInv == Init => ReviewInv
<1> SUFFICES ASSUME Init  PROVE ReviewInv
  OBVIOUS
<1>1. review.stage = "idle"
  BY DEF Init, Idle
<1>2. ReviewTypeOK
  BY DEF Init, ReviewTypeOK
<1> QED
  BY <1>1, <1>2 DEF ReviewInv, HeardInTurn, SecondFaithful, SecondSevere,
     ActionsTainted, ReviewFailsClosed,
     RiskNeverLowered, ContaminationReviewed, Done

\* An evaluation that is under way has an event, which the first tier knows.
LEMMA UnderWay ==
  ASSUME ReviewTypeOK, review.stage # "idle"
  PROVE  review \in Review /\ X \in Findings
<1>1. review \in Review
  BY DEF ReviewTypeOK, Idle
<1>2. X \in Findings
  BY <1>1, ReviewAssumption DEF Review, X
<1> QED
  BY <1>1, <1>2

\* A review that begins has heard nobody and stands where the first tier put it.
LEMMA BeginInv ==
  ASSUME ReviewInv, NEW e \in Events, NEW asked \in 1..3, Begin(e, asked)
  PROVE  ReviewInv'
<1> DEFINE x == L1[e]
           s == SessionOf[e]
           tainted == /\ x.kind = "pre_action" /\ s \in contaminated
                      /\ Strategy \in {"upgrade_next", "upgrade_session"}
           upgraded == tainted /\ asked = 1
           tier == Tier(x, asked, upgraded)
           start == [stage |-> "rules", event |-> e, asked |-> asked,
                     tainted |-> tainted, forced |-> tier = 3, said |-> <<>>,
                     second |-> Degraded(x), granted |-> FALSE,
                     level |-> x.level, status |-> "l1", tier |-> 1,
                     verdict |-> Decide(x, x.level, "l1")]
<1>1. x \in Findings
  BY ReviewAssumption
<1>2. /\ x.level \in Low..Critical
      /\ x.kind \in {"pre_action", "observed"}
      /\ x.routing \in 0..3
  BY <1>1 DEF Findings
<1>3. /\ review' = IF Reviewed(x, tier, upgraded) THEN start
                   ELSE [start EXCEPT !.stage = "done"]
      /\ runs' = runs /\ contaminated' \subseteq contaminated
  BY DEF Begin
<1>4. Decide(x, x.level, "l1") \in Verdicts
  BY <1>1, <1>2, DecideFacts DEF Statuses
<1>5. start \in Review
  <2>1. Degraded(x) \in Result
    BY <1>1, ResultTypes
  <2>2. <<>> \in Seq(Result)
    OBVIOUS
  <2>3. tainted \in BOOLEAN /\ (tier = 3) \in BOOLEAN
    OBVIOUS
  <2> HIDE DEF tainted, tier, x
  <2> QED
    BY <1>2, <1>4, <2>1, <2>2, <2>3 DEF Review, Statuses
<1>6. CASE Reviewed(x, tier, upgraded)
  <2>1. review' = start
    BY <1>3, <1>6
  <2>2. review'.stage = "rules" /\ review'.said = <<>> /\ review' \in Review
    BY <1>5, <2>1
  <2>3. ActionsTainted'
    BY <2>1 DEF ActionsTainted, X
  <2> QED
    BY <1>3, <2>2, <2>3
    DEF ReviewInv, ReviewTypeOK, HeardInTurn, SecondFaithful, SecondSevere,
       ReviewFailsClosed, RiskNeverLowered, ContaminationReviewed, Done
<1>7. CASE ~Reviewed(x, tier, upgraded)
  <2>1. review' = [start EXCEPT !.stage = "done"]
    BY <1>3, <1>7
  <2>2. review' \in Review
    <3> HIDE DEF start
    <3> QED BY <1>5, <2>1 DEF Review
  <2>3. /\ review'.stage = "done" /\ review'.event = e
        /\ review'.level = x.level /\ review'.status = "l1"
        /\ review'.tainted = tainted /\ review'.asked = asked
        /\ review'.verdict = Decide(x, x.level, "l1")
    BY <2>1
  <2>4. X' = x
    BY <2>3 DEF X
  <2>5. ~Contextual(x)
    BY <1>7 DEF Reviewed
  <2>6. ~(tainted /\ asked = 1)
    <3>1. CASE upgraded
      <4>1. tier > 1
        BY <1>2, <3>1 DEF Tier, AtLeast
      <4> QED BY <1>7, <3>1, <4>1 DEF Reviewed
    <3> QED BY <3>1
  <2>7. x.kind = "pre_action" /\ x.level >= High /\ x.scope # "allow" =>
          review'.verdict = "block"
    BY <1>1, <1>2, <2>3, DecideFacts DEF Statuses
  <2>8. ReviewFailsClosed' /\ ContaminationReviewed'
    BY <2>3, <2>4, <2>5, <2>6 DEF ReviewFailsClosed, ContaminationReviewed, Done
  <2>9. RiskNeverLowered'
    BY <1>2, <2>3, <2>4, <2>7 DEF RiskNeverLowered, Low, Critical
  <2>10. ActionsTainted'
    BY <2>3, <2>4 DEF ActionsTainted
  <2> QED
    BY <1>3, <2>2, <2>3, <2>8, <2>9, <2>10
    DEF ReviewInv, ReviewTypeOK, HeardInTurn, SecondFaithful, SecondSevere
<1> QED
  BY <1>6, <1>7

\* An evaluation ends well if a contextual route is cleared by one who was
\* heard and objected to by none, or fails closed, and if no other status
\* comes with a risk below that of the first tier, or of one who was heard.
LEMMA ConcludedInv ==
  ASSUME ReviewInv, review.stage \in {"rules", "llm", "agent", "merge"},
         NEW level \in Low..Critical, NEW status \in Statuses, NEW tier \in 1..3,
         review' = Concluded(level, status, tier),
         runs' \in [Sessions -> Nat], contaminated' = contaminated,
         status # "cleared" => level >= X.level,
         ~Contextual(X) =>
           \/ status = "fallback"
           \/ /\ review.said # <<>>
              /\ \A i \in DOMAIN review.said :
                   review.said[i].conf > 0 => review.said[i].level <= level,
         Contextual(X) =>
           \/ status = "failed_closed"
           \/ /\ \E i \in DOMAIN review.said :
                   review.said[i].clear /\ (X.l3 => review.said[i].tier = 3)
              /\ \A i \in DOMAIN review.said : ~Adverse(review.said[i])
  PROVE  ReviewInv'
<1>1. review \in Review /\ X \in Findings
  BY UnderWay DEF ReviewInv
<1>2. /\ Decide(X, level, status) \in Verdicts
      /\ X.kind = "pre_action" =>
           /\ Contextual(X) /\ status = "failed_closed" =>
                Decide(X, level, status) = "block"
           /\ status # "cleared" /\ level >= High /\ X.scope # "allow" =>
                Decide(X, level, status) = "block"
           /\ ~Contextual(X) /\ level >= High /\ X.scope # "allow" =>
                Decide(X, level, status) = "block"
  BY <1>1, DecideFacts
<1>3. /\ review' \in Review
      /\ review'.stage = "done" /\ review'.event = review.event
      /\ review'.said = review.said /\ review'.tainted = review.tainted
      /\ review'.level = level /\ review'.status = status
      /\ review'.verdict = Decide(X, level, status)
  BY <1>1, <1>2 DEF Concluded, Review, X
<1>4. X' = X
  BY <1>3 DEF X
<1>5. ReviewFailsClosed'
  BY <1>2, <1>3, <1>4 DEF ReviewFailsClosed
<1>7. review.tainted => X.kind = "pre_action"
  BY DEF ReviewInv, ActionsTainted
<1>8. ContaminationReviewed'
  BY <1>2, <1>3, <1>4, <1>7 DEF ContaminationReviewed
<1>9. ActionsTainted'
  BY <1>3, <1>4, <1>7 DEF ActionsTainted
<1>6. RiskNeverLowered'
  <2>1. X.level \in Low..Critical
    BY <1>1 DEF Findings
  <2> QED
    BY <1>2, <1>3, <1>4, <2>1 DEF RiskNeverLowered, Low, High, Critical
<1> QED
  BY <1>3, <1>5, <1>6, <1>8, <1>9
  DEF ReviewInv, ReviewTypeOK, HeardInTurn, SecondFaithful, SecondSevere

\* Asking the second tier, the cap on L3 reviews included.
LEMMA SecondTierInv ==
  ASSUME ReviewInv, review.stage \in {"rules", "llm"},
         NEW s \in Seq(Result), Len(s) \in 1..2, SecondTier(s)
  PROVE  ReviewInv'
<1> DEFINE first   == Composite(X, review.forced, s)
           further == review.forced \/ ~Decisive(X, first)
           granted == further /\ Grants(first)
<1>1. review \in Review /\ X \in Findings
  BY UnderWay DEF ReviewInv
<1>2. /\ first \in Result
      /\ Contextual(X) => \A i \in DOMAIN s : Adverse(s[i]) => Adverse(first)
      /\ first.clear => \E i \in DOMAIN s : s[i].clear /\ s[i].tier = first.tier
      /\ ~Contextual(X) => \A i \in DOMAIN s : AsSevere(first, s[i])
  <2>1. review.forced \in BOOLEAN
    BY <1>1 DEF Review
  <2> QED
    BY <1>1, <2>1, CompositeFacts
<1>3. /\ review' = [review EXCEPT
                      !.stage = IF further THEN "agent" ELSE "merge",
                      !.said = s, !.second = first, !.granted = granted]
      /\ runs' = runs /\ contaminated' = contaminated
  BY DEF SecondTier
<1>4. granted \in BOOLEAN
  OBVIOUS
<1>5. /\ review' \in Review
      /\ review'.stage = IF further THEN "agent" ELSE "merge"
      /\ review'.said = s /\ review'.second = first
      /\ review'.event = review.event /\ review'.forced = review.forced
      /\ review'.tainted = review.tainted
  <2> HIDE DEF first, further, granted
  <2> QED BY <1>1, <1>2, <1>3, <1>4 DEF Review
<1>6. X' = X
  BY <1>5 DEF X
<1>7. AgentAsked' <=> further
  BY <1>5, <1>6 DEF AgentAsked
<1>8. SecondSaid' = Len(s)
  BY <1>5, <1>7 DEF SecondSaid
<1>9. HeardInTurn'
  BY <1>5, <1>7, <1>8 DEF HeardInTurn
<1>10. SecondFaithful'
  <2>1. DOMAIN s = 1..Len(s)
    OBVIOUS
  <2> HIDE DEF first, further, granted
  <2> QED
    BY <1>2, <1>5, <1>6, <1>8, <2>1 DEF SecondFaithful
<1>11. SecondSevere'
  <2>1. DOMAIN s = 1..Len(s)
    OBVIOUS
  <2> HIDE DEF first, further, granted
  <2> QED
    BY <1>2, <1>5, <1>6, <1>8, <2>1 DEF SecondSevere
<1>12. ActionsTainted'
  BY <1>5, <1>6 DEF ReviewInv, ActionsTainted
<1>13. ~Done'
  BY <1>5 DEF Done
<1> QED
  BY <1>3, <1>5, <1>9, <1>10, <1>11, <1>12, <1>13
  DEF ReviewInv, ReviewTypeOK, ReviewFailsClosed, RiskNeverLowered,
      ContaminationReviewed

\* The rules answer first, and always.
LEMMA RulesInv ==
  ASSUME ReviewInv, Rules
  PROVE  ReviewInv'
<1>1. review.stage = "rules"
  BY DEF Rules
<1>2. review \in Review /\ X \in Findings
  BY <1>1, UnderWay DEF ReviewInv
<1>3. PICK r \in RuleResults(X) :
        IF review.forced \/ ~Decisive(X, r)
        THEN /\ review' = [review EXCEPT !.stage = "llm", !.said = <<r>>]
             /\ UNCHANGED <<runs, contaminated>>
        ELSE SecondTier(<<r>>)
  BY DEF Rules
<1>4. r \in Result
  BY <1>2, ResultTypes
<1>5. CASE review.forced \/ ~Decisive(X, r)
  <2> DEFINE t == <<r>>
  <2>1. t \in Seq(Result) /\ Len(t) = 1
    BY <1>4
  <2>2. /\ review' = [review EXCEPT !.stage = "llm", !.said = t]
        /\ UNCHANGED <<runs, contaminated>>
    BY <1>3, <1>5
  <2> HIDE DEF t
  <2>3. /\ review' \in Review
        /\ review'.stage = "llm" /\ Len(review'.said) = 1
        /\ review'.event = review.event /\ review'.tainted = review.tainted
    BY <1>2, <2>1, <2>2 DEF Review
  <2>4. ActionsTainted'
    BY <1>1, <2>3 DEF ReviewInv, ActionsTainted, X
  <2> QED
    BY <2>2, <2>3, <2>4
    DEF ReviewInv, ReviewTypeOK, HeardInTurn, SecondFaithful, SecondSevere,
     ActionsTainted, ReviewFailsClosed,
        RiskNeverLowered, ContaminationReviewed, Done
<1>6. CASE ~(review.forced \/ ~Decisive(X, r))
  <2>1. <<r>> \in Seq(Result) /\ Len(<<r>>) \in 1..2
    BY <1>4
  <2>2. SecondTier(<<r>>)
    BY <1>3, <1>6
  <2> QED
    BY <1>1, <2>1, <2>2, SecondTierInv
<1> QED
  BY <1>5, <1>6

\* The answer of the LLM, a degraded one included.
LEMMA LLMInv ==
  ASSUME ReviewInv, LLM
  PROVE  ReviewInv'
<1>1. review.stage = "llm"
  BY DEF LLM
<1>2. review \in Review /\ X \in Findings /\ Len(review.said) = 1
  BY <1>1, UnderWay DEF ReviewInv, HeardInTurn
<1>3. PICK r \in LLMResults(X) : SecondTier(Append(review.said, r))
  BY DEF LLM
<1>4. r \in Result /\ review.said \in Seq(Result)
  BY <1>2, ResultTypes DEF Review
<1>5. /\ Append(review.said, r) \in Seq(Result)
      /\ Len(Append(review.said, r)) \in 1..2
  <2>1. /\ Append(review.said, r) \in Seq(Result)
        /\ Len(Append(review.said, r)) = Len(review.said) + 1
    BY <1>4, AppendFacts, Zenon
  <2> QED
    BY <1>2, <2>1
<1> QED
  BY <1>1, <1>3, <1>5, SecondTierInv

\* The answer of the agent, a degraded one included.
LEMMA AgentInv ==
  ASSUME ReviewInv, Agent
  PROVE  ReviewInv'
<1>1. review.stage = "agent"
  BY DEF Agent
<1>2. review \in Review /\ X \in Findings
  BY <1>1, UnderWay DEF ReviewInv
<1>3. AgentAsked /\ SecondSaid = Len(review.said) /\ SecondSaid \in 1..2
  BY <1>1 DEF ReviewInv, HeardInTurn, SecondSaid
<1>4. PICK r \in AgentResults(X) :
        review' = [review EXCEPT !.stage = "merge", !.said = Append(@, r)]
  BY DEF Agent
<1>5. UNCHANGED <<runs, contaminated>>
  BY DEF Agent
<1>6. r \in Result /\ review.said \in Seq(Result)
  BY <1>2, ResultTypes DEF Review
<1>7. /\ review' \in Review
      /\ review'.stage = "merge" /\ review'.said = Append(review.said, r)
      /\ review'.second = review.second /\ review'.event = review.event
      /\ review'.forced = review.forced /\ review'.tainted = review.tainted
  <2> DEFINE t == Append(review.said, r)
  <2>1. t \in Seq(Result)
    BY <1>6, AppendFacts
  <2>2. review' = [review EXCEPT !.stage = "merge", !.said = t]
    BY <1>4
  <2> HIDE DEF t
  <2>3. /\ review' \in Review
        /\ review'.stage = "merge" /\ review'.said = t
        /\ review'.second = review.second /\ review'.event = review.event
        /\ review'.forced = review.forced /\ review'.tainted = review.tainted
    BY <1>2, <2>1, <2>2 DEF Review
  <2> QED
    BY <2>3 DEF t
<1>8. X' = X
  BY <1>7 DEF X
<1>9. AgentAsked'
  BY <1>3, <1>7, <1>8 DEF AgentAsked
<1>10. SecondSaid' = SecondSaid
  BY <1>3, <1>6, <1>7, <1>9, AppendFacts DEF SecondSaid
<1>11. \A i \in 1..SecondSaid : review'.said[i] = review.said[i]
  BY <1>3, <1>6, <1>7, AppendFacts
<1>12. HeardInTurn'
  BY <1>3, <1>7, <1>10 DEF HeardInTurn
<1>13. SecondFaithful'
  BY <1>1, <1>7, <1>8, <1>10, <1>11 DEF ReviewInv, SecondFaithful
<1>14. SecondSevere'
  BY <1>1, <1>7, <1>8, <1>10, <1>11 DEF ReviewInv, SecondSevere
<1>15. ActionsTainted'
  BY <1>1, <1>7, <1>8 DEF ReviewInv, ActionsTainted
<1> QED
  BY <1>5, <1>7, <1>12, <1>13, <1>14, <1>15
  DEF ReviewInv, ReviewTypeOK, ReviewFailsClosed, RiskNeverLowered,
      ContaminationReviewed, Done

\* The end of a review that came to something: merge, decision and scope.
LEMMA MergeInv ==
  ASSUME ReviewInv, Merge
  PROVE  ReviewInv'
<1> DEFINE last   == review.said[Len(review.said)]
           pair   == IF AgentAsked THEN <<review.second, last>> ELSE <<review.second>>
           result == Composite(X, review.forced, pair)
<1>1. review.stage = "merge" /\ contaminated' = contaminated
  BY DEF Merge
<1>2. review \in Review /\ X \in Findings
  BY <1>1, UnderWay DEF ReviewInv
<1>3. /\ review.said \in Seq(Result) /\ review.second \in Result
      /\ review.forced \in BOOLEAN /\ runs \in [Sessions -> Nat]
  BY <1>2 DEF Review, ReviewInv, ReviewTypeOK
<1>4. /\ SecondSaid \in 1..2
      /\ SecondSaid = IF AgentAsked THEN Len(review.said) - 1 ELSE Len(review.said)
  BY <1>1 DEF ReviewInv, HeardInTurn, SecondSaid
<1>5. Len(review.said) \in 1..3
  BY <1>3, <1>4
<1>6. last \in Result
  BY <1>3, <1>5
<1>7. /\ pair \in Seq(Result) /\ Len(pair) \in 1..2
      /\ pair[1] = review.second
      /\ AgentAsked => pair = <<review.second, last>>
      /\ ~AgentAsked => pair = <<review.second>>
  <2> HIDE DEF last
  <2>1. CASE AgentAsked
    <3>1. pair = <<review.second, last>>
      BY <2>1
    <3> HIDE DEF pair
    <3> QED BY <1>3, <1>6, <2>1, <3>1
  <2>2. CASE ~AgentAsked
    <3>1. pair = <<review.second>>
      BY <2>2
    <3> HIDE DEF pair
    <3> QED BY <1>3, <2>2, <3>1
  <2> QED
    BY <2>1, <2>2
<1>8. /\ result \in Result
      /\ Contextual(X) => \A i \in DOMAIN pair : Adverse(pair[i]) => Adverse(result)
      /\ result.clear =>
           \E i \in DOMAIN pair : pair[i].clear /\ pair[i].tier = result.tier
      /\ ~Contextual(X) => \A i \in DOMAIN pair : AsSevere(result, pair[i])
  <2> HIDE DEF pair
  <2> QED BY <1>2, <1>3, <1>7, CompositeFacts
<1>9. /\ runs' \in [Sessions -> Nat]
  <2>1. S \in Sessions
    BY <1>2, ReviewAssumption DEF S, Review
  <2>2. runs' = runs \/ runs' = [runs EXCEPT ![S] = @ + 1]
    BY DEF Merge
  <2> QED
    BY <1>3, <2>1, <2>2
<1>10. review.said # <<>>
  BY <1>5
<1>11. /\ X.level \in Low..Critical /\ result.level \in Low..Critical
       /\ result.tier \in 1..3
  BY <1>2, <1>8 DEF Findings, Result, Answer
<1>12. \A i \in DOMAIN review.said :
         i \in 1..SecondSaid \/ (AgentAsked /\ review.said[i] = last)
  BY <1>3, <1>4, <1>5
<1>13. ~Contextual(X) => \A i \in DOMAIN review.said : AsSevere(result, review.said[i])
  <2> SUFFICES ASSUME ~Contextual(X), NEW i \in DOMAIN review.said
               PROVE  AsSevere(result, review.said[i])
    OBVIOUS
  <2>1. review.said[i] \in Result
    BY <1>3
  <2>2. AsSevere(result, review.second) /\ (AgentAsked => AsSevere(result, last))
    <3> HIDE DEF last, pair, result
    <3>1. 1 \in DOMAIN pair /\ (AgentAsked => 2 \in DOMAIN pair /\ pair[2] = last)
      BY <1>7
    <3> QED BY <1>7, <1>8, <3>1
  <2>3. i \in 1..SecondSaid => AsSevere(review.second, review.said[i])
    BY <1>1 DEF ReviewInv, SecondSevere
  <2>4. /\ review.said[i].level \in Int /\ review.second.level \in Int
        /\ result.level \in Int
    BY <1>3, <1>8, <2>1 DEF Result, Answer, Low, Critical
  <2> HIDE DEF last, pair, result
  <2> QED BY <1>12, <2>2, <2>3, <2>4 DEF AsSevere
<1>14. CASE Contextual(X) /\ result.tier > 1 /\ result.clear
              /\ (X.l3 => result.tier = 3)
  <2>1. review' = Concluded(Medium, "cleared", result.tier)
    BY <1>14 DEF Merge
  <2>2. ~Adverse(result)
    BY <1>14 DEF Adverse
  <2>3. ~Adverse(review.second) /\ (AgentAsked => ~Adverse(last))
    <3> HIDE DEF last, pair, result
    <3>1. 1 \in DOMAIN pair /\ (AgentAsked => 2 \in DOMAIN pair /\ pair[2] = last)
      BY <1>7
    <3> QED BY <1>7, <1>8, <1>14, <2>2, <3>1
  <2>4. \A i \in 1..SecondSaid : ~Adverse(review.said[i])
    BY <1>1, <1>14, <2>3 DEF ReviewInv, SecondFaithful
  <2>5. \A i \in DOMAIN review.said :
          i \in 1..SecondSaid \/ (AgentAsked /\ i = Len(review.said))
    BY <1>3, <1>4, <1>5
  <2>6. \A i \in DOMAIN review.said : ~Adverse(review.said[i])
    BY <2>3, <2>4, <2>5
  <2>7. \E i \in DOMAIN review.said :
          review.said[i].clear /\ review.said[i].tier = result.tier
    <3>1. \/ review.second.clear /\ review.second.tier = result.tier
          \/ AgentAsked /\ last.clear /\ last.tier = result.tier
      <4> HIDE DEF last, pair, result
      <4>1. PICK i \in DOMAIN pair : pair[i].clear /\ pair[i].tier = result.tier
        BY <1>8, <1>14
      <4>2. CASE AgentAsked
        <5>1. pair = <<review.second, last>>
          BY <1>7, <4>2
        <5> QED BY <4>1, <4>2, <5>1
      <4>3. CASE ~AgentAsked
        <5>1. pair = <<review.second>>
          BY <1>7, <4>3
        <5> QED BY <4>1, <5>1
      <4> QED BY <4>2, <4>3
    <3>2. CASE review.second.clear /\ review.second.tier = result.tier
      <4>1. PICK i \in 1..SecondSaid :
              review.said[i].clear /\ review.said[i].tier = review.second.tier
        BY <1>1, <3>2 DEF ReviewInv, SecondFaithful
      <4>2. i \in DOMAIN review.said
        BY <1>3, <1>4, <1>5
      <4> QED BY <3>2, <4>1, <4>2
    <3>3. CASE AgentAsked /\ last.clear /\ last.tier = result.tier
      <4>1. Len(review.said) \in DOMAIN review.said
        <5>1. DOMAIN review.said = 1..Len(review.said)
          BY <1>3
        <5> QED BY <1>5, <5>1
      <4> QED BY <3>3, <4>1
    <3> QED
      BY <3>1, <3>2, <3>3
  <2>8. \E i \in DOMAIN review.said :
          review.said[i].clear /\ (X.l3 => review.said[i].tier = 3)
    BY <1>14, <2>7
  <2>9. Medium \in Low..Critical /\ "cleared" \in Statuses
    BY DEF Low, Medium, Critical, Statuses
  <2> HIDE DEF result, pair, last
  <2> QED
    BY <1>1, <1>9, <1>10, <1>11, <1>14, <2>1, <2>6, <2>8, <2>9, ConcludedInv
<1>15. CASE Contextual(X) /\ ~(result.tier > 1 /\ result.clear
              /\ (X.l3 => result.tier = 3))
  <2>1. review' = Concluded(X.level, "failed_closed", result.tier)
    BY <1>15 DEF Merge
  <2>2. "failed_closed" \in Statuses /\ X.level >= X.level
    BY <1>11 DEF Statuses, Low, Critical
  <2> HIDE DEF result, pair, last
  <2> QED
    BY <1>1, <1>9, <1>10, <1>11, <1>15, <2>1, <2>2, ConcludedInv
<1>16. CASE ~Contextual(X) /\ result.tier = 1
  <2>1. review' = Concluded(X.level, "degraded", 1)
    BY <1>16 DEF Merge
  <2>2. "degraded" \in Statuses /\ 1 \in 1..3 /\ X.level >= X.level
    BY <1>11 DEF Statuses, Low, Critical
  <2>3. ~(result.conf > 0)
    BY <1>8, <1>16 DEF Result
  <2>4. \A i \in DOMAIN review.said :
          review.said[i].conf > 0 => review.said[i].level <= X.level
    <3> HIDE DEF result, pair, last
    <3> QED BY <1>16, <1>13, <2>3 DEF AsSevere
  <2> HIDE DEF result, pair, last
  <2> QED
    BY <1>1, <1>9, <1>10, <1>11, <1>16, <2>1, <2>2, <2>4, ConcludedInv
<1>17. CASE ~Contextual(X) /\ result.tier # 1
  <2>1. review' = Concluded(Raised(X, result), "completed", result.tier)
    BY <1>17 DEF Merge
  <2>2. /\ "completed" \in Statuses
        /\ Raised(X, result) \in Low..Critical /\ Raised(X, result) >= X.level
    BY <1>11 DEF Statuses, Raised, AtLeast, Low, Critical
  <2>3. Raised(X, result) >= result.level
    BY <1>11 DEF Raised, AtLeast, Low, Critical
  <2>4. \A i \in DOMAIN review.said : review.said[i].level \in Int
    BY <1>3 DEF Result, Answer, Low, Critical
  <2>5. result.level \in Int /\ Raised(X, result) \in Int
    BY <1>11, <2>2 DEF Low, Critical
  <2>6. \A i \in DOMAIN review.said :
          review.said[i].conf > 0 => review.said[i].level <= Raised(X, result)
    <3> HIDE DEF result, pair, last
    <3> QED BY <1>17, <1>13, <2>3, <2>4, <2>5 DEF AsSevere
  <2> HIDE DEF result, pair, last
  <2> QED
    BY <1>1, <1>9, <1>10, <1>11, <1>17, <2>1, <2>2, <2>6, ConcludedInv
<1> QED
  BY <1>14, <1>15, <1>16, <1>17

\* The end of a review that came to nothing.
LEMMA FailsInv ==
  ASSUME ReviewInv, Fails
  PROVE  ReviewInv'
<1> DEFINE status == IF Contextual(X) THEN "failed_closed" ELSE "fallback"
<1>1. /\ review.stage \in {"rules", "llm", "agent"}
      /\ review' = Concluded(X.level, status, 1)
      /\ runs' = runs /\ contaminated' = contaminated
  BY DEF Fails
<1>2. review \in Review /\ X \in Findings
  BY <1>1, UnderWay DEF ReviewInv
<1>3. X.level \in Low..Critical /\ X.level >= X.level
  BY <1>2 DEF Findings, Low, Critical
<1>4. status \in Statuses /\ 1 \in 1..3
  BY DEF Statuses
<1>5. runs' \in [Sessions -> Nat]
  BY <1>1 DEF ReviewInv, ReviewTypeOK
<1>6. IF Contextual(X) THEN status = "failed_closed" ELSE status = "fallback"
  OBVIOUS
<1>7. status # "cleared"
  OBVIOUS
<1> HIDE DEF status
<1> QED
  BY <1>1, <1>3, <1>4, <1>5, <1>6, <1>7, ConcludedInv

\* Every step of an evaluation, and what comes between evaluations, preserves
\* the invariant.
THEOREM NextReviewInv == ReviewInv /\ [Next]_vars => ReviewInv'
<1> SUFFICES ASSUME ReviewInv, [Next]_vars  PROVE ReviewInv'
  OBVIOUS
<1>1. CASE \E e \in Events, asked \in 1..3 : Begin(e, asked)
  BY <1>1, BeginInv
<1>2. CASE Rules
  BY <1>2, RulesInv
<1>3. CASE LLM
  BY <1>3, LLMInv
<1>4. CASE Agent
  BY <1>4, AgentInv
<1>5. CASE Merge
  BY <1>5, MergeInv
<1>6. CASE Fails
  BY <1>6, FailsInv
<1>7. CASE Return
  <2>1. review' = Idle /\ review'.stage = "idle"
    BY <1>7 DEF Return, Idle
  <2>2. ReviewTypeOK'
    BY <1>7, <2>1 DEF Return, ReviewInv, ReviewTypeOK
  <2> QED
    BY <2>1, <2>2 DEF ReviewInv, HeardInTurn, SecondFaithful, SecondSevere,
     ActionsTainted, ReviewFailsClosed,
       RiskNeverLowered, ContaminationReviewed, Done
<1>8. CASE \E s \in Sessions : Finding(s)
  <2>1. review' = review /\ ReviewTypeOK'
    BY <1>8 DEF Finding, ReviewInv, ReviewTypeOK
  <2> QED
    BY <2>1 DEF ReviewInv, HeardInTurn, SecondSaid, AgentAsked, X, SecondFaithful,
       SecondSevere, ActionsTainted,
       ReviewFailsClosed, RiskNeverLowered, ContaminationReviewed, Done
<1>9. CASE UNCHANGED vars
  <2>1. review' = review /\ ReviewTypeOK'
    BY <1>9 DEF vars, ReviewInv, ReviewTypeOK
  <2> QED
    BY <2>1 DEF ReviewInv, HeardInTurn, SecondSaid, AgentAsked, X, SecondFaithful,
       SecondSevere, ActionsTainted,
       ReviewFailsClosed, RiskNeverLowered, ContaminationReviewed, Done
<1> QED
  BY <1>1, <1>2, <1>3, <1>4, <1>5, <1>6, <1>7, <1>8, <1>9 DEF Next

\* The invariant holds in every state of every behaviour.
THEOREM ReviewInductive == Spec => []ReviewInv
<1>1. Init => ReviewInv
  BY InitReviewInv
<1>2. ReviewInv /\ [Next]_vars => ReviewInv'
  BY NextReviewInv
<1> QED
  BY <1>1, <1>2, PTL DEF Spec

-----------------------------------------------------------------------------
\* An action on a contextual route goes ahead, or to an operator, only if it
\* was cleared by the tier that is required and nobody who was heard objected,
\* however the reviews of engine.py are routed, merged, degraded or cut short.
THEOREM FailsClosed == Spec => []ReviewFailsClosed
<1>1. ReviewInv => ReviewFailsClosed
  BY DEF ReviewInv
<1> QED
  BY <1>1, ReviewInductive, PTL

\* No review leaves an action with less risk than the first tier found, save a
\* clearance, and what was to be blocked for its risk stays blocked.
THEOREM RiskStands == Spec => []RiskNeverLowered
<1>1. ReviewInv => RiskNeverLowered
  BY DEF ReviewInv
<1> QED
  BY <1>1, ReviewInductive, PTL

\* An action asked for at L1 that finds its session marked as contaminated is
\* judged by what its reviewers found, unless the time was up, and then it says
\* so: whatever the configuration of benchmark mode and of routing.
THEOREM MarkBuysReview == Spec => []ContaminationReviewed
<1>1. ReviewInv => ContaminationReviewed
  BY DEF ReviewInv
<1> QED
  BY <1>1, ReviewInductive, PTL
=============================================================================
