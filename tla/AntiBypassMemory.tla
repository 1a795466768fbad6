--------------------------- MODULE AntiBypassMemory ---------------------------
(***************************************************************************)
(* The memory of the anti-bypass guard for one session                     *)
(* (gateway/analysis/anti_bypass_guard.py) and the way the decision flow   *)
(* reads and writes it (gateway/core/sync_decision_flow.py).  It holds     *)
(*                                                                         *)
(*   prior:  what was finally blocked or deferred at high risk, compared   *)
(*           by likeness of the text;                                      *)
(*   denied: the effects of final blocks, one record per capability;       *)
(*   held:   the effects of deferrals that are not final, until they are   *)
(*           resolved.                                                     *)
(*                                                                         *)
(* An attempt is matched against the memory when it arrives; the match is  *)
(* a decision of the guard's own, or asks the engine for a review.  How    *)
(* like two texts are, and which effects a text has, is given.  Benchmark  *)
(* mode and the recording of allowed actions, which is off by default, are *)
(* left out.                                                               *)
(***************************************************************************)
EXTENDS Integers, Sequences, FiniteSets, FiniteSetsExt, Functions, SequencesExt

CONSTANTS
  Attempts,    \* the requests of the session
  Event,       \* attempt -> its event id: a retry has that of the first
  Effect,      \* attempt -> the effect the normaliser makes of it
  Likeness,    \* attempt -> an earlier attempt -> how like their texts are
  Leaks,       \* attempts that write a sensitive value seen in an output
  Confirms,    \* attempts that are confirmations, for an operator to answer
  Recogniser,  \* the LLM recogniser is configured
  Bridge,      \* deferred attempts wait for an operator
  Lenient,     \* mode is normal or permissive
  ExactAction, SameToolAction, CrossToolAction, LLMAction,
  TTL, MaxRecords

Deterministic == {"network.fetch", "package.install"}

Preempting == Deterministic \union {"credential.read"}

ASSUME BypassAssumption ==
  /\ IsFiniteSet(Attempts)
  /\ Leaks \subseteq Attempts /\ Confirms \subseteq Attempts
  /\ \A a \in Attempts : /\ Effect[a].capabilities \in Seq(STRING)
                         /\ IsInjective(Effect[a].capabilities)
  /\ \A b \in {Recogniser, Bridge, Lenient} : b \in BOOLEAN
  /\ {ExactAction, SameToolAction}
       \subseteq {"observe", "force_l2", "force_l3", "defer", "block"}
  /\ {CrossToolAction, LLMAction}
       \subseteq {"observe", "force_l2", "force_l3", "defer"}
  /\ TTL \in Nat \ {0} /\ MaxRecords \in Nat \ {0}

VARIABLES
  memory,   \* the three deques; a record has the time it still has to live
  stage,    \* attempt -> where it is
  match,    \* what the guard has just said of the attempt it was asked about
  outcome,  \* attempt -> the decision on it
  due       \* attempt -> kind -> how long it is still due to be remembered so

vars == <<memory, stage, match, outcome, due>>

Kinds == {"prior", "denied", "held"}

NoMatch == [type |-> "none", action |-> "none", high |-> FALSE]

\* The guard has not been asked.
Unasked == [type |-> "unasked", action |-> "none", high |-> FALSE]

Undecided == [verdict |-> "none", final |-> FALSE, by |-> "none", high |-> FALSE]

Init ==
  /\ memory = [k \in Kinds |-> <<>>]
  /\ stage = [a \in Attempts |-> "new"]
  /\ match = Unasked
  /\ outcome = [a \in Attempts |-> Undecided]
  /\ due = [a \in Attempts |-> [k \in Kinds |-> 0]]

-----------------------------------------------------------------------------
(* Effects. *)

Capabilities(a) == Range(Effect[a].capabilities)

Targetless(a) == Effect[a].targets \union Effect[a].families = {}

Overlap(S, T) == S \intersect T # {}

\* Some effects are neither remembered nor matched, some only not matched.
Exempt(a) == Effect[a].scope # "none"

Memorable(a) ==
  /\ Effect[a].scope # "task"
  /\ Targetless(a) => Overlap(Capabilities(a), Deterministic)

SameTarget(a, r) == Overlap(Effect[a].targets, Effect[r.of].targets)

SameContent(a, r) ==
  LET written == Effect[r.of].content
  IN  /\ written # {}
      /\ Cardinality(Effect[a].content \intersect written)
           >= Min({2, Cardinality(written)})

\* The effect of a is that of the record r, as far as one capability goes.
SameEffect(a, r) ==
  /\ r.capability \in Capabilities(a)
  /\ \/ SameTarget(a, r)
     \/ Overlap(Effect[a].families, Effect[r.of].families)
     \/ r.capability \in Deterministic /\ Targetless(a) /\ Targetless(r.of)

-----------------------------------------------------------------------------
(* Keeping records. *)

Capped(s) == SubSeq(s, Max({0, Len(s) - MaxRecords}) + 1, Len(s))

\* The records that have expired are dropped from the front of each deque.
Evicted(m) ==
  [k \in Kinds |->
     LET live == {i \in DOMAIN m[k] : m[k][i].left > 0}
     IN  IF live = {} THEN <<>> ELSE SubSeq(m[k], Min(live), Len(m[k]))]

\* One record per capability of the effect of a, or none.  A record says on
\* what it was made: on the decision, or on the answer to what was asked.
EffectRecords(a, high, on) ==
  IF ~Memorable(a) THEN <<>>
  ELSE [i \in DOMAIN Effect[a].capabilities |->
          [of |-> a, capability |-> Effect[a].capabilities[i], high |-> high,
           left |-> TTL, on |-> on]]

\* Fault: a block of the guard's own is remembered like any other.
DeniedAlsoByGuard(m, a, d, on) ==
  [m EXCEPT !["denied"] = Capped(@ \o EffectRecords(a, d.high, on))]

\* What the guard itself has blocked is not a new denial.
Denied(m, a, d, on) ==
  IF d.by = "guard" THEN m
  ELSE [m EXCEPT !["denied"] = Capped(@ \o EffectRecords(a, d.high, on))]

Prior(m, a) ==
  [m EXCEPT !["prior"] = Capped(Append(@, [of |-> a, left |-> TTL]))]

Held(m, a, d) ==
  [m EXCEPT !["held"] = Capped(@ \o EffectRecords(a, d.high, "decision"))]

\* Fault: a block at less than high risk is not remembered at all.
RecordedIfHigh(m, a, d) ==
  IF ~d.final THEN Held(Evicted(m), a, d)
  ELSE IF d.verdict = "allow" \/ ~d.high THEN m
  ELSE LET p == Prior(Evicted(m), a)
       IN  IF d.verdict = "block" THEN Denied(p, a, d, "decision") ELSE p

\* The memory after the decision d on a has been recorded: a block is
\* remembered as a denial whatever its risk, as a prior only at high risk.
Recorded(m, a, d) ==
  IF ~d.final THEN Held(Evicted(m), a, d)
  ELSE IF d.verdict = "allow" \/ (~d.high /\ d.verdict # "block") THEN m
  ELSE LET p == IF d.high THEN Prior(Evicted(m), a) ELSE Evicted(m)
       IN  IF d.verdict = "block" THEN Denied(p, a, d, "decision") ELSE p

\* Of the held records, one by one, those of other events than that of a.
Freed(s, a) ==
  LET kept[n \in 0..Len(s)] ==
        IF n = 0 THEN <<>>
        ELSE IF Event[s[n].of] # Event[a] THEN Append(kept[n - 1], s[n])
        ELSE kept[n - 1]
  IN  kept[Len(s)]

\* The memory after the deferral of a has been resolved: nothing of its event
\* is held any longer, and a block is a denial.
Resolved(m, a, d) ==
  LET freed == [m EXCEPT !["held"] = Freed(@, a)]
  IN  IF d.verdict = "block" THEN Denied(Evicted(freed), a, d, "answer") ELSE freed

-----------------------------------------------------------------------------
(* Matching. *)

\* A denial whose effect a repeats: a preempting capability before others,
\* then the newest.  The same target or content is an exact repeat; a family
\* alone leaves a doubt, which some modes let an operator settle.
DeniedMatch(a, s) ==
  LET hits == {i \in DOMAIN s : /\ s[i].capability \in Capabilities(a)
                                /\ SameEffect(a, s[i]) \/ SameContent(a, s[i])}
      strong == {i \in hits : s[i].capability \in Preempting}
      r == s[Max(IF strong = {} THEN hits ELSE strong)]
  IN  IF hits = {} THEN NoMatch
      ELSE [type   |-> IF strong = {} THEN "denied" ELSE "preempting",
            action |-> IF SameTarget(a, r) \/ SameContent(a, r) THEN ExactAction
                       ELSE IF Lenient /\ ~Targetless(a) THEN "defer"
                       ELSE "block",
            high   |-> r.high]

\* The likest text that was blocked or deferred.
PriorMatch(a, s) ==
  LET alike == {Likeness[a][r.of] : r \in Range(s)}
      Repeat(action) == [type |-> "repeat", action |-> action, high |-> TRUE]
  IN  IF "exact" \in alike THEN Repeat(ExactAction)
      ELSE IF "same tool" \in alike THEN Repeat(SameToolAction)
      ELSE IF "cross tool" \in alike THEN Repeat(CrossToolAction)
      ELSE NoMatch

\* An effect that waits for an answer: the newest such.
PendingMatch(a, s) ==
  LET hits == {i \in DOMAIN s : SameEffect(a, s[i])}
  IN  IF hits = {} THEN NoMatch
      ELSE [type |-> "pending", action |-> "defer", high |-> s[Max(hits)].high]

ExfiltrationMatch(a) ==
  IF a \in Leaks
  THEN [type |-> "exfiltration", action |-> "force_l3", high |-> TRUE]
  ELSE NoMatch

\* What the guard says of a: some denials come first, the others only after
\* the comparison of texts.
Matched(a, m) ==
  LET denied == DeniedMatch(a, m["denied"])
      said   == <<PriorMatch(a, m["prior"]), denied,
                  PendingMatch(a, m["held"]), ExfiltrationMatch(a)>>
      found  == {i \in 1..4 : said[i] # NoMatch}
  IN  IF Exempt(a) THEN ExfiltrationMatch(a)
      ELSE IF denied.type = "preempting" THEN denied
      ELSE IF found = {} THEN NoMatch ELSE said[Min(found)]

Candidates(a, m) == {r \in Range(m["prior"]) : Likeness[a][r.of] = "weak"}

-----------------------------------------------------------------------------
(* Decisions. *)

Decision(verdict, final, by, high) ==
  [verdict |-> verdict, final |-> final, by |-> by, high |-> high]

\* What the guard decides on the match x itself, or the engine, which may
\* review first.
Said(x) ==
  IF x.action \in {"block", "defer"} THEN {Decision(x.action, TRUE, "guard", x.high)}
  ELSE UNION {{Decision("allow", TRUE, "policy", h), Decision("block", TRUE, "policy", h),
               Decision("defer", FALSE, "policy", h)} : h \in BOOLEAN}

\* A confirmation is deferred whatever was decided.
Observed(a, d) ==
  IF a \in Confirms THEN Decision("defer", FALSE, "policy", d.high) ELSE d

\* What the analysis of the session's trajectory may make of the decision d: it
\* blocks or defers, but does not defer what is blocked.
Alerted(d) ==
  {d, Decision("block", TRUE, "policy", TRUE)}
    \union (IF d.verdict = "block" THEN {}
            ELSE {Decision("defer", TRUE, "policy", TRUE)})

\* What the session's scope may make of it: it denies, it lets a bounded
\* read-only action pass, or it wants an operator to see what was allowed.
Scoped(d) ==
  {d, Decision("block", TRUE, "policy", d.high)}
    \union (IF d.verdict = "allow" THEN {Decision("defer", FALSE, "policy", d.high)}
            ELSE {Decision("allow", TRUE, "policy", d.high)})

\* The one and then the other, on what is decided on a.
Overlaid(a, d) == UNION {Scoped(e) : e \in Alerted(Observed(a, d))}

\* What the match x may end in for a.
Outcomes(a, x) == UNION {Overlaid(a, d) : d \in Said(x)}

\* When a becomes due to be remembered by the decision d.
Renewed(log, a, d, resolved) ==
  [log EXCEPT
     ![a]["held"]   = IF ~d.final /\ Memorable(a) THEN TTL ELSE @,
     ![a]["prior"]  = IF ~resolved /\ d.final /\ d.high /\ d.verdict # "allow"
                      THEN TTL ELSE @,
     ![a]["denied"] = IF d.verdict = "block" /\ d.by # "guard" /\ Memorable(a)
                      THEN TTL ELSE @]

\* The risk of a decision is of no use any more once nobody is waited for.
Closed(d) == [d EXCEPT !.high = FALSE]

\* The decision d on a is recorded in the memory m.  Then an operator is asked
\* about a deferral, where the bridge is to be used, and about a confirmation
\* whatever d is: it is suspended, or blocked at once when nobody can be asked.
\* Any other decision is returned, a deferral too.
Settle(a, m, d, bridge) ==
  LET recorded == Recorded(m, a, d)
      denied   == Decision("block", TRUE, "policy", d.high)
      log      == Renewed(due, a, d, FALSE)
      asks     == a \in Confirms \/ (d.verdict = "defer" /\ Bridge /\ bridge)
      Keep(s)  == /\ stage' = [stage EXCEPT ![a] = s]
                  /\ outcome' = [outcome EXCEPT ![a] = IF s = "waiting" THEN d ELSE Closed(d)]
                  /\ memory' = recorded
                  /\ due' = log
      Refuse   == /\ stage' = [stage EXCEPT ![a] = "done"]
                  /\ outcome' = [outcome EXCEPT ![a] = Closed(denied)]
                  /\ memory' = Resolved(recorded, a, denied)
                  /\ due' = Renewed(log, a, denied, TRUE)
  IN  \/ asks /\ Bridge /\ Keep("waiting")
      \/ asks /\ Refuse
      \/ ~asks /\ d.verdict = "defer" /\ Keep("open")
      \/ ~asks /\ d.verdict # "defer" /\ Keep("done")

Decide(a, m, x) == \E d \in Outcomes(a, x) : Settle(a, m, d, TRUE)

\* A request arrives: it is matched and decided, unless the recogniser has to
\* be asked first, which it is not when the token budget is used up.
Arrive(a) ==
  /\ stage[a] = "new"
  /\ LET m == Evicted(memory)
         x == Matched(a, m)
     IN  /\ match' = x
         /\ \/ Decide(a, m, x)
            \/ /\ x = NoMatch /\ Recogniser /\ Candidates(a, m) # {}
               /\ stage' = [stage EXCEPT ![a] = "recognising"]
               /\ memory' = m
               /\ UNCHANGED <<outcome, due>>

\* The recogniser has answered, or not in time; what happened meanwhile is not
\* looked at again.
Recognised(a) ==
  /\ stage[a] = "recognising"
  /\ \E x \in {NoMatch, [type |-> "recognised", action |-> LLMAction, high |-> TRUE]} :
       /\ match' = x
       /\ Decide(a, memory, x)

\* A session that is quarantined or locked is answered without the guard, and
\* what is decided is remembered all the same: the quarantine's block; the lock's
\* block or deferral, which no alert touches and no operator is asked about; or,
\* when the review that the lock requires has been made, what the engine says.
Enforce(a) ==
  /\ stage[a] = "new"
  /\ \/ \E d \in Overlaid(a, Decision("block", TRUE, "policy", TRUE)) :
          Settle(a, memory, d, TRUE)
     \/ \E v \in {"block", "defer"} :
          \E d \in Scoped(Observed(a, Decision(v, TRUE, "policy", TRUE))) :
            Settle(a, memory, d, FALSE)
     \/ Decide(a, memory, Unasked)
  /\ match' = Unasked

\* An operator answers, or the time to answer is over.
Resolve(a) ==
  /\ stage[a] = "waiting"
  /\ \E v \in {"allow", "block"} :
       LET d == Decision(v, TRUE, "policy", outcome[a].high)
       IN  /\ outcome' = [outcome EXCEPT ![a] = Closed(d)]
           /\ memory' = Resolved(memory, a, d)
           /\ due' = Renewed(due, a, d, TRUE)
  /\ stage' = [stage EXCEPT ![a] = "done"]
  /\ match' = Unasked

\* The client goes away while the request is suspended, or the resolution
\* cannot be recorded: nothing more is done for it.
Abandon(a) ==
  /\ stage[a] \in {"recognising", "waiting"}
  /\ stage' = [stage EXCEPT ![a] = IF @ = "waiting" THEN "open" ELSE "done"]
  /\ outcome' = [outcome EXCEPT ![a] = Closed(@)]
  /\ match' = Unasked
  /\ UNCHANGED <<memory, due>>

\* Time passes.
Tick ==
  /\ memory' = [k \in Kinds |-> [i \in DOMAIN memory[k] |->
                  [memory[k][i] EXCEPT !.left = Max({@ - 1, 0})]]]
  /\ due' = [a \in Attempts |-> [k \in Kinds |-> Max({due[a][k] - 1, 0})]]
  /\ match' = Unasked
  /\ UNCHANGED <<stage, outcome>>

Next ==
  \/ \E a \in Attempts :
       Arrive(a) \/ Recognised(a) \/ Enforce(a) \/ Resolve(a) \/ Abandon(a)
  \/ Tick

Spec == Init /\ [][Next]_vars

-----------------------------------------------------------------------------
\* What is remembered of c as k: a record per capability, or a single one.  A
\* confirmation may be denied twice, by a decision and then by the answer.
Marks(k, c) ==
  {c} \X (IF k = "prior" THEN {k} ELSE Capabilities(c))
      \X (IF k = "denied" /\ c \in Confirms THEN {"decision", "answer"}
          ELSE {"decision"})

\* b is due to be remembered as k, and no more has become due since than there
\* is room for.
Standing(b, k) ==
  /\ due[b][k] > 0
  /\ LET later == {c \in Attempts : due[c][k] >= due[b][k]}
     IN  Cardinality(UNION {Marks(k, c) : c \in later}) <= MaxRecords

\* a has the effect of b through one of the capabilities in C.
SharesEffect(a, b, C) ==
  \E c \in C \intersect Capabilities(b) : SameEffect(a, [of |-> b, capability |-> c])

\* The deferral of b is still to be resolved, and so is every other of its event.
Unresolved(b) ==
  /\ stage[b] \in {"waiting", "open"}
  /\ \A c \in Attempts : Event[c] = Event[b] => stage[c] # "done"

\* What the guard can say of an attempt because of what is remembered.
Recalled == {"repeat", "denied", "preempting", "pending"}

\* No attempt passes the guard unnoticed that repeats what was blocked, at
\* whatever risk and by whomever except the guard, nor what an operator has
\* yet to answer, as long as records live and there is room for them; and what
\* repeats a denied access to the network, to a package or to a credential
\* meets that denial and no weaker finding.
Challenged ==
  [][\A a \in Attempts :
       stage[a] = "new" /\ stage'[a] # "new" /\ match' # Unasked /\ ~Exempt(a) =>
         \A b \in Attempts :
           /\ Standing(b, "denied") /\ SharesEffect(a, b, Capabilities(b)) =>
                match'.type \in Recalled
           /\ Standing(b, "denied") /\ SharesEffect(a, b, Preempting) =>
                match'.type = "preempting"
           /\ Standing(b, "prior") /\ Likeness[a][b] = "exact" =>
                match'.type \in Recalled
           /\ Standing(b, "held") /\ Unresolved(b)
                /\ SharesEffect(a, b, Capabilities(b)) =>
                match'.type \in Recalled]_vars

\* A denial is one that policy or an operator has pronounced, and no repeat of
\* it makes it last longer; it has been the answer to the attempt, unless an
\* operator has been asked about a confirmation after it was blocked.  And what
\* is held is a deferral that nobody has resolved: an approved one stands in
\* nobody's way.
MemoryGrounded ==
  /\ \A r \in Range(memory["denied"]) :
       /\ outcome[r.of].by = "policy"
       /\ r.left <= due[r.of]["denied"]
       /\ outcome[r.of].verdict # "block" =>
            r.of \in Confirms /\ r.on = "decision"
  /\ \A r \in Range(memory["held"]) :
       stage[r.of] \in {"waiting", "open"} /\ ~outcome[r.of].final
=============================================================================
