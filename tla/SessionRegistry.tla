---------------------------- MODULE SessionRegistry ----------------------------
(***************************************************************************)
(* The live session view of the gateway                                    *)
(* (gateway/storage/session_registry.py): per session the counters that    *)
(* the session lock reads, the timeline they are corrected from, and the   *)
(* quarantine mark.                                                        *)
(*                                                                         *)
(* A deferred action is recorded twice: as a decision, and later, when the *)
(* approval is over, as a resolution of the same event, which takes back   *)
(* what the newest entry of that event counted for.  The timeline of a     *)
(* session and the number of sessions are bounded, so that entry, or the   *)
(* whole session, may be gone by then.  SessionGuard is what drives it.       *)
(***************************************************************************)
EXTENDS Integers, FiniteSets, SequencesExt

CONSTANTS
  Sessions,
  Attempts,     \* calls of the decision flow that get recorded
  EventOf,      \* the event of one; a retry carries the event of the first attempt
  MaxSessions,  \* capacity of the registry
  MaxTimeline,  \* capacity of one timeline
  Absent        \* the registry does not know the session

Verdicts == {"allow", "block", "defer"}

VARIABLE registry  \* [by : session -> its record or Absent, order : oldest first]

NoSession == [by |-> [s \in Sessions |-> Absent], order |-> <<>>]

Blank == [events |-> 0, high |-> 0, dist |-> [v \in Verdicts |-> 0],
          timeline |-> <<>>, quarantine |-> "none", scrolled |-> FALSE]

\* Resolution entries are marked, and `scrolled` tells that the timeline has
\* lost an entry: both are for the properties only.
Entry(a, verdict, level, resolves) ==
  [event |-> EventOf[a], verdict |-> verdict, high |-> level = "high",
   resolves |-> resolves]

Entries == [event : {EventOf[a] : a \in Attempts}, verdict : Verdicts,
            high : BOOLEAN, resolves : BOOLEAN]

\* What the registry may keep of a session.
Records == [events : Nat, high : Nat, dist : [Verdicts -> Nat],
            timeline : Seq(Entries), scrolled : BOOLEAN,
            quarantine : {"none", "quarantined", "released"}]

One(condition) == IF condition THEN 1 ELSE 0

-----------------------------------------------------------------------------
(* The operations, as functions of the registry. *)

Of(reg, s) == IF reg.by[s] = Absent THEN Blank ELSE reg.by[s]

\* A session that is updated in place, or new at the end of the order; when
\* there is one too many the oldest goes.
Kept(reg, s, rec) ==
  LET by    == [reg.by EXCEPT ![s] = rec]
      order == IF reg.by[s] = Absent THEN Append(reg.order, s) ELSE reg.order
  IN  IF Len(order) > MaxSessions
      THEN [by |-> [by EXCEPT ![Head(order)] = Absent], order |-> Tail(order)]
      ELSE [by |-> by, order |-> order]

\* Fault: reinserted without the pop.
RenewedAgain(reg, s, rec) ==
  Kept([by |-> [reg.by EXCEPT ![s] = Absent], order |-> reg.order], s, rec)

\* pop and reinsert: the session becomes the newest.
Renewed(reg, s, rec) ==
  Kept([by |-> [reg.by EXCEPT ![s] = Absent],
        order |-> RemoveFirst(reg.order, s)], s, rec)

\* Fault: the timeline is searched from its old end.
MatchOldest(timeline, event) ==
  LET hits == {i \in 1..Len(timeline) : timeline[i].event = event}
  IN  IF hits = {} THEN 0 ELSE CHOOSE i \in hits : \A j \in hits : i <= j

\* Where the newest entry of the event is, 0 if it has none.
Match(timeline, event) ==
  LET hits == {i \in 1..Len(timeline) : timeline[i].event = event}
  IN  IF hits = {} THEN 0 ELSE CHOOSE i \in hits : \A j \in hits : i >= j

\* deque(maxlen): the oldest entry makes room.
Extended(timeline, entry) ==
  Append(IF Len(timeline) = MaxTimeline THEN Tail(timeline) ELSE timeline,
         entry)

\* record() on the session's record: `scoped` says that a block carries a
\* session effect.
Grown(old, entry, scoped) ==
  LET at   == IF entry.resolves THEN Match(old.timeline, entry.event) ELSE 0
      prev == old.timeline[at]
      back == IF at = 0 THEN old
              ELSE [old EXCEPT
                      !.dist[prev.verdict] = IF @ > 0 THEN @ - 1 ELSE 0,
                      !.high = IF prev.high /\ @ > 0 THEN @ - 1 ELSE @]
  IN  [events     |-> old.events + One(~entry.resolves),
       high       |-> back.high + One(entry.high),
       dist       |-> [back.dist EXCEPT ![entry.verdict] = @ + 1],
       timeline   |-> Extended(old.timeline, entry),
       quarantine |-> IF scoped THEN "quarantined" ELSE old.quarantine,
       scrolled   |-> old.scrolled \/ Len(old.timeline) = MaxTimeline]

\* Fault: a session that is updated starts from a blank record.
RecordedFromBlank(reg, s, entry, scoped) ==
  Renewed(reg, s, Grown(Blank, entry, scoped))

\* Fault: a resolution counts again and takes nothing back.
RecordedTwice(reg, s, entry, scoped) ==
  LET old == Of(reg, s)
  IN  Renewed(reg, s,
        [Grown(old, [entry EXCEPT !.resolves = FALSE], scoped) EXCEPT
           !.events = old.events + One(~entry.resolves),
           !.timeline = Extended(old.timeline, entry)])

\* record(), which makes the session the newest.
Recorded(reg, s, entry, scoped) ==
  Renewed(reg, s, Grown(Of(reg, s), entry, scoped))

\* record_post_action_score() and record_adapter_effect_result(): neither
\* touches what is modelled of a session, but both create one.
Touched(reg, s) == Kept(reg, s, Of(reg, s))

Quarantined(reg, s) ==
  reg.by[s] # Absent /\ reg.by[s].quarantine = "quarantined"

\* release_quarantine()
Unquarantined(reg, s) ==
  IF Quarantined(reg, s)
  THEN [reg EXCEPT !.by[s].quarantine = "released"] ELSE reg

-----------------------------------------------------------------------------
Known == {s \in Sessions : registry.by[s] # Absent}

\* The registry stays within its capacity and its order, from which the
\* session to evict is taken, names every session it knows exactly once
\* (_evict_if_needed, and the pop and reinsertion of record).
RegistryBounded ==
  /\ Len(registry.order) <= MaxSessions
  /\ ToSet(registry.order) = Known
  /\ IsInjective(registry.order)

\* An entry still counts unless the next entry of its event is a resolution.
Counts(timeline, i) ==
  ~ \E j \in (i + 1)..Len(timeline) :
      /\ timeline[j].event = timeline[i].event
      /\ timeline[j].resolves
      /\ \A k \in (i + 1)..(j - 1) : timeline[k].event # timeline[i].event

Recount(timeline, Test(_)) ==
  Cardinality({i \in 1..Len(timeline) : Counts(timeline, i) /\ Test(timeline[i])})

\* The counters that record keeps step by step are what counting the timeline
\* gives, as long as no entry has scrolled out of it: also with retries of one
\* event in flight, whose resolutions take back each other's entries.
CountersMatchTimeline ==
  \A s \in Known :
    LET rec == registry.by[s]
    IN  ~rec.scrolled =>
          /\ rec.high = Recount(rec.timeline, LAMBDA e : e.high)
          /\ \A v \in Verdicts :
               rec.dist[v] = Recount(rec.timeline, LAMBDA e : e.verdict = v)

\* A quarantine ends only when it is released, or when the registry was full
\* and another session needed the place: no later event of the session, no
\* resolution and no late result of a background task clears it.
QuarantineStands ==
  [][\A s \in Sessions :
       Quarantined(registry, s) =>
         \/ Quarantined(registry', s)
         \/ registry'.by[s] # Absent /\ registry'.by[s].quarantine = "released"
         \/ /\ Len(registry.order) = MaxSessions
            /\ \E u \in Sessions \ {s} :
                 registry.by[u] = Absent /\ registry'.by[u] # Absent]_registry
=============================================================================
