-------------------------------- MODULE EventBus --------------------------------
(***************************************************************************)
(* The event bus behind the report streams                                 *)
(* (gateway/telemetry/event_bus.py): every subscriber has a bounded queue  *)
(* that drops its oldest event when it is full, and a new subscriber is    *)
(* given the matching events of a bounded replay buffer first.  Streams    *)
(* read their queue at their own pace and unsubscribe when their client is *)
(* gone (gateway/http/app.py, report_stream_endpoint).                     *)
(*                                                                         *)
(* An event is its position in the log of everything broadcast, which the  *)
(* code does not keep; its filters see the event's topic.                  *)
(***************************************************************************)
EXTENDS Integers, FiniteSets, SequencesExt

CONSTANTS
  Streams,         \* clients' streams, each subscribing once
  Topics,          \* what filters tell events apart by
  Wanted,          \* the topics that pass a stream's filters
  MaxSubscribers,  \* MAX_SUBSCRIBERS
  QueueSize,       \* MAX_QUEUE_SIZE
  ReplaySize,      \* REPLAY_BUFFER_SIZE
  MaxEvents        \* how much is broadcast in a behaviour: bounds the model

ASSUME BusAssumption ==
  /\ IsFiniteSet(Streams)
  /\ Wanted \in [Streams -> SUBSET Topics]
  /\ MaxSubscribers \in Nat /\ ReplaySize \in Nat /\ MaxEvents \in Nat
  /\ QueueSize \in Nat \ {0}
  /\ ReplaySize <= QueueSize

VARIABLES
  log,      \* topics of all events so far, in the order they were broadcast
  replay,   \* the replay buffer
  state,    \* stream -> new, open, refused or closed
  queue,    \* stream -> its queue
  dropped,  \* stream -> its dropped_count
  since,    \* history: where the log was when the stream subscribed
  read      \* history: what the stream has taken from its queue

vars == <<log, replay, state, queue, dropped, since, read>>

Init ==
  /\ log = <<>>
  /\ replay = <<>>
  /\ state = [c \in Streams |-> "new"]
  /\ queue = [c \in Streams |-> <<>>]
  /\ dropped = [c \in Streams |-> 0]
  /\ since = [c \in Streams |-> 0]
  /\ read = [c \in Streams |-> <<>>]

Open == {c \in Streams : state[c] = "open"}

\* What a new subscriber's queue starts with: the matching events of the replay
\* buffer, one by one, for as long as the queue takes them.
Replayed(c) ==
  LET put[n \in 0..Len(replay)] ==
        IF n = 0 THEN <<>>
        ELSE IF log[replay[n]] \in Wanted[c] /\ Len(put[n - 1]) < QueueSize
             THEN Append(put[n - 1], replay[n])
             ELSE put[n - 1]
  IN  put[Len(replay)]

\* subscribe() with room for one more.
Subscribe(c) ==
  /\ state[c] = "new"
  /\ Cardinality(Open) < MaxSubscribers
  /\ UNCHANGED <<log, replay, dropped, read>>
  /\ state' = [state EXCEPT ![c] = "open"]
  /\ queue' = [queue EXCEPT ![c] = Replayed(c)]
  /\ since' = [since EXCEPT ![c] = Len(log)]

\* subscribe() returns nothing, and the client gets a 503.
Refuse(c) ==
  /\ state[c] = "new"
  /\ Cardinality(Open) >= MaxSubscribers
  /\ state' = [state EXCEPT ![c] = "refused"]
  /\ UNCHANGED <<log, replay, queue, dropped, since, read>>

\* Fault: an event that does not fit is not put at all.
OfferedDroppingNew(q, i) == IF Len(q) = QueueSize THEN q ELSE Append(q, i)

\* A full queue loses its head.
Offered(q, i) == Append(IF Len(q) = QueueSize THEN Tail(q) ELSE q, i)

\* Fault: dropped events are not counted.
BroadcastUncounted(t) ==
  LET i == Len(log) + 1
  IN  /\ Len(log) < MaxEvents
      /\ log' = Append(log, t)
      /\ replay' = IF Len(replay) < ReplaySize THEN Append(replay, i)
                   ELSE IF ReplaySize = 0 THEN replay
                   ELSE Append(Tail(replay), i)
      /\ queue' = [c \in Streams |->
                     IF c \in Open /\ t \in Wanted[c] THEN Offered(queue[c], i)
                                                    ELSE queue[c]]
      /\ UNCHANGED <<state, dropped, since, read>>

\* broadcast()
Broadcast(t) ==
  LET i  == Len(log) + 1
      to == {c \in Open : t \in Wanted[c]}
  IN  /\ Len(log) < MaxEvents
      /\ log' = Append(log, t)
      /\ replay' = IF Len(replay) < ReplaySize THEN Append(replay, i)
                   ELSE IF ReplaySize = 0 THEN replay
                   ELSE Append(Tail(replay), i)
      /\ queue' = [c \in Streams |-> IF c \in to THEN Offered(queue[c], i)
                                                 ELSE queue[c]]
      /\ dropped' = [c \in Streams |->
                       IF c \in to /\ Len(queue[c]) = QueueSize
                       THEN dropped[c] + 1 ELSE dropped[c]]
      /\ UNCHANGED <<state, since, read>>

\* Fault: only an event that arrives at an empty queue wakes the stream.
TakeSingle(c) ==
  /\ c \in Open /\ Len(queue[c]) = 1
  /\ queue' = [queue EXCEPT ![c] = Tail(@)]
  /\ read' = [read EXCEPT ![c] = Append(@, Head(queue[c]))]
  /\ UNCHANGED <<log, replay, state, dropped, since>>

\* The stream takes the next event.
Take(c) ==
  /\ c \in Open /\ queue[c] # <<>>
  /\ queue' = [queue EXCEPT ![c] = Tail(@)]
  /\ read' = [read EXCEPT ![c] = Append(@, Head(queue[c]))]
  /\ UNCHANGED <<log, replay, state, dropped, since>>

\* The client is gone: the generator's finally clause unsubscribes, and what
\* is left in the queue is lost with it.
Close(c) ==
  /\ c \in Open
  /\ state' = [state EXCEPT ![c] = "closed"]
  /\ queue' = [queue EXCEPT ![c] = <<>>]
  /\ UNCHANGED <<log, replay, dropped, since, read>>

Next ==
  \/ \E t \in Topics : Broadcast(t)
  \/ \E c \in Streams : Subscribe(c) \/ Refuse(c) \/ Take(c) \/ Close(c)

\* A stream that is open keeps reading.
Fairness == \A c \in Streams : WF_vars(Take(c))

Spec == Init /\ [][Next]_vars /\ Fairness

-----------------------------------------------------------------------------
\* What an open stream is due: the matching events since it subscribed and
\* those among the last ReplaySize before.
Due(c) == {i \in 1..Len(log) : i > since[c] - ReplaySize /\ log[i] \in Wanted[c]}

Rising(s) == \A i, j \in 1..Len(s) : i < j => s[i] < s[j]

\* A stream is a lossy FIFO: it reads what it is due in the order of the
\* broadcasts and nothing twice, across the seam between replay and live
\* events too; and it only loses events that are older than all it still has.
OldestLost ==
  \A c \in Open :
    LET lost == Due(c) \ (ToSet(read[c]) \union ToSet(queue[c]))
    IN  /\ Rising(read[c] \o queue[c])
        /\ ToSet(read[c] \o queue[c]) \subseteq Due(c)
        /\ \A i \in lost, j \in ToSet(queue[c]) : i < j

\* The losses are exactly the dropped_count that the log messages report.
LossesCounted ==
  \A c \in Open :
    Cardinality(Due(c)) = Len(read[c]) + Len(queue[c]) + dropped[c]

\* A stream that stays open gets or drops every event in its queue; a slow
\* reader or another stream never holds one up for good.
QueuesMove ==
  \A c \in Streams : \A i \in 1..MaxEvents :
    i \in ToSet(queue[c]) ~> i \notin ToSet(queue[c])
=============================================================================
