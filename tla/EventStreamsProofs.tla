------------------------- MODULE EventStreamsProofs -------------------------
(***************************************************************************)
(* Proofs about EventStreams for every set of relays and streams, every    *)
(* capacity of the channels and every number of events.                    *)
(***************************************************************************)
EXTENDS EventStreams, FiniteSetTheorems, TLAPS

\* The channel of a relay in the StreamManager is open and was registered by a stream
\* of that relay; a channel that was closed belongs to a stream that was registered.
ShardInv ==
    /\ \A s \in Stream : handler[s] = "loop" => owner[s] # None
    /\ \A s \in closed : owner[s] # None
    /\ \A r \in Relay : streams[r] # None =>
          owner[streams[r]] = r /\ streams[r] \notin closed

\* A relay process reads a stream of its own.
ReaderInv ==
    \A r \in Relay : relay[r] = "listening" =>
        current[r] # None /\ owner[current[r]] = r

\* A channel is closed under a handler that still loops only by Unregister of another
\* stream of the same relay.
ClosedInv ==
    \A s \in closed : handler[s] = "loop" =>
        \E t \in Stream : t # s /\ owner[t] = owner[s]

StreamInv ==
    EventsTypeOK /\ ShardInv /\ ReaderInv /\ ClosedInv /\ OnlyStreamIsRegistered

-----------------------------------------------------------------------------
\* The two kinds of steps: those of events on their way, which leave the streams alone,
\* and those that open, end and break streams.
Registration == <<streams, closed, owner, handler, broken, relay, current>>

LEMMA RegistrationKept ==
    ASSUME StreamInv, UNCHANGED Registration
    PROVE  ShardInv' /\ ReaderInv' /\ ClosedInv' /\ OnlyStreamIsRegistered'
BY DEF StreamInv, ShardInv, ReaderInv, ClosedInv, OnlyStreamIsRegistered, Registration

\* What the events of a step are made of.
LEMMA LostToType ==
    ASSUME NEW e \in Event, NEW R \in SUBSET Relay, LostTo(e, R),
           dropped \in SUBSET ((1..MaxEvents) \X Relay)
    PROVE  dropped' \in SUBSET ((1..MaxEvents) \X Relay)
BY DEF LostTo, Event

\* A goroutine of BroadcastAsync never meets a closed channel.
LEMMA BroadcastCases ==
    ASSUME StreamInv, NEW e \in Event, NEW r \in Relay, BroadcastAsync(e, r)
    PROVE  /\ casting' = casting \ {<<e, r>>} /\ <<e, r>> \in casting
           /\ UNCHANGED <<alive, queues, streams, closed, owner, handler, wire, broken,
                          process>>
           /\ \/ LostTo(e, {r}) /\ UNCHANGED buffer
              \/ /\ streams[r] \in Stream /\ owner[streams[r]] = r
                 /\ Len(buffer[streams[r]]) < BufferSize
                 /\ buffer' = [buffer EXCEPT ![streams[r]] = Append(@, e)]
                 /\ UNCHANGED dropped
<1>1. CASE streams[r] = None
  BY <1>1 DEF BroadcastAsync
<1>2. CASE streams[r] # None
  <2>1. streams[r] \in Stream /\ streams[r] \notin closed /\ owner[streams[r]] = r
    BY <1>2 DEF StreamInv, ShardInv, EventsTypeOK
  <2>2. Len(buffer[streams[r]]) \in Nat
    BY <2>1 DEF StreamInv, EventsTypeOK
  <2>3. CASE Len(buffer[streams[r]]) < BufferSize
    <3>1. ~(Len(buffer[streams[r]]) >= BufferSize)
      BY <2>2, <2>3, EventsAssumption
    <3> QED
      BY <1>2, <2>1, <2>3, <3>1 DEF BroadcastAsync
  <2>4. CASE ~(Len(buffer[streams[r]]) < BufferSize)
    <3>1. Len(buffer[streams[r]]) >= BufferSize
      BY <2>2, <2>4, EventsAssumption
    <3> QED
      BY <1>2, <2>1, <2>4, <3>1 DEF BroadcastAsync
  <2> QED
    BY <2>3, <2>4
<1> QED
  BY <1>1, <1>2

\* The steps of events on their way keep the types, and the process alive.
LEMMA EventStep ==
    ASSUME StreamInv,
           \/ \E t \in Type : PublishModerationEvent(t)
           \/ ServerStep
           \/ \E x \in casting : BroadcastAsync(x[1], x[2])
           \/ \E r \in Relay : ReceiveEvent(r)
    PROVE  StreamInv'
<1> USE EventsAssumption
<1>0. EventsTypeOK /\ alive \in BOOLEAN
  BY DEF StreamInv, EventsTypeOK
<1>1. ASSUME NEW t \in Type, PublishModerationEvent(t)
      PROVE  StreamInv'
  <2> DEFINE e == [id |-> published + 1, type |-> t]
  <2>1. e \in Event
    BY <1>0, <1>1 DEF PublishModerationEvent, EventsTypeOK, Event
  <2>2. /\ published' = published + 1 /\ published < MaxEvents
        /\ \/ pubsub' = Append(pubsub, e) /\ UNCHANGED dropped
           \/ LostTo(e, Relay) /\ UNCHANGED pubsub
        /\ UNCHANGED <<alive, eventChan, filtered, casting, server, wire, broken, process>>
    BY <1>1 DEF PublishModerationEvent, Publish
  <2> HIDE DEF e
  <2>3. pubsub' \in Seq(Event) /\ dropped' \in SUBSET ((1..MaxEvents) \X Relay)
    <3>1. /\ pubsub \in Seq(Event) /\ dropped \in SUBSET ((1..MaxEvents) \X Relay)
          /\ Relay \in SUBSET Relay
      BY <1>0 DEF EventsTypeOK
    <3>2. LostTo(e, Relay) => dropped' \in SUBSET ((1..MaxEvents) \X Relay)
      BY <2>1, <3>1, LostToType
    <3> QED
      BY <2>1, <2>2, <3>1, <3>2
  <2>4. EventsTypeOK'
    BY <1>0, <2>2, <2>3 DEF EventsTypeOK, server, process
  <2> QED
    BY <2>2, <2>4, RegistrationKept
       DEF StreamInv, Registration, server, process
<1>2. CASE SubscribeToModerationEvents
  <2>1. Head(pubsub) \in Event /\ Tail(pubsub) \in Seq(Event)
    BY <1>0, <1>2 DEF SubscribeToModerationEvents, EventsTypeOK
  <2>2. /\ pubsub' = Tail(pubsub)
        /\ \/ /\ Len(eventChan) < QueueSize
              /\ eventChan' = Append(eventChan, Head(pubsub)) /\ UNCHANGED dropped
           \/ LostTo(Head(pubsub), Relay) /\ UNCHANGED eventChan
        /\ UNCHANGED <<alive, published, filtered, casting, server, wire, broken, process>>
    BY <1>2 DEF SubscribeToModerationEvents
  <2>3. dropped' \in SUBSET ((1..MaxEvents) \X Relay)
    <3>1. Relay \in SUBSET Relay /\ dropped \in SUBSET ((1..MaxEvents) \X Relay)
      BY <1>0 DEF EventsTypeOK
    <3>2. LostTo(Head(pubsub), Relay) => dropped' \in SUBSET ((1..MaxEvents) \X Relay)
      BY <2>1, <3>1, LostToType
    <3> QED
      BY <2>2, <3>1, <3>2
  <2>4. eventChan' \in Seq(Event) /\ Len(eventChan') <= QueueSize
    <3>1. eventChan \in Seq(Event) /\ Len(eventChan) <= QueueSize
      BY <1>0 DEF EventsTypeOK
    <3>2. PICK e \in Event : e = Head(pubsub)
      BY <2>1
    <3>3. CASE Len(eventChan) < QueueSize /\ eventChan' = Append(eventChan, e)
      BY <3>1, <3>3
    <3>4. CASE UNCHANGED eventChan
      BY <3>1, <3>4
    <3> QED
      BY <2>2, <3>2, <3>3, <3>4
  <2>5. EventsTypeOK'
    BY <1>0, <2>1, <2>2, <2>3, <2>4 DEF EventsTypeOK, server, process
  <2> QED
    BY <2>2, <2>5, RegistrationKept
       DEF StreamInv, Registration, server, process
<1>3. CASE FilterEvents
  <2>1. /\ eventChan # <<>> /\ Len(filtered) < QueueSize
        /\ eventChan' = Tail(eventChan) /\ filtered' = Append(filtered, Head(eventChan))
        /\ UNCHANGED <<alive, published, pubsub, casting, server, wire, broken, process,
                       dropped>>
    BY <1>3 DEF FilterEvents
  <2>2. /\ eventChan' \in Seq(Event) /\ Len(eventChan') <= QueueSize
        /\ filtered' \in Seq(Event) /\ Len(filtered') <= QueueSize
    BY <1>0, <2>1 DEF EventsTypeOK
  <2>3. EventsTypeOK'
    BY <1>0, <2>1, <2>2 DEF EventsTypeOK, server, process
  <2> QED
    BY <2>1, <2>3, RegistrationKept
       DEF StreamInv, Registration, server, process
<1>4. CASE StartEventBroadcaster
  <2>1. /\ filtered # <<>> /\ filtered' = Tail(filtered)
        /\ casting' = casting \/ casting' = casting \cup ({Head(filtered)} \X Relay)
        /\ UNCHANGED <<published, pubsub, eventChan, server, wire, broken, process, dropped>>
    BY <1>4 DEF StartEventBroadcaster
  <2>2. alive' \in BOOLEAN /\ (HasManager => alive' = alive)
    BY <1>0, <1>4 DEF StartEventBroadcaster
  <2>3. /\ Head(filtered) \in Event
        /\ filtered' \in Seq(Event) /\ Len(filtered') <= QueueSize
    BY <1>0, <2>1 DEF EventsTypeOK
  <2>4. casting' \in SUBSET (Event \X Relay)
    BY <1>0, <2>1, <2>3 DEF EventsTypeOK
  <2>5. EventsTypeOK'
    BY <1>0, <2>1, <2>2, <2>3, <2>4 DEF EventsTypeOK, server, process
  <2> QED
    BY <2>1, <2>2, <2>5, RegistrationKept
       DEF StreamInv, Registration, server, process
<1>5. ASSUME NEW x \in casting, BroadcastAsync(x[1], x[2])
      PROVE  StreamInv'
  <2>1. x[1] \in Event /\ x[2] \in Relay
    BY <1>0 DEF EventsTypeOK
  <2> DEFINE e == x[1]
             r == x[2]
  <2>2. /\ casting' = casting \ {<<e, r>>}
        /\ UNCHANGED <<alive, queues, streams, closed, owner, handler, wire, broken,
                       process>>
        /\ \/ LostTo(e, {r}) /\ UNCHANGED buffer
           \/ /\ streams[r] \in Stream /\ Len(buffer[streams[r]]) < BufferSize
              /\ buffer' = [buffer EXCEPT ![streams[r]] = Append(@, e)]
              /\ UNCHANGED dropped
    BY <1>5, <2>1, BroadcastCases
  <2> HIDE DEF e, r
  <2>3. e \in Event /\ r \in Relay
    BY <2>1 DEF e, r
  <2>4. dropped' \in SUBSET ((1..MaxEvents) \X Relay)
    BY <1>0, <2>2, <2>3, LostToType DEF EventsTypeOK
  <2>5. buffer' \in [Stream -> Seq(Event)] /\ \A s \in Stream : Len(buffer'[s]) <= BufferSize
    <3>1. CASE UNCHANGED buffer
      BY <1>0, <3>1 DEF EventsTypeOK
    <3>2. ASSUME NEW s \in Stream, Len(buffer[s]) < BufferSize,
                 buffer' = [buffer EXCEPT ![s] = Append(@, e)]
          PROVE  buffer' \in [Stream -> Seq(Event)]
                 /\ \A z \in Stream : Len(buffer'[z]) <= BufferSize
      <4>1. buffer[s] \in Seq(Event) /\ buffer \in [Stream -> Seq(Event)]
        BY <1>0 DEF EventsTypeOK
      <4> DEFINE longer == Append(buffer[s], e)
      <4>2. longer \in Seq(Event) /\ Len(longer) = Len(buffer[s]) + 1
        BY <2>3, <4>1
      <4>3. buffer' = [buffer EXCEPT ![s] = longer]
        BY <3>2
      <4> HIDE DEF longer
      <4> QED
        BY <1>0, <3>2, <4>1, <4>2, <4>3 DEF EventsTypeOK
    <3> QED
      BY <2>2, <3>1, <3>2
  <2>6. EventsTypeOK'
    BY <1>0, <2>2, <2>4, <2>5 DEF EventsTypeOK, queues, process
  <2> QED
    BY <2>2, <2>6, RegistrationKept
       DEF StreamInv, Registration, process
<1>6. ASSUME NEW r \in Relay, ReceiveEvent(r)
      PROVE  StreamInv'
  <2>1. PICK s \in Stream : s = current[r]
    BY <1>6 DEF ReceiveEvent, StreamInv, ReaderInv, EventsTypeOK
  <2>2. /\ wire[s] # <<>>
        /\ wire' = [wire EXCEPT ![s] = Tail(wire[s])]
        /\ heard' = [heard EXCEPT ![s] = Append(heard[s], Head(wire[s]).id)]
        /\ UNCHANGED <<alive, queues, casting, server, broken, relay, current, dropped>>
    BY <1>6, <2>1 DEF ReceiveEvent
  <2>3. wire[s] \in Seq(Event) /\ heard[s] \in Seq(1..MaxEvents)
    BY <1>0 DEF EventsTypeOK
  <2>4. Tail(wire[s]) \in Seq(Event) /\ Head(wire[s]) \in Event
    BY <2>2, <2>3
  <2>5. Append(heard[s], Head(wire[s]).id) \in Seq(1..MaxEvents)
    BY <2>3, <2>4 DEF Event
  <2>6. wire' \in [Stream -> Seq(Event)] /\ heard' \in [Stream -> Seq(1..MaxEvents)]
    BY <1>0, <2>2, <2>4, <2>5 DEF EventsTypeOK
  <2>7. EventsTypeOK'
    BY <1>0, <2>2, <2>6 DEF EventsTypeOK, queues, server
  <2> QED
    BY <2>2, <2>7, RegistrationKept DEF StreamInv, Registration, server
<1> QED
  BY <1>1, <1>2, <1>3, <1>4, <1>5, <1>6 DEF ServerStep
-----------------------------------------------------------------------------
\* A handler that leaves by itself: on a broken connection, or because its channel was
\* closed, which another stream of the relay did.
LEMMA LeaveStep ==
    ASSUME StreamInv, NEW s \in Stream, handler[s] = "loop", Leave(s),
           s \in broken \/ s \in closed,
           UNCHANGED <<owner, broken, relay, current>>
    PROVE  /\ ShardInv' /\ ReaderInv' /\ ClosedInv' /\ OnlyStreamIsRegistered'
           /\ streams' \in [Relay -> Stream \cup {None}]
           /\ closed' \in SUBSET Stream
           /\ handler' \in [Stream -> {"new", "loop", "done"}]
<1> USE EventsAssumption
<1>0. EventsTypeOK
  BY DEF StreamInv
<1>1. PICK r \in Relay : r = owner[s]
  BY <1>0 DEF StreamInv, ShardInv, EventsTypeOK
<1>2. /\ handler' = [handler EXCEPT ![s] = "done"]
      /\ streams' = [streams EXCEPT ![r] = None]
      /\ closed' = IF streams[r] = None THEN closed ELSE closed \cup {streams[r]}
  BY <1>1 DEF Leave, Unregister
<1>3. /\ streams' \in [Relay -> Stream \cup {None}]
      /\ handler' \in [Stream -> {"new", "loop", "done"}]
      /\ handler'[s] = "done" /\ \A t \in Stream : t # s => handler'[t] = handler[t]
      /\ streams'[r] = None /\ \A q \in Relay : q # r => streams'[q] = streams[q]
  BY <1>0, <1>2 DEF EventsTypeOK
<1>4. closed' \in SUBSET Stream /\ \A t \in closed' : t \in closed \/ (t = streams[r] /\ owner[t] = r)
  BY <1>0, <1>2 DEF EventsTypeOK, StreamInv, ShardInv
<1>5. ShardInv'
  <2>1. \A t \in Stream : handler'[t] = "loop" => owner[t] # None
    BY <1>3 DEF StreamInv, ShardInv
  <2>2. \A t \in closed' : owner[t] # None
    BY <1>4 DEF StreamInv, ShardInv
  <2>3. ASSUME NEW q \in Relay, streams'[q] # None
        PROVE  owner[streams'[q]] = q /\ streams'[q] \notin closed'
    <3>1. q # r /\ streams'[q] = streams[q]
      BY <1>3, <2>3
    <3>2. owner[streams[q]] = q /\ streams[q] \notin closed
      BY <2>3, <3>1 DEF StreamInv, ShardInv
    <3> QED
      BY <1>4, <3>1, <3>2
  <2> QED
    BY <2>1, <2>2, <2>3 DEF ShardInv
<1>6. ReaderInv'
  BY DEF StreamInv, ReaderInv
<1>7. ClosedInv'
  <2> SUFFICES ASSUME NEW t \in closed', handler'[t] = "loop"
               PROVE  \E z \in Stream : z # t /\ owner[z] = owner[t]
    BY DEF ClosedInv
  <2>1. t # s /\ handler[t] = "loop" /\ t \in Stream
    BY <1>3, <1>4
  <2>2. CASE t \in closed
    BY <2>1, <2>2 DEF StreamInv, ClosedInv
  <2>3. CASE t = streams[r] /\ owner[t] = r
    BY <1>1, <2>1, <2>3
  <2> QED
    BY <1>4, <2>2, <2>3
<1>8. OnlyStreamIsRegistered'
  <2> SUFFICES ASSUME NEW q \in Relay,
                      relay[q] = "listening", current[q] \notin broken,
                      \A t \in Stream : owner[t] = q => t = current[q]
               PROVE  streams'[q] = current[q]
    BY DEF OnlyStreamIsRegistered
  <2>1. CASE q = r
    <3>1. s = current[r] /\ s \in closed
      BY <1>1, <2>1
    <3>2. PICK t \in Stream : t # s /\ owner[t] = owner[s]
      BY <3>1 DEF StreamInv, ClosedInv
    <3> QED
      BY <1>1, <2>1, <3>1, <3>2
  <2>2. CASE q # r
    BY <1>3, <2>2 DEF StreamInv, OnlyStreamIsRegistered
  <2> QED
    BY <2>1, <2>2
<1> QED
  BY <1>3, <1>4, <1>5, <1>6, <1>7, <1>8

\* The steps that open, end and break streams.
LEMMA StreamStep ==
    ASSUME StreamInv,
           \/ \E r \in Relay, s \in Stream : Subscribe(r, s)
           \/ \E s \in Stream : SendEvent(s) \/ StreamEnds(s) \/ LoseConnection(s)
           \/ \E r \in Relay : \/ StartRelay(r) \/ RegisterFailed(r) \/ StreamError(r)
                               \/ StopRelay(r)
    PROVE  StreamInv'
<1> USE EventsAssumption
<1>0. EventsTypeOK
  BY DEF StreamInv
<1>1. ASSUME NEW r \in Relay, NEW s \in Stream, Subscribe(r, s)
      PROVE  StreamInv'
  <2>1. /\ owner[s] = None /\ relay[r] = "up"
        /\ owner' = [owner EXCEPT ![s] = r]
        /\ UNCHANGED <<alive, queues, casting, buffer, closed, wire, broken, heard, dropped>>
    BY <1>1 DEF Subscribe
  <2>2. /\ owner' \in [Stream -> Relay \cup {None}] /\ owner'[s] = r
        /\ \A t \in Stream : t # s => owner'[t] = owner[t]
        /\ s \notin closed
    BY <1>0, <2>1 DEF EventsTypeOK, StreamInv, ShardInv
  <2>3. ASSUME NEW t \in closed, handler[t] = "loop"
        PROVE  \E z \in Stream : z # t /\ owner'[z] = owner'[t]
    <3>1. PICK z \in Stream : z # t /\ owner[z] = owner[t]
      BY <2>3 DEF StreamInv, ClosedInv
    <3>2. owner[t] # None /\ t \in Stream
      BY <1>0 DEF EventsTypeOK, StreamInv, ShardInv
    <3> QED
      BY <2>1, <2>2, <3>1, <3>2
  <2>4. CASE HasManager
    <3>1. /\ handler' = [handler EXCEPT ![s] = "loop"]
          /\ streams' = [streams EXCEPT ![r] = s]
          /\ relay' = [relay EXCEPT ![r] = "listening"]
          /\ current' = [current EXCEPT ![r] = s]
      BY <1>1, <2>4 DEF Subscribe
    <3>2. EventsTypeOK'
      BY <1>0, <2>1, <2>2, <3>1 DEF EventsTypeOK, queues
    <3>3. ShardInv'
      BY <1>0, <2>1, <2>2, <3>1 DEF EventsTypeOK, StreamInv, ShardInv
    <3>4. ReaderInv'
      BY <1>0, <2>1, <2>2, <3>1 DEF EventsTypeOK, StreamInv, ReaderInv
    <3>5. ClosedInv'
      <4>1. \A t \in closed : handler'[t] = handler[t]
        BY <1>0, <2>2, <3>1 DEF EventsTypeOK
      <4> QED
        BY <2>1, <2>3, <4>1 DEF ClosedInv
    <3>6. OnlyStreamIsRegistered'
      <4> SUFFICES ASSUME NEW q \in Relay,
                          relay'[q] = "listening", current'[q] \notin broken,
                          \A t \in Stream : owner'[t] = q => t = current'[q]
                   PROVE  streams'[q] = current'[q]
        BY <2>1 DEF OnlyStreamIsRegistered
      <4>1. CASE q = r
        BY <1>0, <3>1, <4>1 DEF EventsTypeOK
      <4>2. CASE q # r
        <5>1. /\ relay[q] = "listening" /\ current'[q] = current[q]
              /\ streams'[q] = streams[q]
          BY <1>0, <3>1, <4>2 DEF EventsTypeOK
        <5>2. \A t \in Stream : owner[t] = q => t = current[q]
          BY <2>1, <2>2, <4>2, <5>1
        <5> QED
          BY <5>1, <5>2 DEF StreamInv, OnlyStreamIsRegistered
      <4> QED
        BY <4>1, <4>2
    <3> QED
      BY <2>1, <3>2, <3>3, <3>4, <3>5, <3>6 DEF StreamInv
  <2>5. CASE ~HasManager
    <3>1. /\ handler' = [handler EXCEPT ![s] = "done"]
          /\ relay' = [relay EXCEPT ![r] = "deaf"]
          /\ UNCHANGED <<streams, current>>
      BY <1>1, <2>5 DEF Subscribe
    <3>2. EventsTypeOK'
      BY <1>0, <2>1, <2>2, <3>1 DEF EventsTypeOK, queues
    <3>3. ShardInv'
      BY <1>0, <2>1, <2>2, <3>1 DEF EventsTypeOK, StreamInv, ShardInv
    <3>4. ReaderInv'
      BY <1>0, <2>1, <2>2, <3>1 DEF EventsTypeOK, StreamInv, ReaderInv
    <3>5. ClosedInv'
      <4>1. \A t \in closed : handler'[t] = handler[t]
        BY <1>0, <2>2, <3>1 DEF EventsTypeOK
      <4> QED
        BY <2>1, <2>3, <4>1 DEF ClosedInv
    <3>6. OnlyStreamIsRegistered'
      BY <1>0, <2>1, <2>2, <3>1 DEF EventsTypeOK, StreamInv, OnlyStreamIsRegistered
    <3> QED
      BY <2>1, <2>5, <3>2, <3>3, <3>4, <3>5, <3>6 DEF StreamInv
  <2> QED
    BY <2>4, <2>5
<1>2. ASSUME NEW s \in Stream, SendEvent(s)
      PROVE  StreamInv'
  <2>1. /\ handler[s] = "loop" /\ buffer[s] # <<>>
        /\ buffer' = [buffer EXCEPT ![s] = Tail(buffer[s])]
        /\ UNCHANGED <<alive, queues, casting, owner, broken, process, dropped>>
    BY <1>2 DEF SendEvent
  <2>2. buffer[s] \in Seq(Event) /\ wire[s] \in Seq(Event) /\ Len(buffer[s]) <= BufferSize
    BY <1>0 DEF EventsTypeOK
  <2>3. /\ Tail(buffer[s]) \in Seq(Event) /\ Len(Tail(buffer[s])) <= BufferSize
        /\ Append(wire[s], Head(buffer[s])) \in Seq(Event)
    BY <2>1, <2>2
  <2>4. buffer' \in [Stream -> Seq(Event)] /\ \A t \in Stream : Len(buffer'[t]) <= BufferSize
    BY <1>0, <2>1, <2>3 DEF EventsTypeOK
  <2>5. CASE s \notin broken
    <3>1. /\ wire' = [wire EXCEPT ![s] = Append(wire[s], Head(buffer[s]))]
          /\ UNCHANGED <<streams, closed, handler>>
      BY <1>2, <2>5 DEF SendEvent
    <3>2. wire' \in [Stream -> Seq(Event)]
      BY <1>0, <2>3, <3>1 DEF EventsTypeOK
    <3>3. EventsTypeOK'
      BY <1>0, <2>1, <2>4, <3>1, <3>2 DEF EventsTypeOK, queues, process
    <3> QED
      BY <2>1, <3>1, <3>3, RegistrationKept
         DEF StreamInv, Registration, process
  <2>6. CASE s \in broken
    <3>1. Leave(s) /\ UNCHANGED wire
      BY <1>2, <2>6 DEF SendEvent
    <3>2. /\ ShardInv' /\ ReaderInv' /\ ClosedInv' /\ OnlyStreamIsRegistered'
          /\ streams' \in [Relay -> Stream \cup {None}]
          /\ closed' \in SUBSET Stream
          /\ handler' \in [Stream -> {"new", "loop", "done"}]
      BY <2>1, <2>6, <3>1, LeaveStep DEF process
    <3>3. EventsTypeOK'
      BY <1>0, <2>1, <2>4, <3>1, <3>2 DEF EventsTypeOK, queues, process
    <3> QED
      BY <2>1, <3>2, <3>3 DEF StreamInv
  <2> QED
    BY <2>5, <2>6
<1>3. ASSUME NEW s \in Stream, StreamEnds(s)
      PROVE  StreamInv'
  <2>1. /\ handler[s] = "loop" /\ (s \in broken \/ s \in closed) /\ Leave(s)
        /\ UNCHANGED <<alive, queues, casting, buffer, owner, wire, broken, process, dropped>>
    BY <1>3 DEF StreamEnds
  <2>2. /\ ShardInv' /\ ReaderInv' /\ ClosedInv' /\ OnlyStreamIsRegistered'
        /\ streams' \in [Relay -> Stream \cup {None}]
        /\ closed' \in SUBSET Stream
        /\ handler' \in [Stream -> {"new", "loop", "done"}]
    BY <2>1, LeaveStep DEF process
  <2>3. EventsTypeOK'
    BY <1>0, <2>1, <2>2 DEF EventsTypeOK, queues, process
  <2> QED
    BY <2>1, <2>2, <2>3 DEF StreamInv
<1>4. ASSUME NEW s \in Stream, LoseConnection(s)
      PROVE  StreamInv'
  <2>1. /\ broken' = broken \cup {s}
        /\ UNCHANGED <<alive, queues, casting, server, wire, process, dropped>>
    BY <1>4 DEF LoseConnection
  <2>2. EventsTypeOK'
    BY <1>0, <2>1 DEF EventsTypeOK, queues, server, process
  <2>3. ShardInv' /\ ReaderInv' /\ ClosedInv' /\ OnlyStreamIsRegistered'
    BY <2>1 DEF StreamInv, ShardInv, ReaderInv, ClosedInv, OnlyStreamIsRegistered, server,
                process
  <2> QED
    BY <2>1, <2>2, <2>3 DEF StreamInv
<1>5. ASSUME NEW r \in Relay, StartRelay(r) \/ RegisterFailed(r) \/ StreamError(r)
      PROVE  StreamInv'
  <2>1. /\ \E m \in {"up", "deaf"} : relay' = [relay EXCEPT ![r] = m]
        /\ UNCHANGED <<alive, queues, casting, server, wire, broken, current, heard, dropped>>
    BY <1>5 DEF StartRelay, RegisterFailed, StreamError
  <2>2. EventsTypeOK'
    BY <1>0, <2>1 DEF EventsTypeOK, queues, server
  <2>3. \A q \in Relay : relay'[q] = "listening" => relay[q] = "listening"
    BY <1>0, <2>1 DEF EventsTypeOK
  <2>4. ShardInv' /\ ReaderInv' /\ ClosedInv' /\ OnlyStreamIsRegistered'
    BY <2>1, <2>3
       DEF StreamInv, ShardInv, ReaderInv, ClosedInv, OnlyStreamIsRegistered, server
  <2> QED
    BY <2>1, <2>2, <2>4 DEF StreamInv
<1>6. ASSUME NEW r \in Relay, StopRelay(r)
      PROVE  StreamInv'
  <2>1. /\ relay' = [relay EXCEPT ![r] = "down"]
        /\ current' = [current EXCEPT ![r] = None]
        /\ broken' = broken \cup ({current[r]} \ {None})
        /\ UNCHANGED <<alive, queues, casting, server, wire, heard, dropped>>
    BY <1>6 DEF StopRelay
  <2>2. EventsTypeOK'
    BY <1>0, <2>1 DEF EventsTypeOK, queues, server
  <2>3. \A q \in Relay : relay'[q] = "listening" =>
            relay[q] = "listening" /\ current'[q] = current[q]
    BY <1>0, <2>1 DEF EventsTypeOK
  <2>4. ShardInv' /\ ReaderInv' /\ ClosedInv' /\ OnlyStreamIsRegistered'
    BY <2>1, <2>3
       DEF StreamInv, ShardInv, ReaderInv, ClosedInv, OnlyStreamIsRegistered, server
  <2> QED
    BY <2>1, <2>2, <2>4 DEF StreamInv
<1> QED
  BY <1>1, <1>2, <1>3, <1>4, <1>5, <1>6

\* The invariant of Register, Unregister and the streams holds in every reachable state.
THEOREM StreamInvariance == EventsSpec => []StreamInv
<1>1. EventsInit => StreamInv
  <2> SUFFICES ASSUME EventsInit
               PROVE  StreamInv
    OBVIOUS
  <2>1. alive \in BOOLEAN
    BY DEF EventsInit
  <2>2. EventsTypeOK
    BY <2>1, EventsAssumption DEF EventsInit, EventsTypeOK
  <2>3. ShardInv /\ ReaderInv /\ ClosedInv /\ OnlyStreamIsRegistered
    BY DEF EventsInit, ShardInv, ReaderInv, ClosedInv, OnlyStreamIsRegistered
  <2> QED
    BY <2>1, <2>2, <2>3 DEF StreamInv
<1>2. StreamInv /\ [EventsNext]_eventVars => StreamInv'
  <2> SUFFICES ASSUME StreamInv, [EventsNext]_eventVars
               PROVE  StreamInv'
    OBVIOUS
  <2>1. CASE EventsNext
    BY <2>1, EventStep, StreamStep DEF EventsNext
  <2>2. CASE UNCHANGED eventVars
    BY <2>2 DEF eventVars, StreamInv, EventsTypeOK, ShardInv, ReaderInv, ClosedInv,
                OnlyStreamIsRegistered
  <2> QED
    BY <2>1, <2>2
<1> QED
  BY <1>1, <1>2, PTL DEF EventsSpec

\* Every variable of the event streams keeps its type, so no channel is over-full.
THEOREM EventsTypeCorrect == EventsSpec => []EventsTypeOK
<1>1. StreamInv => EventsTypeOK
  BY DEF StreamInv
<1> QED
  BY <1>1, StreamInvariance, PTL

\* BroadcastAsync never finds a channel that Unregister has closed.
THEOREM RegisteredStaysOpen == EventsSpec => []RegisteredIsOpen
<1>1. StreamInv => RegisteredIsOpen
  BY DEF StreamInv, ShardInv, RegisteredIsOpen
<1> QED
  BY <1>1, StreamInvariance, PTL

\* A relay with one stream and a working connection has its channel registered.
THEOREM OnlyStreamStays == EventsSpec => []OnlyStreamIsRegistered
<1>1. StreamInv => OnlyStreamIsRegistered
  BY DEF StreamInv
<1> QED
  BY <1>1, StreamInvariance, PTL

(***************************************************************************)
(* The streams implement LossyBroadcast: an event is in one place at most  *)
(* on its way to a relay.                                                  *)
(***************************************************************************)
Id == 1..MaxEvents
Kind == {"buffer", "wire", "heard"}

\* Event e is the i-th in the channel of stream s, on its connection, or among what was
\* heard on it.
At(k, s, i, e) ==
    \/ k = "buffer" /\ i \in 1..Len(buffer[s]) /\ buffer[s][i].id = e
    \/ k = "wire" /\ i \in 1..Len(wire[s]) /\ wire[s][i].id = e
    \/ k = "heard" /\ i \in 1..Len(heard[s]) /\ heard[s][i] = e

InStream(e, r) ==
    \E s \in Stream, k \in Kind, i \in Nat : owner[s] = r /\ At(k, s, i, e)

Cast(e, r) == \E x \in casting : x[1].id = e /\ x[2] = r

Member(q, e) == \E i \in 1..Len(q) : q[i].id = e
Queued(e) == Member(pubsub, e) \/ Member(eventChan, e) \/ Member(filtered, e)

Ascending(q) == \A i, j \in 1..Len(q) : i < j => q[i].id < q[j].id
Before(p, q) == \A i \in 1..Len(p), j \in 1..Len(q) : p[i].id < q[j].id

\* The queues hold events in the order they were published in.
QueueInv ==
    /\ Ascending(pubsub) /\ Ascending(eventChan) /\ Ascending(filtered)
    /\ Before(eventChan, pubsub) /\ Before(filtered, pubsub) /\ Before(filtered, eventChan)

\* An event in a queue is nowhere else.
QueuedInv ==
    \A e \in Id : Queued(e) =>
        /\ e <= published
        /\ \A r \in Relay : ~Cast(e, r) /\ ~InStream(e, r) /\ <<e, r>> \notin dropped

\* An event that a goroutine of BroadcastAsync carries to a relay is nowhere else.
CastInv ==
    /\ \A x, y \in casting : x[1].id = y[1].id /\ x[2] = y[2] => x = y
    /\ \A e \in Id, r \in Relay : Cast(e, r) =>
          e <= published /\ ~InStream(e, r) /\ <<e, r>> \notin dropped

\* An event is in one place of one stream of a relay.
Unique ==
    \A s, t \in Stream, k, m \in Kind, i, j \in Nat, e \in Id :
        owner[s] = owner[t] /\ At(k, s, i, e) /\ At(m, t, j, e) => s = t /\ k = m /\ i = j

StreamedInv ==
    /\ Unique
    /\ \A e \in Id, r \in Relay : InStream(e, r) => e <= published /\ <<e, r>> \notin dropped
    /\ \A s \in Stream : owner[s] = None => \A k \in Kind, i \in Nat, e \in Id : ~At(k, s, i, e)
    /\ \A x \in dropped : x[1] <= published

PlaceInv == QueueInv /\ QueuedInv /\ CastInv /\ StreamedInv

-----------------------------------------------------------------------------
\* Sequences that lose their head or get another last element.
LEMMA TailElements ==
    ASSUME NEW S, NEW q \in Seq(S), q # <<>>
    PROVE  /\ Len(q) \in Nat /\ 1 \in 1..Len(q) /\ Head(q) = q[1] /\ q[1] \in S
           /\ Tail(q) \in Seq(S) /\ Len(Tail(q)) = Len(q) - 1
           /\ \A i \in 1..Len(Tail(q)) : i + 1 \in 1..Len(q) /\ Tail(q)[i] = q[i + 1]
OBVIOUS

LEMMA AppendElements ==
    ASSUME NEW S, NEW q \in Seq(S), NEW x \in S
    PROVE  /\ Len(q) \in Nat
           /\ Append(q, x) \in Seq(S) /\ Len(Append(q, x)) = Len(q) + 1
           /\ \A i \in 1..Len(q) : Append(q, x)[i] = q[i]
           /\ Append(q, x)[Len(q) + 1] = x
           /\ \A i \in 1..Len(Append(q, x)) : i \in 1..Len(q) \/ i = Len(q) + 1
OBVIOUS

LEMMA TailMembers ==
    ASSUME NEW q \in Seq(Event), q # <<>>, NEW e, Member(Tail(q), e)
    PROVE  Member(q, e)
BY TailElements DEF Member

LEMMA AppendMembers ==
    ASSUME NEW q \in Seq(Event), NEW x \in Event, NEW e, Member(Append(q, x), e)
    PROVE  Member(q, e) \/ e = x.id
BY AppendElements DEF Member

LEMMA IdOfEvent ==
    ASSUME NEW x \in Event
    PROVE  x.id \in Id /\ x.id \in Int
BY EventsAssumption DEF Event, Id

LEMMA HeadMember ==
    ASSUME NEW q \in Seq(Event), q # <<>>
    PROVE  Head(q) \in Event /\ Head(q).id \in Id /\ Member(q, Head(q).id)
<1>1. 1 \in 1..Len(q) /\ Head(q) = q[1] /\ q[1] \in Event
  BY TailElements
<1> QED
  BY <1>1, IdOfEvent DEF Member

LEMMA EventIds ==
    ASSUME NEW q \in Seq(Event), NEW i \in 1..Len(q)
    PROVE  q[i] \in Event /\ q[i].id \in Id /\ q[i].id \in Int
<1>1. q[i] \in Event
  OBVIOUS
<1> QED
  BY <1>1, IdOfEvent

LEMMA TailOrder ==
    ASSUME NEW q \in Seq(Event), q # <<>>, Ascending(q)
    PROVE  Ascending(Tail(q)) /\ ~Member(Tail(q), Head(q).id)
<1>1. Ascending(Tail(q))
  BY TailElements DEF Ascending
<1>2. \A i \in 1..Len(Tail(q)) : Head(q).id < Tail(q)[i].id
  BY TailElements DEF Ascending
<1>3. \A i \in 1..Len(Tail(q)) : Tail(q)[i].id \in Int
  BY TailElements, EventIds
<1>4. Head(q).id \in Int
  BY TailElements, EventIds
<1> QED
  BY <1>1, <1>2, <1>3, <1>4 DEF Member

LEMMA AppendOrder ==
    ASSUME NEW q \in Seq(Event), NEW x \in Event, Ascending(q),
           \A i \in 1..Len(q) : q[i].id < x.id
    PROVE  Ascending(Append(q, x))
<1> SUFFICES ASSUME NEW i \in 1..Len(Append(q, x)), NEW j \in 1..Len(Append(q, x)), i < j
             PROVE  Append(q, x)[i].id < Append(q, x)[j].id
  BY DEF Ascending
<1>1. i \in 1..Len(q)
  BY AppendElements
<1>2. CASE j \in 1..Len(q)
  BY <1>1, <1>2, AppendElements DEF Ascending
<1>3. CASE j = Len(q) + 1
  BY <1>1, <1>3, AppendElements
<1> QED
  BY <1>2, <1>3, AppendElements
-----------------------------------------------------------------------------
\* A step that moves nothing within the streams.
LEMMA StreamsKept ==
    ASSUME UNCHANGED <<buffer, wire, heard, owner>>
    PROVE  /\ Unique => Unique'
           /\ \A e \in Id, r \in Relay : InStream(e, r)' <=> InStream(e, r)
           /\ (\A s \in Stream : owner[s] = None =>
                  \A k \in Kind, i \in Nat, e \in Id : ~At(k, s, i, e))
              => (\A s \in Stream : owner[s] = None =>
                  \A k \in Kind, i \in Nat, e \in Id : ~At(k, s, i, e))'
BY DEF Unique, InStream, At

\* A step that moves no event.
Places == <<published, pubsub, eventChan, filtered, casting, buffer, owner, wire, heard,
            dropped>>

LEMMA PlacesKept ==
    ASSUME PlaceInv, UNCHANGED Places
    PROVE  PlaceInv'
<1>1. QueueInv'
  BY DEF PlaceInv, QueueInv, Places
<1>2. \A e \in Id : Queued(e)' <=> Queued(e)
  BY DEF Queued, Member, Places
<1>3. \A e \in Id, r \in Relay : Cast(e, r)' <=> Cast(e, r)
  BY DEF Cast, Places
<1>4. QueuedInv'
  BY <1>2, <1>3, StreamsKept DEF PlaceInv, QueuedInv, Places
<1>5. CastInv'
  BY <1>3, StreamsKept DEF PlaceInv, CastInv, Places
<1>6. StreamedInv'
  BY StreamsKept DEF PlaceInv, StreamedInv, Places
<1> QED
  BY <1>1, <1>4, <1>5, <1>6 DEF PlaceInv

\* A step of the queues: an event leaves them for good, or is published.
LEMMA QueueStep ==
    ASSUME PlaceInv, EventsTypeOK, QueueInv',
           UNCHANGED <<casting, buffer, wire, heard, owner>>,
           published' \in Int, published <= published',
           \A e \in Id : Queued(e)' => Queued(e) \/ (published < e /\ e <= published'),
           \A x \in dropped' : \/ x \in dropped
                               \/ /\ x[1] \in Id /\ x[1] <= published' /\ ~Queued(x[1])'
                                  /\ Queued(x[1]) \/ published < x[1]
    PROVE  PlaceInv'
<1>0. published \in Int /\ Id \subseteq Int /\ \A e \in Id, r \in Relay : <<e, r>>[1] = e
  BY EventsAssumption DEF EventsTypeOK, Id
<1>1. \A e \in Id, r \in Relay : /\ Cast(e, r)' <=> Cast(e, r)
                                 /\ InStream(e, r)' <=> InStream(e, r)
  BY StreamsKept DEF Cast
<1>2. \A e \in Id, r \in Relay : published < e =>
          ~Cast(e, r) /\ ~InStream(e, r) /\ <<e, r>> \notin dropped
  BY <1>0 DEF PlaceInv, CastInv, StreamedInv
<1>3. QueuedInv'
  <2> SUFFICES ASSUME NEW e \in Id, Queued(e)'
               PROVE  /\ e <= published'
                      /\ \A r \in Relay : /\ ~Cast(e, r) /\ ~InStream(e, r)
                                          /\ <<e, r>> \notin dropped'
    BY <1>1 DEF QueuedInv
  <2>1. CASE Queued(e)
    BY <1>0, <2>1 DEF PlaceInv, QueuedInv
  <2>2. CASE published < e /\ e <= published'
    BY <1>0, <1>2, <2>2
  <2> QED
    BY <2>1, <2>2
<1>4. ASSUME NEW e \in Id, NEW r \in Relay, Cast(e, r) \/ InStream(e, r)
      PROVE  e <= published' /\ <<e, r>> \notin dropped'
  <2>1. e <= published /\ <<e, r>> \notin dropped /\ ~Queued(e)
    BY <1>4 DEF PlaceInv, QueuedInv, CastInv, StreamedInv
  <2> QED
    BY <1>0, <2>1
<1>5. CastInv'
  <2>1. \A x, y \in casting' : x[1].id = y[1].id /\ x[2] = y[2] => x = y
    BY DEF PlaceInv, CastInv
  <2>2. \A e \in Id, r \in Relay : Cast(e, r)' =>
            e <= published' /\ ~InStream(e, r)' /\ <<e, r>> \notin dropped'
    BY <1>1, <1>4 DEF PlaceInv, CastInv
  <2> QED
    BY <2>1, <2>2 DEF CastInv
<1>6. StreamedInv'
  <2>1. \A e \in Id, r \in Relay : InStream(e, r)' =>
            e <= published' /\ <<e, r>> \notin dropped'
    BY <1>1, <1>4
  <2>2. \A x \in dropped' : x[1] <= published'
    <3> SUFFICES ASSUME NEW x \in dropped
                 PROVE  x[1] <= published'
      OBVIOUS
    <3>1. x[1] \in Int /\ x[1] <= published
      BY <1>0 DEF EventsTypeOK, PlaceInv, StreamedInv
    <3> QED
      BY <1>0, <3>1
  <2> QED
    BY <2>1, <2>2, StreamsKept DEF PlaceInv, StreamedInv
<1> QED
  BY <1>3, <1>5, <1>6 DEF PlaceInv

LEMMA PublishPlaces ==
    ASSUME PlaceInv, EventsTypeOK, NEW t \in Type, PublishModerationEvent(t)
    PROVE  PlaceInv'
<1> DEFINE e == [id |-> published + 1, type |-> t]
<1>0. published \in 0..MaxEvents /\ MaxEvents \in Nat
  BY EventsAssumption DEF EventsTypeOK
<1>1. /\ published' = published + 1 /\ published < MaxEvents
      /\ \/ pubsub' = Append(pubsub, e) /\ UNCHANGED dropped
         \/ LostTo(e, Relay) /\ UNCHANGED pubsub
      /\ UNCHANGED <<eventChan, filtered, casting, buffer, wire, heard, owner>>
  BY DEF PublishModerationEvent, Publish, server, process
<1>2. e \in Event /\ e.id = published + 1 /\ e.id \in Id
  BY <1>0, <1>1 DEF Event, Id
<1> HIDE DEF e
<1>3. pubsub \in Seq(Event) /\ eventChan \in Seq(Event) /\ filtered \in Seq(Event)
  BY DEF EventsTypeOK
<1>4. \A d \in Id : Queued(d) => d < e.id
  BY <1>0, <1>2 DEF PlaceInv, QueuedInv, Id
<1>5. /\ \A i \in 1..Len(pubsub) : pubsub[i].id < e.id
      /\ \A i \in 1..Len(eventChan) : eventChan[i].id < e.id
      /\ \A i \in 1..Len(filtered) : filtered[i].id < e.id
  BY <1>3, <1>4, EventIds DEF Queued, Member
<1>6. \A x \in dropped' : x \in dropped \/ (x[1] = e.id /\ UNCHANGED pubsub)
  <2>1. CASE LostTo(e, Relay) /\ UNCHANGED pubsub
    BY <2>1 DEF LostTo
  <2> QED
    BY <1>1, <2>1
<1>7. \A d \in Id : Queued(d)' => Queued(d) \/ (d = e.id /\ ~UNCHANGED pubsub)
  <2>1. CASE pubsub' = Append(pubsub, e)
    <3>1. pubsub' # pubsub
      BY <2>1, <1>2, <1>3, AppendElements
    <3> QED
      BY <2>1, <3>1, <1>1, <1>2, <1>3, AppendMembers DEF Queued
  <2>2. CASE UNCHANGED pubsub
    BY <2>2, <1>1 DEF Queued
  <2> QED
    BY <1>1, <2>1, <2>2
<1>8. QueueInv'
  <2>1. CASE pubsub' = Append(pubsub, e)
    <3>1. Ascending(pubsub')
      BY <2>1, <1>2, <1>3, <1>5, AppendOrder DEF PlaceInv, QueueInv
    <3>2. Before(eventChan, pubsub') /\ Before(filtered, pubsub')
      BY <2>1, <1>2, <1>3, <1>5, AppendElements DEF PlaceInv, QueueInv, Before
    <3> QED
      BY <1>1, <3>1, <3>2 DEF PlaceInv, QueueInv
  <2>2. CASE UNCHANGED pubsub
    BY <1>1, <2>2 DEF PlaceInv, QueueInv
  <2> QED
    BY <1>1, <2>1, <2>2
<1>9. /\ published' \in Int /\ published <= published' /\ published < e.id
      /\ e.id <= published' /\ ~Queued(e.id)
  BY <1>0, <1>1, <1>2, <1>4 DEF Id
<1> QED
  BY <1>1, <1>2, <1>6, <1>7, <1>8, <1>9, QueueStep

LEMMA SubscriberPlaces ==
    ASSUME PlaceInv, EventsTypeOK, SubscribeToModerationEvents
    PROVE  PlaceInv'
<1>1. /\ pubsub # <<>> /\ pubsub' = Tail(pubsub)
      /\ \/ eventChan' = Append(eventChan, Head(pubsub)) /\ UNCHANGED dropped
         \/ LostTo(Head(pubsub), Relay) /\ UNCHANGED eventChan
      /\ UNCHANGED <<published, filtered, casting, buffer, wire, heard, owner>>
  BY DEF SubscribeToModerationEvents, server, process
<1>2. pubsub \in Seq(Event) /\ eventChan \in Seq(Event) /\ filtered \in Seq(Event)
  BY DEF EventsTypeOK
<1>0. PICK e : e = Head(pubsub)
  OBVIOUS
<1>3. e \in Event /\ e.id \in Id /\ Member(pubsub, e.id) /\ e = pubsub[1] /\ 1 \in 1..Len(pubsub)
  BY <1>0, <1>1, <1>2, HeadMember, TailElements
<1>4. /\ Ascending(pubsub') /\ ~Member(pubsub', e.id) /\ pubsub' \in Seq(Event)
      /\ \A d \in Id : Member(pubsub', d) => Member(pubsub, d)
  BY <1>0, <1>1, <1>2, TailOrder, TailMembers, TailElements DEF PlaceInv, QueueInv
<1>5. /\ \A i \in 1..Len(eventChan) : eventChan[i].id < e.id
      /\ \A i \in 1..Len(filtered) : filtered[i].id < e.id
      /\ \A i \in 1..Len(pubsub') : e.id < pubsub'[i].id
  <2>1. \A i \in 1..Len(pubsub') : i + 1 \in 1..Len(pubsub) /\ pubsub'[i] = pubsub[i + 1] /\ 1 < i + 1
    BY <1>1, <1>2, TailElements
  <2> QED
    BY <1>3, <2>1 DEF PlaceInv, QueueInv, Before, Ascending
<1>6. ~Member(eventChan, e.id) /\ ~Member(filtered, e.id)
  BY <1>2, <1>3, <1>5, EventIds, IdOfEvent DEF Member
<1>7. Before(eventChan, pubsub') /\ Before(filtered, pubsub')
  BY <1>1, <1>2, TailElements DEF PlaceInv, QueueInv, Before
<1>8. /\ QueueInv'
      /\ \A d \in Id : Queued(d)' => Queued(d)
      /\ \A x \in dropped' : x \in dropped \/ (x[1] = e.id /\ ~Queued(e.id)')
  <2>1. CASE eventChan' = Append(eventChan, e) /\ UNCHANGED dropped
    <3>1. Ascending(eventChan')
      BY <2>1, <1>2, <1>3, <1>5, AppendOrder DEF PlaceInv, QueueInv
    <3>2. Before(eventChan', pubsub')
      BY <2>1, <1>2, <1>3, <1>5, <1>7, AppendElements DEF Before
    <3>3. Before(filtered, eventChan')
      BY <2>1, <1>2, <1>3, <1>5, AppendElements DEF PlaceInv, QueueInv, Before
    <3>4. \A d \in Id : Member(eventChan', d) => Member(eventChan, d) \/ Member(pubsub, d)
      BY <2>1, <1>2, <1>3, AppendMembers
    <3> QED
      BY <2>1, <1>1, <1>4, <1>7, <3>1, <3>2, <3>3, <3>4 DEF PlaceInv, QueueInv, Queued
  <2>2. CASE LostTo(e, Relay) /\ UNCHANGED eventChan
    <3>1. \A x \in dropped' : x \in dropped \/ x[1] = e.id
      BY <2>2 DEF LostTo
    <3>2. ~Queued(e.id)'
      BY <2>2, <1>1, <1>4, <1>6 DEF Queued
    <3> QED
      BY <2>2, <1>1, <1>4, <1>7, <3>1, <3>2 DEF PlaceInv, QueueInv, Queued
  <2> QED
    BY <1>0, <1>1, <2>1, <2>2
<1>9. /\ published' \in Int /\ published <= published' /\ e.id <= published'
      /\ Queued(e.id)
  BY <1>1, <1>3 DEF EventsTypeOK, PlaceInv, QueuedInv, Queued
<1> QED
  BY <1>1, <1>3, <1>8, <1>9, QueueStep

LEMMA FilterPlaces ==
    ASSUME PlaceInv, EventsTypeOK, FilterEvents
    PROVE  PlaceInv'
<1>1. /\ eventChan # <<>> /\ eventChan' = Tail(eventChan)
      /\ filtered' = Append(filtered, Head(eventChan))
      /\ UNCHANGED <<published, pubsub, casting, buffer, wire, heard, owner, dropped>>
  BY DEF FilterEvents, server, process
<1>2. pubsub \in Seq(Event) /\ eventChan \in Seq(Event) /\ filtered \in Seq(Event)
  BY DEF EventsTypeOK
<1> DEFINE e == Head(eventChan)
<1>3. /\ e \in Event /\ e.id \in Id /\ Member(eventChan, e.id)
      /\ e = eventChan[1] /\ 1 \in 1..Len(eventChan)
  BY <1>1, <1>2, HeadMember, TailElements
<1>4. /\ Ascending(eventChan') /\ eventChan' \in Seq(Event)
      /\ \A d \in Id : Member(eventChan', d) => Member(eventChan, d)
  BY <1>1, <1>2, TailOrder, TailMembers, TailElements DEF PlaceInv, QueueInv
<1>5. /\ \A i \in 1..Len(filtered) : filtered[i].id < e.id
      /\ \A i \in 1..Len(pubsub) : e.id < pubsub[i].id
      /\ \A i \in 1..Len(eventChan') : e.id < eventChan'[i].id
  <2>1. \A i \in 1..Len(eventChan') :
            i + 1 \in 1..Len(eventChan) /\ eventChan'[i] = eventChan[i + 1] /\ 1 < i + 1
    BY <1>1, <1>2, TailElements
  <2> QED
    BY <1>3, <2>1 DEF PlaceInv, QueueInv, Before, Ascending
<1>6. filtered' = Append(filtered, e)
  BY <1>1
<1> HIDE DEF e
<1>7. Before(eventChan', pubsub) /\ Before(filtered, eventChan')
  BY <1>1, <1>2, TailElements DEF PlaceInv, QueueInv, Before
<1>8. Ascending(filtered')
  BY <1>6, <1>2, <1>3, <1>5, AppendOrder DEF PlaceInv, QueueInv
<1>9. Before(filtered', pubsub) /\ Before(filtered', eventChan')
  BY <1>6, <1>2, <1>3, <1>5, <1>7, AppendElements DEF PlaceInv, QueueInv, Before
<1>10. QueueInv'
  BY <1>1, <1>4, <1>7, <1>8, <1>9 DEF PlaceInv, QueueInv
<1>11. \A d \in Id : Member(filtered', d) => Member(filtered, d) \/ Member(eventChan, d)
  BY <1>2, <1>3, <1>6, AppendMembers
<1>12. \A d \in Id : Queued(d)' => Queued(d)
  BY <1>1, <1>4, <1>11 DEF Queued
<1>13. published' \in Int /\ published <= published'
  BY <1>1 DEF EventsTypeOK
<1> QED
  BY <1>1, <1>10, <1>12, <1>13, QueueStep

LEMMA BroadcasterPlaces ==
    ASSUME PlaceInv, EventsTypeOK, StartEventBroadcaster
    PROVE  PlaceInv'
<1>1. /\ filtered # <<>> /\ filtered' = Tail(filtered)
      /\ casting' = casting \/ casting' = casting \cup ({Head(filtered)} \X Relay)
      /\ UNCHANGED <<published, pubsub, eventChan, buffer, wire, heard, owner, dropped>>
  BY DEF StartEventBroadcaster, server, process
<1>2. pubsub \in Seq(Event) /\ eventChan \in Seq(Event) /\ filtered \in Seq(Event)
  BY DEF EventsTypeOK
<1>0. PICK e : e = Head(filtered)
  OBVIOUS
<1>3. /\ e \in Event /\ e.id \in Id /\ Member(filtered, e.id)
      /\ e = filtered[1] /\ 1 \in 1..Len(filtered)
  BY <1>0, <1>1, <1>2, HeadMember, TailElements
<1>4. /\ Ascending(filtered') /\ filtered' \in Seq(Event) /\ ~Member(filtered', e.id)
      /\ \A d \in Id : Member(filtered', d) => Member(filtered, d)
  BY <1>0, <1>1, <1>2, TailOrder, TailMembers, TailElements DEF PlaceInv, QueueInv
<1>5. Before(filtered', pubsub) /\ Before(filtered', eventChan)
  BY <1>1, <1>2, TailElements DEF PlaceInv, QueueInv, Before
<1>6. QueueInv'
  BY <1>1, <1>4, <1>5 DEF PlaceInv, QueueInv
<1>7. ~Member(pubsub, e.id) /\ ~Member(eventChan, e.id)
  <2>1. /\ \A i \in 1..Len(pubsub) : e.id < pubsub[i].id
        /\ \A i \in 1..Len(eventChan) : e.id < eventChan[i].id
    BY <1>3 DEF PlaceInv, QueueInv, Before
  <2> QED
    BY <1>2, <1>3, <2>1, EventIds, IdOfEvent DEF Member
<1>8. \A d \in Id : Queued(d)' => Queued(d) /\ d # e.id
  BY <1>1, <1>4, <1>7 DEF Queued
<1>9. \A d \in Id, r \in Relay : InStream(d, r)' <=> InStream(d, r)
  BY <1>1, StreamsKept
<1>10. \A x \in casting' : x \in casting \/ (x[1] = e /\ x[2] \in Relay /\ x = <<e, x[2]>>)
  BY <1>0, <1>1
<1>11. \A d \in Id, r \in Relay : Cast(d, r)' => Cast(d, r) \/ d = e.id
  BY <1>10 DEF Cast
<1>12. /\ Queued(e.id) /\ e.id <= published
       /\ \A r \in Relay : ~Cast(e.id, r) /\ ~InStream(e.id, r) /\ <<e.id, r>> \notin dropped
  BY <1>3 DEF PlaceInv, QueuedInv, Queued
<1>13. QueuedInv'
  BY <1>1, <1>8, <1>9, <1>11 DEF PlaceInv, QueuedInv
<1>14. CastInv'
  <2>1. ASSUME NEW x \in casting', NEW y \in casting', x[1].id = y[1].id, x[2] = y[2]
        PROVE  x = y
    <3>1. CASE x \in casting /\ y \in casting
      BY <2>1, <3>1 DEF PlaceInv, CastInv
    <3>2. \A z \in casting : z[2] \in Relay /\ z[1].id # e.id
      <4> SUFFICES ASSUME NEW z \in casting
                   PROVE  z[2] \in Relay /\ z[1].id # e.id
        OBVIOUS
      <4>1. z[2] \in Relay
        BY DEF EventsTypeOK
      <4> QED
        BY <4>1, <1>12 DEF Cast
    <3> QED
      BY <1>10, <2>1, <3>1, <3>2
  <2>2. \A d \in Id, r \in Relay : Cast(d, r)' =>
            d <= published /\ ~InStream(d, r) /\ <<d, r>> \notin dropped
    BY <1>11, <1>12 DEF PlaceInv, CastInv
  <2> QED
    BY <1>1, <1>9, <2>1, <2>2 DEF CastInv
<1>15. StreamedInv'
  BY <1>1, <1>9, StreamsKept DEF PlaceInv, StreamedInv
<1> QED
  BY <1>6, <1>13, <1>14, <1>15 DEF PlaceInv

\* What leaves `casting' is dropped, or enters the channel of a stream of its relay.
LEMMA BroadcastPlaces ==
    ASSUME PlaceInv, StreamInv, NEW e \in Event, NEW r \in Relay, BroadcastAsync(e, r)
    PROVE  PlaceInv'
<1>0. EventsTypeOK /\ e.id \in Id
  BY IdOfEvent DEF StreamInv
<1>1. /\ casting' = casting \ {<<e, r>>} /\ <<e, r>> \in casting
      /\ UNCHANGED <<published, pubsub, eventChan, filtered, owner, wire, heard>>
  BY BroadcastCases DEF queues, process
<1>2. QueueInv' /\ \A d \in Id : Queued(d)' <=> Queued(d)
  BY <1>1 DEF PlaceInv, QueueInv, Queued
<1>3. /\ Cast(e.id, r) /\ e.id <= published
      /\ ~InStream(e.id, r) /\ <<e.id, r>> \notin dropped /\ ~Queued(e.id)
  <2>1. Cast(e.id, r)
    BY <1>1 DEF Cast
  <2> QED
    BY <1>0, <2>1 DEF PlaceInv, CastInv, QueuedInv
<1>4. \A d \in Id, q \in Relay : Cast(d, q)' => Cast(d, q) /\ ~(d = e.id /\ q = r)
  <2> SUFFICES ASSUME NEW d \in Id, NEW q \in Relay, Cast(d, q)'
               PROVE  Cast(d, q) /\ ~(d = e.id /\ q = r)
    OBVIOUS
  <2>1. PICK x \in casting' : x[1].id = d /\ x[2] = q
    BY DEF Cast
  <2>2. x \in casting /\ x # <<e, r>> /\ <<e, r>> \in casting
    BY <1>1
  <2>3. <<e, r>>[1] = e /\ <<e, r>>[2] = r
    OBVIOUS
  <2>4. Cast(d, q)
    BY <2>1, <2>2 DEF Cast
  <2> QED
    BY <2>1, <2>2, <2>3, <2>4 DEF PlaceInv, CastInv
<1>5. \A x, y \in casting' : x[1].id = y[1].id /\ x[2] = y[2] => x = y
  BY <1>1 DEF PlaceInv, CastInv
<1>6. CASE LostTo(e, {r}) /\ UNCHANGED buffer
  <2>1. dropped' = dropped \cup {<<e.id, r>>}
    BY <1>6 DEF LostTo
  <2>2. \A d \in Id, q \in Relay : InStream(d, q)' <=> InStream(d, q)
    BY <1>1, <1>6, StreamsKept
  <2>3. QueuedInv'
    BY <1>1, <1>2, <1>3, <1>4, <2>1, <2>2 DEF PlaceInv, QueuedInv
  <2>4. CastInv'
    BY <1>1, <1>4, <1>5, <2>1, <2>2 DEF PlaceInv, CastInv
  <2>5. StreamedInv'
    <3>1. \A d \in Id, q \in Relay : InStream(d, q)' =>
              d <= published /\ <<d, q>> \notin dropped'
      BY <1>3, <2>1, <2>2 DEF PlaceInv, StreamedInv
    <3>2. \A x \in dropped' : x[1] <= published
      BY <1>3, <2>1 DEF PlaceInv, StreamedInv
    <3> QED
      BY <1>1, <1>6, <3>1, <3>2, StreamsKept DEF PlaceInv, StreamedInv
  <2> QED
    BY <1>2, <2>3, <2>4, <2>5 DEF PlaceInv
<1>7. ASSUME NEW s \in Stream, owner[s] = r, buffer' = [buffer EXCEPT ![s] = Append(@, e)],
             UNCHANGED dropped
      PROVE  PlaceInv'
  <2>1. buffer[s] \in Seq(Event) /\ buffer \in [Stream -> Seq(Event)]
    BY <1>0 DEF EventsTypeOK
  <2> DEFINE n == Len(buffer[s]) + 1
  <2>2. n \in Nat /\ buffer'[s] = Append(buffer[s], e)
    BY <1>7, <2>1
  <2>3. /\ \A i \in 1..Len(buffer'[s]) : i \in 1..Len(buffer[s]) \/ i = n
        /\ \A i \in 1..Len(buffer[s]) : buffer'[s][i] = buffer[s][i]
        /\ buffer'[s][n] = e /\ n \notin 1..Len(buffer[s])
    BY <2>1, <2>2, AppendElements
  <2>4. \A t \in Stream, k \in Kind, i \in Nat, d \in Id : At(k, t, i, d)' =>
            At(k, t, i, d) \/ (k = "buffer" /\ t = s /\ i = n /\ d = e.id)
    <3> HIDE DEF n
    <3> SUFFICES ASSUME NEW t \in Stream, NEW k \in Kind, NEW i \in Nat, NEW d \in Id,
                        At(k, t, i, d)'
                 PROVE  At(k, t, i, d) \/ (k = "buffer" /\ t = s /\ i = n /\ d = e.id)
      OBVIOUS
    <3>1. CASE t = s /\ k = "buffer"
      BY <2>3, <3>1 DEF At
    <3>2. CASE t # s \/ k # "buffer"
      <4>1. t # s => buffer'[t] = buffer[t]
        BY <1>7, <2>1
      <4> QED
        BY <1>1, <3>2, <4>1 DEF At
    <3> QED
      BY <3>1, <3>2
  <2> HIDE DEF n
  <2>5. \A d \in Id, q \in Relay : InStream(d, q)' => InStream(d, q) \/ (d = e.id /\ q = r)
    BY <1>1, <1>7, <2>4 DEF InStream
  <2>6. QueuedInv'
    BY <1>1, <1>2, <1>3, <1>4, <1>7, <2>5 DEF PlaceInv, QueuedInv
  <2>7. CastInv'
    BY <1>1, <1>4, <1>5, <1>7, <2>5 DEF PlaceInv, CastInv
  <2>8. Unique'
    <3> SUFFICES ASSUME NEW t \in Stream, NEW u \in Stream, NEW k \in Kind, NEW m \in Kind,
                        NEW i \in Nat, NEW j \in Nat, NEW d \in Id,
                        owner[t] = owner[u], At(k, t, i, d)', At(m, u, j, d)'
                 PROVE  t = u /\ k = m /\ i = j
      BY <1>1 DEF Unique
    <3>1. CASE At(k, t, i, d) /\ At(m, u, j, d)
      BY <3>1 DEF PlaceInv, StreamedInv, Unique
    <3>2. \A z \in Stream, l \in Kind, h \in Nat :
              owner[z] = r => ~At(l, z, h, e.id)
      BY <1>3 DEF InStream
    <3>3. CASE ~At(k, t, i, d)
      BY <1>7, <2>4, <3>2, <3>3
    <3>4. CASE ~At(m, u, j, d)
      BY <1>7, <2>4, <3>2, <3>4
    <3> QED
      BY <3>1, <3>3, <3>4
  <2>9. StreamedInv'
    <3>1. \A d \in Id, q \in Relay : InStream(d, q)' =>
              d <= published /\ <<d, q>> \notin dropped
      BY <1>3, <2>5 DEF PlaceInv, StreamedInv
    <3>2. \A t \in Stream : owner[t] = None =>
              \A k \in Kind, i \in Nat, d \in Id : ~At(k, t, i, d)'
      <4>1. owner[s] # None
        BY <1>7, EventsAssumption
      <4> QED
        BY <2>4, <4>1 DEF PlaceInv, StreamedInv
    <3>3. \A x \in dropped : x[1] <= published
      BY DEF PlaceInv, StreamedInv
    <3> QED
      BY <1>1, <1>7, <2>8, <3>1, <3>2, <3>3 DEF StreamedInv
  <2> QED
    BY <1>2, <2>6, <2>7, <2>9 DEF PlaceInv
<1> QED
  BY <1>6, <1>7, BroadcastCases

\* A step that moves an event within a stream, or loses it there: nothing appears in a
\* stream that was not in it, and no stream has an event in two places.
LEMMA MovePlaces ==
    ASSUME PlaceInv,
           UNCHANGED <<published, pubsub, eventChan, filtered, casting, owner, dropped>>,
           \A t \in Stream, k \in Kind, i \in Nat, d \in Id : At(k, t, i, d)' =>
               \E l \in Kind, h \in Nat : At(l, t, h, d),
           \A t \in Stream, k, m \in Kind, i, j \in Nat, d \in Id :
               At(k, t, i, d)' /\ At(m, t, j, d)' => k = m /\ i = j
    PROVE  PlaceInv'
<1>1. QueueInv' /\ \A d \in Id : Queued(d)' <=> Queued(d)
  BY DEF PlaceInv, QueueInv, Queued
<1>2. \A d \in Id, r \in Relay : Cast(d, r)' <=> Cast(d, r)
  BY DEF Cast
<1>3. \A d \in Id, r \in Relay : InStream(d, r)' => InStream(d, r)
  BY DEF InStream
<1>4. QueuedInv'
  BY <1>1, <1>2, <1>3 DEF PlaceInv, QueuedInv
<1>5. CastInv'
  BY <1>2, <1>3 DEF PlaceInv, CastInv
<1>6. Unique'
  <2> SUFFICES ASSUME NEW t \in Stream, NEW u \in Stream, NEW k \in Kind, NEW m \in Kind,
                      NEW i \in Nat, NEW j \in Nat, NEW d \in Id,
                      owner[t] = owner[u], At(k, t, i, d)', At(m, u, j, d)'
               PROVE  t = u /\ k = m /\ i = j
    BY DEF Unique
  <2>1. PICK l \in Kind, h \in Nat : At(l, t, h, d)
    OBVIOUS
  <2>2. PICK n \in Kind, g \in Nat : At(n, u, g, d)
    OBVIOUS
  <2>3. t = u
    BY <2>1, <2>2 DEF PlaceInv, StreamedInv, Unique
  <2> QED
    BY <2>3
<1>7. \A t \in Stream : owner[t] = None =>
          \A k \in Kind, i \in Nat, d \in Id : ~At(k, t, i, d)'
  BY DEF PlaceInv, StreamedInv
<1>8. StreamedInv'
  BY <1>3, <1>6, <1>7 DEF PlaceInv, StreamedInv
<1> QED
  BY <1>1, <1>4, <1>5, <1>8 DEF PlaceInv

\* In a stream an event is in one place.
LEMMA UniqueInStream ==
    ASSUME PlaceInv, NEW t \in Stream, NEW k \in Kind, NEW m \in Kind,
           NEW i \in Nat, NEW j \in Nat, NEW d \in Id, At(k, t, i, d), At(m, t, j, d)
    PROVE  k = m /\ i = j
BY DEF PlaceInv, StreamedInv, Unique

\* SendEvent: the first event of the channel goes to the connection or is lost.
LEMMA SendPlaces ==
    ASSUME PlaceInv, EventsTypeOK, NEW s \in Stream, SendEvent(s)
    PROVE  PlaceInv'
<1>1. /\ buffer[s] # <<>> /\ buffer' = [buffer EXCEPT ![s] = Tail(@)]
      /\ wire' = wire \/ wire' = [wire EXCEPT ![s] = Append(@, Head(buffer[s]))]
      /\ UNCHANGED <<published, pubsub, eventChan, filtered, casting, owner, heard, dropped>>
  BY DEF SendEvent, queues, process
<1>2. /\ buffer \in [Stream -> Seq(Event)] /\ wire \in [Stream -> Seq(Event)]
      /\ buffer[s] \in Seq(Event) /\ wire[s] \in Seq(Event)
  BY DEF EventsTypeOK
<1>3. PICK n \in Nat : n = Len(wire[s]) + 1
  BY <1>2
<1>4. \A i \in Nat, d \in Id : At("buffer", s, i, d)' => At("buffer", s, i + 1, d) /\ i >= 1
  <2>1. buffer'[s] = Tail(buffer[s])
    BY <1>1, <1>2
  <2> QED
    BY <1>1, <1>2, <2>1, TailElements DEF At
<1>5. \A i \in Nat, d \in Id : At("wire", s, i, d)' =>
          (At("wire", s, i, d) /\ i # n) \/ (i = n /\ At("buffer", s, 1, d))
  <2>1. Head(buffer[s]) = buffer[s][1] /\ 1 \in 1..Len(buffer[s]) /\ buffer[s][1] \in Event
    BY <1>1, <1>2, TailElements
  <2>2. CASE wire' = wire
    BY <1>2, <1>3, <2>2 DEF At
  <2>3. CASE wire'[s] = Append(wire[s], buffer[s][1])
    BY <1>2, <1>3, <2>1, <2>3, AppendElements DEF At
  <2>4. wire' = wire \/ wire'[s] = Append(wire[s], buffer[s][1])
    BY <1>1, <1>2, <2>1
  <2> QED
    BY <2>2, <2>3, <2>4
<1>6. \A i \in Nat, d \in Id : At("heard", s, i, d)' => At("heard", s, i, d)
  BY <1>1 DEF At
<1>7. \A t \in Stream, k \in Kind, i \in Nat, d \in Id :
          t # s => (At(k, t, i, d)' <=> At(k, t, i, d))
  <2>1. \A t \in Stream : t # s => buffer'[t] = buffer[t] /\ wire'[t] = wire[t]
    BY <1>1, <1>2
  <2> QED
    BY <1>1, <2>1 DEF At
<1>8. ASSUME NEW t \in Stream, NEW k \in Kind, NEW i \in Nat, NEW d \in Id, At(k, t, i, d)'
      PROVE  \E l \in Kind, h \in Nat : At(l, t, h, d)
  BY <1>4, <1>5, <1>6, <1>7, <1>8 DEF Kind
<1>9. ASSUME NEW t \in Stream, NEW k \in Kind, NEW m \in Kind, NEW i \in Nat, NEW j \in Nat,
             NEW d \in Id, At(k, t, i, d)', At(m, t, j, d)'
      PROVE  k = m /\ i = j
  <2>1. CASE t # s
    BY <1>7, <1>9, <2>1, UniqueInStream
  <2>2. CASE t = s
    <3>1. /\ "buffer" \in Kind /\ "wire" \in Kind /\ "heard" \in Kind
          /\ i + 1 \in Nat /\ j + 1 \in Nat /\ 1 \in Nat
      BY DEF Kind
    <3>2. CASE k = "buffer"
      BY <1>4, <1>5, <1>6, <1>9, <2>2, <3>1, <3>2, UniqueInStream DEF Kind
    <3>3. CASE k = "wire"
      BY <1>4, <1>5, <1>6, <1>9, <2>2, <3>1, <3>3, UniqueInStream DEF Kind
    <3>4. CASE k = "heard"
      BY <1>4, <1>5, <1>6, <1>9, <2>2, <3>1, <3>4, UniqueInStream DEF Kind
    <3> QED
      BY <3>2, <3>3, <3>4 DEF Kind
  <2> QED
    BY <2>1, <2>2
<1> QED
  BY <1>1, <1>8, <1>9, MovePlaces

\* ReceiveEvent: the first event on the connection is heard.
LEMMA ReceivePlaces ==
    ASSUME PlaceInv, StreamInv, NEW r \in Relay, ReceiveEvent(r)
    PROVE  PlaceInv'
<1>0. PICK s \in Stream : s = current[r]
  BY DEF ReceiveEvent, StreamInv, ReaderInv, EventsTypeOK
<1>1. /\ wire[s] # <<>> /\ wire' = [wire EXCEPT ![s] = Tail(@)]
      /\ heard' = [heard EXCEPT ![s] = Append(@, Head(wire[s]).id)]
      /\ UNCHANGED <<published, pubsub, eventChan, filtered, casting, buffer, owner, dropped>>
  BY <1>0 DEF ReceiveEvent, queues, server
<1>2. /\ heard \in [Stream -> Seq(1..MaxEvents)] /\ wire \in [Stream -> Seq(Event)]
      /\ heard[s] \in Seq(1..MaxEvents) /\ wire[s] \in Seq(Event)
  BY DEF StreamInv, EventsTypeOK
<1>3. PICK n \in Nat : n = Len(heard[s]) + 1
  BY <1>2
<1>4. \A i \in Nat, d \in Id : At("wire", s, i, d)' => At("wire", s, i + 1, d) /\ i >= 1
  <2>1. wire'[s] = Tail(wire[s])
    BY <1>1, <1>2
  <2> QED
    BY <1>1, <1>2, <2>1, TailElements DEF At
<1>5. \A i \in Nat, d \in Id : At("heard", s, i, d)' =>
          (At("heard", s, i, d) /\ i # n) \/ (i = n /\ At("wire", s, 1, d))
  <2>1. /\ Head(wire[s]) = wire[s][1] /\ 1 \in 1..Len(wire[s]) /\ wire[s][1] \in Event
        /\ wire[s][1].id \in 1..MaxEvents
    BY <1>1, <1>2, TailElements, IdOfEvent DEF Id
  <2>2. heard'[s] = Append(heard[s], wire[s][1].id)
    BY <1>1, <1>2, <2>1
  <2> QED
    BY <1>2, <1>3, <2>1, <2>2, AppendElements DEF At
<1>6. \A i \in Nat, d \in Id : At("buffer", s, i, d)' => At("buffer", s, i, d)
  BY <1>1 DEF At
<1>7. \A t \in Stream, k \in Kind, i \in Nat, d \in Id :
          t # s => (At(k, t, i, d)' <=> At(k, t, i, d))
  <2>1. \A t \in Stream : t # s => heard'[t] = heard[t] /\ wire'[t] = wire[t]
    BY <1>1, <1>2
  <2> QED
    BY <1>1, <2>1 DEF At
<1>8. ASSUME NEW t \in Stream, NEW k \in Kind, NEW i \in Nat, NEW d \in Id, At(k, t, i, d)'
      PROVE  \E l \in Kind, h \in Nat : At(l, t, h, d)
  BY <1>4, <1>5, <1>6, <1>7, <1>8 DEF Kind
<1>9. ASSUME NEW t \in Stream, NEW k \in Kind, NEW m \in Kind, NEW i \in Nat, NEW j \in Nat,
             NEW d \in Id, At(k, t, i, d)', At(m, t, j, d)'
      PROVE  k = m /\ i = j
  <2>1. CASE t # s
    BY <1>7, <1>9, <2>1, UniqueInStream
  <2>2. CASE t = s
    <3>1. /\ "buffer" \in Kind /\ "wire" \in Kind /\ "heard" \in Kind
          /\ i + 1 \in Nat /\ j + 1 \in Nat /\ 1 \in Nat
      BY DEF Kind
    <3>2. CASE k = "buffer"
      BY <1>4, <1>5, <1>6, <1>9, <2>2, <3>1, <3>2, UniqueInStream DEF Kind
    <3>3. CASE k = "wire"
      BY <1>4, <1>5, <1>6, <1>9, <2>2, <3>1, <3>3, UniqueInStream DEF Kind
    <3>4. CASE k = "heard"
      BY <1>4, <1>5, <1>6, <1>9, <2>2, <3>1, <3>4, UniqueInStream DEF Kind
    <3> QED
      BY <3>2, <3>3, <3>4 DEF Kind
  <2> QED
    BY <2>1, <2>2
<1> QED
  BY <1>1, <1>8, <1>9, MovePlaces

\* Subscribe: the stream that gets an owner is empty.
LEMMA SubscribePlaces ==
    ASSUME PlaceInv, EventsTypeOK, NEW r \in Relay, NEW s \in Stream, Subscribe(r, s)
    PROVE  PlaceInv'
<1>1. /\ owner[s] = None /\ owner' = [owner EXCEPT ![s] = r]
      /\ UNCHANGED <<published, pubsub, eventChan, filtered, casting, buffer, wire, heard,
                     dropped>>
  BY DEF Subscribe, queues
<1>2. \A t \in Stream, k \in Kind, i \in Nat, d \in Id : At(k, t, i, d)' <=> At(k, t, i, d)
  BY <1>1 DEF At
<1>3. \A k \in Kind, i \in Nat, d \in Id : ~At(k, s, i, d)
  BY <1>1 DEF PlaceInv, StreamedInv
<1>4. \A t \in Stream : t # s => owner'[t] = owner[t]
  BY <1>1 DEF EventsTypeOK
<1>5. \A d \in Id, q \in Relay : InStream(d, q)' => InStream(d, q)
  BY <1>2, <1>3, <1>4 DEF InStream
<1>6. QueueInv' /\ \A d \in Id : Queued(d)' <=> Queued(d)
  BY <1>1 DEF PlaceInv, QueueInv, Queued
<1>7. \A d \in Id, q \in Relay : Cast(d, q)' <=> Cast(d, q)
  BY <1>1 DEF Cast
<1>8. QueuedInv'
  BY <1>1, <1>5, <1>6, <1>7 DEF PlaceInv, QueuedInv
<1>9. CastInv'
  BY <1>1, <1>5, <1>7 DEF PlaceInv, CastInv
<1>10. Unique'
  BY <1>2, <1>3, <1>4 DEF PlaceInv, StreamedInv, Unique
<1>11. \A t \in Stream : owner'[t] = None =>
           \A k \in Kind, i \in Nat, d \in Id : ~At(k, t, i, d)'
  BY <1>2, <1>3, <1>4 DEF PlaceInv, StreamedInv
<1>12. StreamedInv'
  BY <1>1, <1>5, <1>10, <1>11 DEF PlaceInv, StreamedInv
<1> QED
  BY <1>6, <1>8, <1>9, <1>12 DEF PlaceInv

\* Every event is in one place at a time on its way to a relay, in every reachable state.
THEOREM PlaceInvariance == EventsSpec => []PlaceInv
<1>1. EventsInit => PlaceInv
  <2> SUFFICES ASSUME EventsInit
               PROVE  PlaceInv
    OBVIOUS
  <2>1. \A e \in Id : ~Queued(e)
    BY DEF EventsInit, Queued, Member
  <2>2. \A t \in Stream, k \in Kind, i \in Nat, e \in Id : ~At(k, t, i, e)
    BY DEF EventsInit, At
  <2>3. QueueInv
    BY DEF EventsInit, QueueInv, Ascending, Before
  <2>4. QueuedInv /\ CastInv
    BY <2>1 DEF EventsInit, QueuedInv, CastInv, Cast
  <2>5. StreamedInv
    BY <2>2 DEF EventsInit, StreamedInv, Unique, InStream
  <2> QED
    BY <2>3, <2>4, <2>5 DEF PlaceInv
<1>2. PlaceInv /\ StreamInv /\ [EventsNext]_eventVars => PlaceInv'
  <2> SUFFICES ASSUME PlaceInv, StreamInv, [EventsNext]_eventVars
               PROVE  PlaceInv'
    OBVIOUS
  <2>0. EventsTypeOK
    BY DEF StreamInv
  <2>1. CASE \E t \in Type : PublishModerationEvent(t)
    BY <2>0, <2>1, PublishPlaces
  <2>2. CASE ServerStep
    BY <2>0, <2>2, SubscriberPlaces, FilterPlaces, BroadcasterPlaces DEF ServerStep
  <2>3. ASSUME NEW x \in casting, BroadcastAsync(x[1], x[2])
        PROVE  PlaceInv'
    <3>1. x[1] \in Event /\ x[2] \in Relay
      BY <2>0 DEF EventsTypeOK
    <3> QED
      BY <2>3, <3>1, BroadcastPlaces
  <2>4. CASE \E r \in Relay, s \in Stream : Subscribe(r, s)
    BY <2>0, <2>4, SubscribePlaces
  <2>5. CASE \E s \in Stream : SendEvent(s)
    BY <2>0, <2>5, SendPlaces
  <2>6. CASE \E s \in Stream : StreamEnds(s) \/ LoseConnection(s)
    <3>1. UNCHANGED Places
      BY <2>6 DEF StreamEnds, LoseConnection, Places, queues, server, process
    <3> QED
      BY <3>1, PlacesKept
  <2>7. CASE \E r \in Relay : ReceiveEvent(r)
    BY <2>7, ReceivePlaces
  <2>8. CASE \E r \in Relay : StartRelay(r) \/ RegisterFailed(r) \/ StreamError(r) \/ StopRelay(r)
    <3>1. UNCHANGED Places
      BY <2>8 DEF StartRelay, RegisterFailed, StreamError, StopRelay, Places, queues, server
    <3> QED
      BY <3>1, PlacesKept
  <2>9. CASE UNCHANGED eventVars
    <3>1. UNCHANGED Places
      BY <2>9 DEF eventVars, Places
    <3> QED
      BY <3>1, PlacesKept
  <2> QED
    BY <2>1, <2>2, <2>3, <2>4, <2>5, <2>6, <2>7, <2>8, <2>9 DEF EventsNext
<1> QED
  BY <1>1, <1>2, StreamInvariance, PTL DEF EventsSpec

-----------------------------------------------------------------------------
\* The refinement: what a relay has heard, by the invariant at most once.
HeardBy(e, r) == \E s \in Stream : owner[s] = r /\ \E i \in 1..Len(heard[s]) : heard[s][i] = e

HeardOf == [r \in Relay |-> [e \in 1..MaxEvents |-> TimesHeard(e, r)]]

\* A stream has heard no more events than there are.
LEMMA HeardBound ==
    ASSUME PlaceInv, EventsTypeOK, NEW s \in Stream
    PROVE  Len(heard[s]) \in Nat /\ Len(heard[s]) <= MaxEvents
<1>1. /\ heard[s] \in Seq(Id) /\ Len(heard[s]) \in Nat /\ MaxEvents \in Nat
      /\ heard[s] \in [1..Len(heard[s]) -> Id]
  BY EventsAssumption DEF EventsTypeOK, Id
<1>2. ASSUME NEW i \in 1..Len(heard[s]), NEW j \in 1..Len(heard[s]), heard[s][i] = heard[s][j]
      PROVE  i = j
  <2>1. /\ heard[s][i] \in Id /\ i \in Nat /\ j \in Nat /\ "heard" \in Kind
        /\ At("heard", s, i, heard[s][i]) /\ At("heard", s, j, heard[s][i])
    BY <1>1, <1>2 DEF At, Kind
  <2> QED
    BY <2>1, UniqueInStream
<1>3. heard[s] \in Injection(1..Len(heard[s]), Id)
  BY <1>1, <1>2 DEF Injection, IsInjective
<1>4. IsFiniteSet(Id) /\ Cardinality(Id) = MaxEvents
  BY <1>1, FS_Interval DEF Id
<1>5. Cardinality(1..Len(heard[s])) = Len(heard[s])
  BY <1>1, FS_Interval
<1>6. Cardinality(1..Len(heard[s])) <= Cardinality(Id)
  BY <1>3, <1>4, FS_Injection
<1> QED
  BY <1>1, <1>4, <1>5, <1>6

LEMMA HeardOnce ==
    PlaceInv /\ EventsTypeOK =>
        \A e \in Id, r \in Relay : TimesHeard(e, r) = IF HeardBy(e, r) THEN 1 ELSE 0
<1> SUFFICES ASSUME PlaceInv, EventsTypeOK, NEW e \in Id, NEW r \in Relay
             PROVE  TimesHeard(e, r) = IF HeardBy(e, r) THEN 1 ELSE 0
  OBVIOUS
<1> DEFINE H == {x \in Stream \X (1..MaxEvents) :
                    owner[x[1]] = r /\ x[2] \in DOMAIN heard[x[1]] /\ heard[x[1]][x[2]] = e}
<1>0. \A s \in Stream : /\ Len(heard[s]) \in Nat /\ Len(heard[s]) <= MaxEvents
                        /\ DOMAIN heard[s] = 1..Len(heard[s])
  BY HeardBound DEF EventsTypeOK
<1>1. CASE HeardBy(e, r)
  <2>1. PICK s \in Stream, i \in Nat :
            owner[s] = r /\ i \in 1..Len(heard[s]) /\ heard[s][i] = e
    BY <1>0, <1>1 DEF HeardBy
  <2>2. i \in 1..MaxEvents /\ MaxEvents \in Nat
    BY <1>0, <2>1, EventsAssumption
  <2>3. <<s, i>> \in H
    BY <1>0, <2>1, <2>2
  <2>4. ASSUME NEW x \in H
        PROVE  x = <<s, i>>
    <3>1. /\ x[1] \in Stream /\ x[2] \in 1..Len(heard[x[1]]) /\ x = <<x[1], x[2]>>
          /\ owner[x[1]] = r /\ heard[x[1]][x[2]] = e
      BY <1>0
    <3>2. /\ At("heard", x[1], x[2], e) /\ At("heard", s, i, e) /\ "heard" \in Kind
          /\ x[2] \in Nat /\ i \in Nat
      BY <2>1, <2>2, <3>1 DEF At, Kind
    <3>3. x[1] = s /\ x[2] = i
      BY <2>1, <3>1, <3>2 DEF PlaceInv, StreamedInv, Unique
    <3> QED
      BY <3>1, <3>3
  <2>5. H = {<<s, i>>}
    BY <2>3, <2>4
  <2>6. Cardinality(H) = 1
    BY <2>5, FS_Singleton
  <2> QED
    BY <1>1, <2>6 DEF TimesHeard
<1>2. CASE ~HeardBy(e, r)
  <2>1. H = {}
    BY <1>0, <1>2 DEF HeardBy
  <2>2. Cardinality(H) = 0
    BY <2>1, FS_EmptySet
  <2> QED
    BY <1>2, <2>2 DEF TimesHeard
<1> QED
  BY <1>1, <1>2

LEMMA HeardOnceNext ==
    (PlaceInv /\ EventsTypeOK)' =>
        \A e \in Id, r \in Relay : TimesHeard(e, r)' = IF HeardBy(e, r)' THEN 1 ELSE 0
<1>1. (PlaceInv /\ EventsTypeOK)' =>
          (\A e \in Id, r \in Relay : TimesHeard(e, r) = IF HeardBy(e, r) THEN 1 ELSE 0)'
  BY HeardOnce, PTL
<1> QED
  BY <1>1

\* A step after which the relays have heard what they had before.
LEMMA NothingHeard ==
    ASSUME PlaceInv, EventsTypeOK, PlaceInv', EventsTypeOK',
           \A e \in Id, r \in Relay : HeardBy(e, r)' <=> HeardBy(e, r)
    PROVE  HeardOf' = HeardOf
<1>1. \A e \in Id, r \in Relay : TimesHeard(e, r) = IF HeardBy(e, r) THEN 1 ELSE 0
  BY HeardOnce
<1>2. \A e \in Id, r \in Relay : TimesHeard(e, r)' = IF HeardBy(e, r)' THEN 1 ELSE 0
  BY HeardOnceNext
<1>3. \A e \in Id, r \in Relay : TimesHeard(e, r)' = TimesHeard(e, r)
  BY <1>1, <1>2
<1> QED
  BY <1>3 DEF HeardOf, Id

\* An event that is in a queue or carried to a relay is open for it in the abstract
\* specification.
LEMMA OpenEvents ==
    ASSUME PlaceInv, EventsTypeOK, NEW e \in Id, NEW r \in Relay, Queued(e) \/ Cast(e, r)
    PROVE  HeardOf[r][e] = 0 /\ <<e, r>> \notin dropped /\ e <= published
<1>1. ~InStream(e, r) /\ <<e, r>> \notin dropped /\ e <= published
  BY DEF PlaceInv, QueuedInv, CastInv
<1>2. ~HeardBy(e, r)
  <2> SUFFICES ASSUME NEW s \in Stream, owner[s] = r, NEW i \in 1..Len(heard[s]),
                      heard[s][i] = e
               PROVE  FALSE
    BY DEF HeardBy
  <2>1. At("heard", s, i, e) /\ "heard" \in Kind /\ i \in Nat
    BY DEF At, Kind, EventsTypeOK
  <2> QED
    BY <1>1, <2>1 DEF InStream
<1> QED
  BY <1>1, <1>2, HeardOnce DEF HeardOf, Id

\* Losing an event for some relays is a step of the abstract specification.
LEMMA LoseStep ==
    ASSUME NEW x \in Event, NEW R \in SUBSET Relay, LostTo(x, R),
           x.id <= published,
           \A r \in R : HeardOf[r][x.id] = 0 /\ <<x.id, r>> \notin dropped,
           UNCHANGED published, HeardOf' = HeardOf
    PROVE  [Broadcast!BroadcastNext]_(Broadcast!broadcastVars)
<1>1. PICK e \in 1..MaxEvents : e = x.id
  BY DEF Event
<1>2. dropped' = dropped \cup ({e} \X R)
  BY <1>1 DEF LostTo
<1>3. CASE R = {}
  <2>1. dropped' = dropped
    BY <1>2, <1>3
  <2> QED
    BY <2>1 DEF Broadcast!broadcastVars, HeardOf
<1>4. CASE R # {}
  <2>1. Broadcast!Lose(e, R)
    BY <1>1, <1>2 DEF Broadcast!Lose, Broadcast!Open, HeardOf
  <2>2. R \in (SUBSET Relay) \ {{}}
    BY <1>4
  <2> QED
    BY <2>1, <2>2 DEF Broadcast!BroadcastNext
<1> QED
  BY <1>3, <1>4

\* Hearing an event is a step of the abstract specification.
LEMMA HearStep ==
    ASSUME PlaceInv, StreamInv, PlaceInv', StreamInv', NEW r \in Relay, ReceiveEvent(r)
    PROVE  Broadcast!BroadcastNext
<1>0. PICK s \in Stream : s = current[r] /\ owner[s] = r
  BY DEF ReceiveEvent, StreamInv, ReaderInv, EventsTypeOK
<1>1. /\ wire[s] # <<>>
      /\ heard' = [heard EXCEPT ![s] = Append(@, Head(wire[s]).id)]
      /\ UNCHANGED <<published, owner, dropped>>
  BY <1>0 DEF ReceiveEvent, queues, server
<1>2. /\ heard \in [Stream -> Seq(1..MaxEvents)] /\ heard[s] \in Seq(1..MaxEvents)
      /\ wire[s] \in Seq(Event) /\ EventsTypeOK /\ EventsTypeOK'
  BY DEF StreamInv, EventsTypeOK
<1>3. PICK e \in 1..MaxEvents : e = Head(wire[s]).id /\ At("wire", s, 1, e)
  <2>1. Head(wire[s]) = wire[s][1] /\ 1 \in 1..Len(wire[s]) /\ wire[s][1] \in Event
    BY <1>1, <1>2, TailElements
  <2> QED
    BY <2>1, IdOfEvent DEF At, Id
<1>4. "wire" \in Kind /\ "heard" \in Kind /\ 1 \in Nat /\ e \in Id
  BY DEF Kind, Id
<1>5. e <= published /\ <<e, r>> \notin dropped
  <2>1. InStream(e, r)
    BY <1>0, <1>3, <1>4 DEF InStream
  <2> QED
    BY <1>4, <2>1 DEF PlaceInv, StreamedInv
<1>6. ~HeardBy(e, r)
  <2> SUFFICES ASSUME NEW t \in Stream, owner[t] = r, NEW i \in 1..Len(heard[t]),
                      heard[t][i] = e
               PROVE  FALSE
    BY DEF HeardBy
  <2>1. At("heard", t, i, e) /\ i \in Nat
    BY <1>2 DEF At, EventsTypeOK
  <2> QED
    BY <1>0, <1>3, <1>4, <2>1 DEF PlaceInv, StreamedInv, Unique
<1>7. /\ Len(heard'[s]) = Len(heard[s]) + 1 /\ Len(heard[s]) \in Nat
      /\ \A i \in 1..Len(heard[s]) : heard'[s][i] = heard[s][i]
      /\ heard'[s][Len(heard[s]) + 1] = e
      /\ \A t \in Stream : t # s => heard'[t] = heard[t]
  <2>1. heard'[s] = Append(heard[s], e) /\ \A t \in Stream : t # s => heard'[t] = heard[t]
    BY <1>1, <1>2, <1>3
  <2> QED
    BY <1>2, <2>1, AppendElements
<1>8. HeardBy(e, r)'
  <2>1. Len(heard[s]) + 1 \in 1..Len(heard'[s])
    BY <1>7
  <2> QED
    BY <1>0, <1>1, <1>7, <2>1 DEF HeardBy
<1>9. \A d \in Id, q \in Relay : d # e \/ q # r => (HeardBy(d, q)' <=> HeardBy(d, q))
  <2> SUFFICES ASSUME NEW d \in Id, NEW q \in Relay, d # e \/ q # r
               PROVE  HeardBy(d, q)' <=> HeardBy(d, q)
    OBVIOUS
  <2>1. ASSUME HeardBy(d, q)
        PROVE  HeardBy(d, q)'
    <3>1. PICK t \in Stream : owner[t] = q /\ \E i \in 1..Len(heard[t]) : heard[t][i] = d
      BY <2>1 DEF HeardBy
    <3>2. PICK i \in 1..Len(heard[t]) : heard[t][i] = d
      BY <3>1
    <3>3. i \in 1..Len(heard'[t]) /\ heard'[t][i] = d
      BY <1>2, <1>7, <3>2
    <3> QED
      BY <1>1, <3>1, <3>3 DEF HeardBy
  <2>2. ASSUME HeardBy(d, q)'
        PROVE  HeardBy(d, q)
    <3>1. PICK t \in Stream : owner[t] = q /\ \E i \in 1..Len(heard'[t]) : heard'[t][i] = d
      BY <1>1, <2>2 DEF HeardBy
    <3>2. PICK i \in 1..Len(heard'[t]) : heard'[t][i] = d
      BY <3>1
    <3>3. i \in 1..Len(heard[t]) /\ heard[t][i] = d
      BY <1>0, <1>2, <1>7, <3>1, <3>2
    <3> QED
      BY <3>1, <3>3 DEF HeardBy
  <2> QED
    BY <2>1, <2>2
<1>10. \A d \in Id, q \in Relay : TimesHeard(d, q) = IF HeardBy(d, q) THEN 1 ELSE 0
  BY <1>2, HeardOnce
<1>11. \A d \in Id, q \in Relay : TimesHeard(d, q)' = IF HeardBy(d, q)' THEN 1 ELSE 0
  BY <1>2, HeardOnceNext
<1>12. /\ \A d \in Id, q \in Relay : d # e \/ q # r => TimesHeard(d, q)' = TimesHeard(d, q)
       /\ TimesHeard(e, r) = 0 /\ TimesHeard(e, r)' = 1
  BY <1>4, <1>6, <1>8, <1>9, <1>10, <1>11
<1>13. HeardOf' = [HeardOf EXCEPT ![r][e] = 1] /\ HeardOf[r][e] = 0
  <2>1. HeardOf \in [Relay -> [1..MaxEvents -> {0, 1}]] /\ HeardOf[r][e] = 0
    <3>1. \A d \in Id, q \in Relay : TimesHeard(d, q) \in {0, 1}
      BY <1>10
    <3> QED
      BY <1>4, <1>12, <3>1 DEF HeardOf, Id
  <2>2. HeardOf' \in [Relay -> [1..MaxEvents -> {0, 1}]]
    <3>1. \A d \in Id, q \in Relay : TimesHeard(d, q)' \in {0, 1}
      BY <1>11
    <3> QED
      BY <3>1 DEF HeardOf, Id
  <2>3. \A q \in Relay, d \in 1..MaxEvents :
            HeardOf'[q][d] = IF q = r /\ d = e THEN 1 ELSE HeardOf[q][d]
    BY <1>12 DEF HeardOf, Id
  <2> HIDE DEF HeardOf
  <2>4. ASSUME NEW q \in Relay, q # r
        PROVE  HeardOf'[q] = HeardOf[q]
    <3>1. /\ HeardOf'[q] = [d \in 1..MaxEvents |-> TimesHeard(d, q)']
          /\ HeardOf[q] = [d \in 1..MaxEvents |-> TimesHeard(d, q)]
      BY DEF HeardOf
    <3>2. \A d \in 1..MaxEvents : TimesHeard(d, q)' = TimesHeard(d, q)
      BY <1>12, <2>4 DEF Id
    <3> QED
      BY <3>1, <3>2
  <2>5. HeardOf'[r] = [HeardOf[r] EXCEPT ![e] = 1]
    BY <2>1, <2>2, <2>3
  <2>6. HeardOf' = [HeardOf EXCEPT ![r] = [HeardOf[r] EXCEPT ![e] = 1]]
    BY <2>1, <2>2, <2>4, <2>5
  <2> QED
    BY <2>1, <2>6
<1>14. Broadcast!Hear(e, r)
  BY <1>1, <1>5, <1>13 DEF Broadcast!Hear, Broadcast!Open, HeardOf
<1> QED
  BY <1>14 DEF Broadcast!BroadcastNext

\* The event streams implement LossyBroadcast: whatever subscriptions come, end and
\* replace each other, a relay hears an event at most once and none that was dropped.
THEOREM StreamsRefineBroadcast == EventsSpec => AtMostOnce
<1>1. EventsInit => Broadcast!BroadcastInit
  <2> SUFFICES ASSUME EventsInit
               PROVE  Broadcast!BroadcastInit
    OBVIOUS
  <2>1. ASSUME NEW e \in 1..MaxEvents, NEW r \in Relay
        PROVE  TimesHeard(e, r) = 0
    <3> DEFINE H == {x \in Stream \X (1..MaxEvents) :
                 owner[x[1]] = r /\ x[2] \in DOMAIN heard[x[1]] /\ heard[x[1]][x[2]] = e}
    <3>1. H = {}
      <4> SUFFICES ASSUME NEW x \in Stream \X (1..MaxEvents)
                   PROVE  owner[x[1]] # r
        OBVIOUS
      <4> QED
        BY EventsAssumption DEF EventsInit
    <3>2. Cardinality(H) = 0
      BY <3>1, FS_EmptySet
    <3> QED
      BY <3>2 DEF TimesHeard
  <2> QED
    BY <2>1 DEF EventsInit, Broadcast!BroadcastInit
<1>2. StreamInv /\ PlaceInv /\ StreamInv' /\ PlaceInv' /\ [EventsNext]_eventVars
      => [Broadcast!BroadcastNext]_(Broadcast!broadcastVars)
  <2> SUFFICES ASSUME StreamInv, PlaceInv, StreamInv', PlaceInv', [EventsNext]_eventVars
               PROVE  [Broadcast!BroadcastNext]_(Broadcast!broadcastVars)
    OBVIOUS
  <2>0. EventsTypeOK /\ EventsTypeOK' /\ Relay \in SUBSET Relay
    BY DEF StreamInv
  <2>1. ASSUME UNCHANGED <<owner, heard>>
        PROVE  HeardOf' = HeardOf
    <3>1. \A e \in Id, r \in Relay : HeardBy(e, r)' <=> HeardBy(e, r)
      BY <2>1 DEF HeardBy
    <3> QED
      BY <2>0, <3>1, NothingHeard
  <2>2. ASSUME NEW t \in Type, PublishModerationEvent(t)
        PROVE  Broadcast!BroadcastNext
    <3>1. /\ published < MaxEvents /\ published' = published + 1
          /\ dropped' = dropped \/ dropped' = dropped \cup {<<published + 1, r>> : r \in Relay}
          /\ UNCHANGED <<owner, heard>>
      BY <2>2 DEF PublishModerationEvent, Publish, LostTo, server, process
    <3>2. HeardOf' = HeardOf
      BY <2>1, <3>1
    <3>3. \E L \in SUBSET Relay : dropped' = dropped \cup ({published + 1} \X L)
      <4>1. CASE dropped' = dropped
        <5>1. dropped' = dropped \cup ({published + 1} \X {}) /\ {} \in SUBSET Relay
          BY <4>1
        <5> QED
          BY <5>1
      <4>2. CASE dropped' = dropped \cup {<<published + 1, r>> : r \in Relay}
        <5>1. dropped' = dropped \cup ({published + 1} \X Relay) /\ Relay \in SUBSET Relay
          BY <4>2
        <5> QED
          BY <5>1
      <4> QED
        BY <3>1, <4>1, <4>2
    <3> QED
      BY <3>1, <3>2, <3>3 DEF Broadcast!BroadcastNext, Broadcast!Publish, HeardOf
  <2>3. CASE SubscribeToModerationEvents
    <3>1. /\ pubsub # <<>> /\ UNCHANGED <<published, owner, heard>>
          /\ dropped' = dropped \/ LostTo(Head(pubsub), Relay)
      BY <2>3 DEF SubscribeToModerationEvents, server, process
    <3>2. /\ Head(pubsub) \in Event /\ Head(pubsub).id \in Id
          /\ Queued(Head(pubsub).id)
      BY <2>0, <3>1, HeadMember DEF EventsTypeOK, Queued
    <3>3. HeardOf' = HeardOf
      BY <2>1, <3>1
    <3>4. CASE dropped' = dropped
      BY <3>1, <3>3, <3>4 DEF Broadcast!broadcastVars, HeardOf
    <3>5. CASE LostTo(Head(pubsub), Relay)
      <4>1. /\ Head(pubsub).id <= published
            /\ \A r \in Relay : /\ HeardOf[r][Head(pubsub).id] = 0
                                /\ <<Head(pubsub).id, r>> \notin dropped
        BY <2>0, <3>2, OpenEvents DEF PlaceInv, QueuedInv
      <4> QED
        BY <2>0, <3>1, <3>2, <3>3, <3>5, <4>1, LoseStep
    <3> QED
      BY <3>1, <3>4, <3>5
  <2>4. ASSUME NEW x \in casting, BroadcastAsync(x[1], x[2])
        PROVE  [Broadcast!BroadcastNext]_(Broadcast!broadcastVars)
    <3>1. PICK e \in Event, r \in Relay : x = <<e, r>> /\ x[1] = e /\ x[2] = r
      BY <2>0 DEF EventsTypeOK
    <3>2. /\ UNCHANGED <<published, owner, heard>>
          /\ dropped' = dropped \/ LostTo(e, {r})
      BY <2>4, <3>1, BroadcastCases DEF queues, process
    <3>3. HeardOf' = HeardOf
      BY <2>1, <3>2
    <3>4. CASE dropped' = dropped
      BY <3>2, <3>3, <3>4 DEF Broadcast!broadcastVars, HeardOf
    <3>5. CASE LostTo(e, {r})
      <4>1. Cast(e.id, r) /\ e.id \in Id
        BY <3>1, IdOfEvent DEF Cast
      <4>2. HeardOf[r][e.id] = 0 /\ <<e.id, r>> \notin dropped /\ e.id <= published
        BY <2>0, <4>1, OpenEvents
      <4>3. {r} \in SUBSET Relay
        OBVIOUS
      <4> QED
        BY <3>2, <3>3, <3>5, <4>2, <4>3, LoseStep
    <3> QED
      BY <3>2, <3>4, <3>5
  <2>5. ASSUME NEW r \in Relay, ReceiveEvent(r)
        PROVE  Broadcast!BroadcastNext
    BY <2>5, HearStep
  <2>6. ASSUME NEW r \in Relay, NEW s \in Stream, Subscribe(r, s)
        PROVE  UNCHANGED Broadcast!broadcastVars
    <3>1. /\ owner[s] = None /\ owner' = [owner EXCEPT ![s] = r]
          /\ UNCHANGED <<published, heard, dropped>>
      BY <2>6 DEF Subscribe, queues
    <3>2. \A i \in 1..Len(heard[s]), e \in Id : heard[s][i] # e
      <4> SUFFICES ASSUME NEW i \in 1..Len(heard[s]), NEW e \in Id, heard[s][i] = e
                   PROVE  FALSE
        OBVIOUS
      <4>1. At("heard", s, i, e) /\ "heard" \in Kind /\ i \in Nat
        BY <2>0 DEF At, Kind, EventsTypeOK
      <4> QED
        BY <3>1, <4>1 DEF PlaceInv, StreamedInv
    <3>3. \A t \in Stream : t # s => owner'[t] = owner[t]
      BY <2>0, <3>1 DEF EventsTypeOK
    <3>4. \A e \in Id, q \in Relay : HeardBy(e, q)' <=> HeardBy(e, q)
      BY <3>1, <3>2, <3>3 DEF HeardBy
    <3>5. HeardOf' = HeardOf
      BY <2>0, <3>4, NothingHeard
    <3> QED
      BY <3>1, <3>5 DEF Broadcast!broadcastVars, HeardOf
  <2>7. ASSUME UNCHANGED <<published, owner, heard, dropped>>
        PROVE  UNCHANGED Broadcast!broadcastVars
    <3>1. HeardOf' = HeardOf
      BY <2>1, <2>7
    <3> QED
      BY <2>7, <3>1 DEF Broadcast!broadcastVars, HeardOf
  <2>8. CASE FilterEvents \/ StartEventBroadcaster
    BY <2>7, <2>8 DEF FilterEvents, StartEventBroadcaster, server, process
  <2>9. CASE \E s \in Stream : SendEvent(s) \/ StreamEnds(s) \/ LoseConnection(s)
    BY <2>7, <2>9 DEF SendEvent, StreamEnds, LoseConnection, queues, server, process
  <2>10. CASE \E r \in Relay : StartRelay(r) \/ RegisterFailed(r) \/ StreamError(r) \/ StopRelay(r)
    BY <2>7, <2>10 DEF StartRelay, RegisterFailed, StreamError, StopRelay, queues, server
  <2>11. CASE UNCHANGED eventVars
    BY <2>7, <2>11 DEF eventVars
  <2> QED
    BY <2>2, <2>3, <2>4, <2>5, <2>6, <2>8, <2>9, <2>10, <2>11 DEF EventsNext, ServerStep
<1> QED
  BY <1>1, <1>2, StreamInvariance, PlaceInvariance, PTL
     DEF EventsSpec, AtMostOnce, Broadcast!BroadcastSpec
=============================================================================
