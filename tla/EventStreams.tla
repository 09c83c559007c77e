---------------------------- MODULE EventStreams ----------------------------
(***************************************************************************)
(* Moderation events on their way from the core server to the relays:      *)
(* ModerationService publishes to Redis Pub/Sub; one goroutine copies what *)
(* arrives into a channel, one filters it into a second channel, the event *)
(* broadcaster starts a goroutine per event and shard, StreamManager keeps *)
(* a channel per subscribed relay, a handler per stream sends from it, and *)
(* the relay's CoreClient reads the stream.                                *)
(*                                                                         *)
(* As built NewGRPCServer leaves streamManager nil (HasManager = FALSE).   *)
(***************************************************************************)
EXTENDS Basics

CONSTANTS Relay,       \* node ids of relays
          Stream,      \* SubscribeToGlobalEvents calls
          HasManager,  \* the server has a StreamManager
          QueueSize,   \* capacity of the two channels behind Pub/Sub
          BufferSize,  \* capacity of the channel of a stream
          MaxEvents    \* bound: events published

ASSUME EventsAssumption ==
    /\ HasManager \in BOOLEAN
    /\ QueueSize \in Nat \ {0} /\ BufferSize \in Nat \ {0} /\ MaxEvents \in Nat
    /\ None \notin Stream \cup Relay

Type == {"node_banned", "global_alert"}
Event == [id : 1..MaxEvents, type : Type]

VARIABLES
    alive,      \* the core process runs
    published,  \* number of events published
    pubsub,     \* published and not yet read by the subscriber
    eventChan,  \* channel of SubscribeToModerationEvents
    filtered,   \* channel of SubscribeToEvents
    casting,    \* goroutines of BroadcastAsync: an event and a relay's shard
    streams,    \* StreamManager: the stream whose channel a relay has
    buffer,     \* the channel of every stream
    closed,     \* streams whose channel was closed
    owner,      \* the relay that opened a stream
    handler,    \* SubscribeToGlobalEvents: new, loop, done
    wire,       \* events sent on a stream and not yet received
    broken,     \* streams whose connection was lost
    relay,      \* the relay process: down, up (not registered), listening, deaf
    current,    \* the stream the relay process reads
    heard,      \* events received on a stream, in order
    dropped     \* history: events that were lost on the way to a relay

eventVars == <<alive, published, pubsub, eventChan, filtered, casting, streams, buffer,
               closed, owner, handler, wire, broken, relay, current, heard, dropped>>
queues == <<published, pubsub, eventChan, filtered>>
server == <<streams, buffer, closed, owner, handler>>
process == <<relay, current, heard>>

EventsInit ==
    /\ alive = TRUE
    /\ published = 0
    /\ pubsub = <<>> /\ eventChan = <<>> /\ filtered = <<>>
    /\ casting = {}
    /\ streams = [r \in Relay |-> None]
    /\ buffer = [s \in Stream |-> <<>>]
    /\ closed = {}
    /\ owner = [s \in Stream |-> None]
    /\ handler = [s \in Stream |-> "new"]
    /\ wire = [s \in Stream |-> <<>>]
    /\ broken = {}
    /\ relay = [r \in Relay |-> "down"]
    /\ current = [r \in Relay |-> None]
    /\ heard = [s \in Stream |-> <<>>]
    /\ dropped = {}

LostTo(e, R) == dropped' = dropped \cup {<<e.id, r>> : r \in R}

(***************************************************************************)
(* The queue of goroutines behind Pub/Sub.                                 *)
(***************************************************************************)
\* Redis delivers to the subscriber at most once.
Publish(e) ==
    \/ pubsub' = Append(pubsub, e) /\ UNCHANGED dropped
    \/ LostTo(e, Relay) /\ UNCHANGED pubsub

\* BanNode and the alerts publish; BanContent never gets this far, its INSERT refers
\* to a moderator and no moderator is ever stored.
PublishModerationEvent(t) ==
    LET e == [id |-> published + 1, type |-> t]
    IN  /\ alive /\ published < MaxEvents
        /\ published' = published + 1
        /\ Publish(e)
        /\ UNCHANGED <<alive, eventChan, filtered, casting, server, wire, broken, process>>

\* Faulty variant: the channel has no bound.
SubscribeUnbounded ==
    /\ alive /\ pubsub # <<>>
    /\ pubsub' = Tail(pubsub)
    /\ eventChan' = Append(eventChan, Head(pubsub))
    /\ UNCHANGED <<alive, published, filtered, casting, server, wire, broken, process,
                   dropped>>

\* A full channel loses the event that has just arrived.
SubscribeToModerationEvents ==
    /\ alive /\ pubsub # <<>>
    /\ pubsub' = Tail(pubsub)
    /\ IF Len(eventChan) < QueueSize
       THEN eventChan' = Append(eventChan, Head(pubsub)) /\ UNCHANGED dropped
       ELSE LostTo(Head(pubsub), Relay) /\ UNCHANGED eventChan
    /\ UNCHANGED <<alive, published, filtered, casting, server, wire, broken, process>>

\* Faulty variant: the filter knows bans only.
FilterEventsBans ==
    /\ alive /\ eventChan # <<>> /\ Len(filtered) < QueueSize
    /\ eventChan' = Tail(eventChan)
    /\ filtered' = IF Head(eventChan).type = "node_banned"
                   THEN Append(filtered, Head(eventChan)) ELSE filtered
    /\ UNCHANGED <<alive, published, pubsub, casting, server, wire, broken, process,
                   dropped>>

\* The broadcaster asks for all types; the send blocks on a full channel.
FilterEvents ==
    /\ alive /\ eventChan # <<>> /\ Len(filtered) < QueueSize
    /\ eventChan' = Tail(eventChan)
    /\ filtered' = Append(filtered, Head(eventChan))
    /\ UNCHANGED <<alive, published, pubsub, casting, server, wire, broken, process,
                   dropped>>

\* The payload does not survive: it comes out of JSON as a map, which no case of
\* domainEventToPb matches, so an event is its id and its type from here on.
\* Without a StreamManager the goroutine panics and the process is gone.
StartEventBroadcaster ==
    /\ alive /\ filtered # <<>>
    /\ filtered' = Tail(filtered)
    /\ IF HasManager
       THEN casting' = casting \cup ({Head(filtered)} \X Relay) /\ UNCHANGED alive
       ELSE alive' = FALSE /\ UNCHANGED casting
    /\ UNCHANGED <<published, pubsub, eventChan, server, wire, broken, process, dropped>>

\* A goroutine of BroadcastAsync under the read lock of the relay's shard: a full
\* channel loses the event, a closed one would panic.
BroadcastAsync(e, r) ==
    LET s == streams[r]
    IN  /\ alive /\ <<e, r>> \in casting
        /\ casting' = casting \ {<<e, r>>}
        /\ CASE s = None -> LostTo(e, {r}) /\ UNCHANGED <<alive, buffer>>
             [] s # None /\ s \in closed -> alive' = FALSE /\ UNCHANGED <<buffer, dropped>>
             [] s # None /\ s \notin closed /\ Len(buffer[s]) < BufferSize ->
                   /\ buffer' = [buffer EXCEPT ![s] = Append(@, e)]
                   /\ UNCHANGED <<alive, dropped>>
             [] s # None /\ s \notin closed /\ Len(buffer[s]) >= BufferSize ->
                   LostTo(e, {r}) /\ UNCHANGED <<alive, buffer>>
        /\ UNCHANGED <<queues, streams, closed, owner, handler, wire, broken, process>>

(***************************************************************************)
(* SubscribeToGlobalEvents and StreamManager.                              *)
(***************************************************************************)
\* Register, under the write lock: the channel of an older stream is overwritten.
\* Without a StreamManager the handler panics, is recovered, and the call fails.
Subscribe(r, s) ==
    /\ alive /\ owner[s] = None /\ relay[r] = "up"
    /\ owner' = [owner EXCEPT ![s] = r]
    /\ IF HasManager
       THEN /\ handler' = [handler EXCEPT ![s] = "loop"]
            /\ streams' = [streams EXCEPT ![r] = s]
            /\ relay' = [relay EXCEPT ![r] = "listening"]
            /\ current' = [current EXCEPT ![r] = s]
       ELSE /\ handler' = [handler EXCEPT ![s] = "done"]
            /\ relay' = [relay EXCEPT ![r] = "deaf"]
            /\ UNCHANGED <<streams, current>>
    /\ UNCHANGED <<alive, queues, casting, buffer, closed, wire, broken, heard, dropped>>

\* Faulty variant: the channel is closed and stays in the map.
UnregisterKeepsEntry(r) ==
    /\ closed' = IF streams[r] = None THEN closed ELSE closed \cup {streams[r]}
    /\ UNCHANGED streams

\* Unregister works by node id: it closes and removes the channel the relay has now.
Unregister(r) ==
    /\ closed' = IF streams[r] = None THEN closed ELSE closed \cup {streams[r]}
    /\ streams' = [streams EXCEPT ![r] = None]

Leave(s) ==
    /\ handler' = [handler EXCEPT ![s] = "done"]
    /\ Unregister(owner[s])

\* Faulty variant: the event stays in the channel until the next one is taken.
SendEventTwice(s) ==
    /\ alive /\ handler[s] = "loop" /\ buffer[s] # <<>> /\ s \notin broken
    /\ buffer' = [buffer EXCEPT ![s] = IF Len(@) > 1 THEN Tail(@) ELSE @]
    /\ wire' = [wire EXCEPT ![s] = IF Len(@) < 2 THEN Append(@, Head(buffer[s])) ELSE @]
    /\ UNCHANGED <<alive, queues, casting, streams, closed, handler, owner, broken,
                   process, dropped>>

\* Faulty variant: the handler returns after one event.
SendEventOnce(s) ==
    /\ alive /\ handler[s] = "loop" /\ buffer[s] # <<>> /\ s \notin broken
    /\ buffer' = [buffer EXCEPT ![s] = Tail(@)]
    /\ wire' = [wire EXCEPT ![s] = Append(@, Head(buffer[s]))]
    /\ Leave(s)
    /\ UNCHANGED <<alive, queues, casting, owner, broken, process, dropped>>

\* The handler takes an event from its channel; Send fails on a broken connection.
SendEvent(s) ==
    /\ alive /\ handler[s] = "loop" /\ buffer[s] # <<>>
    /\ buffer' = [buffer EXCEPT ![s] = Tail(@)]
    /\ \/ /\ s \notin broken
          /\ wire' = [wire EXCEPT ![s] = Append(@, Head(buffer[s]))]
          /\ UNCHANGED <<streams, closed, handler>>
       \/ /\ s \in broken
          /\ Leave(s)
          /\ UNCHANGED wire
    /\ UNCHANGED <<alive, queues, casting, owner, broken, process, dropped>>

\* The context is done, or the channel is closed and empty.
StreamEnds(s) ==
    /\ alive /\ handler[s] = "loop"
    /\ s \in broken \/ (s \in closed /\ buffer[s] = <<>>)
    /\ Leave(s)
    /\ UNCHANGED <<alive, queues, casting, buffer, owner, wire, broken, process, dropped>>

(***************************************************************************)
(* The relay process and its CoreClient.                                   *)
(***************************************************************************)
\* main registers once; when that fails the relay serves clients but never subscribes.
StartRelay(r) ==
    /\ relay[r] = "down"
    /\ relay' = [relay EXCEPT ![r] = "up"]
    /\ UNCHANGED <<alive, queues, casting, server, wire, broken, current, heard, dropped>>

RegisterFailed(r) ==
    /\ relay[r] = "up"
    /\ relay' = [relay EXCEPT ![r] = "deaf"]
    /\ UNCHANGED <<alive, queues, casting, server, wire, broken, current, heard, dropped>>

\* stream.Recv; handleEvent logs the event.
ReceiveEvent(r) ==
    LET s == current[r]
    IN  /\ relay[r] = "listening" /\ wire[s] # <<>>
        /\ wire' = [wire EXCEPT ![s] = Tail(@)]
        /\ heard' = [heard EXCEPT ![s] = Append(@, Head(wire[s]).id)]
        /\ UNCHANGED <<alive, queues, casting, server, broken, relay, current, dropped>>

\* Recv fails: SubscribeToEvents returns and nothing calls it again.
StreamError(r) ==
    LET s == current[r]
    IN  /\ relay[r] = "listening"
        /\ ~alive \/ s \in broken \/ (handler[s] = "done" /\ wire[s] = <<>>)
        /\ relay' = [relay EXCEPT ![r] = "deaf"]
        /\ UNCHANGED <<alive, queues, casting, server, wire, broken, current, heard, dropped>>

\* A connection is lost (after MaxConnectionAge the server itself ends it).
LoseConnection(s) ==
    /\ handler[s] = "loop" /\ s \notin broken
    /\ broken' = broken \cup {s}
    /\ UNCHANGED <<alive, queues, casting, server, wire, process, dropped>>

\* The relay process ends; the server notices a broken connection later.
StopRelay(r) ==
    /\ relay[r] # "down"
    /\ relay' = [relay EXCEPT ![r] = "down"]
    /\ current' = [current EXCEPT ![r] = None]
    /\ broken' = broken \cup ({current[r]} \ {None})
    /\ UNCHANGED <<alive, queues, casting, server, wire, heard, dropped>>

(***************************************************************************)
(* The specification.                                                      *)
(***************************************************************************)
ServerStep ==
    \/ SubscribeToModerationEvents
    \/ FilterEvents
    \/ StartEventBroadcaster

EventsNext ==
    \/ \E t \in Type : PublishModerationEvent(t)
    \/ ServerStep
    \/ \E x \in casting : BroadcastAsync(x[1], x[2])
    \/ \E r \in Relay, s \in Stream : Subscribe(r, s)
    \/ \E s \in Stream : SendEvent(s) \/ StreamEnds(s) \/ LoseConnection(s)
    \/ \E r \in Relay : \/ StartRelay(r) \/ RegisterFailed(r) \/ ReceiveEvent(r)
                        \/ StreamError(r) \/ StopRelay(r)

EventsFairness ==
    /\ WF_eventVars(SubscribeToModerationEvents)
    /\ WF_eventVars(FilterEvents)
    /\ WF_eventVars(StartEventBroadcaster)
    /\ \A e \in Event, r \in Relay : WF_eventVars(BroadcastAsync(e, r))
    /\ \A s \in Stream : WF_eventVars(SendEvent(s) \/ StreamEnds(s))
    /\ \A r \in Relay : WF_eventVars(ReceiveEvent(r)) /\ WF_eventVars(StreamError(r))

EventsSpec == EventsInit /\ [][EventsNext]_eventVars /\ EventsFairness

(***************************************************************************)
(* Properties.                                                             *)
(***************************************************************************)
\* Every variable has its type, the bounds of the channels included.
EventsTypeOK ==
    /\ alive \in BOOLEAN
    /\ published \in 0..MaxEvents
    /\ pubsub \in Seq(Event) /\ eventChan \in Seq(Event) /\ filtered \in Seq(Event)
    /\ Len(eventChan) <= QueueSize /\ Len(filtered) <= QueueSize
    /\ casting \in SUBSET (Event \X Relay)
    /\ streams \in [Relay -> Stream \cup {None}]
    /\ buffer \in [Stream -> Seq(Event)]
    /\ \A s \in Stream : Len(buffer[s]) <= BufferSize
    /\ closed \in SUBSET Stream
    /\ owner \in [Stream -> Relay \cup {None}]
    /\ handler \in [Stream -> {"new", "loop", "done"}]
    /\ wire \in [Stream -> Seq(Event)]
    /\ broken \in SUBSET Stream
    /\ relay \in [Relay -> {"down", "up", "listening", "deaf"}]
    /\ current \in [Relay -> Stream \cup {None}]
    /\ heard \in [Stream -> Seq(1..MaxEvents)]
    /\ dropped \in SUBSET ((1..MaxEvents) \X Relay)

\* The core server survives every event: its broadcaster, a goroutine that nothing recovers,
\* passes each on to the streams (startEventBroadcaster).
CoreSurvives == alive

\* Every channel in the maps of the StreamManager is open, whatever subscriptions come,
\* end and replace each other: a goroutine of BroadcastAsync, which takes the channel
\* from there under the shard's read lock, never sends on one that Unregister closed.
RegisteredIsOpen == \A r \in Relay : streams[r] = None \/ streams[r] \notin closed

\* A relay process that reads its only stream over a working connection has its
\* channel in the StreamManager: only a second subscription of the same relay can
\* take it away.
OnlyStreamIsRegistered ==
    \A r \in Relay :
        /\ relay[r] = "listening" /\ current[r] \notin broken
        /\ \A s \in Stream : owner[s] = r => s = current[r]
        => streams[r] = current[r]

\* How often relay r has heard event e, on all its streams together.
TimesHeard(e, r) ==
    Cardinality({x \in Stream \X (1..MaxEvents) :
        owner[x[1]] = r /\ x[2] \in DOMAIN heard[x[1]] /\ heard[x[1]][x[2]] = e})

\* The streams, with their concurrent goroutines, closings and replacements, implement
\* a broadcast that may lose events: no relay hears an event twice, on one stream or
\* on two, and none hears an event that counts as dropped.
Broadcast == INSTANCE LossyBroadcast WITH
    Listener <- Relay, MaxSent <- MaxEvents, sent <- published, lost <- dropped,
    heardOf <- [r \in Relay |-> [e \in 1..MaxEvents |-> TimesHeard(e, r)]]

AtMostOnce == Broadcast!BroadcastSpec

\* On its way to relay r, up to the relay's channel.
Travels(e, r) ==
    \/ \E q \in {pubsub, eventChan, filtered} : \E i \in DOMAIN q : q[i].id = e
    \/ \E x \in casting : x[1].id = e /\ x[2] = r

\* Heard, dropped, or in a stream that is broken or that the relay no longer reads.
Arrived(e, r) ==
    \/ <<e, r>> \in dropped
    \/ \E s \in Stream :
          /\ owner[s] = r
          /\ \/ e \in Range(heard[s])
             \/ /\ s \in broken \/ current[r] # s
                /\ \E x \in Range(buffer[s]) \cup Range(wire[s]) : x.id = e

\* An event on its way is heard, or is dropped at a full channel, or ends in a stream
\* that is lost: no goroutine of the chain waits for ever, nothing disappears without
\* a reason, and a channel closed by another stream's Unregister is still emptied.
EventsArrive ==
    \A e \in 1..MaxEvents, r \in Relay :
        Travels(e, r) ~> (Arrived(e, r) \/ ~alive)
=============================================================================
