--------------------------- MODULE RelaySessions ---------------------------
(***************************************************************************)
(* The session table of one relay process and the handlers that share it:  *)
(* SessionManager (pkg/relay/session_manager.go) and the RelayService RPCs *)
(* of RelayServer (pkg/relay/server.go, transport.go).                     *)
(*                                                                         *)
(* One step is one operation on shared state: a sync.Map call, a channel   *)
(* operation, a locked counter update.  The goroutines that interleave are *)
(* the StreamMessages handlers, their sender goroutines, the ConnectToRelay*)
(* calls and the AddToBlacklist calls.  RegisterSession allocates exactly  *)
(* one Session per handler, so a handler also names its Session object.    *)
(***************************************************************************)
EXTENDS Integers, Sequences, FiniteSets

CONSTANTS Node,         \* node ids (at least 8 characters, none starts with '#')
          Channel,      \* pub/sub channel ids (start with '#')
          Stream,       \* StreamMessages calls
          Call,         \* ConnectToRelay calls
          Ban,          \* AddToBlacklist calls
          None,         \* a nil pointer, an absent map entry
          Capacity,     \* buffer of SendChan (100 in the code)
          MaxEnvelopes  \* bound: envelopes with a payload that the relay reads

ASSUME RelayAssumption ==
    /\ Node \cap Channel = {}
    /\ Stream \cap Call = {} /\ Stream \cap Ban = {} /\ Call \cap Ban = {}
    /\ None \notin Stream \cup Call \cup Node
    /\ Capacity \in Nat \ {0}
    /\ MaxEnvelopes \in Nat

Handler == Stream \cup Call
Proc == Handler \cup Ban
Target == Node \cup Channel

\* `via' is the stream the relay read the envelope from; the code keeps no such
\* field, the properties need it to speak of the real origin.
Envelope == [id : Nat, via : Stream, sender : Node, target : Target]

ASSUME NoneAssumption == None \notin Envelope

VARIABLES
    sessions,           \* sessions sync.Map: node id -> Session
    blacklist,          \* blacklist sync.Map
    channels,           \* channels sync.Map: channel id -> subscribed node ids
    activeConnections,
    messagesRelayed,
    closed,             \* Sessions whose SendChan has been closed
    buf,                \* contents of each SendChan
    out,                \* envelopes each sender goroutine handed to stream.Send
    node,               \* the node id a call works for (Session.NodeID)
    pc,                 \* where each call is
    sender,             \* the sender goroutine of each stream
    ctxDone,            \* streams whose context is done
    env,                \* the envelope a handler is forwarding
    held,               \* the *Session a handler got from GetSession
    start,              \* subscribers present when a broadcast's Range began
    seen,               \* subscribers the Range has visited
    count,              \* deliveries not yet added to messagesRelayed
    lastId,             \* envelopes read so far
    panic,              \* why the process died, or "none"
    racers              \* history: registrations past the blacklist check when
                        \* their node was blacklisted

table == <<sessions, blacklist, channels, closed>>
counters == <<activeConnections, messagesRelayed>>
locals == <<env, held, start, seen, count>>
vars == <<sessions, blacklist, channels, closed, activeConnections,
          messagesRelayed, buf, out, node, pc, sender, ctxDone, env, held,
          start, seen, count, lastId, panic, racers>>

PC == {"new", "check", "replace", "store", "count", "recv", "fwd", "lookup",
       "send", "sent", "range", "rsend", "unreg", "dec", "done"}

Init ==
    /\ sessions = [n \in Node |-> None]
    /\ blacklist = {}
    /\ channels = [c \in Channel |-> {}]
    /\ closed = {}
    /\ activeConnections = 0
    /\ messagesRelayed = 0
    /\ buf = [h \in Handler |-> <<>>]
    /\ out = [s \in Stream |-> <<>>]
    /\ node = [p \in Proc |-> None]
    /\ pc = [p \in Proc |-> "new"]
    /\ sender = [s \in Stream |-> "off"]
    /\ ctxDone = {}
    /\ env = [s \in Stream |-> None]
    /\ held = [s \in Stream |-> None]
    /\ start = [s \in Stream |-> {}]
    /\ seen = [s \in Stream |-> {}]
    /\ count = [s \in Stream |-> 0]
    /\ lastId = 0
    /\ panic = "none"
    /\ racers = [n \in Node |-> {}]

(***************************************************************************)
(* Helpers.  No interceptor recovers a panic in the relay, so the first    *)
(* one in any goroutine ends the process.                                  *)
(***************************************************************************)
Alive == panic = "none"

Goto(p, l) == pc' = [pc EXCEPT ![p] = l]

\* The handler (or the AddToBlacklist call) returns; gRPC then cancels the
\* context of a stream.
Return(p) == /\ Goto(p, "done")
             /\ ctxDone' = ctxDone \cup ({p} \cap Stream)

IsBlacklisted(n) == n \in blacklist

\* The Session a node has in the table, or None.
GetSession(n) == sessions[n]

NewEnvelope(s, n, t) == [id |-> lastId + 1, via |-> s, sender |-> n, target |-> t]

\* sessions.LoadAndDelete(n) and close of the SendChan it returned.  Only the
\* caller that got the entry closes it, and whoever uses the channel in between
\* loaded it before, so the two are one step.
TakeAndClose(n) ==
    LET x == sessions[n] IN
    /\ sessions' = [sessions EXCEPT ![n] = None]
    /\ closed' = IF x = None THEN closed ELSE closed \cup {x}
    /\ panic' = IF x \in closed THEN "closeOfClosed" ELSE panic

\* Faulty variant: the sender goroutine is never started.
EnterRecvLoopOnly(s) ==
    /\ Goto(s, "recv")
    /\ UNCHANGED sender
    /\ env' = [env EXCEPT ![s] = None]
    /\ held' = [held EXCEPT ![s] = None]

\* The stream goes (back) to its receive loop; the sender goroutine is started
\* before the first pass.
EnterRecvLoop(s) ==
    /\ Goto(s, "recv")
    /\ sender' = [sender EXCEPT ![s] = IF @ = "off" THEN "run" ELSE @]
    /\ env' = [env EXCEPT ![s] = None]
    /\ held' = [held EXCEPT ![s] = None]

(***************************************************************************)
(* Entry of the RPCs.                                                      *)
(***************************************************************************)
ConnectToRelay(k, n) ==
    /\ Alive /\ pc[k] = "new"
    /\ node' = [node EXCEPT ![k] = n]
    /\ Goto(k, "check")
    /\ UNCHANGED <<table, counters, locals, buf, out, sender, ctxDone, lastId,
                   panic, racers>>

\* StreamMessages reads its first command; without a payload it is the handshake
\* of RelayClient.Connect.
OpenStream(s, n) ==
    /\ Alive /\ pc[s] = "new"
    /\ node' = [node EXCEPT ![s] = n]
    /\ Goto(s, "check")
    /\ UNCHANGED <<table, counters, locals, buf, out, sender, ctxDone, lastId,
                   panic, racers>>

OpenStreamWithPayload(s, n, t) ==
    /\ Alive /\ pc[s] = "new" /\ lastId < MaxEnvelopes
    /\ node' = [node EXCEPT ![s] = n]
    /\ env' = [env EXCEPT ![s] = NewEnvelope(s, n, t)]
    /\ lastId' = lastId + 1
    /\ Goto(s, "check")
    /\ UNCHANGED <<table, counters, held, start, seen, count, buf, out, sender,
                   ctxDone, panic, racers>>

\* CommandToEnvelope answers nil, nil for every other command type, and the
\* handler reads SenderNodeId of that nil envelope.
OpenStreamOtherType(s) ==
    /\ Alive /\ pc[s] = "new"
    /\ panic' = "nilHandshake"
    /\ UNCHANGED <<table, counters, locals, buf, out, node, pc, sender, ctxDone,
                   lastId, racers>>

(***************************************************************************)
(* RegisterSession, run by a StreamMessages or ConnectToRelay handler h.   *)
(***************************************************************************)
RegisterCheck(h) ==
    /\ Alive /\ pc[h] = "check"
    /\ IF IsBlacklisted(node[h])
       THEN Return(h)
       ELSE Goto(h, "replace") /\ UNCHANGED ctxDone
    /\ UNCHANGED <<table, counters, locals, buf, out, node, sender, lastId,
                   panic, racers>>

\* Faulty variant: the old session is closed but stays in the table until Store.
RegisterReplaceNoDelete(h) ==
    /\ Alive /\ pc[h] = "replace"
    /\ LET x == sessions[node[h]] IN
       /\ closed' = IF x = None THEN closed ELSE closed \cup {x}
       /\ panic' = IF x \in closed THEN "closeOfClosed" ELSE panic
    /\ Goto(h, "store")
    /\ UNCHANGED <<sessions, blacklist, channels, counters, locals, buf, out, node,
                   sender, ctxDone, lastId, racers>>

RegisterReplace(h) ==
    /\ Alive /\ pc[h] = "replace"
    /\ TakeAndClose(node[h])
    /\ Goto(h, "store")
    /\ UNCHANGED <<blacklist, channels, counters, locals, buf, out, node, sender,
                   ctxDone, lastId, racers>>

RegisterStore(h) ==
    /\ Alive /\ pc[h] = "store"
    /\ sessions' = [sessions EXCEPT ![node[h]] = h]
    /\ Goto(h, "count")
    /\ UNCHANGED <<blacklist, channels, closed, counters, locals, buf, out, node,
                   sender, ctxDone, lastId, panic, racers>>

\* The locked increment, and the return from RegisterSession: a ConnectToRelay
\* call answers, a stream forwards a first envelope that has a payload.
RegisterCount(h) ==
    /\ Alive /\ pc[h] = "count"
    /\ activeConnections' = activeConnections + 1
    /\ \/ /\ h \in Call
          /\ Goto(h, "done")
          /\ UNCHANGED <<sender, env, held>>
       \/ /\ h \in Stream /\ env[h] = None
          /\ EnterRecvLoop(h)
       \/ /\ h \in Stream /\ env[h] # None
          /\ Goto(h, "fwd")
          /\ UNCHANGED <<sender, env, held>>
    /\ UNCHANGED <<table, messagesRelayed, start, seen, count, buf, out, node,
                   ctxDone, lastId, panic, racers>>

(***************************************************************************)
(* UnregisterSession(node[p]): the deferred call of a stream, or the last  *)
(* part of AddToBlacklist.  It removes whatever session the node has.      *)
(***************************************************************************)
\* Faulty variant: the counter is decremented even when no session was loaded.
UnregisterTakeAlwaysCounts(p) ==
    /\ Alive /\ pc[p] = "unreg"
    /\ TakeAndClose(node[p])
    /\ Goto(p, "dec")
    /\ UNCHANGED <<blacklist, channels, counters, locals, buf, out, node, sender,
                   ctxDone, lastId, racers>>

UnregisterTake(p) ==
    /\ Alive /\ pc[p] = "unreg"
    /\ TakeAndClose(node[p])
    /\ IF sessions[node[p]] = None
       THEN Return(p)
       ELSE Goto(p, "dec") /\ UNCHANGED ctxDone
    /\ UNCHANGED <<blacklist, channels, counters, locals, buf, out, node, sender,
                   lastId, racers>>

UnregisterCount(p) ==
    /\ Alive /\ pc[p] = "dec"
    /\ activeConnections' = activeConnections - 1
    /\ Return(p)
    /\ UNCHANGED <<table, messagesRelayed, locals, buf, out, node, sender, lastId,
                   panic, racers>>

\* Faulty variant: a node already connected is not disconnected.
AddToBlacklistOnly(b, n) ==
    /\ Alive /\ pc[b] = "new"
    /\ blacklist' = blacklist \cup {n}
    /\ node' = [node EXCEPT ![b] = n]
    /\ Goto(b, "done")
    /\ racers' = [racers EXCEPT ![n] =
          {h \in Handler : node[h] = n /\ pc[h] \in {"replace", "store"}}]
    /\ UNCHANGED <<sessions, channels, closed, counters, locals, buf, out, sender,
                   ctxDone, lastId, panic>>

AddToBlacklist(b, n) ==
    /\ Alive /\ pc[b] = "new"
    /\ blacklist' = blacklist \cup {n}
    /\ node' = [node EXCEPT ![b] = n]
    /\ Goto(b, "unreg")
    /\ racers' = [racers EXCEPT ![n] =
          {h \in Handler : node[h] = n /\ pc[h] \in {"replace", "store"}}]
    /\ UNCHANGED <<sessions, channels, closed, counters, locals, buf, out, sender,
                   ctxDone, lastId, panic>>

RemoveFromBlacklist(n) ==
    /\ Alive /\ n \in blacklist
    /\ blacklist' = blacklist \ {n}
    /\ racers' = [racers EXCEPT ![n] = {}]
    /\ UNCHANGED <<sessions, channels, closed, counters, locals, buf, out, node,
                   pc, sender, ctxDone, lastId, panic>>

(***************************************************************************)
(* The receive loop of StreamMessages.  Recv may still answer a command    *)
(* that arrived before the context was done.                               *)
(***************************************************************************)
\* Faulty variant: the sender named in the envelope is not compared.
RecvEnvelopeAnySender(s, n, t) ==
    /\ Alive /\ pc[s] = "recv" /\ lastId < MaxEnvelopes
    /\ env' = [env EXCEPT ![s] = NewEnvelope(s, n, t)]
    /\ lastId' = lastId + 1
    /\ Goto(s, "fwd")
    /\ UNCHANGED <<table, counters, held, start, seen, count, buf, out, node,
                   sender, ctxDone, panic, racers>>

\* An envelope that names another sender than the stream's node is skipped.
RecvEnvelope(s, n, t) ==
    /\ Alive /\ pc[s] = "recv" /\ lastId < MaxEnvelopes
    /\ n = node[s]
    /\ env' = [env EXCEPT ![s] = NewEnvelope(s, n, t)]
    /\ lastId' = lastId + 1
    /\ Goto(s, "fwd")
    /\ UNCHANGED <<table, counters, held, start, seen, count, buf, out, node,
                   sender, ctxDone, panic, racers>>

SubscribeToChannel(n, c) == channels' = [channels EXCEPT ![c] = @ \cup {n}]
UnsubscribeFromChannel(n, c) == channels' = [channels EXCEPT ![c] = @ \ {n}]

\* handleRelayCommand, for an envelope addressed to the relay itself.
Subscribe(s, c) ==
    /\ Alive /\ pc[s] = "recv"
    /\ SubscribeToChannel(node[s], c)
    /\ UNCHANGED <<sessions, blacklist, closed, counters, locals, buf, out, node,
                   pc, sender, ctxDone, lastId, panic, racers>>

Unsubscribe(s, c) ==
    /\ Alive /\ pc[s] = "recv"
    /\ UnsubscribeFromChannel(node[s], c)
    /\ UNCHANGED <<sessions, blacklist, closed, counters, locals, buf, out, node,
                   pc, sender, ctxDone, lastId, panic, racers>>

\* Recv answers io.EOF: the client closed its side.  The context is not done.
RecvEOF(s) ==
    /\ Alive /\ pc[s] = "recv"
    /\ Goto(s, "unreg")
    /\ UNCHANGED <<table, counters, locals, buf, out, node, sender, ctxDone,
                   lastId, panic, racers>>

\* Faulty variants: the error return skips the deferred UnregisterSession; the
\* error is answered by another pass of the loop.
RecvErrNoDefer(s) ==
    /\ Alive /\ pc[s] = "recv" /\ s \in ctxDone
    /\ Goto(s, "done")
    /\ UNCHANGED <<table, counters, locals, buf, out, node, sender, ctxDone,
                   lastId, panic, racers>>

RecvErrContinue(s) ==
    /\ Alive /\ pc[s] = "recv" /\ s \in ctxDone
    /\ UNCHANGED vars

\* Recv answers the error of a context that is done.
RecvErr(s) ==
    /\ Alive /\ pc[s] = "recv" /\ s \in ctxDone
    /\ Goto(s, "unreg")
    /\ UNCHANGED <<table, counters, locals, buf, out, node, sender, ctxDone,
                   lastId, panic, racers>>

\* The client is gone, or a keepalive limit expired: gRPC cancels the context.
CancelStream(s) ==
    /\ Alive /\ pc[s] \notin {"new", "done"} /\ s \notin ctxDone
    /\ ctxDone' = ctxDone \cup {s}
    /\ UNCHANGED <<table, counters, locals, buf, out, node, pc, sender, lastId,
                   panic, racers>>

(***************************************************************************)
(* ForwardEnvelope and broadcastEnvelope, run by a stream.                 *)
(***************************************************************************)
\* The blacklist check; for a channel also the start of the Range over its
\* subscribers.
ForwardCheck(s) ==
    /\ Alive /\ pc[s] = "fwd"
    /\ \/ /\ IsBlacklisted(env[s].sender)
          /\ EnterRecvLoop(s)
          /\ UNCHANGED <<start, seen>>
       \/ /\ ~IsBlacklisted(env[s].sender) /\ env[s].target \in Node
          /\ Goto(s, "lookup")
          /\ UNCHANGED <<sender, env, held, start, seen>>
       \/ /\ ~IsBlacklisted(env[s].sender) /\ env[s].target \in Channel
          /\ Goto(s, "range")
          /\ start' = [start EXCEPT ![s] = channels[env[s].target]]
          /\ seen' = [seen EXCEPT ![s] = {}]
          /\ UNCHANGED <<sender, env, held>>
    /\ UNCHANGED <<table, counters, count, buf, out, node, ctxDone, lastId, panic,
                   racers>>

\* GetSession of the target: none is ErrTargetNotConnected.
DirectLookup(s) ==
    /\ Alive /\ pc[s] = "lookup"
    /\ LET x == GetSession(env[s].target) IN
       \/ /\ x = None
          /\ EnterRecvLoop(s)
       \/ /\ x # None
          /\ held' = [held EXCEPT ![s] = x]
          /\ Goto(s, "send")
          /\ UNCHANGED <<sender, env>>
    /\ UNCHANGED <<table, counters, start, seen, count, buf, out, node, ctxDone,
                   lastId, panic, racers>>

\* Faulty variant: the buffer is taken to be full one envelope too late.
OffersOneMore(s) == held[s] \notin closed /\ Len(buf[held[s]]) <= Capacity

\* The non-blocking send of env[s] on the SendChan of held[s].  A send on a closed
\* channel panics even inside a select that has a default.
Offers(s) == held[s] \notin closed /\ Len(buf[held[s]]) < Capacity
Drops(s) == held[s] \notin closed /\ Len(buf[held[s]]) >= Capacity
Enqueue(s) == buf' = [buf EXCEPT ![held[s]] = Append(@, env[s])]

\* The envelope is in the SendChan; the counter is still to be locked.
LeaveSent(s) ==
    /\ count' = [count EXCEPT ![s] = @ + 1]
    /\ Goto(s, "sent")
    /\ env' = [env EXCEPT ![s] = None]
    /\ held' = [held EXCEPT ![s] = None]
    /\ UNCHANGED sender

\* Faulty variant: a session that does not keep up is unregistered.
DirectSendEvicts(s) ==
    /\ Alive /\ pc[s] = "send" /\ held[s] \notin closed
    /\ IF Offers(s)
       THEN /\ Enqueue(s)
            /\ LeaveSent(s)
            /\ UNCHANGED <<sessions, closed, panic>>
       ELSE /\ TakeAndClose(env[s].target)
            /\ EnterRecvLoop(s)
            /\ UNCHANGED <<buf, count>>
    /\ UNCHANGED <<blacklist, channels, counters, start, seen, out, node, ctxDone,
                   lastId, racers>>

\* The select of sendToSession; a full buffer is ErrBufferFull.
DirectSend(s) ==
    /\ Alive /\ pc[s] = "send"
    /\ \/ /\ held[s] \in closed
          /\ panic' = "sendOnClosed"
          /\ UNCHANGED <<buf, count, pc, sender, env, held>>
       \/ /\ Offers(s)
          /\ Enqueue(s)
          /\ LeaveSent(s)
          /\ UNCHANGED panic
       \/ /\ Drops(s)
          /\ EnterRecvLoop(s)
          /\ UNCHANGED <<buf, count, panic>>
    /\ UNCHANGED <<table, counters, start, seen, out, node, ctxDone, lastId, racers>>

\* The locked messagesRelayed++ of sendToSession.
DirectCount(s) ==
    /\ Alive /\ pc[s] = "sent"
    /\ messagesRelayed' = messagesRelayed + count[s]
    /\ count' = [count EXCEPT ![s] = 0]
    /\ EnterRecvLoop(s)
    /\ UNCHANGED <<table, activeConnections, start, seen, buf, out, node, ctxDone,
                   lastId, panic, racers>>

\* Faulty variants: no echo suppression; a key may be visited again.
BroadcastVisitEcho(s, n) ==
    /\ Alive /\ pc[s] = "range"
    /\ n \in (start[s] \cup channels[env[s].target]) \ seen[s]
    /\ seen' = [seen EXCEPT ![s] = @ \cup {n}]
    /\ sessions[n] # None
    /\ held' = [held EXCEPT ![s] = sessions[n]]
    /\ Goto(s, "rsend")
    /\ UNCHANGED <<table, counters, env, start, count, buf, out, node, sender,
                   ctxDone, lastId, panic, racers>>

BroadcastVisitAgain(s, n) ==
    /\ Alive /\ pc[s] = "range"
    /\ n \in start[s] \cup channels[env[s].target]
    /\ n # env[s].sender /\ sessions[n] # None
    /\ held' = [held EXCEPT ![s] = sessions[n]]
    /\ Goto(s, "rsend")
    /\ UNCHANGED <<table, counters, env, start, seen, count, buf, out, node, sender,
                   ctxDone, lastId, panic, racers>>

\* One key of the Range.  sync.Map lets a Range see or miss what is stored or
\* deleted while it runs, and visits no key twice.  The sender is skipped.
BroadcastVisit(s, n) ==
    /\ Alive /\ pc[s] = "range"
    /\ n \in (start[s] \cup channels[env[s].target]) \ seen[s]
    /\ seen' = [seen EXCEPT ![s] = @ \cup {n}]
    /\ \/ /\ n = env[s].sender \/ GetSession(n) = None
          /\ UNCHANGED <<pc, held>>
       \/ /\ n # env[s].sender /\ GetSession(n) # None
          /\ held' = [held EXCEPT ![s] = GetSession(n)]
          /\ Goto(s, "rsend")
    /\ UNCHANGED <<table, counters, env, start, count, buf, out, node, sender,
                   ctxDone, lastId, panic, racers>>

\* Faulty variant: a dropped envelope is counted as delivered.
BroadcastSendCountsDrops(s) ==
    /\ Alive /\ pc[s] = "rsend" /\ held[s] \notin closed
    /\ IF Offers(s) THEN Enqueue(s) ELSE UNCHANGED buf
    /\ count' = [count EXCEPT ![s] = @ + 1]
    /\ Goto(s, "range")
    /\ UNCHANGED <<table, counters, env, held, start, seen, out, node, sender,
                   ctxDone, lastId, panic, racers>>

BroadcastSend(s) ==
    /\ Alive /\ pc[s] = "rsend"
    /\ \/ /\ held[s] \in closed
          /\ panic' = "sendOnClosed"
          /\ UNCHANGED <<buf, count, pc>>
       \/ /\ Offers(s)
          /\ Enqueue(s)
          /\ count' = [count EXCEPT ![s] = @ + 1]
          /\ Goto(s, "range")
          /\ UNCHANGED panic
       \/ /\ Drops(s)
          /\ Goto(s, "range")
          /\ UNCHANGED <<buf, count, panic>>
    /\ UNCHANGED <<table, counters, env, held, start, seen, out, node, sender,
                   ctxDone, lastId, racers>>

\* Every subscriber that was there all along has been visited.
BroadcastEnd(s) ==
    /\ Alive /\ pc[s] = "range"
    /\ start[s] \cap channels[env[s].target] \subseteq seen[s]
    /\ messagesRelayed' = messagesRelayed + count[s]
    /\ count' = [count EXCEPT ![s] = 0]
    /\ start' = [start EXCEPT ![s] = {}]
    /\ seen' = [seen EXCEPT ![s] = {}]
    /\ EnterRecvLoop(s)
    /\ UNCHANGED <<table, activeConnections, buf, out, node, ctxDone, lastId,
                   panic, racers>>

(***************************************************************************)
(* The sender goroutine of a stream: one select over the context and the   *)
(* SendChan of the stream's own Session.                                   *)
(***************************************************************************)
\* Send answers an error once the context is done, and the goroutine ends.
SenderDeliver(s) ==
    /\ Alive /\ sender[s] = "run" /\ buf[s] # <<>>
    /\ out' = [out EXCEPT ![s] = Append(@, Head(buf[s]))]
    /\ buf' = [buf EXCEPT ![s] = Tail(@)]
    /\ sender' = [sender EXCEPT ![s] = IF s \in ctxDone THEN "exit" ELSE @]
    /\ UNCHANGED <<table, counters, locals, node, pc, ctxDone, lastId, panic,
                   racers>>

SenderCtxDone(s) ==
    /\ Alive /\ sender[s] = "run" /\ s \in ctxDone
    /\ sender' = [sender EXCEPT ![s] = "exit"]
    /\ UNCHANGED <<table, counters, locals, buf, out, node, pc, ctxDone, lastId,
                   panic, racers>>

\* A drained closed channel yields nil, and EnvelopeToCommand reads its MessageId.
SenderNil(s) ==
    /\ Alive /\ sender[s] = "run" /\ s \in closed /\ buf[s] = <<>>
    /\ panic' = "nilEnvelope"
    /\ UNCHANGED <<table, counters, locals, buf, out, node, pc, sender, ctxDone,
                   lastId, racers>>

(***************************************************************************)
(* The specification.  Clients and operators may stop at any time; the     *)
(* relay's own goroutines are scheduled fairly.  Only stream.Send is not:  *)
(* flow control blocks it for as long as the client does not read, until   *)
(* the context is done.                                                    *)
(***************************************************************************)
Stopped ==
    /\ \/ ~Alive
       \/ /\ \A p \in Proc : pc[p] = "done"
          /\ \A s \in Stream : sender[s] # "run"
    /\ UNCHANGED vars

ClientStep(s) ==
    \/ \E n \in Node : OpenStream(s, n)
    \/ \E n \in Node, t \in Target : OpenStreamWithPayload(s, n, t)
    \/ OpenStreamOtherType(s)
    \/ \E n \in Node, t \in Target : RecvEnvelope(s, n, t)
    \/ \E c \in Channel : Subscribe(s, c)
    \/ \E c \in Channel : Unsubscribe(s, c)
    \/ RecvEOF(s)
    \/ CancelStream(s)

RegisterStep(h) ==
    \/ RegisterCheck(h)
    \/ RegisterReplace(h)
    \/ RegisterStore(h)
    \/ RegisterCount(h)

UnregisterStep(p) == UnregisterTake(p) \/ UnregisterCount(p)

ForwardStep(s) ==
    \/ ForwardCheck(s)
    \/ DirectLookup(s)
    \/ DirectSend(s)
    \/ DirectCount(s)
    \/ \E n \in Node : BroadcastVisit(s, n)
    \/ BroadcastSend(s)
    \/ BroadcastEnd(s)

SenderStep(s) == SenderDeliver(s) \/ SenderCtxDone(s) \/ SenderNil(s)

Next ==
    \/ \E s \in Stream : ClientStep(s)
    \/ \E k \in Call, n \in Node : ConnectToRelay(k, n)
    \/ \E b \in Ban, n \in Node : AddToBlacklist(b, n)
    \/ \E n \in Node : RemoveFromBlacklist(n)
    \/ \E h \in Handler : RegisterStep(h)
    \/ \E p \in Stream \cup Ban : UnregisterStep(p)
    \/ \E s \in Stream : ForwardStep(s)
    \/ \E s \in Stream : RecvErr(s)
    \/ \E s \in Stream : SenderStep(s)
    \/ Stopped

Fairness ==
    /\ \A h \in Handler : WF_vars(RegisterStep(h))
    /\ \A p \in Stream \cup Ban : WF_vars(UnregisterStep(p))
    /\ \A s \in Stream : WF_vars(ForwardStep(s)) /\ WF_vars(RecvErr(s))
    /\ \A s \in Stream : WF_vars(SenderCtxDone(s))

Spec == Init /\ [][Next]_vars
FairSpec == Spec /\ Fairness
(***************************************************************************)
(* Properties.                                                             *)
(***************************************************************************)
\* Every variable has its type; a SendChan never holds more than its buffer.
TypeOK ==
    /\ sessions \in [Node -> Handler \cup {None}]
    /\ blacklist \in SUBSET Node
    /\ channels \in [Channel -> SUBSET Node]
    /\ closed \in SUBSET Handler
    /\ activeConnections \in Int
    /\ messagesRelayed \in Nat
    /\ buf \in [Handler -> Seq(Envelope)]
    /\ \A h \in Handler : Len(buf[h]) <= Capacity
    /\ out \in [Stream -> Seq(Envelope)]
    /\ node \in [Proc -> Node \cup {None}]
    /\ pc \in [Proc -> PC]
    /\ sender \in [Stream -> {"off", "run", "exit"}]
    /\ ctxDone \in SUBSET Stream
    /\ env \in [Stream -> Envelope \cup {None}]
    /\ held \in [Stream -> Handler \cup {None}]
    /\ start \in [Stream -> SUBSET Node]
    /\ seen \in [Stream -> SUBSET Node]
    /\ count \in [Stream -> Nat]
    /\ lastId \in Nat
    /\ panic \in {"none", "nilHandshake", "nilEnvelope", "sendOnClosed",
                  "closeOfClosed"}
    /\ racers \in [Node -> SUBSET Handler]

\* No SendChan is closed twice.  RegisterSession, the deferred UnregisterSession of
\* a stream and AddToBlacklist may all close the session of one node at the same
\* time; only the atomicity of LoadAndDelete keeps close() from panicking.
NoDoubleClose == panic # "closeOfClosed"

\* What has reached the SendChan of h, in order: sent already, then still buffered.
Traffic(h) == (IF h \in Stream THEN out[h] ELSE <<>>) \o buf[h]

\* An envelope that reached any session carries the node id its stream was opened
\* with (the check in the receive loop), whichever way it was forwarded and however
\* many sessions that node has had meanwhile.
SenderAuthentic ==
    \A h \in Handler : \A i \in 1..Len(Traffic(h)) :
        Traffic(h)[i].sender = node[Traffic(h)[i].via]

\* A session receives only what is addressed to its node, or a channel broadcast
\* of another node: a session pointer taken from the table and used later still
\* belongs to the addressee, and no broadcast echoes to a session of its sender.
RoutedToAddressee ==
    \A h \in Handler : \A i \in 1..Len(Traffic(h)) :
        LET e == Traffic(h)[i] IN
        \/ e.target = node[h]
        \/ e.target \in Channel /\ e.sender # node[h]

\* One session gets the envelopes of one stream in the order the relay read them,
\* none of them twice, while broadcasts, direct sends and drops interleave.
InOrderOnce ==
    \A h \in Handler : \A i, j \in 1..Len(Traffic(h)) :
        i < j /\ Traffic(h)[i].via = Traffic(h)[j].via
            => Traffic(h)[i].id < Traffic(h)[j].id

\* The table holds no session of a stream that has ended: the deferred
\* UnregisterSession works by node id, yet it leaves no dead session behind.
NoDeadSession ==
    \A n \in Node : sessions[n] \in Stream =>
        /\ node[sessions[n]] = n
        /\ pc[sessions[n]] \notin
              {"new", "check", "replace", "store", "dec", "done"}

\* A stream loses its session only to another call for its own node: while there is
\* none, no traffic, full buffer, subscription, ban or end of another stream takes it
\* out of the table or closes its SendChan.
SoleStreamHasSession ==
    \A s \in Stream :
        /\ pc[s] \notin {"new", "check", "replace", "store", "dec", "done"}
        /\ \A p \in Proc \ {s} : node[p] # node[s]
        => sessions[node[s]] = s /\ s \notin closed

\* Once AddToBlacklist has returned, a node that stays blacklisted is connected only
\* through a registration that had passed the blacklist check before the ban.
BannedOnlyByRace ==
    \A n \in blacklist :
        (\A b \in Ban : ~(node[b] = n /\ pc[b] = "unreg"))
            => sessions[n] \in racers[n] \cup {None}

\* activeConnections never counts less than the sessions in the table, the updates
\* still under way included.  It may count more: a replaced session is not
\* subtracted.
NeverUndercounts ==
    Cardinality({n \in Node : sessions[n] # None})
        <= activeConnections
           + Cardinality({h \in Handler : pc[h] = "count"})
           - Cardinality({p \in Proc : pc[p] = "dec"})

\* The relay, with its session table, its *Session pointers used after they were looked
\* up, its buffers and its non-atomic Range, implements RelayMail: a direct envelope
\* reaches one session at most, a broadcast one session of every other node at most,
\* even while that node reconnects and its sessions replace each other.
Mail == INSTANCE RelayMail WITH
    Source <- Stream, Session <- Handler, hand <- env, last <- lastId,
    owner <- [h \in Handler |-> node[h]],
    mail <- [h \in Handler |-> Traffic(h)]

OncePerNode == Mail!MailSpec

\* The places in the traffic of all sessions; the deliveries that are not in
\* messagesRelayed yet, one place each.
Delivered == UNION {{h} \X (1..Len(Traffic(h))) : h \in Handler}
Uncounted == UNION {{s} \X (1..count[s]) : s \in Stream}

\* messagesRelayed is the number of envelopes that entered a SendChan, but for those
\* whose handler has yet to lock the counter: a direct send between its select and
\* messagesRelayed++, a broadcast before its Range ends.
RelayedMatchesTraffic ==
    Cardinality(Delivered) = messagesRelayed + Cardinality(Uncounted)

\* A buffered envelope of a stream whose client keeps reading (its stream.Send calls
\* return) is handed to that client, unless the stream's context ends or the relay
\* dies: no step of another stream, and no replacement of the session, loses it.
BufferedIsSent ==
    \A s \in Stream, k \in 1..MaxEnvelopes :
        WF_vars(SenderDeliver(s)) =>
            ((\E i \in 1..Len(buf[s]) : buf[s][i].id = k)
                ~> \/ \E i \in 1..Len(out[s]) : out[s][i].id = k
                   \/ s \in ctxDone
                   \/ ~Alive)

\* When the client of a stream is gone, its handler ends, its sender goroutine ends
\* and its session leaves the table, unless the relay dies first.
StreamReleased ==
    \A s \in Stream :
        s \in ctxDone ~> \/ /\ pc[s] = "done" /\ sender[s] # "run"
                            /\ \A n \in Node : sessions[n] # s
                         \/ ~Alive

\* A node with a stream in the receive loop has a session, when no call for that
\* node is under way: the handshake registers it (docs/dev.md:612).
StreamHasSession ==
    \A s \in Stream :
        /\ Alive /\ pc[s] = "recv"
        /\ \A p \in Proc : node[p] = node[s] => pc[p] \in {"recv", "done"}
        => sessions[node[s]] # None

\* The end of a stream does not take the relay down: a sender goroutine never
\* reads a nil envelope from the SendChan of a stream that was opened with a
\* handshake (README.md:3, "alta disponibilidade").
DisconnectIsSafe == panic # "nilEnvelope"
============================================================================
