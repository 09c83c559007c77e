------------------------- MODULE RelaySessionsProofs -------------------------
(***************************************************************************)
(* Proofs about RelaySessions for every set of nodes, channels and calls,  *)
(* every buffer size and every number of envelopes.                        *)
(***************************************************************************)
EXTENDS RelaySessions, FiniteSetTheorems, SequenceTheorems, TLAPS

\* The lookups and the subscription updates are abbreviations.
USE DEF IsBlacklisted, GetSession, SubscribeToChannel, UnsubscribeFromChannel

\* A handler that has not stored its Session yet; a stream inside ForwardEnvelope.
Unstored == {"new", "check", "replace", "store"}
Forwarding == {"fwd", "lookup", "send", "range", "rsend"}

\* A session in the table is open, under the id of its own node, and belongs to a
\* handler that is past Store and, if it is a stream, not past its Unregister.
TableInv ==
    \A n \in Node : sessions[n] # None =>
        /\ node[sessions[n]] = n
        /\ pc[sessions[n]] \notin Unstored
        /\ sessions[n] \notin closed
        /\ sessions[n] \in Stream => pc[sessions[n]] \notin {"dec", "done"}

\* Only a Session that was stored is ever closed.
ClosedInv == \A h \in closed : pc[h] \notin Unstored

\* A call that has begun works for one node.
NodeInv == \A p \in Proc : pc[p] # "new" => node[p] \in Node

\* What a stream holds while it forwards: its own envelope, and a Session that was
\* in the table under the id the envelope is meant for.
ForwardOK(s) ==
    /\ env[s] # None =>
          env[s].via = s /\ env[s].sender = node[s] /\ pc[s] # "new"
    /\ pc[s] \in Forwarding => env[s] # None
    /\ pc[s] \in {"lookup", "send"} => env[s].target \in Node
    /\ pc[s] \in {"range", "rsend"} => env[s].target \in Channel
    /\ pc[s] \in {"send", "rsend"} =>
          held[s] # None /\ pc[held[s]] \notin Unstored
    /\ pc[s] = "send" => node[held[s]] = env[s].target
    /\ pc[s] = "rsend" => node[held[s]] # env[s].sender

ForwardInv == \A s \in Stream : ForwardOK(s)

Inv == TypeOK /\ TableInv /\ ClosedInv /\ NodeInv /\ ForwardInv

\* What no step undoes: a call's node once it has begun, a Session once stored.
Stable ==
    /\ \A p \in Proc : pc[p] # "new" => node'[p] = node[p] /\ pc'[p] # "new"
    /\ \A h \in Handler : pc[h] \notin Unstored => pc'[h] \notin Unstored

-----------------------------------------------------------------------------
\* Types of what the helpers assign.
LEMMA NewEnvelopeType ==
    ASSUME TypeOK, NEW s \in Stream, NEW n \in Node, NEW t \in Target
    PROVE  NewEnvelope(s, n, t) \in Envelope
BY DEF TypeOK, NewEnvelope, Envelope

LEMMA TakeAndCloseType ==
    ASSUME TypeOK, NEW n \in Node, TakeAndClose(n)
    PROVE  /\ sessions' \in [Node -> Handler \cup {None}]
           /\ closed' \in SUBSET Handler
           /\ panic' \in {"none", "nilHandshake", "nilEnvelope", "sendOnClosed",
                         "closeOfClosed"}
BY DEF TypeOK, TakeAndClose

LEMMA EnterRecvLoopType ==
    ASSUME TypeOK, NEW s \in Stream, EnterRecvLoop(s) \/ LeaveSent(s)
    PROVE  /\ pc' \in [Proc -> PC]
           /\ sender' \in [Stream -> {"off", "run", "exit"}]
           /\ env' \in [Stream -> Envelope \cup {None}]
           /\ held' \in [Stream -> Handler \cup {None}]
BY DEF TypeOK, EnterRecvLoop, LeaveSent, Goto, Proc, Handler, PC

LEMMA ReturnType ==
    ASSUME TypeOK, NEW p \in Proc, Return(p)
    PROVE  pc' \in [Proc -> PC] /\ ctxDone' \in SUBSET Stream
BY DEF TypeOK, Return, Goto, PC

LEMMA EnqueueType ==
    ASSUME TypeOK, NEW s \in Stream, env[s] \in Envelope, held[s] \in Handler,
           Offers(s), Enqueue(s)
    PROVE  /\ buf' \in [Handler -> Seq(Envelope)]
           /\ \A h \in Handler : Len(buf'[h]) <= Capacity
<1>1. buf[held[s]] \in Seq(Envelope) /\ Len(buf[held[s]]) < Capacity
  BY DEF TypeOK, Offers
<1>2. /\ Append(buf[held[s]], env[s]) \in Seq(Envelope)
      /\ Len(Append(buf[held[s]], env[s])) = Len(buf[held[s]]) + 1
  BY <1>1
<1>3. Len(buf[held[s]]) \in Nat
  BY <1>1
<1>4. buf' = [buf EXCEPT ![held[s]] = Append(buf[held[s]], env[s])]
  BY DEF Enqueue
<1>5. \A h \in Handler : buf'[h] = IF h = held[s]
                                   THEN Append(buf[held[s]], env[s]) ELSE buf[h]
  BY <1>4 DEF TypeOK
<1>6. \A h \in Handler : Len(buf'[h]) <= Capacity
  <2> TAKE h \in Handler
  <2>1. CASE h = held[s]
    <3>1. Len(buf'[h]) = Len(buf[held[s]]) + 1
      BY <2>1, <1>2, <1>5
    <3>2. QED
      BY <3>1, <1>1, <1>3, RelayAssumption
  <2>2. CASE h # held[s]
    BY <2>2, <1>5 DEF TypeOK
  <2>3. QED
    BY <2>1, <2>2
<1>7. QED
  BY <1>2, <1>4, <1>6 DEF TypeOK

\* What the invariant says of a stream that forwards.
LEMMA ForwardingTypes ==
    ASSUME Inv, NEW s \in Stream, pc[s] \in Forwarding
    PROVE  /\ env[s] \in Envelope /\ env[s].target \in Target
           /\ pc[s] = "lookup" => env[s].target \in Node
           /\ pc[s] \in {"send", "rsend"} => held[s] \in Handler
           /\ pc[s] \in {"range", "rsend"} => env[s].target \in Channel
BY DEF Inv, TypeOK, ForwardInv, ForwardOK, Forwarding, Envelope

\* Every step keeps the types.
LEMMA TypeStep == Inv /\ [Next]_vars => TypeOK'
<1> SUFFICES ASSUME Inv, [Next]_vars PROVE TypeOK'
  OBVIOUS
<1> USE DEF Inv, TypeOK
<1>1. ASSUME NEW s \in Stream, NEW n \in Node, OpenStream(s, n)
      PROVE  TypeOK'
  BY <1>1 DEF OpenStream, Goto, Proc, Handler, PC, table, counters, locals
<1>2. ASSUME NEW s \in Stream, NEW n \in Node, NEW t \in Target,
             OpenStreamWithPayload(s, n, t)
      PROVE  TypeOK'
  BY <1>2, NewEnvelopeType
  DEF OpenStreamWithPayload, Goto, Proc, Handler, PC, table, counters
<1>3. ASSUME NEW s \in Stream, OpenStreamOtherType(s)
      PROVE  TypeOK'
  BY <1>3 DEF OpenStreamOtherType, table, counters, locals
<1>4. ASSUME NEW s \in Stream, NEW n \in Node, NEW t \in Target,
             RecvEnvelope(s, n, t)
      PROVE  TypeOK'
  BY <1>4, NewEnvelopeType
  DEF RecvEnvelope, Goto, Proc, Handler, PC, table, counters
<1>5. ASSUME NEW s \in Stream, NEW c \in Channel, Subscribe(s, c)
      PROVE  TypeOK'
  <2>1. node[s] \in Node
    BY <1>5 DEF NodeInv, Subscribe, Proc, Handler
  <2>2. QED
    BY <1>5, <2>1 DEF Subscribe, counters, locals
<1>6. ASSUME NEW s \in Stream, NEW c \in Channel, Unsubscribe(s, c)
      PROVE  TypeOK'
  BY <1>6 DEF Unsubscribe, counters, locals
<1>7. ASSUME NEW s \in Stream, RecvEOF(s)
      PROVE  TypeOK'
  BY <1>7 DEF RecvEOF, Goto, Proc, Handler, PC, table, counters, locals
<1>8. ASSUME NEW s \in Stream, CancelStream(s)
      PROVE  TypeOK'
  BY <1>8 DEF CancelStream, table, counters, locals
<1>9. ASSUME NEW k \in Call, NEW n \in Node, ConnectToRelay(k, n)
      PROVE  TypeOK'
  BY <1>9 DEF ConnectToRelay, Goto, Proc, Handler, PC, table, counters, locals
<1>10. ASSUME NEW b \in Ban, NEW n \in Node, AddToBlacklist(b, n)
      PROVE  TypeOK'
  BY <1>10 DEF AddToBlacklist, Goto, Proc, Handler, PC, counters, locals
<1>11. ASSUME NEW n \in Node, RemoveFromBlacklist(n)
      PROVE  TypeOK'
  BY <1>11 DEF RemoveFromBlacklist, counters, locals
<1>12. ASSUME NEW h \in Handler, RegisterCheck(h)
      PROVE  TypeOK'
  <2>1. h \in Proc
    BY DEF Proc
  <2>2. pc' \in [Proc -> PC] /\ ctxDone' \in SUBSET Stream
    BY <1>12, <2>1, ReturnType DEF RegisterCheck, Goto, PC
  <2>3. QED
    BY <1>12, <2>2 DEF RegisterCheck, table, counters, locals
<1>13. ASSUME NEW h \in Handler, RegisterReplace(h)
      PROVE  TypeOK'
  <2>1. node[h] \in Node
    BY <1>13 DEF NodeInv, RegisterReplace, Proc
  <2>2. QED
    BY <1>13, <2>1, TakeAndCloseType
    DEF RegisterReplace, Goto, Proc, PC, counters, locals
<1>14. ASSUME NEW h \in Handler, RegisterStore(h)
      PROVE  TypeOK'
  <2>1. node[h] \in Node
    BY <1>14 DEF NodeInv, RegisterStore, Proc
  <2>2. QED
    BY <1>14, <2>1 DEF RegisterStore, Goto, Proc, PC, counters, locals
<1>15. ASSUME NEW h \in Handler, RegisterCount(h)
      PROVE  TypeOK'
  <2>1. /\ pc' \in [Proc -> PC]
        /\ sender' \in [Stream -> {"off", "run", "exit"}]
        /\ env' \in [Stream -> Envelope \cup {None}]
        /\ held' \in [Stream -> Handler \cup {None}]
    BY <1>15, EnterRecvLoopType DEF RegisterCount, Goto, Proc, PC
  <2>2. QED
    BY <1>15, <2>1 DEF RegisterCount, table
<1>16. ASSUME NEW p \in Stream \cup Ban, UnregisterTake(p)
      PROVE  TypeOK'
  <2>1. node[p] \in Node /\ p \in Proc
    BY <1>16 DEF NodeInv, UnregisterTake, Proc, Handler
  <2>2. pc' \in [Proc -> PC] /\ ctxDone' \in SUBSET Stream
    BY <1>16, <2>1, ReturnType DEF UnregisterTake, Goto, PC
  <2>3. QED
    BY <1>16, <2>1, <2>2, TakeAndCloseType DEF UnregisterTake, counters, locals
<1>17. ASSUME NEW p \in Stream \cup Ban, UnregisterCount(p)
      PROVE  TypeOK'
  <2>1. p \in Proc
    BY DEF Proc, Handler
  <2>2. QED
    BY <1>17, <2>1, ReturnType DEF UnregisterCount, table, locals
<1>18. ASSUME NEW s \in Stream, ForwardCheck(s)
      PROVE  TypeOK'
  <2>1. /\ pc' \in [Proc -> PC]
        /\ sender' \in [Stream -> {"off", "run", "exit"}]
        /\ env' \in [Stream -> Envelope \cup {None}]
        /\ held' \in [Stream -> Handler \cup {None}]
    BY <1>18, EnterRecvLoopType DEF ForwardCheck, Goto, Proc, Handler, PC
  <2>2. \/ start' = start /\ seen' = seen
        \/ /\ env[s].target \in Channel
           /\ start' = [start EXCEPT ![s] = channels[env[s].target]]
           /\ seen' = [seen EXCEPT ![s] = {}]
    <3> HIDE DEF Inv, TypeOK
    <3>1. QED
      BY <1>18 DEF ForwardCheck
  <2>3. start' \in [Stream -> SUBSET Node] /\ seen' \in [Stream -> SUBSET Node]
    <3>1. env[s].target \in Channel => channels[env[s].target] \in SUBSET Node
      OBVIOUS
    <3>2. start \in [Stream -> SUBSET Node] /\ seen \in [Stream -> SUBSET Node]
      OBVIOUS
    <3> HIDE DEF Inv, TypeOK
    <3>3. QED
      BY <2>2, <3>1, <3>2
  <2>4. QED
    BY <1>18, <2>1, <2>3 DEF ForwardCheck, table, counters
<1>19. ASSUME NEW s \in Stream, DirectLookup(s)
      PROVE  TypeOK'
  <2>1. env[s].target \in Node
    BY <1>19, ForwardingTypes DEF DirectLookup, Forwarding
  <2>2. /\ pc' \in [Proc -> PC]
        /\ sender' \in [Stream -> {"off", "run", "exit"}]
        /\ env' \in [Stream -> Envelope \cup {None}]
        /\ held' \in [Stream -> Handler \cup {None}]
    BY <1>19, <2>1, EnterRecvLoopType DEF DirectLookup, Goto, Proc, Handler, PC
  <2>3. QED
    BY <1>19, <2>2 DEF DirectLookup, table, counters
<1>20. ASSUME NEW s \in Stream, DirectSend(s)
      PROVE  TypeOK'
  <2>1. env[s] \in Envelope /\ held[s] \in Handler
    BY <1>20, ForwardingTypes DEF DirectSend, Forwarding
  <2>2. /\ buf' \in [Handler -> Seq(Envelope)]
        /\ \A h \in Handler : Len(buf'[h]) <= Capacity
    BY <1>20, <2>1, EnqueueType DEF DirectSend
  <2>3. /\ pc' \in [Proc -> PC]
        /\ sender' \in [Stream -> {"off", "run", "exit"}]
        /\ env' \in [Stream -> Envelope \cup {None}]
        /\ held' \in [Stream -> Handler \cup {None}]
    BY <1>20, EnterRecvLoopType DEF DirectSend
  <2>4. /\ count' \in [Stream -> Nat]
        /\ panic' \in {"none", "nilHandshake", "nilEnvelope", "sendOnClosed",
                      "closeOfClosed"}
    <3>1. count' = count \/ count' = [count EXCEPT ![s] = @ + 1]
      BY <1>20 DEF DirectSend, LeaveSent
    <3>2. panic' = panic \/ panic' = "sendOnClosed"
      BY <1>20 DEF DirectSend
    <3>3. QED
      BY <3>1, <3>2
  <2>5. QED
    BY <1>20, <2>2, <2>3, <2>4 DEF DirectSend, table, counters
<1>21. ASSUME NEW s \in Stream, NEW n \in Node, BroadcastVisit(s, n)
      PROVE  TypeOK'
  <2>1. /\ pc' \in [Proc -> PC]
        /\ held' \in [Stream -> Handler \cup {None}]
        /\ seen' \in [Stream -> SUBSET Node]
    BY <1>21 DEF BroadcastVisit, Goto, Proc, Handler, PC
  <2>2. QED
    BY <1>21, <2>1 DEF BroadcastVisit, table, counters
<1>22. ASSUME NEW s \in Stream, BroadcastSend(s)
      PROVE  TypeOK'
  <2>1. env[s] \in Envelope /\ held[s] \in Handler
    BY <1>22, ForwardingTypes DEF BroadcastSend, Forwarding
  <2>2. /\ buf' \in [Handler -> Seq(Envelope)]
        /\ \A h \in Handler : Len(buf'[h]) <= Capacity
    BY <1>22, <2>1, EnqueueType DEF BroadcastSend
  <2>3. /\ pc' \in [Proc -> PC]
        /\ count' \in [Stream -> Nat]
        /\ panic' \in {"none", "nilHandshake", "nilEnvelope", "sendOnClosed",
                      "closeOfClosed"}
    <3>1. pc' \in [Proc -> PC]
      BY <1>22 DEF BroadcastSend, Goto, Proc, Handler, PC
    <3>2. count' = count \/ count' = [count EXCEPT ![s] = @ + 1]
      BY <1>22 DEF BroadcastSend
    <3>3. panic' = panic \/ panic' = "sendOnClosed"
      BY <1>22 DEF BroadcastSend
    <3>4. QED
      BY <3>1, <3>2, <3>3
  <2>4. QED
    BY <1>22, <2>2, <2>3 DEF BroadcastSend, table, counters
<1>dc. ASSUME NEW s \in Stream, DirectCount(s)
      PROVE  TypeOK'
  BY <1>dc, EnterRecvLoopType DEF DirectCount, table
<1>23. ASSUME NEW s \in Stream, BroadcastEnd(s)
      PROVE  TypeOK'
  BY <1>23, EnterRecvLoopType DEF BroadcastEnd, table
<1>24. ASSUME NEW s \in Stream, RecvErr(s)
      PROVE  TypeOK'
  BY <1>24 DEF RecvErr, Goto, Proc, Handler, PC, table, counters, locals
<1>25. ASSUME NEW s \in Stream, SenderDeliver(s)
      PROVE  TypeOK'
  <2>1. /\ Head(buf[s]) \in Envelope /\ Tail(buf[s]) \in Seq(Envelope)
        /\ Len(Tail(buf[s])) <= Capacity
    BY <1>25, RelayAssumption DEF SenderDeliver, Handler
  <2>2. /\ buf' \in [Handler -> Seq(Envelope)]
        /\ \A h \in Handler : Len(buf'[h]) <= Capacity
    BY <1>25, <2>1 DEF SenderDeliver, Handler
  <2>3. /\ out' \in [Stream -> Seq(Envelope)]
        /\ sender' \in [Stream -> {"off", "run", "exit"}]
    BY <1>25, <2>1 DEF SenderDeliver
  <2>4. QED
    BY <1>25, <2>2, <2>3 DEF SenderDeliver, table, counters, locals
<1>26. ASSUME NEW s \in Stream, SenderCtxDone(s)
      PROVE  TypeOK'
  BY <1>26 DEF SenderCtxDone, table, counters, locals
<1>27. ASSUME NEW s \in Stream, SenderNil(s)
      PROVE  TypeOK'
  BY <1>27 DEF SenderNil, table, counters, locals
<1>28. ASSUME Stopped
      PROVE  TypeOK'
  BY <1>28 DEF Stopped, vars
<1>29. CASE UNCHANGED vars
  BY <1>29 DEF vars
<1>30. QED
  BY <1>dc, <1>1, <1>2, <1>3, <1>4, <1>5, <1>6, <1>7, <1>8, <1>9, <1>10, <1>11, <1>12,
     <1>13, <1>14, <1>15, <1>16, <1>17, <1>18, <1>19, <1>20, <1>21, <1>22,
     <1>23, <1>24, <1>25, <1>26, <1>27, <1>28, <1>29
  DEF Next, ClientStep, RegisterStep, UnregisterStep, ForwardStep, SenderStep

\* A session enters the table fresh and leaves it when it is closed.
LEMMA TableStep == Inv /\ [Next]_vars => TableInv'
<1> SUFFICES ASSUME Inv, [Next]_vars PROVE TableInv'
  OBVIOUS
<1> USE RelayAssumption
    DEF Inv, TypeOK, TableInv, ClosedInv, NodeInv, Unstored, Handler, Proc, PC
<1>1. ASSUME NEW s \in Stream, NEW n \in Node, OpenStream(s, n)
      PROVE  TableInv'
  BY <1>1 DEF OpenStream, Goto, table, counters, locals
<1>2. ASSUME NEW s \in Stream, NEW n \in Node, NEW t \in Target,
             OpenStreamWithPayload(s, n, t)
      PROVE  TableInv'
  BY <1>2 DEF OpenStreamWithPayload, Goto, NewEnvelope, table, counters
<1>3. ASSUME NEW s \in Stream, OpenStreamOtherType(s)
      PROVE  TableInv'
  BY <1>3 DEF OpenStreamOtherType, table, counters, locals
<1>4. ASSUME NEW s \in Stream, NEW n \in Node, NEW t \in Target,
             RecvEnvelope(s, n, t)
      PROVE  TableInv'
  BY <1>4 DEF RecvEnvelope, Goto, NewEnvelope, table, counters
<1>5. ASSUME NEW s \in Stream, NEW c \in Channel, Subscribe(s, c)
      PROVE  TableInv'
  BY <1>5 DEF Subscribe, counters, locals
<1>6. ASSUME NEW s \in Stream, NEW c \in Channel, Unsubscribe(s, c)
      PROVE  TableInv'
  BY <1>6 DEF Unsubscribe, counters, locals
<1>7. ASSUME NEW s \in Stream, RecvEOF(s)
      PROVE  TableInv'
  BY <1>7 DEF RecvEOF, Goto, table, counters, locals
<1>8. ASSUME NEW s \in Stream, CancelStream(s)
      PROVE  TableInv'
  BY <1>8 DEF CancelStream, table, counters, locals
<1>9. ASSUME NEW k \in Call, NEW n \in Node, ConnectToRelay(k, n)
      PROVE  TableInv'
  BY <1>9 DEF ConnectToRelay, Goto, table, counters, locals
<1>10. ASSUME NEW b \in Ban, NEW n \in Node, AddToBlacklist(b, n)
      PROVE  TableInv'
  BY <1>10 DEF AddToBlacklist, Goto, counters, locals
<1>11. ASSUME NEW n \in Node, RemoveFromBlacklist(n)
      PROVE  TableInv'
  BY <1>11 DEF RemoveFromBlacklist, counters, locals
<1>12. ASSUME NEW h \in Handler, RegisterCheck(h)
      PROVE  TableInv'
  BY <1>12 DEF RegisterCheck, Goto, Return, table, counters, locals
<1>13. ASSUME NEW h \in Handler, RegisterReplace(h)
      PROVE  TableInv'
  BY <1>13 DEF RegisterReplace, Goto, TakeAndClose, counters, locals
<1>14. ASSUME NEW h \in Handler, RegisterStore(h)
      PROVE  TableInv'
  BY <1>14 DEF RegisterStore, Goto, counters, locals
<1>15. ASSUME NEW h \in Handler, RegisterCount(h)
      PROVE  TableInv'
  BY <1>15 DEF RegisterCount, Goto, EnterRecvLoop, table
<1>16. ASSUME NEW p \in Stream \cup Ban, UnregisterTake(p)
      PROVE  TableInv'
  BY <1>16 DEF UnregisterTake, Goto, Return, TakeAndClose, counters, locals
<1>17. ASSUME NEW p \in Stream \cup Ban, UnregisterCount(p)
      PROVE  TableInv'
  BY <1>17 DEF UnregisterCount, Return, Goto, table, locals
<1>18. ASSUME NEW s \in Stream, ForwardCheck(s)
      PROVE  TableInv'
  BY <1>18 DEF ForwardCheck, Goto, EnterRecvLoop, table, counters
<1>19. ASSUME NEW s \in Stream, DirectLookup(s)
      PROVE  TableInv'
  BY <1>19 DEF DirectLookup, Goto, EnterRecvLoop, table, counters
<1>20. ASSUME NEW s \in Stream, DirectSend(s)
      PROVE  TableInv'
  BY <1>20 DEF DirectSend, EnterRecvLoop, LeaveSent, Goto, Offers, Drops, Enqueue, table
<1>21. ASSUME NEW s \in Stream, NEW n \in Node, BroadcastVisit(s, n)
      PROVE  TableInv'
  BY <1>21 DEF BroadcastVisit, Goto, table, counters
<1>22. ASSUME NEW s \in Stream, BroadcastSend(s)
      PROVE  TableInv'
  BY <1>22 DEF BroadcastSend, Goto, Offers, Drops, Enqueue, table, counters
<1>dc. ASSUME NEW s \in Stream, DirectCount(s)
      PROVE  TableInv'
  BY <1>dc DEF DirectCount, EnterRecvLoop, Goto, table
<1>23. ASSUME NEW s \in Stream, BroadcastEnd(s)
      PROVE  TableInv'
  BY <1>23 DEF BroadcastEnd, EnterRecvLoop, Goto, table
<1>24. ASSUME NEW s \in Stream, RecvErr(s)
      PROVE  TableInv'
  BY <1>24 DEF RecvErr, Goto, table, counters, locals
<1>25. ASSUME NEW s \in Stream, SenderDeliver(s)
      PROVE  TableInv'
  BY <1>25 DEF SenderDeliver, table, counters, locals
<1>26. ASSUME NEW s \in Stream, SenderCtxDone(s)
      PROVE  TableInv'
  BY <1>26 DEF SenderCtxDone, table, counters, locals
<1>27. ASSUME NEW s \in Stream, SenderNil(s)
      PROVE  TableInv'
  BY <1>27 DEF SenderNil, table, counters, locals
<1>28. ASSUME Stopped
      PROVE  TableInv'
  BY <1>28 DEF Stopped, vars
<1>29. CASE UNCHANGED vars
  BY <1>29 DEF vars
<1>30. QED
  BY <1>dc, <1>1, <1>2, <1>3, <1>4, <1>5, <1>6, <1>7, <1>8, <1>9, <1>10, <1>11, <1>12,
     <1>13, <1>14, <1>15, <1>16, <1>17, <1>18, <1>19, <1>20, <1>21, <1>22,
     <1>23, <1>24, <1>25, <1>26, <1>27, <1>28, <1>29
  DEF Next, ClientStep, RegisterStep, UnregisterStep, ForwardStep, SenderStep

\* Only sessions taken from the table are closed.
LEMMA ClosedStep == Inv /\ [Next]_vars => ClosedInv'
<1> SUFFICES ASSUME Inv, [Next]_vars PROVE ClosedInv'
  OBVIOUS
<1> USE RelayAssumption
    DEF Inv, TypeOK, TableInv, ClosedInv, NodeInv, Unstored, Handler, Proc, PC
<1>1. ASSUME NEW s \in Stream, NEW n \in Node, OpenStream(s, n)
      PROVE  ClosedInv'
  BY <1>1 DEF OpenStream, Goto, table, counters, locals
<1>2. ASSUME NEW s \in Stream, NEW n \in Node, NEW t \in Target,
             OpenStreamWithPayload(s, n, t)
      PROVE  ClosedInv'
  BY <1>2 DEF OpenStreamWithPayload, Goto, NewEnvelope, table, counters
<1>3. ASSUME NEW s \in Stream, OpenStreamOtherType(s)
      PROVE  ClosedInv'
  BY <1>3 DEF OpenStreamOtherType, table, counters, locals
<1>4. ASSUME NEW s \in Stream, NEW n \in Node, NEW t \in Target,
             RecvEnvelope(s, n, t)
      PROVE  ClosedInv'
  BY <1>4 DEF RecvEnvelope, Goto, NewEnvelope, table, counters
<1>5. ASSUME NEW s \in Stream, NEW c \in Channel, Subscribe(s, c)
      PROVE  ClosedInv'
  BY <1>5 DEF Subscribe, counters, locals
<1>6. ASSUME NEW s \in Stream, NEW c \in Channel, Unsubscribe(s, c)
      PROVE  ClosedInv'
  BY <1>6 DEF Unsubscribe, counters, locals
<1>7. ASSUME NEW s \in Stream, RecvEOF(s)
      PROVE  ClosedInv'
  BY <1>7 DEF RecvEOF, Goto, table, counters, locals
<1>8. ASSUME NEW s \in Stream, CancelStream(s)
      PROVE  ClosedInv'
  BY <1>8 DEF CancelStream, table, counters, locals
<1>9. ASSUME NEW k \in Call, NEW n \in Node, ConnectToRelay(k, n)
      PROVE  ClosedInv'
  BY <1>9 DEF ConnectToRelay, Goto, table, counters, locals
<1>10. ASSUME NEW b \in Ban, NEW n \in Node, AddToBlacklist(b, n)
      PROVE  ClosedInv'
  BY <1>10 DEF AddToBlacklist, Goto, counters, locals
<1>11. ASSUME NEW n \in Node, RemoveFromBlacklist(n)
      PROVE  ClosedInv'
  BY <1>11 DEF RemoveFromBlacklist, counters, locals
<1>12. ASSUME NEW h \in Handler, RegisterCheck(h)
      PROVE  ClosedInv'
  BY <1>12 DEF RegisterCheck, Goto, Return, table, counters, locals
<1>13. ASSUME NEW h \in Handler, RegisterReplace(h)
      PROVE  ClosedInv'
  BY <1>13 DEF RegisterReplace, Goto, TakeAndClose, counters, locals
<1>14. ASSUME NEW h \in Handler, RegisterStore(h)
      PROVE  ClosedInv'
  BY <1>14 DEF RegisterStore, Goto, counters, locals
<1>15. ASSUME NEW h \in Handler, RegisterCount(h)
      PROVE  ClosedInv'
  BY <1>15 DEF RegisterCount, Goto, EnterRecvLoop, table
<1>16. ASSUME NEW p \in Stream \cup Ban, UnregisterTake(p)
      PROVE  ClosedInv'
  <2>1. /\ node[p] \in Node
        /\ closed' \in {closed, closed \cup {sessions[node[p]]}}
        /\ sessions[node[p]] = None => closed' = closed
    BY <1>16 DEF UnregisterTake, TakeAndClose
  <2>2. \A h \in closed' : h \in Proc /\ pc[h] \notin Unstored
    BY <2>1
  <2>3. \A h \in Proc : pc'[h] \in {pc[h], "done", "dec"}
    BY <1>16 DEF UnregisterTake, Goto, Return
  <2> QED
    BY <2>2, <2>3
<1>17. ASSUME NEW p \in Stream \cup Ban, UnregisterCount(p)
      PROVE  ClosedInv'
  BY <1>17 DEF UnregisterCount, Return, Goto, table, locals
<1>18. ASSUME NEW s \in Stream, ForwardCheck(s)
      PROVE  ClosedInv'
  BY <1>18 DEF ForwardCheck, Goto, EnterRecvLoop, table, counters
<1>19. ASSUME NEW s \in Stream, DirectLookup(s)
      PROVE  ClosedInv'
  BY <1>19 DEF DirectLookup, Goto, EnterRecvLoop, table, counters
<1>20. ASSUME NEW s \in Stream, DirectSend(s)
      PROVE  ClosedInv'
  BY <1>20 DEF DirectSend, EnterRecvLoop, LeaveSent, Goto, Offers, Drops, Enqueue, table
<1>21. ASSUME NEW s \in Stream, NEW n \in Node, BroadcastVisit(s, n)
      PROVE  ClosedInv'
  BY <1>21 DEF BroadcastVisit, Goto, table, counters
<1>22. ASSUME NEW s \in Stream, BroadcastSend(s)
      PROVE  ClosedInv'
  BY <1>22 DEF BroadcastSend, Goto, Offers, Drops, Enqueue, table, counters
<1>dc. ASSUME NEW s \in Stream, DirectCount(s)
      PROVE  ClosedInv'
  BY <1>dc DEF DirectCount, EnterRecvLoop, Goto, table
<1>23. ASSUME NEW s \in Stream, BroadcastEnd(s)
      PROVE  ClosedInv'
  BY <1>23 DEF BroadcastEnd, EnterRecvLoop, Goto, table
<1>24. ASSUME NEW s \in Stream, RecvErr(s)
      PROVE  ClosedInv'
  BY <1>24 DEF RecvErr, Goto, table, counters, locals
<1>25. ASSUME NEW s \in Stream, SenderDeliver(s)
      PROVE  ClosedInv'
  BY <1>25 DEF SenderDeliver, table, counters, locals
<1>26. ASSUME NEW s \in Stream, SenderCtxDone(s)
      PROVE  ClosedInv'
  BY <1>26 DEF SenderCtxDone, table, counters, locals
<1>27. ASSUME NEW s \in Stream, SenderNil(s)
      PROVE  ClosedInv'
  BY <1>27 DEF SenderNil, table, counters, locals
<1>28. ASSUME Stopped
      PROVE  ClosedInv'
  BY <1>28 DEF Stopped, vars
<1>29. CASE UNCHANGED vars
  BY <1>29 DEF vars
<1>30. QED
  BY <1>dc, <1>1, <1>2, <1>3, <1>4, <1>5, <1>6, <1>7, <1>8, <1>9, <1>10, <1>11, <1>12,
     <1>13, <1>14, <1>15, <1>16, <1>17, <1>18, <1>19, <1>20, <1>21, <1>22,
     <1>23, <1>24, <1>25, <1>26, <1>27, <1>28, <1>29
  DEF Next, ClientStep, RegisterStep, UnregisterStep, ForwardStep, SenderStep

\* A call keeps its node.
LEMMA NodeStep == Inv /\ [Next]_vars => NodeInv'
<1> SUFFICES ASSUME Inv, [Next]_vars PROVE NodeInv'
  OBVIOUS
<1> USE RelayAssumption
    DEF Inv, TypeOK, NodeInv, Handler, Proc, PC
<1>1. ASSUME NEW s \in Stream, NEW n \in Node, OpenStream(s, n)
      PROVE  NodeInv'
  BY <1>1 DEF OpenStream, Goto, table, counters, locals
<1>2. ASSUME NEW s \in Stream, NEW n \in Node, NEW t \in Target,
             OpenStreamWithPayload(s, n, t)
      PROVE  NodeInv'
  BY <1>2 DEF OpenStreamWithPayload, Goto, NewEnvelope, table, counters
<1>3. ASSUME NEW s \in Stream, OpenStreamOtherType(s)
      PROVE  NodeInv'
  BY <1>3 DEF OpenStreamOtherType, table, counters, locals
<1>4. ASSUME NEW s \in Stream, NEW n \in Node, NEW t \in Target,
             RecvEnvelope(s, n, t)
      PROVE  NodeInv'
  BY <1>4 DEF RecvEnvelope, Goto, NewEnvelope, table, counters
<1>5. ASSUME NEW s \in Stream, NEW c \in Channel, Subscribe(s, c)
      PROVE  NodeInv'
  BY <1>5 DEF Subscribe, counters, locals
<1>6. ASSUME NEW s \in Stream, NEW c \in Channel, Unsubscribe(s, c)
      PROVE  NodeInv'
  BY <1>6 DEF Unsubscribe, counters, locals
<1>7. ASSUME NEW s \in Stream, RecvEOF(s)
      PROVE  NodeInv'
  BY <1>7 DEF RecvEOF, Goto, table, counters, locals
<1>8. ASSUME NEW s \in Stream, CancelStream(s)
      PROVE  NodeInv'
  BY <1>8 DEF CancelStream, table, counters, locals
<1>9. ASSUME NEW k \in Call, NEW n \in Node, ConnectToRelay(k, n)
      PROVE  NodeInv'
  BY <1>9 DEF ConnectToRelay, Goto, table, counters, locals
<1>10. ASSUME NEW b \in Ban, NEW n \in Node, AddToBlacklist(b, n)
      PROVE  NodeInv'
  BY <1>10 DEF AddToBlacklist, Goto, counters, locals
<1>11. ASSUME NEW n \in Node, RemoveFromBlacklist(n)
      PROVE  NodeInv'
  BY <1>11 DEF RemoveFromBlacklist, counters, locals
<1>12. ASSUME NEW h \in Handler, RegisterCheck(h)
      PROVE  NodeInv'
  BY <1>12 DEF RegisterCheck, Goto, Return, table, counters, locals
<1>13. ASSUME NEW h \in Handler, RegisterReplace(h)
      PROVE  NodeInv'
  BY <1>13 DEF RegisterReplace, Goto, TakeAndClose, counters, locals
<1>14. ASSUME NEW h \in Handler, RegisterStore(h)
      PROVE  NodeInv'
  BY <1>14 DEF RegisterStore, Goto, counters, locals
<1>15. ASSUME NEW h \in Handler, RegisterCount(h)
      PROVE  NodeInv'
  BY <1>15 DEF RegisterCount, Goto, EnterRecvLoop, table
<1>16. ASSUME NEW p \in Stream \cup Ban, UnregisterTake(p)
      PROVE  NodeInv'
  BY <1>16 DEF UnregisterTake, Goto, Return, TakeAndClose, counters, locals
<1>17. ASSUME NEW p \in Stream \cup Ban, UnregisterCount(p)
      PROVE  NodeInv'
  BY <1>17 DEF UnregisterCount, Return, Goto, table, locals
<1>18. ASSUME NEW s \in Stream, ForwardCheck(s)
      PROVE  NodeInv'
  BY <1>18 DEF ForwardCheck, Goto, EnterRecvLoop, table, counters
<1>19. ASSUME NEW s \in Stream, DirectLookup(s)
      PROVE  NodeInv'
  BY <1>19 DEF DirectLookup, Goto, EnterRecvLoop, table, counters
<1>20. ASSUME NEW s \in Stream, DirectSend(s)
      PROVE  NodeInv'
  BY <1>20 DEF DirectSend, EnterRecvLoop, LeaveSent, Goto, Offers, Drops, Enqueue, table
<1>21. ASSUME NEW s \in Stream, NEW n \in Node, BroadcastVisit(s, n)
      PROVE  NodeInv'
  BY <1>21 DEF BroadcastVisit, Goto, table, counters
<1>22. ASSUME NEW s \in Stream, BroadcastSend(s)
      PROVE  NodeInv'
  BY <1>22 DEF BroadcastSend, Goto, Offers, Drops, Enqueue, table, counters
<1>dc. ASSUME NEW s \in Stream, DirectCount(s)
      PROVE  NodeInv'
  BY <1>dc DEF DirectCount, EnterRecvLoop, Goto, table
<1>23. ASSUME NEW s \in Stream, BroadcastEnd(s)
      PROVE  NodeInv'
  BY <1>23 DEF BroadcastEnd, EnterRecvLoop, Goto, table
<1>24. ASSUME NEW s \in Stream, RecvErr(s)
      PROVE  NodeInv'
  BY <1>24 DEF RecvErr, Goto, table, counters, locals
<1>25. ASSUME NEW s \in Stream, SenderDeliver(s)
      PROVE  NodeInv'
  BY <1>25 DEF SenderDeliver, table, counters, locals
<1>26. ASSUME NEW s \in Stream, SenderCtxDone(s)
      PROVE  NodeInv'
  BY <1>26 DEF SenderCtxDone, table, counters, locals
<1>27. ASSUME NEW s \in Stream, SenderNil(s)
      PROVE  NodeInv'
  BY <1>27 DEF SenderNil, table, counters, locals
<1>28. ASSUME Stopped
      PROVE  NodeInv'
  BY <1>28 DEF Stopped, vars
<1>29. CASE UNCHANGED vars
  BY <1>29 DEF vars
<1>30. QED
  BY <1>dc, <1>1, <1>2, <1>3, <1>4, <1>5, <1>6, <1>7, <1>8, <1>9, <1>10, <1>11, <1>12,
     <1>13, <1>14, <1>15, <1>16, <1>17, <1>18, <1>19, <1>20, <1>21, <1>22,
     <1>23, <1>24, <1>25, <1>26, <1>27, <1>28, <1>29
  DEF Next, ClientStep, RegisterStep, UnregisterStep, ForwardStep, SenderStep

\* Every step is stable.
LEMMA StableStep == Inv /\ [Next]_vars => Stable
<1> SUFFICES ASSUME Inv, [Next]_vars PROVE Stable
  OBVIOUS
<1> USE RelayAssumption
    DEF Inv, TypeOK, NodeInv, Stable, Unstored, Handler, Proc, PC
<1>1. ASSUME NEW s \in Stream, NEW n \in Node, OpenStream(s, n)
      PROVE  Stable
  BY <1>1 DEF OpenStream, Goto, table, counters, locals
<1>2. ASSUME NEW s \in Stream, NEW n \in Node, NEW t \in Target,
             OpenStreamWithPayload(s, n, t)
      PROVE  Stable
  BY <1>2 DEF OpenStreamWithPayload, Goto, NewEnvelope, table, counters
<1>3. ASSUME NEW s \in Stream, OpenStreamOtherType(s)
      PROVE  Stable
  BY <1>3 DEF OpenStreamOtherType, table, counters, locals
<1>4. ASSUME NEW s \in Stream, NEW n \in Node, NEW t \in Target,
             RecvEnvelope(s, n, t)
      PROVE  Stable
  BY <1>4 DEF RecvEnvelope, Goto, NewEnvelope, table, counters
<1>5. ASSUME NEW s \in Stream, NEW c \in Channel, Subscribe(s, c)
      PROVE  Stable
  BY <1>5 DEF Subscribe, counters, locals
<1>6. ASSUME NEW s \in Stream, NEW c \in Channel, Unsubscribe(s, c)
      PROVE  Stable
  BY <1>6 DEF Unsubscribe, counters, locals
<1>7. ASSUME NEW s \in Stream, RecvEOF(s)
      PROVE  Stable
  BY <1>7 DEF RecvEOF, Goto, table, counters, locals
<1>8. ASSUME NEW s \in Stream, CancelStream(s)
      PROVE  Stable
  BY <1>8 DEF CancelStream, table, counters, locals
<1>9. ASSUME NEW k \in Call, NEW n \in Node, ConnectToRelay(k, n)
      PROVE  Stable
  BY <1>9 DEF ConnectToRelay, Goto, table, counters, locals
<1>10. ASSUME NEW b \in Ban, NEW n \in Node, AddToBlacklist(b, n)
      PROVE  Stable
  BY <1>10 DEF AddToBlacklist, Goto, counters, locals
<1>11. ASSUME NEW n \in Node, RemoveFromBlacklist(n)
      PROVE  Stable
  BY <1>11 DEF RemoveFromBlacklist, counters, locals
<1>12. ASSUME NEW h \in Handler, RegisterCheck(h)
      PROVE  Stable
  BY <1>12 DEF RegisterCheck, Goto, Return, table, counters, locals
<1>13. ASSUME NEW h \in Handler, RegisterReplace(h)
      PROVE  Stable
  BY <1>13 DEF RegisterReplace, Goto, TakeAndClose, counters, locals
<1>14. ASSUME NEW h \in Handler, RegisterStore(h)
      PROVE  Stable
  BY <1>14 DEF RegisterStore, Goto, counters, locals
<1>15. ASSUME NEW h \in Handler, RegisterCount(h)
      PROVE  Stable
  BY <1>15 DEF RegisterCount, Goto, EnterRecvLoop, table
<1>16. ASSUME NEW p \in Stream \cup Ban, UnregisterTake(p)
      PROVE  Stable
  BY <1>16 DEF UnregisterTake, Goto, Return, TakeAndClose, counters, locals
<1>17. ASSUME NEW p \in Stream \cup Ban, UnregisterCount(p)
      PROVE  Stable
  BY <1>17 DEF UnregisterCount, Return, Goto, table, locals
<1>18. ASSUME NEW s \in Stream, ForwardCheck(s)
      PROVE  Stable
  BY <1>18 DEF ForwardCheck, Goto, EnterRecvLoop, table, counters
<1>19. ASSUME NEW s \in Stream, DirectLookup(s)
      PROVE  Stable
  BY <1>19 DEF DirectLookup, Goto, EnterRecvLoop, table, counters
<1>20. ASSUME NEW s \in Stream, DirectSend(s)
      PROVE  Stable
  BY <1>20 DEF DirectSend, EnterRecvLoop, LeaveSent, Goto, Offers, Drops, Enqueue, table
<1>21. ASSUME NEW s \in Stream, NEW n \in Node, BroadcastVisit(s, n)
      PROVE  Stable
  BY <1>21 DEF BroadcastVisit, Goto, table, counters
<1>22. ASSUME NEW s \in Stream, BroadcastSend(s)
      PROVE  Stable
  BY <1>22 DEF BroadcastSend, Goto, Offers, Drops, Enqueue, table, counters
<1>dc. ASSUME NEW s \in Stream, DirectCount(s)
      PROVE  Stable
  BY <1>dc DEF DirectCount, EnterRecvLoop, Goto, table
<1>23. ASSUME NEW s \in Stream, BroadcastEnd(s)
      PROVE  Stable
  BY <1>23 DEF BroadcastEnd, EnterRecvLoop, Goto, table
<1>24. ASSUME NEW s \in Stream, RecvErr(s)
      PROVE  Stable
  BY <1>24 DEF RecvErr, Goto, table, counters, locals
<1>25. ASSUME NEW s \in Stream, SenderDeliver(s)
      PROVE  Stable
  BY <1>25 DEF SenderDeliver, table, counters, locals
<1>26. ASSUME NEW s \in Stream, SenderCtxDone(s)
      PROVE  Stable
  BY <1>26 DEF SenderCtxDone, table, counters, locals
<1>27. ASSUME NEW s \in Stream, SenderNil(s)
      PROVE  Stable
  BY <1>27 DEF SenderNil, table, counters, locals
<1>28. ASSUME Stopped
      PROVE  Stable
  BY <1>28 DEF Stopped, vars
<1>29. CASE UNCHANGED vars
  BY <1>29 DEF vars
<1>30. QED
  BY <1>dc, <1>1, <1>2, <1>3, <1>4, <1>5, <1>6, <1>7, <1>8, <1>9, <1>10, <1>11, <1>12,
     <1>13, <1>14, <1>15, <1>16, <1>17, <1>18, <1>19, <1>20, <1>21, <1>22,
     <1>23, <1>24, <1>25, <1>26, <1>27, <1>28, <1>29
  DEF Next, ClientStep, RegisterStep, UnregisterStep, ForwardStep, SenderStep

\* A stream that the step leaves alone keeps what it holds.
LEMMA ForwardFrame ==
    ASSUME Inv, Stable, NEW r \in Stream,
           env'[r] = env[r], held'[r] = held[r], pc'[r] = pc[r]
    PROVE  ForwardOK(r)'
<1>1. ForwardOK(r)
  BY DEF Inv, ForwardInv
<1>2. env[r] # None => node'[r] = node[r]
  BY <1>1 DEF Stable, ForwardOK, Proc, Handler
<1>3. pc[r] \in {"send", "rsend"} =>
        /\ held[r] \in Handler
        /\ node'[held[r]] = node[held[r]]
        /\ pc'[held[r]] \notin Unstored
  BY <1>1 DEF Inv, TypeOK, Stable, ForwardOK, Proc, Unstored
<1>4. pc[r] \in {"send", "rsend"} => env[r] # None
  BY <1>1 DEF ForwardOK, Forwarding
<1>5. QED
  BY <1>1, <1>2, <1>3, <1>4 DEF ForwardOK

\* What the helpers leave alone.
LEMMA GotoFrame ==
    ASSUME TypeOK, NEW x, NEW l, Goto(x, l)
    PROVE  \A r \in Stream : r # x => pc'[r] = pc[r]
BY DEF TypeOK, Goto, Proc, Handler

LEMMA ReturnFrame ==
    ASSUME TypeOK, NEW x, Return(x)
    PROVE  \A r \in Stream : r # x => pc'[r] = pc[r]
BY GotoFrame DEF Return

LEMMA EnterRecvLoopFrame ==
    ASSUME TypeOK, NEW x, EnterRecvLoop(x) \/ LeaveSent(x)
    PROVE  \A r \in Stream : r # x =>
             env'[r] = env[r] /\ held'[r] = held[r] /\ pc'[r] = pc[r]
BY GotoFrame DEF EnterRecvLoop, LeaveSent, TypeOK

\* A stream that is done with its envelope holds nothing.
LEMMA EnterRecvLoopForward ==
    ASSUME TypeOK, NEW s \in Stream, EnterRecvLoop(s) \/ LeaveSent(s)
    PROVE  ForwardOK(s)'
BY DEF EnterRecvLoop, LeaveSent, Goto, TypeOK, ForwardOK, Forwarding, Proc, Handler

\* What a stream holds stays what it looked up.
LEMMA ForwardInvStep == Inv /\ [Next]_vars => ForwardInv'
<1> SUFFICES ASSUME Inv, [Next]_vars PROVE ForwardInv'
  OBVIOUS
<1> USE DEF Inv, TypeOK, ForwardInv, PC
<1>0. Stable
  BY StableStep
<1>1. ASSUME NEW s \in Stream, NEW n \in Node, OpenStream(s, n)
      PROVE  ForwardInv'
  <2>1. \A r \in Stream : r # s =>
          env'[r] = env[r] /\ held'[r] = held[r] /\ pc'[r] = pc[r]
    BY <1>1 DEF OpenStream, Goto, table, counters, locals
  <2>2. s \in Stream => ForwardOK(s)'
    BY <1>1 DEF OpenStream, Goto, table, counters, locals, Proc,
        Handler, ForwardOK, Forwarding, Unstored
  <2>3. QED
    BY <1>0, <2>1, <2>2, ForwardFrame
<1>2. ASSUME NEW s \in Stream, NEW n \in Node, NEW t \in Target,
             OpenStreamWithPayload(s, n, t)
      PROVE  ForwardInv'
  <2>1. \A r \in Stream : r # s =>
          env'[r] = env[r] /\ held'[r] = held[r] /\ pc'[r] = pc[r]
    BY <1>2 DEF OpenStreamWithPayload, Goto, NewEnvelope, table, counters
  <2>2. s \in Stream => ForwardOK(s)'
    BY <1>2
    DEF OpenStreamWithPayload, Goto, NewEnvelope, table, counters, Proc,
        Handler, ForwardOK, Forwarding, Unstored
  <2>3. QED
    BY <1>0, <2>1, <2>2, ForwardFrame
<1>3. ASSUME NEW s \in Stream, OpenStreamOtherType(s)
      PROVE  ForwardInv'
  <2>1. \A r \in Stream :
          env'[r] = env[r] /\ held'[r] = held[r] /\ pc'[r] = pc[r]
    BY <1>3 DEF OpenStreamOtherType, table, counters, locals
  <2>2. QED
    BY <1>0, <2>1, ForwardFrame
<1>4. ASSUME NEW s \in Stream, NEW n \in Node, NEW t \in Target,
             RecvEnvelope(s, n, t)
      PROVE  ForwardInv'
  <2>1. \A r \in Stream : r # s =>
          env'[r] = env[r] /\ held'[r] = held[r] /\ pc'[r] = pc[r]
    BY <1>4 DEF RecvEnvelope, Goto, NewEnvelope, table, counters
  <2>2. s \in Stream => ForwardOK(s)'
    <3>1. /\ env'[s] = NewEnvelope(s, n, t) /\ pc'[s] = "fwd"
          /\ node'[s] = node[s]
      BY <1>4 DEF RecvEnvelope, Goto, Proc, Handler
    <3>2. NewEnvelope(s, n, t).via = s /\ NewEnvelope(s, n, t).sender = n
      BY DEF NewEnvelope
    <3>3. NewEnvelope(s, n, t) # None
      BY NewEnvelopeType, NoneAssumption
    <3>4. QED
      BY <1>4, <3>1, <3>2, <3>3 DEF RecvEnvelope, ForwardOK, Forwarding
  <2>3. QED
    BY <1>0, <2>1, <2>2, ForwardFrame
<1>5. ASSUME NEW s \in Stream, NEW c \in Channel, Subscribe(s, c)
      PROVE  ForwardInv'
  <2>1. \A r \in Stream :
          env'[r] = env[r] /\ held'[r] = held[r] /\ pc'[r] = pc[r]
    BY <1>5 DEF Subscribe, counters, locals
  <2>2. QED
    BY <1>0, <2>1, ForwardFrame
<1>6. ASSUME NEW s \in Stream, NEW c \in Channel, Unsubscribe(s, c)
      PROVE  ForwardInv'
  <2>1. \A r \in Stream :
          env'[r] = env[r] /\ held'[r] = held[r] /\ pc'[r] = pc[r]
    BY <1>6 DEF Unsubscribe, counters, locals
  <2>2. QED
    BY <1>0, <2>1, ForwardFrame
<1>7. ASSUME NEW s \in Stream, RecvEOF(s)
      PROVE  ForwardInv'
  <2>1. \A r \in Stream : r # s =>
          env'[r] = env[r] /\ held'[r] = held[r] /\ pc'[r] = pc[r]
    BY <1>7 DEF RecvEOF, Goto, table, counters, locals
  <2>2. s \in Stream => ForwardOK(s)'
    BY <1>7 DEF RecvEOF, Goto, table, counters, locals, Proc,
        Handler, ForwardOK, Forwarding, Unstored
  <2>3. QED
    BY <1>0, <2>1, <2>2, ForwardFrame
<1>8. ASSUME NEW s \in Stream, CancelStream(s)
      PROVE  ForwardInv'
  <2>1. \A r \in Stream :
          env'[r] = env[r] /\ held'[r] = held[r] /\ pc'[r] = pc[r]
    BY <1>8 DEF CancelStream, table, counters, locals
  <2>2. QED
    BY <1>0, <2>1, ForwardFrame
<1>9. ASSUME NEW k \in Call, NEW n \in Node, ConnectToRelay(k, n)
      PROVE  ForwardInv'
  <2>1. \A r \in Stream :
          env'[r] = env[r] /\ held'[r] = held[r] /\ pc'[r] = pc[r]
    BY <1>9, RelayAssumption
    DEF ConnectToRelay, Goto, table, counters, locals, Proc, Handler
  <2>2. QED
    BY <1>0, <2>1, ForwardFrame
<1>10. ASSUME NEW b \in Ban, NEW n \in Node, AddToBlacklist(b, n)
      PROVE  ForwardInv'
  <2>1. \A r \in Stream :
          env'[r] = env[r] /\ held'[r] = held[r] /\ pc'[r] = pc[r]
    BY <1>10, RelayAssumption
    DEF AddToBlacklist, Goto, counters, locals, Proc, Handler
  <2>2. QED
    BY <1>0, <2>1, ForwardFrame
<1>11. ASSUME NEW n \in Node, RemoveFromBlacklist(n)
      PROVE  ForwardInv'
  <2>1. \A r \in Stream :
          env'[r] = env[r] /\ held'[r] = held[r] /\ pc'[r] = pc[r]
    BY <1>11 DEF RemoveFromBlacklist, counters, locals
  <2>2. QED
    BY <1>0, <2>1, ForwardFrame
<1>12. ASSUME NEW h \in Handler, RegisterCheck(h)
      PROVE  ForwardInv'
  <2>1. \A r \in Stream : r # h =>
          env'[r] = env[r] /\ held'[r] = held[r] /\ pc'[r] = pc[r]
    <3>1. TypeOK /\ env \in [Stream -> Envelope \cup {None}]
            /\ held \in [Stream -> Handler \cup {None}]
      OBVIOUS
    <3> HIDE DEF Inv, TypeOK
    <3>2. QED
      BY <1>12, <3>1, GotoFrame, ReturnFrame DEF RegisterCheck, locals
  <2>2. h \in Stream => ForwardOK(h)'
    BY <1>12 DEF RegisterCheck, Goto, Return, table, counters, locals,
       ForwardOK, Forwarding, Unstored, Proc, Handler
  <2>3. QED
    BY <1>0, <2>1, <2>2, ForwardFrame
<1>13. ASSUME NEW h \in Handler, RegisterReplace(h)
      PROVE  ForwardInv'
  <2>1. \A r \in Stream : r # h =>
          env'[r] = env[r] /\ held'[r] = held[r] /\ pc'[r] = pc[r]
    BY <1>13 DEF RegisterReplace, Goto, TakeAndClose, counters, locals
  <2>2. h \in Stream => ForwardOK(h)'
    BY <1>13
    DEF RegisterReplace, Goto, TakeAndClose, counters, locals, Proc,
        Handler, ForwardOK, Forwarding, Unstored
  <2>3. QED
    BY <1>0, <2>1, <2>2, ForwardFrame
<1>14. ASSUME NEW h \in Handler, RegisterStore(h)
      PROVE  ForwardInv'
  <2>1. \A r \in Stream : r # h =>
          env'[r] = env[r] /\ held'[r] = held[r] /\ pc'[r] = pc[r]
    BY <1>14 DEF RegisterStore, Goto, counters, locals
  <2>2. h \in Stream => ForwardOK(h)'
    BY <1>14 DEF RegisterStore, Goto, counters, locals, Proc,
        Handler, ForwardOK, Forwarding, Unstored
  <2>3. QED
    BY <1>0, <2>1, <2>2, ForwardFrame
<1>15. ASSUME NEW h \in Handler, RegisterCount(h)
      PROVE  ForwardInv'
  <2>1. \A r \in Stream : r # h =>
          env'[r] = env[r] /\ held'[r] = held[r] /\ pc'[r] = pc[r]
    <3>1. TypeOK /\ env \in [Stream -> Envelope \cup {None}]
            /\ held \in [Stream -> Handler \cup {None}]
      OBVIOUS
    <3> HIDE DEF Inv, TypeOK
    <3>2. QED
      BY <1>15, <3>1, GotoFrame, EnterRecvLoopFrame DEF RegisterCount
  <2>2. h \in Stream => ForwardOK(h)'
    <3>1. CASE h \in Stream /\ EnterRecvLoop(h)
      BY <3>1, EnterRecvLoopForward
    <3>2. CASE h \in Stream /\ env[h] # None /\ Goto(h, "fwd") /\ env' = env
               /\ held' = held
      BY <1>15, <3>2
      DEF RegisterCount, Goto, ForwardOK, Forwarding, Unstored, Proc, Handler
    <3>3. QED
      BY <1>15, <3>1, <3>2, RelayAssumption DEF RegisterCount
  <2>3. QED
    BY <1>0, <2>1, <2>2, ForwardFrame
<1>16. ASSUME NEW p \in Stream \cup Ban, UnregisterTake(p)
      PROVE  ForwardInv'
  <2>1. \A r \in Stream : r # p =>
          env'[r] = env[r] /\ held'[r] = held[r] /\ pc'[r] = pc[r]
    <3>1. TypeOK /\ env \in [Stream -> Envelope \cup {None}]
            /\ held \in [Stream -> Handler \cup {None}]
      OBVIOUS
    <3> HIDE DEF Inv, TypeOK
    <3>2. QED
      BY <1>16, <3>1, GotoFrame, ReturnFrame DEF UnregisterTake, locals
  <2>2. p \in Stream => ForwardOK(p)'
    BY <1>16 DEF UnregisterTake, Goto, Return, counters, locals,
       ForwardOK, Forwarding, Unstored, Proc, Handler
  <2>3. QED
    BY <1>0, <2>1, <2>2, ForwardFrame
<1>17. ASSUME NEW p \in Stream \cup Ban, UnregisterCount(p)
      PROVE  ForwardInv'
  <2>1. \A r \in Stream : r # p =>
          env'[r] = env[r] /\ held'[r] = held[r] /\ pc'[r] = pc[r]
    BY <1>17 DEF UnregisterCount, Return, Goto, table, locals
  <2>2. p \in Stream => ForwardOK(p)'
    BY <1>17
    DEF UnregisterCount, Return, Goto, table, locals, Proc,
        Handler, ForwardOK, Forwarding, Unstored
  <2>3. QED
    BY <1>0, <2>1, <2>2, ForwardFrame
<1>18. ASSUME NEW s \in Stream, ForwardCheck(s)
      PROVE  ForwardInv'
  <2>1. \A r \in Stream : r # s =>
          env'[r] = env[r] /\ held'[r] = held[r] /\ pc'[r] = pc[r]
    <3>1. TypeOK /\ env \in [Stream -> Envelope \cup {None}]
            /\ held \in [Stream -> Handler \cup {None}]
      OBVIOUS
    <3> HIDE DEF Inv, TypeOK
    <3>2. QED
      BY <1>18, <3>1, GotoFrame, EnterRecvLoopFrame DEF ForwardCheck
  <2>2. s \in Stream => ForwardOK(s)'
    <3>1. CASE EnterRecvLoop(s)
      BY <3>1, EnterRecvLoopForward
    <3>2. CASE env[s].target \in Node /\ Goto(s, "lookup") /\ env' = env
               /\ held' = held
      BY <1>18, <3>2
      DEF ForwardCheck, Goto, ForwardOK, Forwarding, Unstored, Proc, Handler
    <3>3. CASE env[s].target \in Channel /\ Goto(s, "range") /\ env' = env
               /\ held' = held
      BY <1>18, <3>3
      DEF ForwardCheck, Goto, ForwardOK, Forwarding, Unstored, Proc, Handler
    <3>4. QED
      BY <1>18, <3>1, <3>2, <3>3 DEF ForwardCheck
  <2>3. QED
    BY <1>0, <2>1, <2>2, ForwardFrame
<1>19. ASSUME NEW s \in Stream, DirectLookup(s)
      PROVE  ForwardInv'
  <2>1. \A r \in Stream : r # s =>
          env'[r] = env[r] /\ held'[r] = held[r] /\ pc'[r] = pc[r]
    <3>1. TypeOK /\ env \in [Stream -> Envelope \cup {None}]
            /\ held \in [Stream -> Handler \cup {None}]
      OBVIOUS
    <3> HIDE DEF Inv, TypeOK
    <3>2. QED
      BY <1>19, <3>1, GotoFrame, EnterRecvLoopFrame DEF DirectLookup
  <2>2. s \in Stream => ForwardOK(s)'
    <3>1. CASE EnterRecvLoop(s)
      BY <3>1, EnterRecvLoopForward
    <3>2. CASE sessions[env[s].target] # None /\ Goto(s, "send") /\ env' = env
               /\ held' = [held EXCEPT ![s] = sessions[env[s].target]]
      <4>1. env[s].target \in Node /\ env[s] # None /\ env[s].via = s
              /\ env[s].sender = node[s]
        BY <1>19 DEF DirectLookup, ForwardOK, Forwarding
      <4>2. LET x == sessions[env[s].target]
            IN  x \in Handler /\ node[x] = env[s].target /\ pc[x] \notin Unstored
        BY <3>2, <4>1 DEF TableInv
      <4>3. held'[s] = sessions[env[s].target] /\ pc'[s] = "send"
        BY <3>2 DEF Goto, Proc, Handler
      <4>4. pc'[sessions[env[s].target]] \notin Unstored
        BY <1>0, <4>2 DEF Stable
      <4>5. env' = env /\ node' = node
        BY <1>19, <3>2 DEF DirectLookup
      <4>6. QED
        BY <3>2, <4>1, <4>2, <4>3, <4>4, <4>5 DEF ForwardOK, Forwarding
    <3>3. QED
      BY <1>19, <3>1, <3>2 DEF DirectLookup
  <2>3. QED
    BY <1>0, <2>1, <2>2, ForwardFrame
<1>20. ASSUME NEW s \in Stream, DirectSend(s)
      PROVE  ForwardInv'
  <2>1. \A r \in Stream : r # s =>
          env'[r] = env[r] /\ held'[r] = held[r] /\ pc'[r] = pc[r]
    <3>1. TypeOK /\ env \in [Stream -> Envelope \cup {None}]
            /\ held \in [Stream -> Handler \cup {None}]
      OBVIOUS
    <3> HIDE DEF Inv, TypeOK
    <3>2. QED
      BY <1>20, <3>1, GotoFrame, EnterRecvLoopFrame DEF DirectSend
  <2>2. s \in Stream => ForwardOK(s)'
    <3>1. CASE EnterRecvLoop(s) \/ LeaveSent(s)
      BY <3>1, EnterRecvLoopForward
    <3>2. CASE env' = env /\ held' = held /\ pc' = pc
      BY <1>0, <3>2, ForwardFrame
    <3>3. QED
      BY <1>20, <3>1, <3>2 DEF DirectSend
  <2>3. QED
    BY <1>0, <2>1, <2>2, ForwardFrame
<1>21. ASSUME NEW s \in Stream, NEW n \in Node, BroadcastVisit(s, n)
      PROVE  ForwardInv'
  <2>1. \A r \in Stream : r # s =>
          env'[r] = env[r] /\ held'[r] = held[r] /\ pc'[r] = pc[r]
    <3>1. TypeOK /\ env \in [Stream -> Envelope \cup {None}]
            /\ held \in [Stream -> Handler \cup {None}]
      OBVIOUS
    <3> HIDE DEF Inv, TypeOK
    <3>2. QED
      BY <1>21, <3>1, GotoFrame DEF BroadcastVisit
  <2>2. s \in Stream => ForwardOK(s)'
    <3>1. CASE env' = env /\ held' = held /\ pc' = pc
      BY <1>0, <3>1, ForwardFrame
    <3>2. CASE n # env[s].sender /\ sessions[n] # None /\ Goto(s, "rsend")
               /\ env' = env /\ held' = [held EXCEPT ![s] = sessions[n]]
      <4>1. env[s].target \in Channel /\ env[s] # None /\ env[s].via = s
              /\ env[s].sender = node[s]
        BY <1>21 DEF BroadcastVisit, ForwardOK, Forwarding
      <4>2. sessions[n] \in Handler /\ node[sessions[n]] = n
              /\ pc[sessions[n]] \notin Unstored
        BY <3>2 DEF TableInv
      <4>3. held'[s] = sessions[n] /\ pc'[s] = "rsend"
        BY <3>2 DEF Goto, Proc, Handler
      <4>4. pc'[sessions[n]] \notin Unstored
        BY <1>0, <4>2 DEF Stable
      <4>5. env' = env /\ node' = node
        BY <1>21, <3>2 DEF BroadcastVisit
      <4>6. QED
        BY <3>2, <4>1, <4>2, <4>3, <4>4, <4>5 DEF ForwardOK, Forwarding
    <3>3. QED
      BY <1>21, <3>1, <3>2 DEF BroadcastVisit
  <2>3. QED
    BY <1>0, <2>1, <2>2, ForwardFrame
<1>22. ASSUME NEW s \in Stream, BroadcastSend(s)
      PROVE  ForwardInv'
  <2>1. \A r \in Stream : r # s =>
          env'[r] = env[r] /\ held'[r] = held[r] /\ pc'[r] = pc[r]
    <3>1. TypeOK /\ env \in [Stream -> Envelope \cup {None}]
            /\ held \in [Stream -> Handler \cup {None}]
      OBVIOUS
    <3> HIDE DEF Inv, TypeOK
    <3>2. QED
      BY <1>22, <3>1, GotoFrame DEF BroadcastSend
  <2>2. s \in Stream => ForwardOK(s)'
    BY <1>22 DEF BroadcastSend, Goto, table, counters,
       ForwardOK, Forwarding, Unstored, Proc, Handler
  <2>3. QED
    BY <1>0, <2>1, <2>2, ForwardFrame
<1>dc. ASSUME NEW s \in Stream, DirectCount(s)
      PROVE  ForwardInv'
  <2>1. \A r \in Stream : r # s =>
          env'[r] = env[r] /\ held'[r] = held[r] /\ pc'[r] = pc[r]
    BY <1>dc DEF DirectCount, EnterRecvLoop, Goto, table
  <2>2. s \in Stream => ForwardOK(s)'
    BY <1>dc DEF DirectCount, EnterRecvLoop, Goto, table, Proc,
        Handler, ForwardOK, Forwarding, Unstored
  <2>3. QED
    BY <1>0, <2>1, <2>2, ForwardFrame
<1>23. ASSUME NEW s \in Stream, BroadcastEnd(s)
      PROVE  ForwardInv'
  <2>1. \A r \in Stream : r # s =>
          env'[r] = env[r] /\ held'[r] = held[r] /\ pc'[r] = pc[r]
    BY <1>23 DEF BroadcastEnd, EnterRecvLoop, Goto, table
  <2>2. s \in Stream => ForwardOK(s)'
    BY <1>23 DEF BroadcastEnd, EnterRecvLoop, Goto, table, Proc,
        Handler, ForwardOK, Forwarding, Unstored
  <2>3. QED
    BY <1>0, <2>1, <2>2, ForwardFrame
<1>24. ASSUME NEW s \in Stream, RecvErr(s)
      PROVE  ForwardInv'
  <2>1. \A r \in Stream : r # s =>
          env'[r] = env[r] /\ held'[r] = held[r] /\ pc'[r] = pc[r]
    BY <1>24 DEF RecvErr, Goto, table, counters, locals
  <2>2. s \in Stream => ForwardOK(s)'
    BY <1>24 DEF RecvErr, Goto, table, counters, locals, Proc,
        Handler, ForwardOK, Forwarding, Unstored
  <2>3. QED
    BY <1>0, <2>1, <2>2, ForwardFrame
<1>25. ASSUME NEW s \in Stream, SenderDeliver(s)
      PROVE  ForwardInv'
  <2>1. \A r \in Stream :
          env'[r] = env[r] /\ held'[r] = held[r] /\ pc'[r] = pc[r]
    BY <1>25 DEF SenderDeliver, table, counters, locals
  <2>2. QED
    BY <1>0, <2>1, ForwardFrame
<1>26. ASSUME NEW s \in Stream, SenderCtxDone(s)
      PROVE  ForwardInv'
  <2>1. \A r \in Stream :
          env'[r] = env[r] /\ held'[r] = held[r] /\ pc'[r] = pc[r]
    BY <1>26 DEF SenderCtxDone, table, counters, locals
  <2>2. QED
    BY <1>0, <2>1, ForwardFrame
<1>27. ASSUME NEW s \in Stream, SenderNil(s)
      PROVE  ForwardInv'
  <2>1. \A r \in Stream :
          env'[r] = env[r] /\ held'[r] = held[r] /\ pc'[r] = pc[r]
    BY <1>27 DEF SenderNil, table, counters, locals
  <2>2. QED
    BY <1>0, <2>1, ForwardFrame
<1>28. ASSUME Stopped
      PROVE  ForwardInv'
  <2>1. \A r \in Stream :
          env'[r] = env[r] /\ held'[r] = held[r] /\ pc'[r] = pc[r]
    BY <1>28 DEF Stopped, vars
  <2>2. QED
    BY <1>0, <2>1, ForwardFrame
<1>29. CASE UNCHANGED vars
  <2>1. \A r \in Stream :
          env'[r] = env[r] /\ held'[r] = held[r] /\ pc'[r] = pc[r]
    BY <1>29 DEF vars
  <2>2. QED
    BY <1>0, <2>1, ForwardFrame
<1>30. QED
  BY <1>dc, <1>1, <1>2, <1>3, <1>4, <1>5, <1>6, <1>7, <1>8, <1>9, <1>10, <1>11, <1>12,
     <1>13, <1>14, <1>15, <1>16, <1>17, <1>18, <1>19, <1>20, <1>21, <1>22,
     <1>23, <1>24, <1>25, <1>26, <1>27, <1>28, <1>29
  DEF Next, ClientStep, RegisterStep, UnregisterStep, ForwardStep, SenderStep

-----------------------------------------------------------------------------
\* The inductive invariant: it holds initially and every step keeps it.
LEMMA InvInit == Init => Inv
BY RelayAssumption DEF Init, Inv, TypeOK, TableInv, ClosedInv, NodeInv, ForwardInv,
   ForwardOK, Forwarding, Unstored, Handler, Proc, PC

LEMMA InvNext == Inv /\ [Next]_vars => Inv'
BY TypeStep, TableStep, ClosedStep, NodeStep, ForwardInvStep DEF Inv

\* The inductive invariant of the session table holds in every reachable state.
THEOREM Invariance == Spec => []Inv
BY InvInit, InvNext, PTL DEF Spec

\* Type correctness of the relay, the bound on every SendChan included.
THEOREM TypeCorrect == Spec => []TypeOK
<1>1. Inv => TypeOK
  BY DEF Inv
<1>2. QED
  BY <1>1, Invariance, PTL

\* The table holds no session of a stream that has ended, whichever handlers of
\* that node register and unregister at the same time.
THEOREM DeadSessionsLeave == Spec => []NoDeadSession
<1>1. Inv => NoDeadSession
  BY RelayAssumption DEF Inv, TableInv, NoDeadSession, Unstored
<1>2. QED
  BY <1>1, Invariance, PTL

-----------------------------------------------------------------------------
\* LoadAndDelete hands every Session to one caller, and an entry is never closed:
\* no close() of the session table panics.
LEMMA TakeClosesOnce ==
    ASSUME Inv, NEW n \in Node, NoDoubleClose, TakeAndClose(n)
    PROVE  NoDoubleClose'
<1>1. sessions[n] \notin closed
  <2>1. None \notin closed
    BY RelayAssumption DEF Inv, TypeOK, Handler
  <2>2. QED
    BY <2>1 DEF Inv, TableInv
<1>2. QED
  BY <1>1 DEF TakeAndClose, NoDoubleClose

\* Only RegisterReplace and UnregisterTake close a SendChan, both through the table.
LEMMA NoDoubleCloseStep == Inv /\ NoDoubleClose /\ [Next]_vars => NoDoubleClose'
<1> SUFFICES ASSUME Inv, NoDoubleClose, [Next]_vars PROVE NoDoubleClose'
  OBVIOUS
<1>1. ASSUME NEW s \in Stream, NEW n \in Node, OpenStream(s, n)
      PROVE  NoDoubleClose'
  BY <1>1 DEF OpenStream, NoDoubleClose
<1>2. ASSUME NEW s \in Stream, NEW n \in Node, NEW t \in Target,
             OpenStreamWithPayload(s, n, t)
      PROVE  NoDoubleClose'
  BY <1>2 DEF OpenStreamWithPayload, NoDoubleClose
<1>3. ASSUME NEW s \in Stream, OpenStreamOtherType(s)
      PROVE  NoDoubleClose'
  BY <1>3 DEF OpenStreamOtherType, NoDoubleClose
<1>4. ASSUME NEW s \in Stream, NEW n \in Node, NEW t \in Target,
             RecvEnvelope(s, n, t)
      PROVE  NoDoubleClose'
  BY <1>4 DEF RecvEnvelope, NoDoubleClose
<1>5. ASSUME NEW s \in Stream, NEW c \in Channel, Subscribe(s, c)
      PROVE  NoDoubleClose'
  BY <1>5 DEF Subscribe, NoDoubleClose
<1>6. ASSUME NEW s \in Stream, NEW c \in Channel, Unsubscribe(s, c)
      PROVE  NoDoubleClose'
  BY <1>6 DEF Unsubscribe, NoDoubleClose
<1>7. ASSUME NEW s \in Stream, RecvEOF(s)
      PROVE  NoDoubleClose'
  BY <1>7 DEF RecvEOF, NoDoubleClose
<1>8. ASSUME NEW s \in Stream, CancelStream(s)
      PROVE  NoDoubleClose'
  BY <1>8 DEF CancelStream, NoDoubleClose
<1>9. ASSUME NEW k \in Call, NEW n \in Node, ConnectToRelay(k, n)
      PROVE  NoDoubleClose'
  BY <1>9 DEF ConnectToRelay, NoDoubleClose
<1>10. ASSUME NEW b \in Ban, NEW n \in Node, AddToBlacklist(b, n)
      PROVE  NoDoubleClose'
  BY <1>10 DEF AddToBlacklist, NoDoubleClose
<1>11. ASSUME NEW n \in Node, RemoveFromBlacklist(n)
      PROVE  NoDoubleClose'
  BY <1>11 DEF RemoveFromBlacklist, NoDoubleClose
<1>12. ASSUME NEW h \in Handler, RegisterCheck(h)
      PROVE  NoDoubleClose'
  BY <1>12 DEF RegisterCheck, NoDoubleClose
<1>13. ASSUME NEW h \in Handler, RegisterReplace(h)
      PROVE  NoDoubleClose'
  <2>1. node[h] \in Node
    BY <1>13 DEF Inv, NodeInv, RegisterReplace, Proc
  <2>2. QED
    BY <1>13, <2>1, TakeClosesOnce DEF RegisterReplace
<1>14. ASSUME NEW h \in Handler, RegisterStore(h)
      PROVE  NoDoubleClose'
  BY <1>14 DEF RegisterStore, NoDoubleClose
<1>15. ASSUME NEW h \in Handler, RegisterCount(h)
      PROVE  NoDoubleClose'
  BY <1>15 DEF RegisterCount, NoDoubleClose
<1>16. ASSUME NEW p \in Stream \cup Ban, UnregisterTake(p)
      PROVE  NoDoubleClose'
  <2>1. node[p] \in Node
    BY <1>16 DEF Inv, NodeInv, UnregisterTake, Proc, Handler
  <2>2. QED
    BY <1>16, <2>1, TakeClosesOnce DEF UnregisterTake
<1>17. ASSUME NEW p \in Stream \cup Ban, UnregisterCount(p)
      PROVE  NoDoubleClose'
  BY <1>17 DEF UnregisterCount, NoDoubleClose
<1>18. ASSUME NEW s \in Stream, ForwardCheck(s)
      PROVE  NoDoubleClose'
  BY <1>18 DEF ForwardCheck, NoDoubleClose
<1>19. ASSUME NEW s \in Stream, DirectLookup(s)
      PROVE  NoDoubleClose'
  BY <1>19 DEF DirectLookup, NoDoubleClose
<1>20. ASSUME NEW s \in Stream, DirectSend(s)
      PROVE  NoDoubleClose'
  BY <1>20 DEF DirectSend, NoDoubleClose
<1>21. ASSUME NEW s \in Stream, NEW n \in Node, BroadcastVisit(s, n)
      PROVE  NoDoubleClose'
  BY <1>21 DEF BroadcastVisit, NoDoubleClose
<1>22. ASSUME NEW s \in Stream, BroadcastSend(s)
      PROVE  NoDoubleClose'
  BY <1>22 DEF BroadcastSend, NoDoubleClose
<1>dc. ASSUME NEW s \in Stream, DirectCount(s)
      PROVE  NoDoubleClose'
  BY <1>dc DEF DirectCount, NoDoubleClose
<1>23. ASSUME NEW s \in Stream, BroadcastEnd(s)
      PROVE  NoDoubleClose'
  BY <1>23 DEF BroadcastEnd, NoDoubleClose
<1>24. ASSUME NEW s \in Stream, RecvErr(s)
      PROVE  NoDoubleClose'
  BY <1>24 DEF RecvErr, NoDoubleClose
<1>25. ASSUME NEW s \in Stream, SenderDeliver(s)
      PROVE  NoDoubleClose'
  BY <1>25 DEF SenderDeliver, NoDoubleClose
<1>26. ASSUME NEW s \in Stream, SenderCtxDone(s)
      PROVE  NoDoubleClose'
  BY <1>26 DEF SenderCtxDone, NoDoubleClose
<1>27. ASSUME NEW s \in Stream, SenderNil(s)
      PROVE  NoDoubleClose'
  BY <1>27 DEF SenderNil, NoDoubleClose
<1>28. ASSUME Stopped
      PROVE  NoDoubleClose'
  BY <1>28 DEF Stopped, vars, NoDoubleClose
<1>29. CASE UNCHANGED vars
  BY <1>29 DEF vars, NoDoubleClose
<1>30. QED
  BY <1>dc, <1>1, <1>2, <1>3, <1>4, <1>5, <1>6, <1>7, <1>8, <1>9, <1>10, <1>11, <1>12,
     <1>13, <1>14, <1>15, <1>16, <1>17, <1>18, <1>19, <1>20, <1>21, <1>22,
     <1>23, <1>24, <1>25, <1>26, <1>27, <1>28, <1>29
  DEF Next, ClientStep, RegisterStep, UnregisterStep, ForwardStep, SenderStep

\* No SendChan is ever closed twice, so no close() in session_manager.go panics,
\* however RegisterSession, UnregisterSession and AddToBlacklist interleave.
THEOREM ClosedAtMostOnce == Spec => []NoDoubleClose
<1>1. Init => NoDoubleClose
  BY DEF Init, NoDoubleClose
<1>2. QED
  BY <1>1, Invariance, NoDoubleCloseStep, PTL DEF Spec

-----------------------------------------------------------------------------
\* Every registration past the check of a blacklisted node is one of its racers.
PassedInv ==
    \A n \in blacklist : \A h \in Handler :
        node[h] = n /\ pc[h] \in {"replace", "store"} => h \in racers[n]

BanInv == PassedInv /\ BannedOnlyByRace

\* A blacklisted node passes no check, so its racers are those of the ban.
LEMMA PassedStep == Inv /\ PassedInv /\ [Next]_vars => PassedInv'
<1> SUFFICES ASSUME Inv, PassedInv, [Next]_vars PROVE PassedInv'
  OBVIOUS
<1> USE RelayAssumption
    DEF Inv, TypeOK, PassedInv, Handler, Proc
<1>1. ASSUME NEW s \in Stream, NEW n \in Node, OpenStream(s, n)
      PROVE  PassedInv'
  BY <1>1 DEF OpenStream, Goto, table, counters, locals
<1>2. ASSUME NEW s \in Stream, NEW n \in Node, NEW t \in Target,
             OpenStreamWithPayload(s, n, t)
      PROVE  PassedInv'
  BY <1>2 DEF OpenStreamWithPayload, Goto, NewEnvelope, table, counters
<1>3. ASSUME NEW s \in Stream, OpenStreamOtherType(s)
      PROVE  PassedInv'
  BY <1>3 DEF OpenStreamOtherType, table, counters, locals
<1>4. ASSUME NEW s \in Stream, NEW n \in Node, NEW t \in Target,
             RecvEnvelope(s, n, t)
      PROVE  PassedInv'
  BY <1>4 DEF RecvEnvelope, Goto, NewEnvelope, table, counters
<1>5. ASSUME NEW s \in Stream, NEW c \in Channel, Subscribe(s, c)
      PROVE  PassedInv'
  BY <1>5 DEF Subscribe, counters, locals
<1>6. ASSUME NEW s \in Stream, NEW c \in Channel, Unsubscribe(s, c)
      PROVE  PassedInv'
  BY <1>6 DEF Unsubscribe, counters, locals
<1>7. ASSUME NEW s \in Stream, RecvEOF(s)
      PROVE  PassedInv'
  BY <1>7 DEF RecvEOF, Goto, table, counters, locals
<1>8. ASSUME NEW s \in Stream, CancelStream(s)
      PROVE  PassedInv'
  BY <1>8 DEF CancelStream, table, counters, locals
<1>9. ASSUME NEW k \in Call, NEW n \in Node, ConnectToRelay(k, n)
      PROVE  PassedInv'
  BY <1>9 DEF ConnectToRelay, Goto, table, counters, locals
<1>10. ASSUME NEW b \in Ban, NEW n \in Node, AddToBlacklist(b, n)
      PROVE  PassedInv'
  BY <1>10 DEF AddToBlacklist, Goto, counters, locals
<1>11. ASSUME NEW n \in Node, RemoveFromBlacklist(n)
      PROVE  PassedInv'
  BY <1>11 DEF RemoveFromBlacklist, counters, locals
<1>12. ASSUME NEW h \in Handler, RegisterCheck(h)
      PROVE  PassedInv'
  BY <1>12 DEF RegisterCheck, Goto, Return, table, counters, locals
<1>13. ASSUME NEW h \in Handler, RegisterReplace(h)
      PROVE  PassedInv'
  BY <1>13 DEF RegisterReplace, Goto, TakeAndClose, counters, locals
<1>14. ASSUME NEW h \in Handler, RegisterStore(h)
      PROVE  PassedInv'
  BY <1>14 DEF RegisterStore, Goto, counters, locals
<1>15. ASSUME NEW h \in Handler, RegisterCount(h)
      PROVE  PassedInv'
  BY <1>15 DEF RegisterCount, Goto, EnterRecvLoop, table
<1>16. ASSUME NEW p \in Stream \cup Ban, UnregisterTake(p)
      PROVE  PassedInv'
  BY <1>16 DEF UnregisterTake, Goto, Return, TakeAndClose, counters, locals
<1>17. ASSUME NEW p \in Stream \cup Ban, UnregisterCount(p)
      PROVE  PassedInv'
  BY <1>17 DEF UnregisterCount, Return, Goto, table, locals
<1>18. ASSUME NEW s \in Stream, ForwardCheck(s)
      PROVE  PassedInv'
  BY <1>18 DEF ForwardCheck, Goto, EnterRecvLoop, table, counters
<1>19. ASSUME NEW s \in Stream, DirectLookup(s)
      PROVE  PassedInv'
  BY <1>19 DEF DirectLookup, Goto, EnterRecvLoop, table, counters
<1>20. ASSUME NEW s \in Stream, DirectSend(s)
      PROVE  PassedInv'
  BY <1>20 DEF DirectSend, EnterRecvLoop, LeaveSent, Goto, Offers, Drops, Enqueue, table
<1>21. ASSUME NEW s \in Stream, NEW n \in Node, BroadcastVisit(s, n)
      PROVE  PassedInv'
  BY <1>21 DEF BroadcastVisit, Goto, table, counters
<1>22. ASSUME NEW s \in Stream, BroadcastSend(s)
      PROVE  PassedInv'
  BY <1>22 DEF BroadcastSend, Goto, Offers, Drops, Enqueue, table, counters
<1>dc. ASSUME NEW s \in Stream, DirectCount(s)
      PROVE  PassedInv'
  BY <1>dc DEF DirectCount, EnterRecvLoop, Goto, table
<1>23. ASSUME NEW s \in Stream, BroadcastEnd(s)
      PROVE  PassedInv'
  BY <1>23 DEF BroadcastEnd, EnterRecvLoop, Goto, table
<1>24. ASSUME NEW s \in Stream, RecvErr(s)
      PROVE  PassedInv'
  BY <1>24 DEF RecvErr, Goto, table, counters, locals
<1>25. ASSUME NEW s \in Stream, SenderDeliver(s)
      PROVE  PassedInv'
  BY <1>25 DEF SenderDeliver, table, counters, locals
<1>26. ASSUME NEW s \in Stream, SenderCtxDone(s)
      PROVE  PassedInv'
  BY <1>26 DEF SenderCtxDone, table, counters, locals
<1>27. ASSUME NEW s \in Stream, SenderNil(s)
      PROVE  PassedInv'
  BY <1>27 DEF SenderNil, table, counters, locals
<1>28. ASSUME Stopped
      PROVE  PassedInv'
  BY <1>28 DEF Stopped, vars
<1>29. CASE UNCHANGED vars
  BY <1>29 DEF vars
<1>30. QED
  BY <1>dc, <1>1, <1>2, <1>3, <1>4, <1>5, <1>6, <1>7, <1>8, <1>9, <1>10, <1>11, <1>12,
     <1>13, <1>14, <1>15, <1>16, <1>17, <1>18, <1>19, <1>20, <1>21, <1>22,
     <1>23, <1>24, <1>25, <1>26, <1>27, <1>28, <1>29
  DEF Next, ClientStep, RegisterStep, UnregisterStep, ForwardStep, SenderStep

\* A session of a blacklisted node is removed by the pending ban, or is a racer's.
LEMMA RaceStep == Inv /\ BanInv /\ [Next]_vars => BannedOnlyByRace'
<1> SUFFICES ASSUME Inv, BanInv, [Next]_vars PROVE BannedOnlyByRace'
  OBVIOUS
<1> USE RelayAssumption
    DEF Inv, TypeOK, NodeInv, BanInv, PassedInv, BannedOnlyByRace, Handler,
        Proc
<1>1. ASSUME NEW s \in Stream, NEW n \in Node, OpenStream(s, n)
      PROVE  BannedOnlyByRace'
  BY <1>1 DEF OpenStream, Goto, table, counters, locals
<1>2. ASSUME NEW s \in Stream, NEW n \in Node, NEW t \in Target,
             OpenStreamWithPayload(s, n, t)
      PROVE  BannedOnlyByRace'
  BY <1>2 DEF OpenStreamWithPayload, Goto, NewEnvelope, table, counters
<1>3. ASSUME NEW s \in Stream, OpenStreamOtherType(s)
      PROVE  BannedOnlyByRace'
  BY <1>3 DEF OpenStreamOtherType, table, counters, locals
<1>4. ASSUME NEW s \in Stream, NEW n \in Node, NEW t \in Target,
             RecvEnvelope(s, n, t)
      PROVE  BannedOnlyByRace'
  BY <1>4 DEF RecvEnvelope, Goto, NewEnvelope, table, counters
<1>5. ASSUME NEW s \in Stream, NEW c \in Channel, Subscribe(s, c)
      PROVE  BannedOnlyByRace'
  BY <1>5 DEF Subscribe, counters, locals
<1>6. ASSUME NEW s \in Stream, NEW c \in Channel, Unsubscribe(s, c)
      PROVE  BannedOnlyByRace'
  BY <1>6 DEF Unsubscribe, counters, locals
<1>7. ASSUME NEW s \in Stream, RecvEOF(s)
      PROVE  BannedOnlyByRace'
  BY <1>7 DEF RecvEOF, Goto, table, counters, locals
<1>8. ASSUME NEW s \in Stream, CancelStream(s)
      PROVE  BannedOnlyByRace'
  BY <1>8 DEF CancelStream, table, counters, locals
<1>9. ASSUME NEW k \in Call, NEW n \in Node, ConnectToRelay(k, n)
      PROVE  BannedOnlyByRace'
  BY <1>9 DEF ConnectToRelay, Goto, table, counters, locals
<1>10. ASSUME NEW b \in Ban, NEW n \in Node, AddToBlacklist(b, n)
      PROVE  BannedOnlyByRace'
  BY <1>10 DEF AddToBlacklist, Goto, counters, locals
<1>11. ASSUME NEW n \in Node, RemoveFromBlacklist(n)
      PROVE  BannedOnlyByRace'
  BY <1>11 DEF RemoveFromBlacklist, counters, locals
<1>12. ASSUME NEW h \in Handler, RegisterCheck(h)
      PROVE  BannedOnlyByRace'
  BY <1>12 DEF RegisterCheck, Goto, Return, table, counters, locals
<1>13. ASSUME NEW h \in Handler, RegisterReplace(h)
      PROVE  BannedOnlyByRace'
  BY <1>13 DEF RegisterReplace, Goto, TakeAndClose, counters, locals
<1>14. ASSUME NEW h \in Handler, RegisterStore(h)
      PROVE  BannedOnlyByRace'
  BY <1>14 DEF RegisterStore, Goto, counters, locals
<1>15. ASSUME NEW h \in Handler, RegisterCount(h)
      PROVE  BannedOnlyByRace'
  BY <1>15 DEF RegisterCount, Goto, EnterRecvLoop, table
<1>16. ASSUME NEW p \in Stream \cup Ban, UnregisterTake(p)
      PROVE  BannedOnlyByRace'
  BY <1>16 DEF UnregisterTake, Goto, Return, TakeAndClose, counters, locals
<1>17. ASSUME NEW p \in Stream \cup Ban, UnregisterCount(p)
      PROVE  BannedOnlyByRace'
  BY <1>17 DEF UnregisterCount, Return, Goto, table, locals
<1>18. ASSUME NEW s \in Stream, ForwardCheck(s)
      PROVE  BannedOnlyByRace'
  BY <1>18 DEF ForwardCheck, Goto, EnterRecvLoop, table, counters
<1>19. ASSUME NEW s \in Stream, DirectLookup(s)
      PROVE  BannedOnlyByRace'
  BY <1>19 DEF DirectLookup, Goto, EnterRecvLoop, table, counters
<1>20. ASSUME NEW s \in Stream, DirectSend(s)
      PROVE  BannedOnlyByRace'
  BY <1>20 DEF DirectSend, EnterRecvLoop, LeaveSent, Goto, Offers, Drops, Enqueue, table
<1>21. ASSUME NEW s \in Stream, NEW n \in Node, BroadcastVisit(s, n)
      PROVE  BannedOnlyByRace'
  BY <1>21 DEF BroadcastVisit, Goto, table, counters
<1>22. ASSUME NEW s \in Stream, BroadcastSend(s)
      PROVE  BannedOnlyByRace'
  BY <1>22 DEF BroadcastSend, Goto, Offers, Drops, Enqueue, table, counters
<1>dc. ASSUME NEW s \in Stream, DirectCount(s)
      PROVE  BannedOnlyByRace'
  BY <1>dc DEF DirectCount, EnterRecvLoop, Goto, table
<1>23. ASSUME NEW s \in Stream, BroadcastEnd(s)
      PROVE  BannedOnlyByRace'
  BY <1>23 DEF BroadcastEnd, EnterRecvLoop, Goto, table
<1>24. ASSUME NEW s \in Stream, RecvErr(s)
      PROVE  BannedOnlyByRace'
  BY <1>24 DEF RecvErr, Goto, table, counters, locals
<1>25. ASSUME NEW s \in Stream, SenderDeliver(s)
      PROVE  BannedOnlyByRace'
  BY <1>25 DEF SenderDeliver, table, counters, locals
<1>26. ASSUME NEW s \in Stream, SenderCtxDone(s)
      PROVE  BannedOnlyByRace'
  BY <1>26 DEF SenderCtxDone, table, counters, locals
<1>27. ASSUME NEW s \in Stream, SenderNil(s)
      PROVE  BannedOnlyByRace'
  BY <1>27 DEF SenderNil, table, counters, locals
<1>28. ASSUME Stopped
      PROVE  BannedOnlyByRace'
  BY <1>28 DEF Stopped, vars
<1>29. CASE UNCHANGED vars
  BY <1>29 DEF vars
<1>30. QED
  BY <1>dc, <1>1, <1>2, <1>3, <1>4, <1>5, <1>6, <1>7, <1>8, <1>9, <1>10, <1>11, <1>12,
     <1>13, <1>14, <1>15, <1>16, <1>17, <1>18, <1>19, <1>20, <1>21, <1>22,
     <1>23, <1>24, <1>25, <1>26, <1>27, <1>28, <1>29
  DEF Next, ClientStep, RegisterStep, UnregisterStep, ForwardStep, SenderStep

\* Once AddToBlacklist has returned, a node that stays blacklisted is connected only
\* through a registration that had passed the check before the ban.
THEOREM BanIsRaceOnly == Spec => []BannedOnlyByRace
<1>1. Init => BanInv
  BY DEF Init, BanInv, PassedInv, BannedOnlyByRace
<1>2. Inv /\ BanInv /\ [Next]_vars => BanInv'
  BY PassedStep, RaceStep DEF BanInv
<1>3. BanInv => BannedOnlyByRace
  BY DEF BanInv
<1>4. QED
  BY <1>1, <1>2, <1>3, Invariance, PTL DEF Spec

-----------------------------------------------------------------------------
\* Envelope e may be in the SendChan of h: it names the node of the stream it came
\* from, and h is a stored session of its addressee.
Right(h, e) ==
    /\ pc[e.via] # "new" /\ e.sender = node[e.via]
    /\ pc[h] \notin Unstored
    /\ e.target = node[h] \/ (e.target \in Channel /\ e.sender # node[h])

BufInv == \A h \in Handler : \A i \in 1..Len(buf[h]) : Right(h, buf[h][i])
OutInv == \A s \in Stream : \A i \in 1..Len(out[s]) : Right(s, out[s][i])

\* What is right about an envelope in transit no later step undoes.
LEMMA RightStable ==
    ASSUME Inv, Stable, NEW h \in Handler, NEW e \in Envelope, Right(h, e)
    PROVE  Right(h, e)'
<1>1. h \in Proc /\ e.via \in Proc
  BY DEF Envelope, Proc, Handler
<1>2. pc[h] # "new"
  BY DEF Right, Unstored
<1>3. /\ node'[h] = node[h] /\ node'[e.via] = node[e.via]
      /\ pc'[e.via] # "new" /\ pc'[h] \notin Unstored
  BY <1>1, <1>2 DEF Stable, Right
<1>4. QED
  BY <1>3 DEF Right

\* The same, for the envelope that a step put at place i.
LEMMA RightNow ==
    ASSUME Inv, Stable, NEW h \in Handler, NEW i,
           \E e \in Envelope : e = buf'[h][i] /\ Right(h, e)
    PROVE  Right(h, buf[h][i])'
<1>1. PICK e \in Envelope : e = buf'[h][i] /\ Right(h, e)
  OBVIOUS
<1>2. Right(h, e)'
  BY <1>1, RightStable
<1>3. QED
  BY <1>1, <1>2 DEF Right

\* The same, for what the sender goroutine handed to stream.Send.
LEMMA RightOut ==
    ASSUME Inv, Stable, NEW h \in Handler, NEW i,
           \E e \in Envelope : e = out'[h][i] /\ Right(h, e)
    PROVE  Right(h, out[h][i])'
<1>1. PICK e \in Envelope : e = out'[h][i] /\ Right(h, e)
  OBVIOUS
<1>2. Right(h, e)'
  BY <1>1, RightStable
<1>3. QED
  BY <1>1, <1>2 DEF Right

\* A stream that is about to send holds a session of the addressee.
LEMMA SendRight ==
    ASSUME Inv, NEW s \in Stream, pc[s] \in {"send", "rsend"}
    PROVE  env[s] \in Envelope /\ held[s] \in Handler /\ Right(held[s], env[s])
<1>1. ForwardOK(s)
  BY DEF Inv, ForwardInv
<1>2. env[s] \in Envelope /\ held[s] \in Handler
  BY ForwardingTypes DEF Forwarding
<1>3. QED
  BY <1>1, <1>2 DEF ForwardOK, Forwarding, Right

\* A step that neither sends nor delivers.
LEMMA TrafficFrame ==
    ASSUME Inv, Stable, BufInv, OutInv, buf' = buf, out' = out
    PROVE  BufInv' /\ OutInv'
<1>1. BufInv'
  <2> SUFFICES ASSUME NEW h \in Handler, NEW i \in 1..Len(buf[h])
               PROVE  Right(h, buf[h][i])'
    BY DEF BufInv
  <2>1. buf[h][i] \in Envelope /\ Right(h, buf[h][i])
    BY DEF Inv, TypeOK, BufInv
  <2>2. QED
    BY <2>1, RightStable
<1>2. OutInv'
  <2> SUFFICES ASSUME NEW s \in Stream, NEW i \in 1..Len(out[s])
               PROVE  Right(s, out[s][i])'
    BY DEF OutInv
  <2>1. out[s][i] \in Envelope /\ Right(s, out[s][i]) /\ s \in Handler
    BY DEF Inv, TypeOK, OutInv, Handler
  <2>2. QED
    BY <2>1, RightStable
<1>3. QED
  BY <1>1, <1>2

\* A send appends an envelope to a session of its addressee.
LEMMA TrafficEnqueue ==
    ASSUME Inv, Stable, BufInv, OutInv, NEW s \in Stream,
           pc[s] \in {"send", "rsend"}, Enqueue(s), out' = out
    PROVE  BufInv' /\ OutInv'
<1>1. env[s] \in Envelope /\ held[s] \in Handler /\ Right(held[s], env[s])
  BY SendRight
<1>2. BufInv'
  <2> SUFFICES ASSUME NEW h \in Handler, NEW i \in (1..Len(buf[h]))'
               PROVE  Right(h, buf[h][i])'
    BY DEF BufInv
  <2>1. buf[h] \in Seq(Envelope)
    BY DEF Inv, TypeOK
  <2>2. buf'[h] = IF h = held[s] THEN Append(buf[h], env[s]) ELSE buf[h]
    BY <1>1 DEF Inv, TypeOK, Enqueue
  <2>3. \/ i \in 1..Len(buf[h]) /\ buf'[h][i] = buf[h][i]
        \/ h = held[s] /\ buf'[h][i] = env[s]
    BY <1>1, <2>1, <2>2
  <2>4. \E e \in Envelope : e = buf'[h][i] /\ Right(h, e)
    BY <1>1, <2>1, <2>3 DEF BufInv
  <2>5. QED
    BY <2>4, RightNow
<1>3. OutInv'
  <2> SUFFICES ASSUME NEW r \in Stream, NEW i \in 1..Len(out[r])
               PROVE  Right(r, out[r][i])'
    BY DEF OutInv
  <2>1. out[r][i] \in Envelope /\ Right(r, out[r][i]) /\ r \in Handler
    BY DEF Inv, TypeOK, OutInv, Handler
  <2>2. QED
    BY <2>1, RightStable
<1>4. QED
  BY <1>2, <1>3

\* A delivery moves the head of a SendChan.
LEMMA TrafficDeliver ==
    ASSUME Inv, Stable, BufInv, OutInv, NEW s \in Stream, SenderDeliver(s)
    PROVE  BufInv' /\ OutInv'
<1>1. s \in Handler /\ buf[s] \in Seq(Envelope) /\ buf[s] # <<>>
  BY DEF Inv, TypeOK, SenderDeliver, Handler
<1>2. Head(buf[s]) \in Envelope /\ Right(s, Head(buf[s]))
  BY <1>1 DEF BufInv
<1>3. BufInv'
  <2> SUFFICES ASSUME NEW h \in Handler, NEW i \in (1..Len(buf[h]))'
               PROVE  Right(h, buf[h][i])'
    BY DEF BufInv
  <2>1. buf[h] \in Seq(Envelope)
    BY DEF Inv, TypeOK
  <2>2. buf'[h] = IF h = s THEN Tail(buf[h]) ELSE buf[h]
    BY <1>1 DEF Inv, TypeOK, SenderDeliver
  <2>3. \E j \in 1..Len(buf[h]) : buf'[h][i] = buf[h][j]
    <3>1. CASE h = s
      <4>1. i + 1 \in 1..Len(buf[h]) /\ buf'[h][i] = buf[h][i + 1]
        BY <1>1, <2>1, <2>2, <3>1
      <4>2. QED
        BY <4>1
    <3>2. CASE h # s
      BY <2>2, <3>2
    <3>3. QED
      BY <3>1, <3>2
  <2>4. \E e \in Envelope : e = buf'[h][i] /\ Right(h, e)
    BY <2>1, <2>3 DEF BufInv
  <2>5. QED
    BY <2>4, RightNow
<1>4. OutInv'
  <2> SUFFICES ASSUME NEW r \in Stream, NEW i \in (1..Len(out[r]))'
               PROVE  Right(r, out[r][i])'
    BY DEF OutInv
  <2>1. out[r] \in Seq(Envelope) /\ r \in Handler
    BY DEF Inv, TypeOK, Handler
  <2>2. out'[r] = IF r = s THEN Append(out[r], Head(buf[s])) ELSE out[r]
    BY DEF Inv, TypeOK, SenderDeliver
  <2>3. \/ i \in 1..Len(out[r]) /\ out'[r][i] = out[r][i]
        \/ r = s /\ out'[r][i] = Head(buf[s])
    BY <1>2, <2>1, <2>2
  <2>4. \E e \in Envelope : e = out'[r][i] /\ Right(r, e)
    BY <1>2, <2>1, <2>3 DEF OutInv
  <2>5. QED
    BY <2>1, <2>4, RightOut
<1>5. QED
  BY <1>3, <1>4


TrafficInv == BufInv /\ OutInv

\* Every envelope in transit stays where it belongs.
LEMMA TrafficStep == Inv /\ TrafficInv /\ [Next]_vars => TrafficInv'
<1> SUFFICES ASSUME Inv, TrafficInv, [Next]_vars PROVE TrafficInv'
  OBVIOUS
<1>0. Stable
  BY StableStep
<1> USE DEF TrafficInv
<1>1. ASSUME NEW s \in Stream, NEW n \in Node, OpenStream(s, n)
      PROVE  TrafficInv'
  BY <1>1, <1>0, TrafficFrame DEF OpenStream
<1>2. ASSUME NEW s \in Stream, NEW n \in Node, NEW t \in Target,
             OpenStreamWithPayload(s, n, t)
      PROVE  TrafficInv'
  BY <1>2, <1>0, TrafficFrame DEF OpenStreamWithPayload
<1>3. ASSUME NEW s \in Stream, OpenStreamOtherType(s)
      PROVE  TrafficInv'
  BY <1>3, <1>0, TrafficFrame DEF OpenStreamOtherType
<1>4. ASSUME NEW s \in Stream, NEW n \in Node, NEW t \in Target,
             RecvEnvelope(s, n, t)
      PROVE  TrafficInv'
  BY <1>4, <1>0, TrafficFrame DEF RecvEnvelope
<1>5. ASSUME NEW s \in Stream, NEW c \in Channel, Subscribe(s, c)
      PROVE  TrafficInv'
  BY <1>5, <1>0, TrafficFrame DEF Subscribe
<1>6. ASSUME NEW s \in Stream, NEW c \in Channel, Unsubscribe(s, c)
      PROVE  TrafficInv'
  BY <1>6, <1>0, TrafficFrame DEF Unsubscribe
<1>7. ASSUME NEW s \in Stream, RecvEOF(s)
      PROVE  TrafficInv'
  BY <1>7, <1>0, TrafficFrame DEF RecvEOF
<1>8. ASSUME NEW s \in Stream, CancelStream(s)
      PROVE  TrafficInv'
  BY <1>8, <1>0, TrafficFrame DEF CancelStream
<1>9. ASSUME NEW k \in Call, NEW n \in Node, ConnectToRelay(k, n)
      PROVE  TrafficInv'
  BY <1>9, <1>0, TrafficFrame DEF ConnectToRelay
<1>10. ASSUME NEW b \in Ban, NEW n \in Node, AddToBlacklist(b, n)
      PROVE  TrafficInv'
  BY <1>10, <1>0, TrafficFrame DEF AddToBlacklist
<1>11. ASSUME NEW n \in Node, RemoveFromBlacklist(n)
      PROVE  TrafficInv'
  BY <1>11, <1>0, TrafficFrame DEF RemoveFromBlacklist
<1>12. ASSUME NEW h \in Handler, RegisterCheck(h)
      PROVE  TrafficInv'
  BY <1>12, <1>0, TrafficFrame DEF RegisterCheck
<1>13. ASSUME NEW h \in Handler, RegisterReplace(h)
      PROVE  TrafficInv'
  BY <1>13, <1>0, TrafficFrame DEF RegisterReplace
<1>14. ASSUME NEW h \in Handler, RegisterStore(h)
      PROVE  TrafficInv'
  BY <1>14, <1>0, TrafficFrame DEF RegisterStore
<1>15. ASSUME NEW h \in Handler, RegisterCount(h)
      PROVE  TrafficInv'
  BY <1>15, <1>0, TrafficFrame DEF RegisterCount
<1>16. ASSUME NEW p \in Stream \cup Ban, UnregisterTake(p)
      PROVE  TrafficInv'
  BY <1>16, <1>0, TrafficFrame DEF UnregisterTake
<1>17. ASSUME NEW p \in Stream \cup Ban, UnregisterCount(p)
      PROVE  TrafficInv'
  BY <1>17, <1>0, TrafficFrame DEF UnregisterCount
<1>18. ASSUME NEW s \in Stream, ForwardCheck(s)
      PROVE  TrafficInv'
  BY <1>18, <1>0, TrafficFrame DEF ForwardCheck
<1>19. ASSUME NEW s \in Stream, DirectLookup(s)
      PROVE  TrafficInv'
  BY <1>19, <1>0, TrafficFrame DEF DirectLookup
<1>20. ASSUME NEW s \in Stream, DirectSend(s)
      PROVE  TrafficInv'
  <2>1. CASE Enqueue(s)
    BY <1>20, <1>0, <2>1, TrafficEnqueue DEF DirectSend
  <2>2. CASE buf' = buf
    BY <1>20, <1>0, <2>2, TrafficFrame DEF DirectSend
  <2>3. QED
    BY <1>20, <2>1, <2>2 DEF DirectSend
<1>21. ASSUME NEW s \in Stream, NEW n \in Node, BroadcastVisit(s, n)
      PROVE  TrafficInv'
  BY <1>21, <1>0, TrafficFrame DEF BroadcastVisit
<1>22. ASSUME NEW s \in Stream, BroadcastSend(s)
      PROVE  TrafficInv'
  <2>1. CASE Enqueue(s)
    BY <1>22, <1>0, <2>1, TrafficEnqueue DEF BroadcastSend
  <2>2. CASE buf' = buf
    BY <1>22, <1>0, <2>2, TrafficFrame DEF BroadcastSend
  <2>3. QED
    BY <1>22, <2>1, <2>2 DEF BroadcastSend
<1>dc. ASSUME NEW s \in Stream, DirectCount(s)
      PROVE  TrafficInv'
  BY <1>dc, <1>0, TrafficFrame DEF DirectCount
<1>23. ASSUME NEW s \in Stream, BroadcastEnd(s)
      PROVE  TrafficInv'
  BY <1>23, <1>0, TrafficFrame DEF BroadcastEnd
<1>24. ASSUME NEW s \in Stream, RecvErr(s)
      PROVE  TrafficInv'
  BY <1>24, <1>0, TrafficFrame DEF RecvErr
<1>25. ASSUME NEW s \in Stream, SenderDeliver(s)
      PROVE  TrafficInv'
  BY <1>25, <1>0, TrafficDeliver
<1>26. ASSUME NEW s \in Stream, SenderCtxDone(s)
      PROVE  TrafficInv'
  BY <1>26, <1>0, TrafficFrame DEF SenderCtxDone
<1>27. ASSUME NEW s \in Stream, SenderNil(s)
      PROVE  TrafficInv'
  BY <1>27, <1>0, TrafficFrame DEF SenderNil
<1>28. ASSUME Stopped
      PROVE  TrafficInv'
  BY <1>28, <1>0, TrafficFrame DEF Stopped, vars
<1>29. CASE UNCHANGED vars
  BY <1>29, <1>0, TrafficFrame DEF vars
<1>30. QED
  BY <1>dc, <1>1, <1>2, <1>3, <1>4, <1>5, <1>6, <1>7, <1>8, <1>9, <1>10, <1>11, <1>12,
     <1>13, <1>14, <1>15, <1>16, <1>17, <1>18, <1>19, <1>20, <1>21, <1>22,
     <1>23, <1>24, <1>25, <1>26, <1>27, <1>28, <1>29
  DEF Next, ClientStep, RegisterStep, UnregisterStep, ForwardStep, SenderStep

\* Every envelope is where it belongs, in every reachable state.
LEMMA TrafficInvariance == Spec => []TrafficInv
<1>1. Init => TrafficInv
  BY DEF Init, TrafficInv, BufInv, OutInv
<1>2. QED
  BY <1>1, Invariance, TrafficStep, PTL DEF Spec

\* An index of a concatenation that is not in the first part is in the second.
LEMMA SecondPart ==
    ASSUME NEW a \in Nat, NEW b \in Nat, NEW i \in 1..(a + b), i \notin 1..a
    PROVE  i - a \in 1..b
OBVIOUS

\* What Traffic shows is in a SendChan or was sent.
LEMMA TrafficRight ==
    ASSUME Inv, TrafficInv, NEW h \in Handler, NEW i \in 1..Len(Traffic(h))
    PROVE  Right(h, Traffic(h)[i])
<1>1. buf[h] \in Seq(Envelope)
  BY DEF Inv, TypeOK
<1>2. CASE h \in Stream
  <2>1. out[h] \in Seq(Envelope) /\ Traffic(h) = out[h] \o buf[h]
    BY <1>2 DEF Inv, TypeOK, Traffic
  <2>2. i \in 1..(Len(out[h]) + Len(buf[h]))
    <3>1. Len(out[h] \o buf[h]) = Len(out[h]) + Len(buf[h])
      BY <1>1, <2>1
    <3>2. QED
      BY <2>1, <3>1
  <2>3. CASE i \in 1..Len(out[h])
    <3>1. Traffic(h)[i] = out[h][i]
      BY <1>1, <2>1, <2>2, <2>3
    <3>2. QED
      BY <1>2, <2>3, <3>1 DEF TrafficInv, OutInv
  <2>4. CASE i \notin 1..Len(out[h])
    <3>1. i - Len(out[h]) \in 1..Len(buf[h])
      <4>1. Len(out[h]) \in Nat /\ Len(buf[h]) \in Nat
        BY <1>1, <2>1
      <4>2. QED
        BY <2>2, <2>4, <4>1, SecondPart
    <3>2. Traffic(h)[i] = buf[h][i - Len(out[h])]
      BY <1>1, <2>1, <2>2, <2>4
    <3>3. QED
      BY <3>1, <3>2 DEF TrafficInv, BufInv
  <2>5. QED
    BY <2>3, <2>4
<1>3. CASE h \notin Stream
  <2>1. Traffic(h) = buf[h]
    BY <1>1, <1>3 DEF Traffic
  <2>2. QED
    BY <2>1 DEF TrafficInv, BufInv
<1>4. QED
  BY <1>2, <1>3

\* An envelope that reached any session carries the node id its stream was opened
\* with (the check in the receive loop of StreamMessages).
THEOREM SendersAreAuthentic == Spec => []SenderAuthentic
<1>1. Inv /\ TrafficInv => SenderAuthentic
  BY TrafficRight DEF SenderAuthentic, Right
<1>2. QED
  BY <1>1, Invariance, TrafficInvariance, PTL

\* A session receives only what is addressed to its node, or a broadcast of
\* another node.
THEOREM RoutingIsRight == Spec => []RoutedToAddressee
<1>1. Inv /\ TrafficInv => RoutedToAddressee
  BY TrafficRight DEF RoutedToAddressee, Right
<1>2. QED
  BY <1>1, Invariance, TrafficInvariance, PTL

-----------------------------------------------------------------------------
\* The sessions in the table, and the updates of activeConnections under way.
Connected == {n \in Node : sessions[n] # None}
Counting == {h \in Handler : pc[h] = "count"}
Leaving == {p \in Proc : pc[p] = "dec"}

\* The three sets grow by one element at a time, so they are finite.
CountInv ==
    /\ IsFiniteSet(Connected) /\ IsFiniteSet(Counting) /\ IsFiniteSet(Leaving)
    /\ NeverUndercounts

\* A finite set with one element more or less.
LEMMA OneMore ==
    ASSUME NEW S, IsFiniteSet(S), NEW x
    PROVE  /\ Cardinality(S) \in Nat
           /\ IsFiniteSet(S \cup {x}) /\ Cardinality(S \cup {x}) \in Nat
           /\ Cardinality(S \cup {x}) <= Cardinality(S) + 1
           /\ x \notin S => Cardinality(S \cup {x}) = Cardinality(S) + 1
           /\ IsFiniteSet(S \ {x}) /\ Cardinality(S \ {x}) \in Nat
           /\ Cardinality(S \ {x}) <= Cardinality(S)
           /\ x \in S => Cardinality(S \ {x}) = Cardinality(S) - 1
<1>1. Cardinality(S) \in Nat
  BY FS_CardinalityType
<1>2. /\ IsFiniteSet(S \cup {x})
      /\ Cardinality(S \cup {x}) = IF x \in S THEN Cardinality(S) ELSE Cardinality(S) + 1
  BY FS_AddElement
<1>3. /\ IsFiniteSet(S \ {x})
      /\ Cardinality(S \ {x}) = IF x \in S THEN Cardinality(S) - 1 ELSE Cardinality(S)
  BY FS_RemoveElement
<1>4. Cardinality(S \cup {x}) \in Nat /\ Cardinality(S \ {x}) \in Nat
  BY <1>2, <1>3, FS_CardinalityType
<1>5. QED
  BY <1>1, <1>2, <1>3, <1>4

\* The set of the calls at a place after one call has moved.
LEMMA MovedSets ==
    ASSUME TypeOK, NEW p \in Proc, NEW x \in PC, Goto(p, x)
    PROVE  /\ x # "count" => Counting' = Counting \ {p}
           /\ x = "count" /\ p \in Handler => Counting' = Counting \cup {p}
           /\ x # "dec" => Leaving' = Leaving \ {p}
           /\ x = "dec" => Leaving' = Leaving \cup {p}
<1>1. \A q \in Proc : pc'[q] = IF q = p THEN x ELSE pc[q]
  BY DEF TypeOK, Goto
<1>2. Handler \subseteq Proc
  BY DEF Proc
<1>3. QED
  BY <1>1, <1>2 DEF Counting, Leaving

\* A step that leaves the table and the counter alone and updates neither before nor
\* after it.
LEMMA CountFrame ==
    ASSUME CountInv, sessions' = sessions, activeConnections' = activeConnections,
           Counting' = Counting, Leaving' = Leaving
    PROVE  CountInv'
<1>1. Connected' = Connected
  BY DEF Connected
<1>2. QED
  BY <1>1 DEF CountInv, NeverUndercounts, Connected, Counting, Leaving

LEMMA CountMove ==
    ASSUME Inv, CountInv, sessions' = sessions, activeConnections' = activeConnections,
           NEW p \in Proc, pc[p] \notin {"count", "dec"},
           pc' = pc \/ \E x \in PC \ {"count", "dec"} : Goto(p, x)
    PROVE  CountInv'
<1>1. CASE pc' = pc
  BY <1>1, CountFrame DEF Counting, Leaving
<1>2. CASE \E x \in PC \ {"count", "dec"} : Goto(p, x)
  <2>1. PICK x \in PC : x \notin {"count", "dec"} /\ Goto(p, x)
    BY <1>2
  <2>2. Counting' = Counting \ {p} /\ Leaving' = Leaving \ {p}
    BY <2>1, MovedSets DEF Inv
  <2>3. p \notin Counting /\ p \notin Leaving
    BY DEF Counting, Leaving
  <2>4. QED
    BY <2>2, <2>3, CountFrame
<1>3. QED
  BY <1>1, <1>2

\* NeverUndercounts in terms of the three sets.
LEMMA CountMeaning ==
    NeverUndercounts <=>
        Cardinality(Connected) <= activeConnections + Cardinality(Counting)
                                    - Cardinality(Leaving)
BY DEF NeverUndercounts, Connected, Counting, Leaving

\* RegisterSession drops the session of the node without subtracting it.
LEMMA TakeUncounted ==
    ASSUME Inv, CountInv, NEW h \in Handler, RegisterReplace(h)
    PROVE  CountInv'
<1>1. h \in Proc /\ node[h] \in Node /\ pc[h] = "replace"
  BY DEF Inv, NodeInv, RegisterReplace, Proc
<1>2. Counting' = Counting \ {h} /\ Leaving' = Leaving \ {h}
  BY <1>1, MovedSets DEF Inv, RegisterReplace, PC
<1>3. h \notin Counting /\ h \notin Leaving
  BY <1>1 DEF Counting, Leaving
<1>4. Connected' = Connected \ {node[h]}
  BY <1>1 DEF Inv, TypeOK, RegisterReplace, TakeAndClose, Connected
<1>5. /\ IsFiniteSet(Connected') /\ Cardinality(Connected') <= Cardinality(Connected)
      /\ Cardinality(Connected') \in Nat /\ Cardinality(Connected) \in Nat
  BY <1>4, OneMore DEF CountInv
<1>6. Counting' = Counting /\ Leaving' = Leaving /\ activeConnections' = activeConnections
  BY <1>2, <1>3 DEF RegisterReplace, counters
<1>7. /\ activeConnections \in Int /\ Cardinality(Counting) \in Nat
      /\ Cardinality(Leaving) \in Nat
  BY FS_CardinalityType DEF Inv, TypeOK, CountInv
<1>8. Cardinality(Connected') <= activeConnections' + Cardinality(Counting')
                                   - Cardinality(Leaving')
  BY <1>5, <1>6, <1>7, CountMeaning DEF CountInv
<1>9. QED
  BY <1>5, <1>6, <1>8 DEF CountInv, NeverUndercounts, Connected, Counting, Leaving

\* RegisterSession stores the session before it adds to the counter.
LEMMA StoreCounted ==
    ASSUME Inv, CountInv, NEW h \in Handler, RegisterStore(h)
    PROVE  CountInv'
<1>1. h \in Proc /\ node[h] \in Node /\ pc[h] = "store"
  BY DEF Inv, NodeInv, RegisterStore, Proc
<1>2. Counting' = Counting \cup {h} /\ Leaving' = Leaving \ {h}
  BY <1>1, MovedSets DEF Inv, RegisterStore, PC
<1>3. h \notin Counting /\ h \notin Leaving
  BY <1>1 DEF Counting, Leaving
<1>4. Connected' = Connected \cup {node[h]}
  BY <1>1, RelayAssumption DEF Inv, TypeOK, RegisterStore, Connected, Handler
<1>5. /\ IsFiniteSet(Connected') /\ Cardinality(Connected') <= Cardinality(Connected) + 1
      /\ Cardinality(Connected') \in Nat /\ Cardinality(Connected) \in Nat
  BY <1>4, OneMore DEF CountInv
<1>6. /\ IsFiniteSet(Counting') /\ Cardinality(Counting') = Cardinality(Counting) + 1
      /\ Cardinality(Counting) \in Nat
  BY <1>2, <1>3, OneMore DEF CountInv
<1>7. /\ Leaving' = Leaving /\ activeConnections' = activeConnections
      /\ activeConnections \in Int /\ Cardinality(Leaving) \in Nat
  BY <1>2, <1>3, FS_CardinalityType DEF RegisterStore, counters, Inv, TypeOK, CountInv
<1>8. Cardinality(Connected') <= activeConnections' + Cardinality(Counting')
                                   - Cardinality(Leaving')
  BY <1>5, <1>6, <1>7, CountMeaning DEF CountInv
<1>9. QED
  BY <1>5, <1>6, <1>7, <1>8 DEF CountInv, NeverUndercounts, Connected, Counting, Leaving

\* The locked increment of RegisterSession.
LEMMA CountCounted ==
    ASSUME Inv, CountInv, NEW h \in Handler, RegisterCount(h)
    PROVE  CountInv'
<1>1. h \in Proc /\ pc[h] = "count"
  BY DEF RegisterCount, Proc
<1>2. \E x \in PC \ {"count", "dec"} : Goto(h, x)
  BY DEF RegisterCount, EnterRecvLoop, PC
<1>3. Counting' = Counting \ {h} /\ Leaving' = Leaving \ {h}
  BY <1>1, <1>2, MovedSets DEF Inv
<1>4. h \in Counting /\ h \notin Leaving
  BY <1>1 DEF Counting, Leaving
<1>5. /\ IsFiniteSet(Counting') /\ Cardinality(Counting') = Cardinality(Counting) - 1
      /\ Cardinality(Counting) \in Nat
  BY <1>3, <1>4, OneMore DEF CountInv
<1>6. Connected' = Connected
  BY DEF RegisterCount, table, Connected
<1>7. /\ Leaving' = Leaving /\ activeConnections' = activeConnections + 1
      /\ activeConnections \in Int
      /\ Cardinality(Leaving) \in Nat /\ Cardinality(Connected) \in Nat
  BY <1>3, <1>4, FS_CardinalityType DEF RegisterCount, Inv, TypeOK, CountInv
<1>8. Cardinality(Connected') <= activeConnections' + Cardinality(Counting')
                                   - Cardinality(Leaving')
  BY <1>5, <1>6, <1>7, CountMeaning DEF CountInv
<1>9. QED
  BY <1>5, <1>6, <1>7, <1>8 DEF CountInv, NeverUndercounts, Connected, Counting, Leaving

\* UnregisterSession subtracts only what it has taken from the table.
LEMMA TakeCounted ==
    ASSUME Inv, CountInv, NEW p \in Stream \cup Ban, UnregisterTake(p)
    PROVE  CountInv'
<1>1. p \in Proc /\ node[p] \in Node /\ pc[p] = "unreg"
  BY DEF Inv, NodeInv, UnregisterTake, Proc, Handler
<1>2. p \notin Counting /\ p \notin Leaving
  BY <1>1 DEF Counting, Leaving
<1>3. Connected' = Connected \ {node[p]} /\ activeConnections' = activeConnections
  BY <1>1 DEF Inv, TypeOK, UnregisterTake, TakeAndClose, Connected, counters
<1>4. /\ activeConnections \in Int /\ Cardinality(Counting) \in Nat
      /\ Cardinality(Leaving) \in Nat /\ Cardinality(Connected) \in Nat
  BY FS_CardinalityType DEF Inv, TypeOK, CountInv
<1>5. CASE sessions[node[p]] = None
  <2>1. Goto(p, "done")
    BY <1>5 DEF UnregisterTake, Return
  <2>2. Counting' = Counting /\ Leaving' = Leaving
    BY <1>1, <1>2, <2>1, MovedSets DEF Inv, PC
  <2>3. Connected' = Connected
    BY <1>3, <1>5 DEF Connected
  <2>4. QED
    BY <1>3, <2>2, <2>3 DEF CountInv, NeverUndercounts, Connected, Counting, Leaving
<1>6. CASE sessions[node[p]] # None
  <2>1. Goto(p, "dec")
    BY <1>6 DEF UnregisterTake
  <2>2. Counting' = Counting /\ Leaving' = Leaving \cup {p}
    BY <1>1, <1>2, <2>1, MovedSets DEF Inv, PC
  <2>3. IsFiniteSet(Leaving') /\ Cardinality(Leaving') = Cardinality(Leaving) + 1
    BY <1>2, <2>2, OneMore DEF CountInv
  <2>4. node[p] \in Connected
    BY <1>1, <1>6 DEF Connected
  <2>5. IsFiniteSet(Connected') /\ Cardinality(Connected') = Cardinality(Connected) - 1
    BY <1>3, <2>4, OneMore DEF CountInv
  <2>6. Cardinality(Connected') <= activeConnections' + Cardinality(Counting')
                                     - Cardinality(Leaving')
    BY <1>3, <1>4, <2>2, <2>3, <2>5, CountMeaning DEF CountInv
  <2>7. QED
    BY <2>2, <2>3, <2>5, <2>6 DEF CountInv, NeverUndercounts, Connected, Counting, Leaving
<1>7. QED
  BY <1>5, <1>6

\* The locked decrement of UnregisterSession.
LEMMA LeaveCounted ==
    ASSUME Inv, CountInv, NEW p \in Stream \cup Ban, UnregisterCount(p)
    PROVE  CountInv'
<1>1. p \in Proc /\ pc[p] = "dec" /\ Goto(p, "done")
  BY DEF UnregisterCount, Return, Proc, Handler
<1>2. p \notin Counting /\ p \in Leaving
  BY <1>1 DEF Counting, Leaving
<1>3. Counting' = Counting /\ Leaving' = Leaving \ {p}
  BY <1>1, <1>2, MovedSets DEF Inv, PC
<1>4. IsFiniteSet(Leaving') /\ Cardinality(Leaving') = Cardinality(Leaving) - 1
  BY <1>2, <1>3, OneMore DEF CountInv
<1>5. Connected' = Connected /\ activeConnections' = activeConnections - 1
  BY DEF UnregisterCount, table, Connected
<1>6. /\ activeConnections \in Int /\ Cardinality(Counting) \in Nat
      /\ Cardinality(Leaving) \in Nat /\ Cardinality(Connected) \in Nat
  BY FS_CardinalityType DEF Inv, TypeOK, CountInv
<1>7. Cardinality(Connected') <= activeConnections' + Cardinality(Counting')
                                   - Cardinality(Leaving')
  BY <1>3, <1>4, <1>5, <1>6, CountMeaning DEF CountInv
<1>8. QED
  BY <1>3, <1>4, <1>5, <1>7 DEF CountInv, NeverUndercounts, Connected, Counting, Leaving

\* Every step keeps the count.
LEMMA CountStep == Inv /\ CountInv /\ [Next]_vars => CountInv'
<1> SUFFICES ASSUME Inv, CountInv, [Next]_vars PROVE CountInv'
  OBVIOUS
<1>0. Stream \subseteq Proc /\ Call \subseteq Proc /\ Ban \subseteq Proc /\ Handler \subseteq Proc
  BY DEF Proc, Handler
<1>1. ASSUME NEW s \in Stream, NEW n \in Node, OpenStream(s, n)
      PROVE  CountInv'
  BY <1>1, <1>0, CountMove DEF OpenStream, table, counters, PC
<1>2. ASSUME NEW s \in Stream, NEW n \in Node, NEW t \in Target,
             OpenStreamWithPayload(s, n, t)
      PROVE  CountInv'
  BY <1>2, <1>0, CountMove DEF OpenStreamWithPayload, table, counters, PC
<1>3. ASSUME NEW s \in Stream, OpenStreamOtherType(s)
      PROVE  CountInv'
  BY <1>3, CountFrame DEF OpenStreamOtherType, table, counters, Counting, Leaving
<1>4. ASSUME NEW s \in Stream, NEW n \in Node, NEW t \in Target,
             RecvEnvelope(s, n, t)
      PROVE  CountInv'
  BY <1>4, <1>0, CountMove DEF RecvEnvelope, table, counters, PC
<1>5. ASSUME NEW s \in Stream, NEW c \in Channel, Subscribe(s, c)
      PROVE  CountInv'
  BY <1>5, CountFrame DEF Subscribe, counters, Counting, Leaving
<1>6. ASSUME NEW s \in Stream, NEW c \in Channel, Unsubscribe(s, c)
      PROVE  CountInv'
  BY <1>6, CountFrame DEF Unsubscribe, counters, Counting, Leaving
<1>7. ASSUME NEW s \in Stream, RecvEOF(s)
      PROVE  CountInv'
  BY <1>7, <1>0, CountMove DEF RecvEOF, table, counters, PC
<1>8. ASSUME NEW s \in Stream, CancelStream(s)
      PROVE  CountInv'
  BY <1>8, CountFrame DEF CancelStream, table, counters, Counting, Leaving
<1>9. ASSUME NEW k \in Call, NEW n \in Node, ConnectToRelay(k, n)
      PROVE  CountInv'
  BY <1>9, <1>0, CountMove DEF ConnectToRelay, table, counters, PC
<1>10. ASSUME NEW b \in Ban, NEW n \in Node, AddToBlacklist(b, n)
      PROVE  CountInv'
  BY <1>10, <1>0, CountMove DEF AddToBlacklist, counters, PC
<1>11. ASSUME NEW n \in Node, RemoveFromBlacklist(n)
      PROVE  CountInv'
  BY <1>11, CountFrame DEF RemoveFromBlacklist, counters, Counting, Leaving
<1>12. ASSUME NEW h \in Handler, RegisterCheck(h)
      PROVE  CountInv'
  BY <1>12, <1>0, CountMove DEF RegisterCheck, table, counters, Return, PC
<1>13. ASSUME NEW h \in Handler, RegisterReplace(h)
      PROVE  CountInv'
  BY <1>13, TakeUncounted
<1>14. ASSUME NEW h \in Handler, RegisterStore(h)
      PROVE  CountInv'
  BY <1>14, StoreCounted
<1>15. ASSUME NEW h \in Handler, RegisterCount(h)
      PROVE  CountInv'
  BY <1>15, CountCounted
<1>16. ASSUME NEW p \in Stream \cup Ban, UnregisterTake(p)
      PROVE  CountInv'
  BY <1>16, TakeCounted
<1>17. ASSUME NEW p \in Stream \cup Ban, UnregisterCount(p)
      PROVE  CountInv'
  BY <1>17, LeaveCounted
<1>18. ASSUME NEW s \in Stream, ForwardCheck(s)
      PROVE  CountInv'
  BY <1>18, <1>0, CountMove DEF ForwardCheck, table, counters, EnterRecvLoop, PC
<1>19. ASSUME NEW s \in Stream, DirectLookup(s)
      PROVE  CountInv'
  BY <1>19, <1>0, CountMove DEF DirectLookup, table, counters, EnterRecvLoop, PC
<1>20. ASSUME NEW s \in Stream, DirectSend(s)
      PROVE  CountInv'
  BY <1>20, <1>0, CountMove DEF DirectSend, table, counters, EnterRecvLoop, LeaveSent, PC
<1>21. ASSUME NEW s \in Stream, NEW n \in Node, BroadcastVisit(s, n)
      PROVE  CountInv'
  BY <1>21, <1>0, CountMove DEF BroadcastVisit, table, counters, PC
<1>22. ASSUME NEW s \in Stream, BroadcastSend(s)
      PROVE  CountInv'
  BY <1>22, <1>0, CountMove DEF BroadcastSend, table, counters, PC
<1>dc. ASSUME NEW s \in Stream, DirectCount(s)
      PROVE  CountInv'
  BY <1>dc, <1>0, CountMove DEF DirectCount, table, EnterRecvLoop, PC
<1>23. ASSUME NEW s \in Stream, BroadcastEnd(s)
      PROVE  CountInv'
  BY <1>23, <1>0, CountMove DEF BroadcastEnd, table, EnterRecvLoop, PC
<1>24. ASSUME NEW s \in Stream, RecvErr(s)
      PROVE  CountInv'
  BY <1>24, <1>0, CountMove DEF RecvErr, table, counters, PC
<1>25. ASSUME NEW s \in Stream, SenderDeliver(s)
      PROVE  CountInv'
  BY <1>25, CountFrame DEF SenderDeliver, table, counters, Counting, Leaving
<1>26. ASSUME NEW s \in Stream, SenderCtxDone(s)
      PROVE  CountInv'
  BY <1>26, CountFrame DEF SenderCtxDone, table, counters, Counting, Leaving
<1>27. ASSUME NEW s \in Stream, SenderNil(s)
      PROVE  CountInv'
  BY <1>27, CountFrame DEF SenderNil, table, counters, Counting, Leaving
<1>28. ASSUME Stopped
      PROVE  CountInv'
  BY <1>28, CountFrame DEF Stopped, vars, Counting, Leaving
<1>29. CASE UNCHANGED vars
  BY <1>29, CountFrame DEF vars, Counting, Leaving
<1>30. QED
  BY <1>dc, <1>1, <1>2, <1>3, <1>4, <1>5, <1>6, <1>7, <1>8, <1>9, <1>10, <1>11, <1>12,
     <1>13, <1>14, <1>15, <1>16, <1>17, <1>18, <1>19, <1>20, <1>21, <1>22,
     <1>23, <1>24, <1>25, <1>26, <1>27, <1>28, <1>29
  DEF Next, ClientStep, RegisterStep, UnregisterStep, ForwardStep, SenderStep

\* activeConnections never counts less than the sessions in the table, the updates of
\* RegisterSession and UnregisterSession that are under way included.
THEOREM CountCoversTable == Spec => []NeverUndercounts
<1>1. Init => CountInv
  <2> SUFFICES ASSUME Init PROVE CountInv
    OBVIOUS
  <2>1. Connected = {} /\ Counting = {} /\ Leaving = {} /\ activeConnections = 0
    BY DEF Init, Connected, Counting, Leaving, Proc
  <2>2. IsFiniteSet({}) /\ Cardinality({}) = 0
    BY FS_EmptySet
  <2>3. QED
    BY <2>1, <2>2, CountMeaning DEF CountInv
<1>2. CountInv => NeverUndercounts
  BY DEF CountInv
<1>3. QED
  BY <1>1, <1>2, CountStep, Invariance, PTL DEF Spec

-----------------------------------------------------------------------------
\* An envelope of a stream that a broadcast is handing out may be in the SendChan of h
\* only if the Range has been at the node of h and is not there now.
Visited(s, h) ==
    /\ pc[s] \in {"range", "rsend"} /\ node[h] \in seen[s]
    /\ pc[s] = "rsend" => node[h] # node[held[s]]

\* An envelope that reached h was read before the one its stream has in hand, or is that
\* one, handed out by a broadcast.
Before(h, e) ==
    /\ e.id <= lastId
    /\ env[e.via] # None =>
          /\ e.id <= env[e.via].id
          /\ e.id = env[e.via].id => Visited(e.via, h)

HandInv ==
    \A s \in Stream :
        /\ env[s] # None => env[s].id <= lastId
        /\ pc[s] = "rsend" => node[held[s]] \in seen[s]

PastInv == \A h \in Handler : \A i \in 1..Len(Traffic(h)) : Before(h, Traffic(h)[i])

OrderInv == HandInv /\ PastInv /\ InOrderOnce

\* A step leaves the envelope of a stream in hand, with what has been visited, or drops
\* it, or reads a new one.
Keeps(s) ==
    /\ env'[s] = env[s]
    /\ \A h \in Handler : pc[h] \notin Unstored /\ Visited(s, h) => Visited(s, h)'
Reads(s) == env'[s] \in Envelope /\ env'[s].id = lastId + 1 /\ lastId' = lastId + 1

Advance ==
    /\ lastId' \in Nat /\ lastId <= lastId'
    /\ \A s \in Stream : env'[s] = None \/ Keeps(s) \/ Reads(s)

\* What was read before stays read before.
LEMMA BeforeStep ==
    ASSUME Inv, Advance, NEW h \in Handler, pc[h] \notin Unstored,
           NEW e \in Envelope, Before(h, e)
    PROVE  Before(h, e)'
<1>1. PICK s \in Stream : e.via = s
  BY DEF Envelope
<1>2. e.id \in Nat /\ lastId \in Nat /\ lastId' \in Nat /\ lastId <= lastId' /\ e.id <= lastId
  BY DEF Envelope, Inv, TypeOK, Advance, Before
<1>3. e.id <= lastId'
  BY <1>2
<1>4. CASE env'[s] = None
  BY <1>1, <1>3, <1>4 DEF Before
<1>5. CASE Keeps(s)
  <2>1. env'[s] = env[s] /\ (Visited(s, h) => Visited(s, h)')
    BY <1>5 DEF Keeps
  <2>2. env[s] # None => e.id <= env[s].id /\ (e.id = env[s].id => Visited(s, h))
    BY <1>1 DEF Before
  <2>3. env'[s] # None => e.id <= env'[s].id /\ (e.id = env'[s].id => Visited(s, h)')
    BY <2>1, <2>2
  <2>4. QED
    BY <1>1, <1>3, <2>3 DEF Before, Visited
<1>6. CASE Reads(s)
  <2>1. e.id <= env'[s].id /\ e.id # env'[s].id
    BY <1>2, <1>6 DEF Reads
  <2>2. QED
    BY <1>1, <1>3, <2>1 DEF Before
<1>7. QED
  BY <1>4, <1>5, <1>6 DEF Advance

\* The traffic of a session is a sequence of envelopes.
LEMMA TrafficType ==
    ASSUME Inv, NEW h \in Handler
    PROVE  /\ Traffic(h) \in Seq(Envelope) /\ Len(Traffic(h)) \in Nat
           /\ \A i \in 1..Len(Traffic(h)) : Traffic(h)[i] \in Envelope
<1>1. Traffic(h) \in Seq(Envelope)
  <2>1. CASE h \in Stream
    BY <2>1 DEF Inv, TypeOK, Traffic
  <2>2. CASE h \notin Stream
    BY <2>2 DEF Inv, TypeOK, Traffic
  <2>3. QED
    BY <2>1, <2>2
<1>2. QED
  BY <1>1

\* A step that neither sends nor delivers.
LEMMA OrderFrame ==
    ASSUME Inv, TrafficInv, OrderInv, Advance, HandInv',
           \A h \in Handler : Traffic(h)' = Traffic(h)
    PROVE  OrderInv'
<1>1. PastInv'
  <2> SUFFICES ASSUME NEW h \in Handler, NEW i \in 1..Len(Traffic(h))
               PROVE  Before(h, Traffic(h)[i])'
    BY DEF PastInv
  <2>1. PICK e \in Envelope : e = Traffic(h)[i] /\ Before(h, e) /\ Right(h, e)
    BY TrafficType, TrafficRight DEF OrderInv, PastInv
  <2>2. Before(h, e)'
    BY <2>1, BeforeStep DEF Right
  <2>3. e = Traffic(h)'[i]
    BY <2>1
  <2>4. QED
    BY <2>2, <2>3 DEF Before, Visited
<1>2. InOrderOnce'
  BY DEF OrderInv, InOrderOnce
<1>3. QED
  BY <1>1, <1>2 DEF OrderInv

\* What a send does to the traffic.
LEMMA TrafficAppend ==
    ASSUME Inv, NEW s \in Stream, NEW g \in Handler, NEW e \in Envelope,
           held[s] = g, env[s] = e, Enqueue(s), out' = out
    PROVE  /\ Traffic(g)' = Append(Traffic(g), e)
           /\ \A h \in Handler : h # g => Traffic(h)' = Traffic(h)
<1>1. /\ buf' = [buf EXCEPT ![g] = Append(buf[g], e)] /\ buf[g] \in Seq(Envelope)
      /\ buf'[g] = Append(buf[g], e)
      /\ \A h \in Handler : h # g => buf'[h] = buf[h]
  BY DEF Enqueue, Inv, TypeOK
<1>2. CASE g \in Stream
  <2>1. PICK o \in Seq(Envelope), b \in Seq(Envelope) : o = out[g] /\ b = buf[g]
    BY <1>1, <1>2 DEF Inv, TypeOK
  <2>2. o \o Append(b, e) = Append(o \o b, e)
    OBVIOUS
  <2>3. QED
    BY <1>1, <1>2, <2>1, <2>2 DEF Traffic
<1>3. CASE g \notin Stream
  <2>1. PICK b \in Seq(Envelope) : b = buf[g]
    BY <1>1
  <2>2. <<>> \o b = b /\ <<>> \o Append(b, e) = Append(b, e)
    OBVIOUS
  <2>3. QED
    BY <1>1, <1>3, <2>1, <2>2 DEF Traffic
<1>4. QED
  BY <1>2, <1>3

\* The head of a sequence moved to the end of the one before it.
LEMMA HeadMoves ==
    ASSUME NEW o \in Seq(Envelope), NEW b \in Seq(Envelope), b # <<>>
    PROVE  Append(o, Head(b)) \o Tail(b) = o \o b
<1>1. PICK x \in Envelope : x = Head(b) /\ x = b[1]
  OBVIOUS
<1>2. PICK t \in Seq(Envelope) : /\ t = Tail(b) /\ Len(t) = Len(b) - 1
                                 /\ \A i \in 1..Len(t) : t[i] = b[i + 1]
  <2>1. /\ Tail(b) \in Seq(Envelope) /\ Len(Tail(b)) = Len(b) - 1
        /\ \A i \in 1..Len(Tail(b)) : Tail(b)[i] = b[i + 1]
    OBVIOUS
  <2>2. QED
    BY <2>1
<1>3. PICK a \in Seq(Envelope) : /\ a = Append(o, x) /\ Len(a) = Len(o) + 1
                                 /\ a[Len(o) + 1] = x /\ \A i \in 1..Len(o) : a[i] = o[i]
  <2>1. /\ Append(o, x) \in Seq(Envelope) /\ Len(Append(o, x)) = Len(o) + 1
        /\ Append(o, x)[Len(o) + 1] = x /\ \A i \in 1..Len(o) : Append(o, x)[i] = o[i]
    OBVIOUS
  <2>2. QED
    BY <2>1
<1>4. Len(o) \in Nat /\ Len(b) \in Nat /\ Len(b) > 0
  OBVIOUS
<1>5. a \o t \in Seq(Envelope) /\ o \o b \in Seq(Envelope)
  BY ConcatProperties
<1>6. Len(a \o t) = Len(o) + Len(b) /\ Len(o \o b) = Len(o) + Len(b)
  BY <1>2, <1>3, <1>4, ConcatProperties
<1>7. ASSUME NEW i \in 1..Len(o) + Len(b) PROVE (a \o t)[i] = (o \o b)[i]
  <2>1. (a \o t)[i] = IF i <= Len(a) THEN a[i] ELSE t[i - Len(a)]
    BY <1>2, <1>3, <1>4, ConcatProperties
  <2>2. (o \o b)[i] = IF i <= Len(o) THEN o[i] ELSE b[i - Len(o)]
    BY ConcatProperties
  <2>3. CASE i <= Len(o)
    BY <1>3, <1>4, <2>1, <2>2, <2>3
  <2>4. CASE i = Len(o) + 1
    BY <1>1, <1>3, <1>4, <2>1, <2>2, <2>4
  <2>5. CASE i > Len(o) + 1
    <3>1. i - Len(a) \in 1..Len(t) /\ (i - Len(a)) + 1 = i - Len(o)
      BY <1>2, <1>3, <1>4, <2>5
    <3>2. t[i - Len(a)] = b[i - Len(o)]
      BY <1>2, <3>1
    <3>3. QED
      BY <1>3, <1>4, <2>1, <2>2, <2>5, <3>2
  <2>6. i \in Int /\ (i <= Len(o) \/ i = Len(o) + 1 \/ i > Len(o) + 1)
    BY <1>4
  <2>7. QED
    BY <2>3, <2>4, <2>5, <2>6
<1>8. a \o t = o \o b
  BY <1>5, <1>6, <1>7, SeqEqual
<1>9. QED
  BY <1>1, <1>2, <1>3, <1>8

\* A delivery moves an envelope from the SendChan to the client: the traffic stays.
LEMMA TrafficKept ==
    ASSUME Inv, NEW s \in Stream, SenderDeliver(s)
    PROVE  \A h \in Handler : Traffic(h)' = Traffic(h)
<1>1. PICK o \in Seq(Envelope), b \in Seq(Envelope) : o = out[s] /\ b = buf[s] /\ b # <<>>
  BY DEF Inv, TypeOK, SenderDeliver, Handler
<1>2. Append(o, Head(b)) \o Tail(b) = o \o b
  BY <1>1, HeadMoves
<1>3. /\ out'[s] = Append(o, Head(b)) /\ buf'[s] = Tail(b)
      /\ \A h \in Stream : h # s => out'[h] = out[h]
      /\ \A h \in Handler : h # s => buf'[h] = buf[h]
  BY <1>1 DEF Inv, TypeOK, SenderDeliver, Handler
<1>4. QED
  BY <1>1, <1>2, <1>3 DEF Traffic

\* The order of a sequence that gets a later envelope.
LEMMA OrderAppend ==
    ASSUME NEW q \in Seq(Envelope), NEW e \in Envelope,
           \A i, j \in 1..Len(q) : i < j /\ q[i].via = q[j].via => q[i].id < q[j].id,
           \A i \in 1..Len(q) : q[i].via = e.via => q[i].id < e.id
    PROVE  \A i, j \in 1..Len(Append(q, e)) :
              i < j /\ Append(q, e)[i].via = Append(q, e)[j].via
                 => Append(q, e)[i].id < Append(q, e)[j].id
<1> SUFFICES ASSUME NEW i \in 1..Len(Append(q, e)), NEW j \in 1..Len(Append(q, e)), i < j,
                    Append(q, e)[i].via = Append(q, e)[j].via
             PROVE  Append(q, e)[i].id < Append(q, e)[j].id
  OBVIOUS
<1>1. Len(q) \in Nat /\ Len(Append(q, e)) = Len(q) + 1 /\ Append(q, e)[Len(q) + 1] = e
  OBVIOUS
<1>2. i \in 1..Len(q) /\ Append(q, e)[i] = q[i]
  BY <1>1
<1>3. CASE j = Len(q) + 1
  BY <1>1, <1>2, <1>3
<1>4. CASE j # Len(q) + 1
  <2>1. j \in 1..Len(q) /\ Append(q, e)[j] = q[j]
    BY <1>1, <1>4
  <2>2. QED
    BY <1>2, <2>1
<1>5. QED
  BY <1>3, <1>4

\* A send: what the session has from this stream was read before.
LEMMA OrderEnqueue ==
    ASSUME Inv, TrafficInv, OrderInv, Stable, Advance, HandInv', NEW s \in Stream,
           pc[s] \in {"send", "rsend"}, Enqueue(s), out' = out,
           \/ env'[s] = None
           \/ env'[s] = env[s] /\ pc[s] = "rsend" /\ pc'[s] = "range" /\ seen'[s] = seen[s]
    PROVE  OrderInv'
<1>1. PICK e \in Envelope, g \in Handler :
         e = env[s] /\ g = held[s] /\ Right(g, e) /\ e.via = s
  BY SendRight DEF Inv, ForwardInv, ForwardOK, Forwarding
<1>a. e # None
  BY NoneAssumption
<1>2. /\ Traffic(g)' = Append(Traffic(g), e)
      /\ \A h \in Handler : h # g => Traffic(h)' = Traffic(h)
  BY <1>1, TrafficAppend
<1>3. PICK q \in Seq(Envelope) : q = Traffic(g)
  BY TrafficType
<1>b. \A i \in 1..Len(q) : q[i] \in Envelope
  BY <1>3
<1>4. ~Visited(s, g)
  BY <1>1 DEF Visited
<1>5. ASSUME NEW i \in 1..Len(q), q[i].via = e.via PROVE q[i].id < e.id
  <2>1. Before(g, q[i])
    BY <1>3 DEF OrderInv, PastInv
  <2>2. q[i].id <= e.id /\ q[i].id # e.id
    BY <1>1, <1>4, <1>5, <1>a, <2>1 DEF Before
  <2>3. q[i].id \in Nat /\ e.id \in Nat
    BY <1>b DEF Envelope
  <2>4. QED
    BY <2>2, <2>3
<1>6. \A i, j \in 1..Len(q) : i < j /\ q[i].via = q[j].via => q[i].id < q[j].id
  BY <1>3 DEF OrderInv, InOrderOnce
<1>7. \A i, j \in 1..Len(Append(q, e)) :
         i < j /\ Append(q, e)[i].via = Append(q, e)[j].via
            => Append(q, e)[i].id < Append(q, e)[j].id
  BY <1>5, <1>6, OrderAppend
<1>8. InOrderOnce'
  <2> SUFFICES ASSUME NEW h \in Handler
               PROVE  \A i, j \in (1..Len(Traffic(h)))' :
                         i < j /\ Traffic(h)'[i].via = Traffic(h)'[j].via
                            => Traffic(h)'[i].id < Traffic(h)'[j].id
    BY DEF InOrderOnce
  <2>1. CASE h = g
    BY <1>2, <1>3, <1>7, <2>1
  <2>2. CASE h # g
    BY <1>2, <2>2 DEF OrderInv, InOrderOnce
  <2>3. QED
    BY <2>1, <2>2
<1>9. Before(g, e)'
  <2>1. e.id <= lastId'
    <3>1. e.id \in Nat /\ lastId \in Nat /\ lastId' \in Nat /\ lastId <= lastId'
      BY DEF Envelope, Inv, TypeOK, Advance
    <3>2. e.id <= lastId
      BY <1>1, <1>a DEF OrderInv, HandInv
    <3>3. QED
      BY <3>1, <3>2
  <2>2. CASE env'[s] = None
    BY <1>1, <2>1, <2>2 DEF Before
  <2>3. CASE env'[s] = env[s] /\ pc[s] = "rsend" /\ pc'[s] = "range" /\ seen'[s] = seen[s]
    <3>1. node[g] \in seen[s] /\ node'[g] = node[g]
      <4>1. g \in Proc /\ pc[g] # "new"
        BY <1>1 DEF Right, Unstored, Proc
      <4>2. QED
        BY <1>1, <2>3, <4>1 DEF OrderInv, HandInv, Stable
    <3>2. Visited(s, g)'
      BY <2>3, <3>1 DEF Visited
    <3>3. e.id <= env'[s].id
      BY <1>1, <2>3 DEF Envelope
    <3>4. QED
      BY <1>1, <2>1, <2>3, <3>2, <3>3 DEF Before, Visited
  <2>4. QED
    BY <2>2, <2>3
<1>10. PastInv'
  <2> SUFFICES ASSUME NEW h \in Handler, NEW i \in (1..Len(Traffic(h)))'
               PROVE  Before(h, Traffic(h)[i])'
    BY DEF PastInv
  <2>1. \/ i \in 1..Len(Traffic(h)) /\ Traffic(h)'[i] = Traffic(h)[i]
        \/ h = g /\ Traffic(h)'[i] = e
    <3>1. CASE h = g
      <4>1. i \in 1..Len(Append(q, e))
        BY <1>2, <1>3, <3>1
      <4>2. (i \in 1..Len(q) /\ Append(q, e)[i] = q[i]) \/ Append(q, e)[i] = e
        BY <4>1
      <4>3. QED
        BY <1>2, <1>3, <3>1, <4>2
    <3>2. CASE h # g
      BY <1>2, <3>2
    <3>3. QED
      BY <3>1, <3>2
  <2>2. PICK x \in Envelope : x = Traffic(h)'[i] /\ Before(h, x)'
    <3>1. CASE i \in 1..Len(Traffic(h)) /\ Traffic(h)'[i] = Traffic(h)[i]
      <4>1. PICK x \in Envelope : x = Traffic(h)[i] /\ Before(h, x) /\ Right(h, x)
        BY <3>1, TrafficType, TrafficRight DEF OrderInv, PastInv
      <4>2. Before(h, x)'
        BY <4>1, BeforeStep DEF Right
      <4>3. QED
        BY <3>1, <4>1, <4>2
    <3>2. CASE h = g /\ Traffic(h)'[i] = e
      <4>1. Before(h, e)'
        BY <1>9, <3>2 DEF Before, Visited
      <4>2. QED
        BY <3>2, <4>1
    <3>3. QED
      BY <2>1, <3>1, <3>2
  <2>3. QED
    BY <2>2 DEF Before, Visited
<1>11. QED
  BY <1>8, <1>10 DEF OrderInv

\* A stream whose envelope, Session and visits a step leaves alone.
LEMMA HandKept ==
    ASSUME Inv, HandInv, Stable, NEW s \in Stream, lastId' = lastId \/ lastId' = lastId + 1,
           env'[s] = env[s], held'[s] = held[s], seen'[s] = seen[s],
           \/ pc'[s] = pc[s]
           \/ pc[s] \notin {"range", "rsend"} /\ pc'[s] # "rsend"
           \/ pc[s] = "rsend" /\ pc'[s] = "range"
    PROVE  /\ Keeps(s)
           /\ env'[s] # None => env'[s].id <= lastId'
           /\ pc'[s] = "rsend" => node'[held'[s]] \in seen'[s]
<1>1. \A h \in Handler : pc[h] \notin Unstored => node'[h] = node[h]
  BY DEF Stable, Unstored, Proc
<1>2. pc[s] = "rsend" => held[s] \in Handler /\ pc[held[s]] \notin Unstored
  BY ForwardingTypes DEF Inv, ForwardInv, ForwardOK, Forwarding
<1>3. ASSUME NEW h \in Handler, pc[h] \notin Unstored, Visited(s, h) PROVE Visited(s, h)'
  <2>1. node'[h] = node[h]
    BY <1>1, <1>3
  <2>2. pc[s] = "rsend" => node'[held'[s]] = node[held[s]]
    BY <1>1, <1>2
  <2>3. QED
    BY <1>3, <2>1, <2>2 DEF Visited
<1>4. env'[s] # None => env'[s].id <= lastId'
  <2>1. env[s] # None => env[s].id \in Nat /\ env[s].id <= lastId
    BY DEF Inv, TypeOK, Envelope, HandInv
  <2>2. lastId \in Nat
    BY DEF Inv, TypeOK
  <2>3. QED
    BY <2>1, <2>2
<1>5. pc'[s] = "rsend" => node'[held'[s]] \in seen'[s]
  BY <1>1, <1>2 DEF HandInv
<1>6. QED
  BY <1>3, <1>4, <1>5 DEF Keeps

\* A step by which no broadcast goes on.
LEMMA QuietMove ==
    ASSUME Inv, HandInv, Stable, UNCHANGED <<env, held, seen, lastId>>,
           NEW p \in Proc, pc[p] \notin {"range", "rsend"},
           pc' = pc \/ \E x \in PC \ {"range", "rsend"} : Goto(p, x)
    PROVE  Advance /\ HandInv'
<1>1. ASSUME NEW s \in Stream
      PROVE  pc'[s] = pc[s] \/ (pc[s] \notin {"range", "rsend"} /\ pc'[s] # "rsend")
  BY DEF Goto, Inv, TypeOK, Proc, Handler
<1>2. \A s \in Stream : /\ Keeps(s)
                        /\ env'[s] # None => env'[s].id <= lastId'
                        /\ pc'[s] = "rsend" => node'[held'[s]] \in seen'[s]
  BY <1>1, HandKept
<1>3. lastId' \in Nat /\ lastId <= lastId'
  BY DEF Inv, TypeOK
<1>4. QED
  BY <1>2, <1>3 DEF Advance, HandInv

\* A step that leaves the streams alone.
LEMMA QuietStay ==
    ASSUME Inv, HandInv, Stable, UNCHANGED <<env, held, seen, lastId, pc>>
    PROVE  Advance /\ HandInv'
<1>1. \A s \in Stream : /\ Keeps(s)
                        /\ env'[s] # None => env'[s].id <= lastId'
                        /\ pc'[s] = "rsend" => node'[held'[s]] \in seen'[s]
  BY HandKept
<1>2. lastId' \in Nat /\ lastId <= lastId'
  BY DEF Inv, TypeOK
<1>3. QED
  BY <1>1, <1>2 DEF Advance, HandInv

\* A stream goes back to its receive loop.
LEMMA LoopMove ==
    ASSUME Inv, HandInv, Stable, NEW s \in Stream, EnterRecvLoop(s) \/ LeaveSent(s),
           lastId' = lastId,
           \A r \in Stream : r # s => seen'[r] = seen[r]
    PROVE  Advance /\ HandInv' /\ env'[s] = None
<1>1. /\ env'[s] = None /\ pc'[s] \in {"recv", "sent"}
      /\ \A r \in Stream : r # s => env'[r] = env[r] /\ held'[r] = held[r] /\ pc'[r] = pc[r]
  BY DEF EnterRecvLoop, LeaveSent, Goto, Inv, TypeOK, Proc, Handler
<1>2. \A r \in Stream : r # s =>
         /\ Keeps(r)
         /\ env'[r] # None => env'[r].id <= lastId'
         /\ pc'[r] = "rsend" => node'[held'[r]] \in seen'[r]
  BY <1>1, HandKept
<1>3. lastId' \in Nat /\ lastId <= lastId'
  BY DEF Inv, TypeOK
<1>4. QED
  BY <1>1, <1>2, <1>3 DEF Advance, HandInv

\* A stream reads an envelope.
LEMMA ReadMove ==
    ASSUME Inv, HandInv, Stable, NEW s \in Stream, NEW e \in Envelope, e.id = lastId + 1,
           env' = [env EXCEPT ![s] = e], lastId' = lastId + 1, UNCHANGED <<held, seen>>,
           NEW x \in PC \ {"range", "rsend"}, Goto(s, x)
    PROVE  Advance /\ HandInv'
<1>1. /\ env'[s] = e /\ pc'[s] = x
      /\ \A r \in Stream : r # s => env'[r] = env[r] /\ pc'[r] = pc[r]
  BY DEF Goto, Inv, TypeOK, Proc, Handler
<1>2. \A r \in Stream : r # s =>
         /\ Keeps(r)
         /\ env'[r] # None => env'[r].id <= lastId'
         /\ pc'[r] = "rsend" => node'[held'[r]] \in seen'[r]
  BY <1>1, HandKept
<1>3. lastId' \in Nat /\ lastId <= lastId' /\ lastId \in Nat
  BY DEF Inv, TypeOK
<1>4. Reads(s) /\ e.id <= lastId'
  BY <1>1, <1>3 DEF Reads
<1>5. QED
  BY <1>1, <1>2, <1>3, <1>4 DEF Advance, HandInv

\* The envelope that NewEnvelope makes.
LEMMA NewIsNext ==
    ASSUME TypeOK, NEW s \in Stream, NEW n \in Node, NEW t \in Target
    PROVE  \E e \in Envelope : e = NewEnvelope(s, n, t) /\ e.id = lastId + 1
<1>1. NewEnvelope(s, n, t) \in Envelope /\ NewEnvelope(s, n, t).id = lastId + 1
  BY NewEnvelopeType DEF NewEnvelope
<1>2. QED
  BY <1>1

\* The checks of ForwardEnvelope, and the start of a broadcast: nobody has been visited,
\* and nobody has the envelope.
LEMMA CheckMove ==
    ASSUME Inv, HandInv, Stable, NEW s \in Stream, ForwardCheck(s)
    PROVE  Advance /\ HandInv'
<1>a. s \in Proc /\ pc[s] = "fwd" /\ lastId' = lastId
  BY DEF Proc, Handler, ForwardCheck
<1>1. CASE EnterRecvLoop(s) /\ UNCHANGED <<start, seen>>
  BY <1>1, <1>a, LoopMove
<1>2. CASE Goto(s, "lookup") /\ UNCHANGED <<sender, env, held, start, seen>>
  BY <1>2, <1>a, QuietMove DEF PC
<1>3. CASE /\ Goto(s, "range") /\ seen' = [seen EXCEPT ![s] = {}]
           /\ UNCHANGED <<sender, env, held>>
  <2>1. /\ pc'[s] = "range" /\ env'[s] = env[s]
        /\ \A r \in Stream : r # s => pc'[r] = pc[r] /\ seen'[r] = seen[r]
    BY <1>3 DEF Goto, Inv, TypeOK, Proc, Handler
  <2>2. \A r \in Stream : r # s =>
           /\ Keeps(r)
           /\ env'[r] # None => env'[r].id <= lastId'
           /\ pc'[r] = "rsend" => node'[held'[r]] \in seen'[r]
    BY <1>3, <1>a, <2>1, HandKept
  <2>3. Keeps(s)
    BY <1>a, <2>1 DEF Keeps, Visited
  <2>4. env'[s] # None => env'[s].id <= lastId'
    BY <1>a, <2>1 DEF HandInv
  <2>5. lastId' \in Nat /\ lastId <= lastId'
    BY <1>a DEF Inv, TypeOK
  <2>6. QED
    BY <2>1, <2>2, <2>3, <2>4, <2>5 DEF Advance, HandInv
<1>4. QED
  BY <1>1, <1>2, <1>3 DEF ForwardCheck

\* The Range visits a node that it has not visited: its session is not one that has the
\* envelope.
LEMMA VisitMove ==
    ASSUME Inv, HandInv, Stable, NEW s \in Stream, NEW n \in Node, BroadcastVisit(s, n)
    PROVE  Advance /\ HandInv'
<1>1. /\ pc[s] = "range" /\ n \notin seen[s] /\ UNCHANGED <<env, node, lastId>>
      /\ seen' = [seen EXCEPT ![s] = seen[s] \cup {n}]
  BY DEF BroadcastVisit
<1>2. /\ seen'[s] = seen[s] \cup {n}
      /\ \A r \in Stream : r # s => seen'[r] = seen[r]
  BY <1>1 DEF Inv, TypeOK
<1>3. \/ pc' = pc /\ held' = held
      \/ /\ sessions[n] # None /\ held' = [held EXCEPT ![s] = sessions[n]]
         /\ Goto(s, "rsend")
  BY DEF BroadcastVisit
<1>4. \A r \in Stream : r # s => pc'[r] = pc[r] /\ held'[r] = held[r]
  BY <1>3 DEF Goto, Inv, TypeOK, Proc, Handler
<1>5. \A r \in Stream : r # s =>
         /\ Keeps(r)
         /\ env'[r] # None => env'[r].id <= lastId'
         /\ pc'[r] = "rsend" => node'[held'[r]] \in seen'[r]
  BY <1>1, <1>2, <1>4, HandKept
<1>6. \/ pc'[s] = "range"
      \/ pc'[s] = "rsend" /\ node'[held'[s]] = n
  <2>1. CASE pc' = pc /\ held' = held
    BY <1>1, <2>1
  <2>2. CASE /\ sessions[n] # None /\ held' = [held EXCEPT ![s] = sessions[n]]
             /\ Goto(s, "rsend")
    <3>1. pc'[s] = "rsend" /\ held'[s] = sessions[n]
      BY <2>2 DEF Goto, Inv, TypeOK, Proc, Handler
    <3>2. node[sessions[n]] = n
      BY <2>2 DEF Inv, TableInv
    <3>3. QED
      BY <1>1, <3>1, <3>2
  <2>3. QED
    BY <1>3, <2>1, <2>2
<1>7. Keeps(s)
  BY <1>1, <1>2, <1>6 DEF Keeps, Visited
<1>8. env'[s] # None => env'[s].id <= lastId'
  BY <1>1 DEF HandInv
<1>9. lastId' \in Nat /\ lastId <= lastId'
  BY <1>1 DEF Inv, TypeOK
<1>10. QED
  BY <1>2, <1>5, <1>6, <1>7, <1>8, <1>9 DEF Advance, HandInv

\* A broadcast sends, or drops, and goes on with its Range.
LEMMA RangeMove ==
    ASSUME Inv, HandInv, Stable, NEW s \in Stream, pc[s] = "rsend", Goto(s, "range"),
           UNCHANGED <<env, held, seen, lastId>>
    PROVE  Advance /\ HandInv' /\ pc'[s] = "range"
<1>1. pc'[s] = "range" /\ \A r \in Stream : r # s => pc'[r] = pc[r]
  BY DEF Goto, Inv, TypeOK, Proc, Handler
<1>2. \A r \in Stream : /\ Keeps(r)
                        /\ env'[r] # None => env'[r].id <= lastId'
                        /\ pc'[r] = "rsend" => node'[held'[r]] \in seen'[r]
  BY <1>1, HandKept
<1>3. lastId' \in Nat /\ lastId <= lastId'
  BY DEF Inv, TypeOK
<1>4. QED
  BY <1>1, <1>2, <1>3 DEF Advance, HandInv

\* Every step keeps the order.
LEMMA OrderStep == Inv /\ TrafficInv /\ OrderInv /\ [Next]_vars => OrderInv'
<1> SUFFICES ASSUME Inv, TrafficInv, OrderInv, [Next]_vars PROVE OrderInv'
  OBVIOUS
<1>0. Stable /\ HandInv
  BY StableStep DEF OrderInv
<1>a. ASSUME Advance /\ HandInv', buf' = buf, out' = out PROVE OrderInv'
  BY <1>a, OrderFrame DEF Traffic
<1>b. Stream \subseteq Proc /\ Call \subseteq Proc /\ Ban \subseteq Proc /\ Handler \subseteq Proc
  BY DEF Proc, Handler
<1>1. ASSUME NEW s \in Stream, NEW n \in Node, OpenStream(s, n)
      PROVE  OrderInv'
  BY <1>1, <1>0, <1>a, <1>b, QuietMove DEF OpenStream, locals, PC
<1>2. ASSUME NEW s \in Stream, NEW n \in Node, NEW t \in Target,
             OpenStreamWithPayload(s, n, t)
      PROVE  OrderInv'
  <2>1. PICK e \in Envelope : e = NewEnvelope(s, n, t) /\ e.id = lastId + 1
    BY NewIsNext DEF Inv
  <2>2. Advance /\ HandInv'
    BY <1>2, <1>0, <2>1, ReadMove DEF OpenStreamWithPayload, PC
  <2>3. QED
    BY <1>2, <1>a, <2>2 DEF OpenStreamWithPayload
<1>3. ASSUME NEW s \in Stream, OpenStreamOtherType(s)
      PROVE  OrderInv'
  BY <1>3, <1>0, <1>a, QuietStay DEF OpenStreamOtherType, locals
<1>4. ASSUME NEW s \in Stream, NEW n \in Node, NEW t \in Target,
             RecvEnvelope(s, n, t)
      PROVE  OrderInv'
  <2>1. PICK e \in Envelope : e = NewEnvelope(s, n, t) /\ e.id = lastId + 1
    BY NewIsNext DEF Inv
  <2>2. Advance /\ HandInv'
    BY <1>4, <1>0, <2>1, ReadMove DEF RecvEnvelope, PC
  <2>3. QED
    BY <1>4, <1>a, <2>2 DEF RecvEnvelope
<1>5. ASSUME NEW s \in Stream, NEW c \in Channel, Subscribe(s, c)
      PROVE  OrderInv'
  BY <1>5, <1>0, <1>a, QuietStay DEF Subscribe, locals
<1>6. ASSUME NEW s \in Stream, NEW c \in Channel, Unsubscribe(s, c)
      PROVE  OrderInv'
  BY <1>6, <1>0, <1>a, QuietStay DEF Unsubscribe, locals
<1>7. ASSUME NEW s \in Stream, RecvEOF(s)
      PROVE  OrderInv'
  BY <1>7, <1>0, <1>a, <1>b, QuietMove DEF RecvEOF, locals, PC
<1>8. ASSUME NEW s \in Stream, CancelStream(s)
      PROVE  OrderInv'
  BY <1>8, <1>0, <1>a, QuietStay DEF CancelStream, locals
<1>9. ASSUME NEW k \in Call, NEW n \in Node, ConnectToRelay(k, n)
      PROVE  OrderInv'
  BY <1>9, <1>0, <1>a, <1>b, QuietMove DEF ConnectToRelay, locals, PC
<1>10. ASSUME NEW b \in Ban, NEW n \in Node, AddToBlacklist(b, n)
      PROVE  OrderInv'
  BY <1>10, <1>0, <1>a, <1>b, QuietMove DEF AddToBlacklist, locals, PC
<1>11. ASSUME NEW n \in Node, RemoveFromBlacklist(n)
      PROVE  OrderInv'
  BY <1>11, <1>0, <1>a, QuietStay DEF RemoveFromBlacklist, locals
<1>12. ASSUME NEW h \in Handler, RegisterCheck(h)
      PROVE  OrderInv'
  BY <1>12, <1>0, <1>a, <1>b, QuietMove DEF RegisterCheck, locals, Return, PC
<1>13. ASSUME NEW h \in Handler, RegisterReplace(h)
      PROVE  OrderInv'
  BY <1>13, <1>0, <1>a, <1>b, QuietMove DEF RegisterReplace, locals, PC
<1>14. ASSUME NEW h \in Handler, RegisterStore(h)
      PROVE  OrderInv'
  BY <1>14, <1>0, <1>a, <1>b, QuietMove DEF RegisterStore, locals, PC
<1>15. ASSUME NEW h \in Handler, RegisterCount(h)
      PROVE  OrderInv'
  <2>1. CASE h \in Stream /\ EnterRecvLoop(h)
    <3>1. Advance /\ HandInv'
      BY <1>15, <1>0, <2>1, LoopMove DEF RegisterCount
    <3>2. QED
      BY <1>15, <1>a, <3>1 DEF RegisterCount
  <2>2. CASE (Goto(h, "done") \/ Goto(h, "fwd")) /\ UNCHANGED <<sender, env, held>>
    <3>1. Advance /\ HandInv'
      BY <1>15, <1>0, <1>b, <2>2, QuietMove DEF RegisterCount, PC
    <3>2. QED
      BY <1>15, <1>a, <3>1 DEF RegisterCount
  <2>3. QED
    BY <1>15, <2>1, <2>2 DEF RegisterCount
<1>16. ASSUME NEW p \in Stream \cup Ban, UnregisterTake(p)
      PROVE  OrderInv'
  BY <1>16, <1>0, <1>a, <1>b, QuietMove DEF UnregisterTake, locals, Return, PC
<1>17. ASSUME NEW p \in Stream \cup Ban, UnregisterCount(p)
      PROVE  OrderInv'
  BY <1>17, <1>0, <1>a, <1>b, QuietMove DEF UnregisterCount, locals, Return, PC
<1>18. ASSUME NEW s \in Stream, ForwardCheck(s)
      PROVE  OrderInv'
  BY <1>18, <1>0, <1>a, CheckMove DEF ForwardCheck
<1>19. ASSUME NEW s \in Stream, DirectLookup(s)
      PROVE  OrderInv'
  <2>1. CASE EnterRecvLoop(s)
    <3>1. Advance /\ HandInv'
      BY <1>19, <1>0, <2>1, LoopMove DEF DirectLookup
    <3>2. QED
      BY <1>19, <1>a, <3>1 DEF DirectLookup
  <2>2. CASE /\ held' = [held EXCEPT ![s] = sessions[env[s].target]]
             /\ Goto(s, "send") /\ UNCHANGED <<sender, env>>
    <3>1. /\ pc[s] = "lookup" /\ pc'[s] = "send" /\ UNCHANGED <<env, seen, lastId>>
          /\ \A r \in Stream : r # s => pc'[r] = pc[r] /\ held'[r] = held[r]
      BY <1>19, <2>2 DEF DirectLookup, Goto, Inv, TypeOK, Proc, Handler
    <3>2. \A r \in Stream : r # s =>
             /\ Keeps(r)
             /\ env'[r] # None => env'[r].id <= lastId'
             /\ pc'[r] = "rsend" => node'[held'[r]] \in seen'[r]
      BY <1>0, <3>1, HandKept
    <3>3. Keeps(s) /\ (env'[s] # None => env'[s].id <= lastId')
      BY <1>0, <3>1 DEF Keeps, Visited, HandInv
    <3>4. lastId' \in Nat /\ lastId <= lastId'
      BY <3>1 DEF Inv, TypeOK
    <3>5. Advance /\ HandInv'
      BY <3>1, <3>2, <3>3, <3>4 DEF Advance, HandInv
    <3>6. QED
      BY <1>19, <1>a, <3>5 DEF DirectLookup
  <2>3. QED
    BY <1>19, <2>1, <2>2 DEF DirectLookup
<1>20. ASSUME NEW s \in Stream, DirectSend(s)
      PROVE  OrderInv'
  <2>1. CASE EnterRecvLoop(s) \/ LeaveSent(s)
    <3>1. Advance /\ HandInv' /\ env'[s] = None
      BY <1>20, <1>0, <2>1, LoopMove DEF DirectSend
    <3>2. CASE Enqueue(s)
      BY <1>20, <1>0, <3>1, <3>2, OrderEnqueue DEF DirectSend
    <3>3. CASE buf' = buf
      BY <1>20, <1>a, <3>1, <3>3 DEF DirectSend
    <3>4. QED
      BY <1>20, <3>2, <3>3 DEF DirectSend
  <2>2. CASE UNCHANGED <<buf, count, pc, sender, env, held>>
    <3>1. Advance /\ HandInv'
      BY <1>20, <1>0, <2>2, QuietStay DEF DirectSend
    <3>2. QED
      BY <1>20, <1>a, <2>2, <3>1 DEF DirectSend
  <2>3. QED
    BY <1>20, <2>1, <2>2 DEF DirectSend
<1>21. ASSUME NEW s \in Stream, NEW n \in Node, BroadcastVisit(s, n)
      PROVE  OrderInv'
  BY <1>21, <1>0, <1>a, VisitMove DEF BroadcastVisit
<1>22. ASSUME NEW s \in Stream, BroadcastSend(s)
      PROVE  OrderInv'
  <2>1. CASE Goto(s, "range")
    <3>1. Advance /\ HandInv' /\ pc'[s] = "range"
      BY <1>22, <1>0, <2>1, RangeMove DEF BroadcastSend
    <3>2. CASE Enqueue(s)
      BY <1>22, <1>0, <3>1, <3>2, OrderEnqueue DEF BroadcastSend
    <3>3. CASE buf' = buf
      BY <1>22, <1>a, <3>1, <3>3 DEF BroadcastSend
    <3>4. QED
      BY <1>22, <3>2, <3>3 DEF BroadcastSend
  <2>2. CASE UNCHANGED <<buf, count, pc>>
    <3>1. Advance /\ HandInv'
      BY <1>22, <1>0, <2>2, QuietStay DEF BroadcastSend
    <3>2. QED
      BY <1>22, <1>a, <2>2, <3>1 DEF BroadcastSend
  <2>3. QED
    BY <1>22, <2>1, <2>2 DEF BroadcastSend
<1>dc. ASSUME NEW s \in Stream, DirectCount(s)
      PROVE  OrderInv'
  <2>1. Advance /\ HandInv'
    <3>1. \A r \in Stream : r # s => seen'[r] = seen[r]
      BY <1>dc DEF DirectCount, Inv, TypeOK
    <3>2. QED
      BY <1>dc, <1>0, <3>1, LoopMove DEF DirectCount
  <2>2. QED
    BY <1>dc, <1>a, <2>1 DEF DirectCount
<1>23. ASSUME NEW s \in Stream, BroadcastEnd(s)
      PROVE  OrderInv'
  <2>1. Advance /\ HandInv'
    <3>1. \A r \in Stream : r # s => seen'[r] = seen[r]
      BY <1>23 DEF BroadcastEnd, Inv, TypeOK
    <3>2. QED
      BY <1>23, <1>0, <3>1, LoopMove DEF BroadcastEnd
  <2>2. QED
    BY <1>23, <1>a, <2>1 DEF BroadcastEnd
<1>24. ASSUME NEW s \in Stream, RecvErr(s)
      PROVE  OrderInv'
  BY <1>24, <1>0, <1>a, <1>b, QuietMove DEF RecvErr, locals, PC
<1>25. ASSUME NEW s \in Stream, SenderDeliver(s)
      PROVE  OrderInv'
  <2>1. Advance /\ HandInv'
    BY <1>25, <1>0, QuietStay DEF SenderDeliver, locals
  <2>2. QED
    BY <1>25, <2>1, TrafficKept, OrderFrame
<1>26. ASSUME NEW s \in Stream, SenderCtxDone(s)
      PROVE  OrderInv'
  BY <1>26, <1>0, <1>a, QuietStay DEF SenderCtxDone, locals
<1>27. ASSUME NEW s \in Stream, SenderNil(s)
      PROVE  OrderInv'
  BY <1>27, <1>0, <1>a, QuietStay DEF SenderNil, locals
<1>28. ASSUME Stopped
      PROVE  OrderInv'
  BY <1>28, <1>0, <1>a, QuietStay DEF Stopped, vars
<1>29. CASE UNCHANGED vars
  BY <1>29, <1>0, <1>a, QuietStay DEF vars
<1>30. QED
  BY <1>dc, <1>1, <1>2, <1>3, <1>4, <1>5, <1>6, <1>7, <1>8, <1>9, <1>10, <1>11, <1>12,
     <1>13, <1>14, <1>15, <1>16, <1>17, <1>18, <1>19, <1>20, <1>21, <1>22,
     <1>23, <1>24, <1>25, <1>26, <1>27, <1>28, <1>29
  DEF Next, ClientStep, RegisterStep, UnregisterStep, ForwardStep, SenderStep

LEMMA OrderInvariance == Spec => []OrderInv
<1>1. Init => OrderInv
  <2> SUFFICES ASSUME Init PROVE OrderInv
    OBVIOUS
  <2>1. HandInv
    BY DEF Init, HandInv, Proc, Handler
  <2>2. \A h \in Handler : Traffic(h) = <<>>
    BY DEF Init, Traffic
  <2>3. QED
    BY <2>1, <2>2 DEF OrderInv, PastInv, InOrderOnce
<1>2. QED
  BY <1>1, OrderStep, Invariance, TrafficInvariance, PTL DEF Spec

\* One session gets the envelopes of one stream in the order the relay read them and none
\* twice, while the direct sends and broadcasts of all streams interleave.
THEOREM DeliveryInOrder == Spec => []InOrderOnce
<1>1. OrderInv => InOrderOnce
  BY DEF OrderInv
<1>2. QED
  BY <1>1, OrderInvariance, PTL

-----------------------------------------------------------------------------
\* Every delivery takes one place, so the two sets are finite.
RelayedInv ==
    /\ IsFiniteSet(Delivered) /\ IsFiniteSet(Uncounted)
    /\ RelayedMatchesTraffic

\* The elements of the two sets.
LEMMA Places ==
    /\ \A x : x \in Delivered <=> \E h \in Handler : \E i \in 1..Len(Traffic(h)) : x = <<h, i>>
    /\ \A x : x \in Uncounted <=> \E s \in Stream : \E i \in 1..count[s] : x = <<s, i>>
BY DEF Delivered, Uncounted

\* A step that keeps the traffic and the counters.
LEMMA RelayedFrame ==
    ASSUME RelayedInv, messagesRelayed' = messagesRelayed, count' = count,
           \A h \in Handler : Traffic(h)' = Traffic(h)
    PROVE  RelayedInv'
<1>1. Delivered' = Delivered /\ Uncounted' = Uncounted
  BY DEF Delivered, Uncounted
<1>2. QED
  BY <1>1 DEF RelayedInv, RelayedMatchesTraffic

\* A send adds one place.
LEMMA DeliveredMore ==
    ASSUME Inv, NEW s \in Stream, pc[s] \in {"send", "rsend"}, Enqueue(s), out' = out,
           IsFiniteSet(Delivered)
    PROVE  /\ IsFiniteSet(Delivered')
           /\ Cardinality(Delivered') = Cardinality(Delivered) + 1
<1>1. PICK e \in Envelope, g \in Handler : e = env[s] /\ g = held[s]
  BY SendRight
<1>2. /\ Traffic(g)' = Append(Traffic(g), e)
      /\ \A h \in Handler : h # g => Traffic(h)' = Traffic(h)
  BY <1>1, TrafficAppend
<1>3. PICK q \in Seq(Envelope) : q = Traffic(g)
  BY TrafficType
<1>4. Len(q) \in Nat /\ Len(Traffic(g)') = Len(q) + 1
  BY <1>2, <1>3
<1>5. PICK k \in Nat : k = Len(q)
  BY <1>4
<1>6. 1..(k + 1) = (1..k) \cup {k + 1} /\ k + 1 \notin 1..k
  OBVIOUS
<1>7. \A x : x \in Delivered' <=>
         \E h \in Handler : \E i \in 1..Len(Traffic(h)') : x = <<h, i>>
  BY DEF Delivered
<1>8. Delivered' = Delivered \cup {<<g, k + 1>>}
  <2>1. ASSUME NEW x \in Delivered' PROVE x \in Delivered \cup {<<g, k + 1>>}
    <3>0. PICK h \in Handler : \E i \in 1..Len(Traffic(h)') : x = <<h, i>>
      BY <1>7
    <3>1. PICK i \in 1..Len(Traffic(h)') : x = <<h, i>>
      BY <3>0
    <3>2. CASE h = g
      BY <1>3, <1>4, <1>5, <1>6, <3>1, <3>2, Places
    <3>3. CASE h # g
      BY <1>2, <3>1, <3>3, Places
    <3>4. QED
      BY <3>2, <3>3
  <2>2. ASSUME NEW x \in Delivered PROVE x \in Delivered'
    <3>0. PICK h \in Handler : \E i \in 1..Len(Traffic(h)) : x = <<h, i>>
      BY Places
    <3>1. PICK i \in 1..Len(Traffic(h)) : x = <<h, i>>
      BY <3>0
    <3>2. i \in 1..Len(Traffic(h)')
      <4>1. CASE h = g
        BY <1>3, <1>4, <1>5, <1>6, <3>1, <4>1
      <4>2. CASE h # g
        BY <1>2, <4>2
      <4>3. QED
        BY <4>1, <4>2
    <3>3. QED
      BY <1>7, <3>1, <3>2
  <2>3. <<g, k + 1>> \in Delivered'
    BY <1>4, <1>5, <1>7
  <2>4. QED
    BY <2>1, <2>2, <2>3
<1>9. <<g, k + 1>> \notin Delivered
  <2> SUFFICES ASSUME <<g, k + 1>> \in Delivered PROVE FALSE
    OBVIOUS
  <2>0. PICK h \in Handler : \E i \in 1..Len(Traffic(h)) : <<g, k + 1>> = <<h, i>>
    BY Places
  <2>1. PICK i \in 1..Len(Traffic(h)) : <<g, k + 1>> = <<h, i>>
    BY <2>0
  <2>2. k + 1 \in 1..k
    BY <1>3, <1>5, <2>1
  <2>3. QED
    BY <1>6, <2>2
<1>10. PICK y : y = <<g, k + 1>>
  OBVIOUS
<1>11. QED
  BY <1>8, <1>9, <1>10, OneMore

\* A broadcast that counts one more delivery.
LEMMA UncountedMore ==
    ASSUME Inv, NEW s \in Stream, count' = [count EXCEPT ![s] = count[s] + 1],
           IsFiniteSet(Uncounted)
    PROVE  /\ IsFiniteSet(Uncounted')
           /\ Cardinality(Uncounted') = Cardinality(Uncounted) + 1
<1>1. PICK k \in Nat : k = count[s]
  BY DEF Inv, TypeOK
<1>2. count'[s] = k + 1 /\ \A r \in Stream : r # s => count'[r] = count[r]
  BY <1>1 DEF Inv, TypeOK
<1>3. 1..(k + 1) = (1..k) \cup {k + 1} /\ k + 1 \notin 1..k
  OBVIOUS
<1>4. \A x : x \in Uncounted' <=> \E r \in Stream : \E i \in 1..count'[r] : x = <<r, i>>
  BY DEF Uncounted
<1>5. Uncounted' = Uncounted \cup {<<s, k + 1>>}
  <2>1. ASSUME NEW x \in Uncounted' PROVE x \in Uncounted \cup {<<s, k + 1>>}
    <3>0. PICK r \in Stream : \E i \in 1..count'[r] : x = <<r, i>>
      BY <1>4
    <3>1. PICK i \in 1..count'[r] : x = <<r, i>>
      BY <3>0
    <3>2. QED
      BY <1>1, <1>2, <1>3, <3>1, Places
  <2>2. ASSUME NEW x \in Uncounted PROVE x \in Uncounted'
    <3>0. PICK r \in Stream : \E i \in 1..count[r] : x = <<r, i>>
      BY Places
    <3>1. PICK i \in 1..count[r] : x = <<r, i>>
      BY <3>0
    <3>2. i \in 1..count'[r]
      BY <1>1, <1>2, <1>3
    <3>3. QED
      BY <1>4, <3>1, <3>2
  <2>3. <<s, k + 1>> \in Uncounted'
    BY <1>2, <1>3, <1>4
  <2>4. QED
    BY <2>1, <2>2, <2>3
<1>6. <<s, k + 1>> \notin Uncounted
  <2> SUFFICES ASSUME <<s, k + 1>> \in Uncounted PROVE FALSE
    OBVIOUS
  <2>0. PICK r \in Stream : \E i \in 1..count[r] : <<s, k + 1>> = <<r, i>>
    BY Places
  <2>1. PICK i \in 1..count[r] : <<s, k + 1>> = <<r, i>>
    BY <2>0
  <2>2. k + 1 \in 1..k
    BY <1>1, <2>1
  <2>3. QED
    BY <1>3, <2>2
<1>7. PICK y : y = <<s, k + 1>>
  OBVIOUS
<1>8. QED
  BY <1>5, <1>6, <1>7, OneMore

\* A broadcast that ends hands all its deliveries over.
LEMMA UncountedLess ==
    ASSUME Inv, NEW s \in Stream, count' = [count EXCEPT ![s] = 0], IsFiniteSet(Uncounted)
    PROVE  /\ IsFiniteSet(Uncounted')
           /\ Cardinality(Uncounted') = Cardinality(Uncounted) - count[s]
<1>1. PICK k \in Nat : k = count[s]
  BY DEF Inv, TypeOK
<1>2. count'[s] = 0 /\ \A r \in Stream : r # s => count'[r] = count[r]
  BY DEF Inv, TypeOK
<1>3. \A x : x \in Uncounted' <=> \E r \in Stream : \E i \in 1..count'[r] : x = <<r, i>>
  BY DEF Uncounted
<1>4. PICK P : P = {s} \X (1..k)
  OBVIOUS
<1>5. \A x : x \in P <=> \E i \in 1..k : x = <<s, i>>
  BY <1>4
<1>6. Uncounted' = Uncounted \ P
  <2>1. ASSUME NEW x \in Uncounted' PROVE x \in Uncounted \ P
    <3>0. PICK r \in Stream : \E i \in 1..count'[r] : x = <<r, i>>
      BY <1>3
    <3>1. PICK i \in 1..count'[r] : x = <<r, i>>
      BY <3>0
    <3>2. r # s
      BY <1>2, <3>1
    <3>3. x \notin P
      BY <1>5, <3>1, <3>2
    <3>4. QED
      BY <1>2, <3>1, <3>2, <3>3, Places
  <2>2. ASSUME NEW x \in Uncounted, x \notin P PROVE x \in Uncounted'
    <3>0. PICK r \in Stream : \E i \in 1..count[r] : x = <<r, i>>
      BY Places
    <3>1. PICK i \in 1..count[r] : x = <<r, i>>
      BY <3>0
    <3>2. r # s
      BY <1>1, <1>5, <2>2, <3>1
    <3>3. QED
      BY <1>2, <1>3, <3>1, <3>2
  <2>3. QED
    BY <2>1, <2>2
<1>7. Uncounted \cap P = P
  BY <1>1, <1>5, Places
<1>8. IsFiniteSet(1..k) /\ Cardinality(1..k) = k
  BY FS_Interval
<1>9. IsFiniteSet({s}) /\ Cardinality({s}) = 1
  BY FS_Singleton
<1>10. Cardinality(P) = 1 * k
  BY <1>4, <1>8, <1>9, FS_Product
<1>11. /\ IsFiniteSet(Uncounted \ P)
       /\ Cardinality(Uncounted \ P) = Cardinality(Uncounted) - Cardinality(Uncounted \cap P)
  BY FS_Difference
<1>12. 1 * k = k
  OBVIOUS
<1>13. Cardinality(Uncounted \cap P) = count[s]
  BY <1>1, <1>7, <1>10, <1>12, Zenon
<1>14. QED
  BY <1>6, <1>11, <1>13, Zenon

\* Every step keeps the count.
LEMMA RelayedStep == Inv /\ RelayedInv /\ [Next]_vars => RelayedInv'
<1> SUFFICES ASSUME Inv, RelayedInv, [Next]_vars PROVE RelayedInv'
  OBVIOUS
<1>0. /\ IsFiniteSet(Delivered) /\ IsFiniteSet(Uncounted)
      /\ Cardinality(Delivered) \in Nat /\ Cardinality(Uncounted) \in Nat
      /\ Cardinality(Delivered) = messagesRelayed + Cardinality(Uncounted)
      /\ messagesRelayed \in Nat
  BY FS_CardinalityType DEF RelayedInv, RelayedMatchesTraffic, Inv, TypeOK
<1>a. ASSUME UNCHANGED <<buf, out, messagesRelayed, count>> PROVE RelayedInv'
  BY <1>a, RelayedFrame DEF Traffic
<1>1. ASSUME NEW s \in Stream, ClientStep(s) PROVE RelayedInv'
  BY <1>1, <1>a
  DEF ClientStep, OpenStream, OpenStreamWithPayload, OpenStreamOtherType, RecvEnvelope,
      Subscribe, Unsubscribe, RecvEOF, CancelStream, counters, locals
<1>2. ASSUME NEW k \in Call, NEW n \in Node, ConnectToRelay(k, n) PROVE RelayedInv'
  BY <1>2, <1>a DEF ConnectToRelay, counters, locals
<1>3. ASSUME NEW b \in Ban, NEW n \in Node, AddToBlacklist(b, n) PROVE RelayedInv'
  BY <1>3, <1>a DEF AddToBlacklist, counters, locals
<1>4. ASSUME NEW n \in Node, RemoveFromBlacklist(n) PROVE RelayedInv'
  BY <1>4, <1>a DEF RemoveFromBlacklist, counters, locals
<1>5. ASSUME NEW h \in Handler, RegisterStep(h) PROVE RelayedInv'
  BY <1>5, <1>a
  DEF RegisterStep, RegisterCheck, RegisterReplace, RegisterStore, RegisterCount,
      counters, locals
<1>6. ASSUME NEW p \in Stream \cup Ban, UnregisterStep(p) PROVE RelayedInv'
  BY <1>6, <1>a DEF UnregisterStep, UnregisterTake, UnregisterCount, counters, locals
<1>7. ASSUME NEW s \in Stream, ForwardCheck(s) \/ DirectLookup(s) PROVE RelayedInv'
  BY <1>7, <1>a DEF ForwardCheck, DirectLookup, counters
<1>8. ASSUME NEW s \in Stream, DirectSend(s) PROVE RelayedInv'
  <2>1. CASE Enqueue(s) /\ count' = [count EXCEPT ![s] = count[s] + 1]
    <3>1. /\ IsFiniteSet(Delivered') /\ Cardinality(Delivered') = Cardinality(Delivered) + 1
      BY <1>0, <1>8, <2>1, DeliveredMore DEF DirectSend
    <3>2. /\ IsFiniteSet(Uncounted') /\ Cardinality(Uncounted') = Cardinality(Uncounted) + 1
      BY <1>0, <2>1, UncountedMore
    <3>3. messagesRelayed' = messagesRelayed
      BY <1>8 DEF DirectSend, counters
    <3>4. QED
      BY <1>0, <3>1, <3>2, <3>3 DEF RelayedInv, RelayedMatchesTraffic
  <2>2. CASE UNCHANGED <<buf, count>>
    BY <1>8, <1>a, <2>2 DEF DirectSend, counters
  <2>3. QED
    BY <1>8, <2>1, <2>2 DEF DirectSend, LeaveSent
<1>9. ASSUME NEW s \in Stream, NEW n \in Node, BroadcastVisit(s, n) PROVE RelayedInv'
  BY <1>9, <1>a DEF BroadcastVisit, counters
<1>10. ASSUME NEW s \in Stream, BroadcastSend(s) PROVE RelayedInv'
  <2>1. CASE Enqueue(s) /\ count' = [count EXCEPT ![s] = count[s] + 1]
    <3>1. /\ IsFiniteSet(Delivered') /\ Cardinality(Delivered') = Cardinality(Delivered) + 1
      BY <1>0, <1>10, <2>1, DeliveredMore DEF BroadcastSend
    <3>2. /\ IsFiniteSet(Uncounted') /\ Cardinality(Uncounted') = Cardinality(Uncounted) + 1
      BY <1>0, <2>1, UncountedMore
    <3>3. messagesRelayed' = messagesRelayed
      BY <1>10 DEF BroadcastSend, counters
    <3>4. QED
      BY <1>0, <3>1, <3>2, <3>3 DEF RelayedInv, RelayedMatchesTraffic
  <2>2. CASE UNCHANGED <<buf, count>>
    BY <1>10, <1>a, <2>2 DEF BroadcastSend, counters
  <2>3. QED
    BY <1>10, <2>1, <2>2 DEF BroadcastSend
<1>dc. ASSUME NEW s \in Stream, DirectCount(s) PROVE RelayedInv'
  <2>1. /\ count' = [count EXCEPT ![s] = 0] /\ UNCHANGED <<buf, out>>
        /\ messagesRelayed' = messagesRelayed + count[s] /\ count[s] \in Nat
    BY <1>dc DEF DirectCount, Inv, TypeOK
  <2>2. /\ IsFiniteSet(Uncounted')
        /\ Cardinality(Uncounted') = Cardinality(Uncounted) - count[s]
    BY <1>0, <2>1, UncountedLess
  <2>3. Delivered' = Delivered
    BY <2>1 DEF Delivered, Traffic
  <2>4. QED
    BY <1>0, <2>1, <2>2, <2>3 DEF RelayedInv, RelayedMatchesTraffic
<1>11. ASSUME NEW s \in Stream, BroadcastEnd(s) PROVE RelayedInv'
  <2>1. /\ count' = [count EXCEPT ![s] = 0] /\ UNCHANGED <<buf, out>>
        /\ messagesRelayed' = messagesRelayed + count[s] /\ count[s] \in Nat
    BY <1>11 DEF BroadcastEnd, Inv, TypeOK
  <2>2. /\ IsFiniteSet(Uncounted')
        /\ Cardinality(Uncounted') = Cardinality(Uncounted) - count[s]
    BY <1>0, <2>1, UncountedLess
  <2>3. Delivered' = Delivered
    BY <2>1 DEF Delivered, Traffic
  <2>4. QED
    BY <1>0, <2>1, <2>2, <2>3 DEF RelayedInv, RelayedMatchesTraffic
<1>12. ASSUME NEW s \in Stream, RecvErr(s) PROVE RelayedInv'
  BY <1>12, <1>a DEF RecvErr, counters, locals
<1>13. ASSUME NEW s \in Stream, SenderDeliver(s) PROVE RelayedInv'
  BY <1>13, TrafficKept, RelayedFrame DEF SenderDeliver, counters, locals
<1>14. ASSUME NEW s \in Stream, SenderCtxDone(s) \/ SenderNil(s) PROVE RelayedInv'
  BY <1>14, <1>a DEF SenderCtxDone, SenderNil, counters, locals
<1>15. CASE Stopped \/ UNCHANGED vars
  BY <1>15, <1>a DEF Stopped, vars
<1>16. QED
  BY <1>dc, <1>1, <1>2, <1>3, <1>4, <1>5, <1>6, <1>7, <1>8, <1>9, <1>10, <1>11, <1>12, <1>13,
     <1>14, <1>15
  DEF Next, ForwardStep, SenderStep

\* messagesRelayed counts every envelope that entered a SendChan exactly once, drops and
\* panics included, but for the sends whose handler has yet to lock the counter.
THEOREM RelayedIsTraffic == Spec => []RelayedMatchesTraffic
<1>1. Init => RelayedInv
  <2> SUFFICES ASSUME Init PROVE RelayedInv
    OBVIOUS
  <2>1. \A h \in Handler : Traffic(h) = <<>>
    BY DEF Init, Traffic
  <2>2. Delivered = {} /\ Uncounted = {}
    BY <2>1 DEF Init, Delivered, Uncounted
  <2>3. IsFiniteSet({}) /\ Cardinality({}) = 0
    BY FS_EmptySet
  <2>4. QED
    BY <2>2, <2>3 DEF Init, RelayedInv, RelayedMatchesTraffic
<1>2. RelayedInv => RelayedMatchesTraffic
  BY DEF RelayedInv
<1>3. QED
  BY <1>1, <1>2, RelayedStep, Invariance, PTL DEF Spec

-----------------------------------------------------------------------------
(***************************************************************************)
(* The relay implements RelayMail.  The mail of a session is its traffic,  *)
(* and the steps that only concern the session table stutter.              *)
(***************************************************************************)
OwnerOf == [h \in Handler |-> node[h]]
MailOf == [h \in Handler |-> Traffic(h)]

\* A call that has not begun works for no node yet.
FreshInv == \A p \in Proc : pc[p] = "new" => node[p] = None

LEMMA FreshStep == Inv /\ FreshInv /\ [Next]_vars => FreshInv'
<1> SUFFICES ASSUME Inv, FreshInv, [Next]_vars PROVE FreshInv'
  OBVIOUS
<1>0. /\ pc \in [Proc -> PC] /\ node \in [Proc -> Node \cup {None}]
      /\ Stream \subseteq Proc /\ Call \subseteq Proc /\ Ban \subseteq Proc
      /\ Handler \subseteq Proc
  BY DEF Inv, TypeOK, Proc, Handler
<1>a. ASSUME node' = node, NEW p \in Proc, NEW x \in PC \ {"new"},
             pc' = pc \/ Goto(p, x)
      PROVE  FreshInv'
  BY <1>0, <1>a DEF FreshInv, Goto
<1>b. ASSUME NEW p \in Proc, NEW n, node' = [node EXCEPT ![p] = n], NEW x \in PC \ {"new"},
             Goto(p, x)
      PROVE  FreshInv'
  BY <1>0, <1>b DEF FreshInv, Goto
<1>c. ASSUME UNCHANGED <<node, pc>> PROVE FreshInv'
  BY <1>c DEF FreshInv
<1>1. ASSUME NEW s \in Stream, ClientStep(s) PROVE FreshInv'
  <2>1. ASSUME NEW n \in Node, OpenStream(s, n) PROVE FreshInv'
    BY <1>0, <1>b, <2>1 DEF OpenStream, PC
  <2>2. ASSUME NEW n \in Node, NEW t \in Target, OpenStreamWithPayload(s, n, t)
        PROVE  FreshInv'
    BY <1>0, <1>b, <2>2 DEF OpenStreamWithPayload, PC
  <2>3. ASSUME NEW n \in Node, NEW t \in Target, RecvEnvelope(s, n, t) PROVE FreshInv'
    BY <1>0, <1>a, <2>3 DEF RecvEnvelope, PC
  <2>4. CASE OpenStreamOtherType(s) \/ CancelStream(s)
    BY <1>c, <2>4 DEF OpenStreamOtherType, CancelStream
  <2>5. ASSUME NEW c \in Channel, Subscribe(s, c) \/ Unsubscribe(s, c) PROVE FreshInv'
    BY <1>c, <2>5 DEF Subscribe, Unsubscribe
  <2>6. CASE RecvEOF(s)
    BY <1>0, <1>a, <2>6 DEF RecvEOF, PC
  <2>7. QED
    BY <1>1, <2>1, <2>2, <2>3, <2>4, <2>5, <2>6 DEF ClientStep
<1>2. ASSUME NEW k \in Call, NEW n \in Node, ConnectToRelay(k, n) PROVE FreshInv'
  BY <1>0, <1>b, <1>2 DEF ConnectToRelay, PC
<1>3. ASSUME NEW b \in Ban, NEW n \in Node, AddToBlacklist(b, n) PROVE FreshInv'
  BY <1>0, <1>b, <1>3 DEF AddToBlacklist, PC
<1>4. ASSUME NEW n \in Node, RemoveFromBlacklist(n) PROVE FreshInv'
  BY <1>4, <1>c DEF RemoveFromBlacklist
<1>5. ASSUME NEW h \in Handler, RegisterStep(h) PROVE FreshInv'
  BY <1>0, <1>5, <1>a
  DEF RegisterStep, RegisterCheck, RegisterReplace, RegisterStore, RegisterCount,
      Return, EnterRecvLoop, PC
<1>6. ASSUME NEW p \in Stream \cup Ban, UnregisterStep(p) PROVE FreshInv'
  BY <1>0, <1>6, <1>a DEF UnregisterStep, UnregisterTake, UnregisterCount, Return, PC
<1>7. ASSUME NEW s \in Stream, ForwardCheck(s) \/ DirectLookup(s) PROVE FreshInv'
  BY <1>0, <1>7, <1>a DEF ForwardCheck, DirectLookup, EnterRecvLoop, PC
<1>8. ASSUME NEW s \in Stream, DirectSend(s) PROVE FreshInv'
  BY <1>0, <1>8, <1>a, <1>c DEF DirectSend, EnterRecvLoop, LeaveSent, PC
<1>9. ASSUME NEW s \in Stream, NEW n \in Node, BroadcastVisit(s, n) PROVE FreshInv'
  BY <1>0, <1>9, <1>a, <1>c DEF BroadcastVisit, PC
<1>10. ASSUME NEW s \in Stream, BroadcastSend(s) PROVE FreshInv'
  BY <1>0, <1>10, <1>a, <1>c DEF BroadcastSend, PC
<1>dc. ASSUME NEW s \in Stream, DirectCount(s) PROVE FreshInv'
  BY <1>0, <1>dc, <1>a DEF DirectCount, EnterRecvLoop, PC
<1>11. ASSUME NEW s \in Stream, BroadcastEnd(s) \/ RecvErr(s) PROVE FreshInv'
  BY <1>0, <1>11, <1>a DEF BroadcastEnd, RecvErr, EnterRecvLoop, PC
<1>12. ASSUME NEW s \in Stream, SenderStep(s) PROVE FreshInv'
  BY <1>12, <1>c DEF SenderStep, SenderDeliver, SenderCtxDone, SenderNil
<1>13. CASE Stopped \/ UNCHANGED vars
  BY <1>13, <1>c DEF Stopped, vars
<1>14. QED
  BY <1>dc, <1>1, <1>2, <1>3, <1>4, <1>5, <1>6, <1>7, <1>8, <1>9, <1>10, <1>11, <1>12, <1>13
  DEF Next, ForwardStep

LEMMA FreshInvariance == Spec => []FreshInv
<1>1. Init => FreshInv
  BY DEF Init, FreshInv
<1>2. QED
  BY <1>1, FreshStep, Invariance, PTL DEF Spec

\* A step that is none of the abstract relay's.
LEMMA MailStutter ==
    ASSUME UNCHANGED <<env, lastId>>, \A h \in Handler : node'[h] = node[h],
           \A h \in Handler : Traffic(h)' = Traffic(h)
    PROVE  UNCHANGED Mail!mailVars
BY DEF Mail!mailVars

\* The stream goes back to its receive loop without having sent.
LEMMA MailGiveUp ==
    ASSUME Inv, NEW s \in Stream, EnterRecvLoop(s),
           UNCHANGED <<lastId, node, buf, out>>
    PROVE  [Mail!MailNext]_(Mail!mailVars)
<1>1. env' = [env EXCEPT ![s] = None] /\ env \in [Stream -> Envelope \cup {None}]
  BY DEF EnterRecvLoop, Inv, TypeOK
<1>2. OwnerOf' = OwnerOf /\ MailOf' = MailOf
  BY DEF OwnerOf, MailOf, Traffic
<1>3. CASE env[s] = None
  <2>1. env' = env
    BY <1>1, <1>3
  <2>2. QED
    BY <1>2, <2>1 DEF Mail!mailVars, OwnerOf, MailOf
<1>4. CASE env[s] # None
  <2>1. Mail!GiveUp(s)
    BY <1>1, <1>2, <1>4 DEF Mail!GiveUp, OwnerOf, MailOf
  <2>2. QED
    BY <2>1 DEF Mail!MailNext
<1>5. QED
  BY <1>3, <1>4

\* A call begins.
LEMMA MailOpen ==
    ASSUME Inv, FreshInv, NEW h \in Handler, NEW n \in Node, pc[h] = "new",
           node' = [node EXCEPT ![h] = n], UNCHANGED <<env, lastId, buf, out>>
    PROVE  Mail!MailNext
<1>1. OwnerOf[h] = None /\ OwnerOf' = [OwnerOf EXCEPT ![h] = n]
  BY DEF OwnerOf, FreshInv, Proc, Inv, TypeOK
<1>2. MailOf' = MailOf
  BY DEF MailOf, Traffic
<1>3. Mail!OpenOnly(h, n)
  BY <1>1, <1>2 DEF Mail!OpenOnly, Mail!Open, OwnerOf, MailOf
<1>4. QED
  BY <1>3 DEF Mail!MailNext

\* A stream begins with an envelope.
LEMMA MailOpenAndTake ==
    ASSUME Inv, FreshInv, NEW s \in Stream, NEW n \in Node, NEW t \in Target,
           OpenStreamWithPayload(s, n, t)
    PROVE  Mail!MailNext
<1>1. OwnerOf[s] = None /\ OwnerOf' = [OwnerOf EXCEPT ![s] = n]
  BY DEF OwnerOf, FreshInv, Proc, Handler, Inv, TypeOK, OpenStreamWithPayload
<1>2. MailOf' = MailOf
  BY DEF MailOf, Traffic, OpenStreamWithPayload
<1>3. Mail!OpenAndTake(s, n, t)
  BY <1>1, <1>2
  DEF Mail!OpenAndTake, Mail!Open, Mail!Take, OwnerOf, MailOf, OpenStreamWithPayload,
      NewEnvelope
<1>4. QED
  BY <1>3 DEF Mail!MailNext, Target

\* The receive loop takes the next envelope.
LEMMA MailTake ==
    ASSUME Inv, NEW s \in Stream, NEW n \in Node, NEW t \in Target, RecvEnvelope(s, n, t)
    PROVE  Mail!MailNext
<1>1. OwnerOf[s] = n /\ n # None /\ OwnerOf' = OwnerOf
  BY RelayAssumption DEF OwnerOf, Handler, RecvEnvelope
<1>2. MailOf' = MailOf
  BY DEF MailOf, Traffic, RecvEnvelope
<1>3. Mail!TakeNext(s, t)
  BY <1>1, <1>2 DEF Mail!TakeNext, Mail!Take, OwnerOf, MailOf, RecvEnvelope, NewEnvelope
<1>4. QED
  BY <1>3 DEF Mail!MailNext, Target

\* What a send does to the mail.
LEMMA MailAppend ==
    ASSUME Inv, NEW s \in Stream, pc[s] \in {"send", "rsend"}, Enqueue(s),
           UNCHANGED <<out, node>>
    PROVE  /\ env[s] \in Envelope /\ env[s] # None /\ held[s] \in Handler
           /\ MailOf' = [MailOf EXCEPT ![held[s]] = Append(MailOf[held[s]], env[s])]
           /\ OwnerOf' = OwnerOf
<1>1. PICK e \in Envelope, g \in Handler : e = env[s] /\ g = held[s]
  BY SendRight
<1>2. /\ Traffic(g)' = Append(Traffic(g), e)
      /\ \A h \in Handler : h # g => Traffic(h)' = Traffic(h)
  BY <1>1, TrafficAppend
<1>3. MailOf' = [MailOf EXCEPT ![g] = Append(MailOf[g], e)]
  BY <1>2 DEF MailOf
<1>4. QED
  BY <1>1, <1>3, NoneAssumption DEF OwnerOf

\* A direct send delivers, and the envelope leaves the hand.
LEMMA MailDirect ==
    ASSUME Inv, NEW s \in Stream, pc[s] = "send", Enqueue(s), LeaveSent(s),
           UNCHANGED <<out, node, lastId>>
    PROVE  Mail!MailNext
<1>1. /\ env[s] # None /\ held[s] \in Handler
      /\ MailOf' = [MailOf EXCEPT ![held[s]] = Append(MailOf[held[s]], env[s])]
      /\ OwnerOf' = OwnerOf
  BY MailAppend
<1>2. env[s].target = OwnerOf[held[s]]
  BY <1>1 DEF OwnerOf, Inv, ForwardInv, ForwardOK
<1>3. env' = [env EXCEPT ![s] = None]
  BY DEF LeaveSent
<1>4. Mail!DeliverDirect(s, held[s])
  BY <1>1, <1>2, <1>3 DEF Mail!DeliverDirect, OwnerOf, MailOf
<1>5. QED
  BY <1>1, <1>4 DEF Mail!MailNext

\* A broadcast delivers to a node that has not got the envelope on any session.
LEMMA MailBroadcast ==
    ASSUME Inv, OrderInv, NEW s \in Stream, pc[s] = "rsend", Enqueue(s),
           UNCHANGED <<out, node, env, lastId>>
    PROVE  Mail!MailNext
<1>1. /\ env[s] \in Envelope /\ env[s] # None /\ held[s] \in Handler
      /\ MailOf' = [MailOf EXCEPT ![held[s]] = Append(MailOf[held[s]], env[s])]
      /\ OwnerOf' = OwnerOf
  BY MailAppend
<1>2. PICK e \in Envelope, g \in Handler : e = env[s] /\ g = held[s]
  BY <1>1
<1>3. /\ e.target \in Channel /\ e.via = s
      /\ OwnerOf[g] \notin {e.sender, None}
  <2>1. /\ e.target \in Channel /\ e.via = s /\ node[g] # e.sender /\ pc[g] # "new"
    BY <1>1, <1>2 DEF Inv, ForwardInv, ForwardOK, Unstored
  <2>2. node[g] \in Node
    BY <2>1 DEF Inv, NodeInv, Proc
  <2>3. QED
    BY <2>1, <2>2, RelayAssumption DEF OwnerOf
<1>4. ASSUME NEW h \in Handler, OwnerOf[h] = OwnerOf[g], NEW i \in 1..Len(MailOf[h]),
             MailOf[h][i] = e
      PROVE  FALSE
  <2>1. i \in 1..Len(Traffic(h)) /\ Traffic(h)[i] = e /\ node[h] = node[g]
    BY <1>4 DEF MailOf, OwnerOf
  <2>2. Before(h, e)
    BY <2>1 DEF OrderInv, PastInv
  <2>3. Visited(s, h)
    BY <1>1, <1>2, <1>3, <2>2 DEF Before
  <2>4. QED
    BY <1>2, <2>1, <2>3 DEF Visited
<1>5. Mail!DeliverBroadcast(s, g)
  BY <1>1, <1>2, <1>3, <1>4 DEF Mail!DeliverBroadcast, Mail!Has, OwnerOf, MailOf
<1>6. QED
  BY <1>5 DEF Mail!MailNext

\* Every step of the relay is a step of the abstract relay or none.
LEMMA MailStep ==
    Inv /\ OrderInv /\ FreshInv /\ [Next]_vars => [Mail!MailNext]_(Mail!mailVars)
<1> SUFFICES ASSUME Inv, OrderInv, FreshInv, [Next]_vars
             PROVE  [Mail!MailNext]_(Mail!mailVars)
  OBVIOUS
<1>a. ASSUME UNCHANGED <<env, lastId, node, buf, out>> PROVE UNCHANGED Mail!mailVars
  BY <1>a, MailStutter DEF Traffic
<1>1. ASSUME NEW s \in Stream, ClientStep(s) PROVE [Mail!MailNext]_(Mail!mailVars)
  <2>1. ASSUME NEW n \in Node, OpenStream(s, n) PROVE Mail!MailNext
    BY <2>1, MailOpen DEF OpenStream, locals, Handler
  <2>2. ASSUME NEW n \in Node, NEW t \in Target, OpenStreamWithPayload(s, n, t)
        PROVE  Mail!MailNext
    BY <2>2, MailOpenAndTake
  <2>3. ASSUME NEW n \in Node, NEW t \in Target, RecvEnvelope(s, n, t) PROVE Mail!MailNext
    BY <2>3, MailTake
  <2>4. CASE OpenStreamOtherType(s) \/ CancelStream(s) \/ RecvEOF(s)
    BY <1>a, <2>4 DEF OpenStreamOtherType, CancelStream, RecvEOF, locals
  <2>5. ASSUME NEW c \in Channel, Subscribe(s, c) \/ Unsubscribe(s, c)
        PROVE  UNCHANGED Mail!mailVars
    BY <1>a, <2>5 DEF Subscribe, Unsubscribe, locals
  <2>6. QED
    BY <1>1, <2>1, <2>2, <2>3, <2>4, <2>5 DEF ClientStep
<1>2. ASSUME NEW k \in Call, NEW n \in Node, ConnectToRelay(k, n)
      PROVE  [Mail!MailNext]_(Mail!mailVars)
  BY <1>2, MailOpen DEF ConnectToRelay, locals, Handler
<1>3. ASSUME NEW b \in Ban, NEW n \in Node, AddToBlacklist(b, n)
      PROVE  UNCHANGED Mail!mailVars
  <2>1. \A h \in Handler : node'[h] = node[h]
    BY <1>3, RelayAssumption DEF AddToBlacklist, Handler, Proc, Inv, TypeOK
  <2>2. QED
    BY <1>3, <2>1, MailStutter DEF AddToBlacklist, locals, Traffic
<1>4. ASSUME NEW n \in Node, RemoveFromBlacklist(n) PROVE UNCHANGED Mail!mailVars
  BY <1>4, <1>a DEF RemoveFromBlacklist, locals
<1>5. ASSUME NEW h \in Handler, RegisterStep(h) PROVE [Mail!MailNext]_(Mail!mailVars)
  <2>1. CASE RegisterCheck(h) \/ RegisterReplace(h) \/ RegisterStore(h)
    BY <1>a, <2>1 DEF RegisterCheck, RegisterReplace, RegisterStore, locals
  <2>2. CASE RegisterCount(h)
    <3>1. CASE env' = env
      BY <1>a, <2>2, <3>1 DEF RegisterCount
    <3>2. CASE h \in Stream /\ EnterRecvLoop(h)
      BY <2>2, <3>2, MailGiveUp DEF RegisterCount
    <3>3. QED
      BY <2>2, <3>1, <3>2 DEF RegisterCount
  <2>3. QED
    BY <1>5, <2>1, <2>2 DEF RegisterStep
<1>6. ASSUME NEW p \in Stream \cup Ban, UnregisterStep(p) PROVE UNCHANGED Mail!mailVars
  BY <1>6, <1>a DEF UnregisterStep, UnregisterTake, UnregisterCount, locals
<1>7. ASSUME NEW s \in Stream, ForwardCheck(s) \/ DirectLookup(s)
      PROVE  [Mail!MailNext]_(Mail!mailVars)
  <2>1. UNCHANGED <<lastId, node, buf, out>> /\ (env' = env \/ EnterRecvLoop(s))
    BY <1>7 DEF ForwardCheck, DirectLookup
  <2>2. QED
    BY <1>a, <2>1, MailGiveUp
<1>8. ASSUME NEW s \in Stream, DirectSend(s) PROVE [Mail!MailNext]_(Mail!mailVars)
  <2>1. CASE Enqueue(s) /\ LeaveSent(s)
    BY <1>8, <2>1, MailDirect DEF DirectSend
  <2>2. CASE buf' = buf /\ (env' = env \/ EnterRecvLoop(s))
    BY <1>8, <1>a, <2>2, MailGiveUp DEF DirectSend
  <2>3. QED
    BY <1>8, <2>1, <2>2 DEF DirectSend
<1>9. ASSUME NEW s \in Stream, NEW n \in Node, BroadcastVisit(s, n)
      PROVE  UNCHANGED Mail!mailVars
  BY <1>9, <1>a DEF BroadcastVisit
<1>10. ASSUME NEW s \in Stream, BroadcastSend(s) PROVE [Mail!MailNext]_(Mail!mailVars)
  <2>1. CASE Enqueue(s)
    BY <1>10, <2>1, MailBroadcast DEF BroadcastSend
  <2>2. CASE buf' = buf
    BY <1>10, <1>a, <2>2 DEF BroadcastSend
  <2>3. QED
    BY <1>10, <2>1, <2>2 DEF BroadcastSend
<1>dc. ASSUME NEW s \in Stream, DirectCount(s) PROVE [Mail!MailNext]_(Mail!mailVars)
  BY <1>dc, MailGiveUp DEF DirectCount
<1>11. ASSUME NEW s \in Stream, BroadcastEnd(s) PROVE [Mail!MailNext]_(Mail!mailVars)
  BY <1>11, MailGiveUp DEF BroadcastEnd
<1>12. ASSUME NEW s \in Stream, RecvErr(s) PROVE UNCHANGED Mail!mailVars
  BY <1>12, <1>a DEF RecvErr, locals
<1>13. ASSUME NEW s \in Stream, SenderDeliver(s) PROVE UNCHANGED Mail!mailVars
  BY <1>13, TrafficKept, MailStutter DEF SenderDeliver, locals
<1>14. ASSUME NEW s \in Stream, SenderCtxDone(s) \/ SenderNil(s)
       PROVE  UNCHANGED Mail!mailVars
  BY <1>14, <1>a DEF SenderCtxDone, SenderNil, locals
<1>15. CASE Stopped \/ UNCHANGED vars
  BY <1>15, <1>a DEF Stopped, vars
<1>16. QED
  BY <1>dc, <1>1, <1>2, <1>3, <1>4, <1>5, <1>6, <1>7, <1>8, <1>9, <1>10, <1>11, <1>12, <1>13,
     <1>14, <1>15
  DEF Next, ForwardStep, SenderStep

\* The relay implements RelayMail: whatever is registered, replaced, closed and banned
\* meanwhile, a direct envelope reaches one session of its addressee at most and a
\* broadcast one session of every other node at most.
THEOREM RelayRefinesMail == Spec => OncePerNode
<1>1. Init => Mail!MailInit
  <2> SUFFICES ASSUME Init PROVE Mail!MailInit
    OBVIOUS
  <2>1. \A h \in Handler : Traffic(h) = <<>> /\ node[h] = None
    BY DEF Init, Traffic, Proc
  <2>2. QED
    BY <2>1 DEF Init, Mail!MailInit
<1>2. QED
  BY <1>1, MailStep, Invariance, OrderInvariance, FreshInvariance, PTL
  DEF Spec, OncePerNode, Mail!MailSpec

-----------------------------------------------------------------------------
\* Between Store and Unregister a stream holds a session.
Holding == PC \ {"new", "check", "replace", "store", "dec", "done"}

Sole(s) == \A p \in Proc \ {s} : node[p] # node[s]

SoleInv == \A s \in Stream : pc[s] \in Holding /\ Sole(s) => sessions[node[s]] = s

\* A stream that is alone on its node after a step was so before it.
LEMMA SoleBefore ==
    ASSUME Inv, FreshInv, Stable, NEW s \in Stream, pc[s] # "new", Sole(s)'
    PROVE  Sole(s) /\ node'[s] = node[s] /\ node[s] \in Node
<1>1. s \in Proc /\ node'[s] = node[s] /\ node[s] \in Node
  BY DEF Stable, Proc, Handler, Inv, NodeInv
<1>2. ASSUME NEW p \in Proc \ {s}, node[p] = node[s] PROVE FALSE
  <2>1. pc[p] # "new"
    BY <1>1, <1>2, RelayAssumption DEF FreshInv
  <2>2. node'[p] = node[p]
    BY <2>1 DEF Stable
  <2>3. QED
    BY <1>1, <1>2, <2>2 DEF Sole
<1>3. QED
  BY <1>1, <1>2 DEF Sole

\* A step of call p touches the table under the node of p only.
LEMMA SoleMove ==
    ASSUME Inv, FreshInv, Stable, SoleInv, NEW p \in Proc,
           \A q \in Proc : q # p => pc'[q] = pc[q],
           \A n \in Node : n # node[p] => sessions'[n] = sessions[n],
           p \in Stream /\ pc'[p] \in Holding =>
              /\ pc[p] # "new"
              /\ \/ sessions'[node[p]] = p
                 \/ pc[p] \in Holding /\ sessions' = sessions
    PROVE  SoleInv'
<1> SUFFICES ASSUME NEW s \in Stream, pc'[s] \in Holding, Sole(s)'
             PROVE  sessions'[node'[s]] = s
  BY DEF SoleInv, Sole
<1>0. s \in Proc
  BY DEF Proc, Handler
<1>1. CASE s = p
  <2>1. Sole(s) /\ node'[s] = node[s]
    BY <1>1, SoleBefore
  <2>2. CASE sessions'[node[p]] = p
    BY <1>1, <2>1, <2>2
  <2>3. CASE pc[p] \in Holding /\ sessions' = sessions
    BY <1>1, <2>1, <2>3 DEF SoleInv
  <2>4. QED
    BY <1>1, <2>2, <2>3
<1>2. CASE s # p
  <2>1. pc[s] \in Holding /\ pc[s] # "new"
    BY <1>0, <1>2 DEF Holding
  <2>2. Sole(s) /\ node'[s] = node[s] /\ node[s] \in Node
    BY <2>1, SoleBefore
  <2>3. node[p] # node[s]
    BY <1>2, <2>2 DEF Sole
  <2>4. QED
    BY <2>1, <2>2, <2>3 DEF SoleInv
<1>3. QED
  BY <1>1, <1>2

\* The same for a step that leaves the table alone.
LEMMA SoleGoto ==
    ASSUME Inv, FreshInv, Stable, SoleInv, sessions' = sessions, NEW p \in Proc,
           NEW x \in PC, Goto(p, x), x \in Holding => pc[p] \in Holding
    PROVE  SoleInv'
<1>1. pc'[p] = x /\ \A q \in Proc : q # p => pc'[q] = pc[q]
  BY DEF Goto, Inv, TypeOK
<1>2. "new" \notin Holding
  BY DEF Holding
<1>3. QED
  BY <1>1, <1>2, SoleMove

\* Every step leaves a stream that is alone on its node its session.
LEMMA SoleStep == Inv /\ FreshInv /\ SoleInv /\ [Next]_vars => SoleInv'
<1> SUFFICES ASSUME Inv, FreshInv, SoleInv, [Next]_vars PROVE SoleInv'
  OBVIOUS
<1>0. /\ Stable
      /\ Stream \subseteq Proc /\ Call \subseteq Proc /\ Ban \subseteq Proc
      /\ Handler \subseteq Proc
      /\ {"count", "recv", "fwd", "lookup", "send", "sent", "range", "rsend",
          "unreg"} = Holding
      /\ Holding \subseteq PC
  BY StableStep DEF Proc, Handler, Holding, PC
<1>a. ASSUME UNCHANGED <<sessions, pc>> PROVE SoleInv'
  <2> SUFFICES ASSUME NEW s \in Stream, pc[s] \in Holding, Sole(s)'
               PROVE  sessions[node'[s]] = s
    BY <1>a DEF SoleInv, Sole
  <2>1. Sole(s) /\ node'[s] = node[s]
    BY <1>0, SoleBefore
  <2>2. QED
    BY <2>1 DEF SoleInv
<1>1. ASSUME NEW s \in Stream, ClientStep(s) PROVE SoleInv'
  <2>1. ASSUME NEW n \in Node, OpenStream(s, n) PROVE SoleInv'
    BY <1>0, <2>1, SoleGoto DEF OpenStream, table, PC, Holding
  <2>2. ASSUME NEW n \in Node, NEW t \in Target, OpenStreamWithPayload(s, n, t)
        PROVE  SoleInv'
    BY <1>0, <2>2, SoleGoto DEF OpenStreamWithPayload, table, PC, Holding
  <2>3. ASSUME NEW n \in Node, NEW t \in Target, RecvEnvelope(s, n, t) PROVE SoleInv'
    BY <1>0, <2>3, SoleGoto DEF RecvEnvelope, table
  <2>4. CASE OpenStreamOtherType(s) \/ CancelStream(s)
    BY <1>a, <2>4 DEF OpenStreamOtherType, CancelStream, table
  <2>5. ASSUME NEW c \in Channel, Subscribe(s, c) \/ Unsubscribe(s, c) PROVE SoleInv'
    BY <1>a, <2>5 DEF Subscribe, Unsubscribe
  <2>6. CASE RecvEOF(s)
    BY <1>0, <2>6, SoleGoto DEF RecvEOF, table
  <2>7. QED
    BY <1>1, <2>1, <2>2, <2>3, <2>4, <2>5, <2>6 DEF ClientStep
<1>2. ASSUME NEW k \in Call, NEW n \in Node, ConnectToRelay(k, n) PROVE SoleInv'
  BY <1>0, <1>2, SoleGoto DEF ConnectToRelay, table, PC, Holding
<1>3. ASSUME NEW b \in Ban, NEW n \in Node, AddToBlacklist(b, n) PROVE SoleInv'
  <2>1. /\ sessions' = sessions /\ b \notin Stream
        /\ \A q \in Proc : q # b => pc'[q] = pc[q]
    BY <1>3, RelayAssumption DEF AddToBlacklist, Goto, Inv, TypeOK
  <2>2. QED
    BY <1>0, <2>1, SoleMove
<1>4. ASSUME NEW n \in Node, RemoveFromBlacklist(n) PROVE SoleInv'
  BY <1>4, <1>a DEF RemoveFromBlacklist
<1>5. ASSUME NEW h \in Handler, RegisterCheck(h) PROVE SoleInv'
  BY <1>0, <1>5, SoleGoto DEF RegisterCheck, Return, table, PC, Holding
<1>6. ASSUME NEW h \in Handler, RegisterReplace(h) PROVE SoleInv'
  <2>1. /\ pc'[h] = "store" /\ \A q \in Proc : q # h => pc'[q] = pc[q]
        /\ \A n \in Node : n # node[h] => sessions'[n] = sessions[n]
    BY <1>0, <1>6 DEF RegisterReplace, Goto, TakeAndClose, Inv, TypeOK
  <2>2. QED
    BY <1>0, <2>1, SoleMove
<1>7. ASSUME NEW h \in Handler, RegisterStore(h) PROVE SoleInv'
  <2>1. /\ pc[h] = "store" /\ \A q \in Proc : q # h => pc'[q] = pc[q]
        /\ \A n \in Node : n # node[h] => sessions'[n] = sessions[n]
        /\ node[h] \in Node
    BY <1>0, <1>7 DEF RegisterStore, Goto, Inv, TypeOK, NodeInv
  <2>2. sessions'[node[h]] = h
    BY <1>7, <2>1 DEF RegisterStore, Inv, TypeOK
  <2>3. QED
    BY <1>0, <2>1, <2>2, SoleMove
<1>8. ASSUME NEW h \in Handler, RegisterCount(h) PROVE SoleInv'
  BY <1>0, <1>8, SoleGoto DEF RegisterCount, EnterRecvLoop, table, PC
<1>9. ASSUME NEW p \in Stream \cup Ban, UnregisterTake(p) PROVE SoleInv'
  <2>1. /\ p \in Proc /\ \A q \in Proc : q # p => pc'[q] = pc[q]
        /\ \A n \in Node : n # node[p] => sessions'[n] = sessions[n]
    BY <1>0, <1>9 DEF UnregisterTake, Return, Goto, TakeAndClose, Inv, TypeOK
  <2>2. pc'[p] \in {"dec", "done"}
    BY <1>9, <2>1 DEF UnregisterTake, Return, Goto, Inv, TypeOK
  <2>3. QED
    BY <1>0, <2>1, <2>2, SoleMove
<1>10. ASSUME NEW p \in Stream \cup Ban, UnregisterCount(p) PROVE SoleInv'
  BY <1>0, <1>10, SoleGoto DEF UnregisterCount, Return, table, PC, Holding
<1>11. ASSUME NEW s \in Stream, ForwardCheck(s) \/ DirectLookup(s) \/ DirectSend(s)
       PROVE  SoleInv'
  BY <1>0, <1>11, <1>a, SoleGoto
  DEF ForwardCheck, DirectLookup, DirectSend, EnterRecvLoop, LeaveSent, table
<1>12. ASSUME NEW s \in Stream, NEW n \in Node, BroadcastVisit(s, n) PROVE SoleInv'
  BY <1>0, <1>12, <1>a, SoleGoto DEF BroadcastVisit, table
<1>13. ASSUME NEW s \in Stream, BroadcastSend(s) \/ BroadcastEnd(s) \/ DirectCount(s)
                               \/ RecvErr(s)
       PROVE  SoleInv'
  BY <1>0, <1>13, <1>a, SoleGoto
  DEF BroadcastSend, BroadcastEnd, DirectCount, RecvErr, EnterRecvLoop, table
<1>14. ASSUME NEW s \in Stream, SenderStep(s) PROVE SoleInv'
  BY <1>14, <1>a DEF SenderStep, SenderDeliver, SenderCtxDone, SenderNil, table
<1>15. CASE Stopped \/ UNCHANGED vars
  BY <1>15, <1>a DEF Stopped, vars
<1>16. QED
  BY <1>1, <1>2, <1>3, <1>4, <1>5, <1>6, <1>7, <1>8, <1>9, <1>10, <1>11, <1>12, <1>13,
     <1>14, <1>15
  DEF Next, RegisterStep, UnregisterStep, ForwardStep

\* A stream that no other call of its node disturbs stays registered, with an open
\* SendChan, from RegisterSession to its own UnregisterSession: what the finding about
\* StreamHasSession loses is lost to a reconnection of the same node and to nothing else.
THEOREM SoleStreamStaysRegistered == Spec => []SoleStreamHasSession
<1>1. Init => SoleInv
  BY DEF Init, SoleInv, Holding, Proc, Handler
<1>2. Inv /\ SoleInv => SoleStreamHasSession
  <2> SUFFICES ASSUME Inv, SoleInv, NEW s \in Stream,
                      pc[s] \notin {"new", "check", "replace", "store", "dec", "done"},
                      Sole(s)
               PROVE  sessions[node[s]] = s /\ s \notin closed
    BY DEF SoleStreamHasSession, Sole
  <2>1. s \in Proc /\ pc[s] \in Holding /\ node[s] \in Node
    BY DEF Holding, Proc, Handler, Inv, TypeOK, NodeInv
  <2>2. sessions[node[s]] = s /\ s # None
    BY <2>1, RelayAssumption DEF SoleInv
  <2>3. QED
    BY <2>1, <2>2 DEF Inv, TableInv
<1>3. QED
  BY <1>1, <1>2, SoleStep, Invariance, FreshInvariance, PTL DEF Spec
=============================================================================
