------------------------ MODULE ClientSessionsProofs ------------------------
(***************************************************************************)
(* Proofs about ClientSessions for every set of clients and every number   *)
(* of key pairs, chat messages and restarts.                               *)
(***************************************************************************)
EXTENDS ClientSessions, FiniteSetTheorems, TLAPS

Due == [link : Link, pair : Pair]
Waits == {waiting[l] : l \in Link}

\* A message that may be on a line when n key pairs have been made and those of W wait
\* for an Ack: a chat message has an id, an exchange names a key pair that was made, and
\* an Ack one that its sender made for it.
Good(m, n, W) ==
    /\ m \in Messages
    /\ m.type = "chat" => m.id \in 1..MaxChats
    /\ m.type # "chat" => m.pair \in 1..n
    /\ m.type = "ack" => m.pair \notin W

GoodLine(q, n, W) == \A i \in 1..Len(q) : Good(q[i], n, W)

\* Key pairs are fresh, so the two of a session are different.
MessageInv ==
    /\ \A l \in Link : GoodLine(line[l], pairs, Waits)
    /\ \A x \in writing : x[2].type = "chat" /\ x[2].id \in 1..MaxChats
    /\ \A x \in unsent : x[2] \in 1..pairs
    /\ \A l \in Link : waiting[l] # None => waiting[l] \in 1..pairs
    /\ \A n \in Person : ackDue[n] # None =>
          /\ ackDue[n].link[1] = n
          /\ ackDue[n].pair \in 1..pairs /\ ackDue[n].pair \notin Waits

-----------------------------------------------------------------------------
\* A link, its way back, and the ways back of others.
LEMMA BackLink ==
    ASSUME NEW l \in Link
    PROVE  /\ Back(l) \in Link /\ Back(l) # l /\ Back(Back(l)) = l
           /\ l[1] \in Person /\ l[2] \in Person
           /\ Back(l)[1] = l[2] /\ Back(l)[2] = l[1]
           /\ \A k \in Link : Back(k) = l => k = Back(l)
BY DEF Link, Back

LEMMA NotNone == None \notin Pair /\ None \notin Due
BY SessionsNoneAssumption DEF Due

LEMMA PairNat == Pair \subseteq Nat /\ \A n \in Nat : n < MaxPairs => n + 1 \in Pair
BY SessionsAssumption DEF Pair

\* The sizes of a session that was dropped and of one with two key pairs.
LEMMA SessionSize ==
    /\ Cardinality({}) = 0
    /\ \A i \in Pair, j \in Pair : i # j => Cardinality({i, j}) = 2
<1>1. Cardinality({}) = 0
  BY FS_EmptySet
<1>2. ASSUME NEW i \in Pair, NEW j \in Pair, i # j PROVE Cardinality({i, j}) = 2
  <2>1. IsFiniteSet({i}) /\ Cardinality({i}) = 1
    BY FS_Singleton
  <2>2. Cardinality({i} \cup {j}) = Cardinality({i}) + 1
    BY <1>2, <2>1, FS_AddElement
  <2>3. {i} \cup {j} = {i, j}
    OBVIOUS
  <2> QED BY <2>1, <2>2, <2>3
<1> QED BY <1>1, <1>2

\* What Tail and Append do to the elements of a line.
LEMMA QueueTail ==
    ASSUME NEW q \in Seq(Messages), q # <<>>
    PROVE  /\ Len(q) \in Nat /\ 1 \in 1..Len(q) /\ Head(q) = q[1] /\ Head(q) \in Messages
           /\ Tail(q) \in Seq(Messages) /\ Len(Tail(q)) = Len(q) - 1
           /\ \A i \in 1..Len(Tail(q)) : i + 1 \in 1..Len(q) /\ Tail(q)[i] = q[i + 1]
OBVIOUS

LEMMA QueueAppend ==
    ASSUME NEW q \in Seq(Messages), NEW m \in Messages
    PROVE  /\ Len(q) \in Nat
           /\ Append(q, m) \in Seq(Messages) /\ Len(Append(q, m)) = Len(q) + 1
           /\ \A i \in 1..Len(q) : Append(q, m)[i] = q[i]
           /\ Append(q, m)[Len(q) + 1] = m
           /\ \A i \in 1..Len(Append(q, m)) : i \in 1..Len(q) \/ i = Len(q) + 1
OBVIOUS

\* Good lines stay good when they get shorter or longer, and when key pairs are made.
LEMMA GoodTail ==
    ASSUME NEW q \in Seq(Messages), q # <<>>, NEW n \in Nat, NEW W, GoodLine(q, n, W)
    PROVE  GoodLine(Tail(q), n, W) /\ Good(Head(q), n, W)
BY QueueTail DEF GoodLine

LEMMA GoodAppend ==
    ASSUME NEW q \in Seq(Messages), NEW m \in Messages, NEW n \in Nat, NEW W,
           GoodLine(q, n, W), Good(m, n, W)
    PROVE  GoodLine(Append(q, m), n, W)
<1> SUFFICES ASSUME NEW i \in 1..Len(Append(q, m)) PROVE Good(Append(q, m)[i], n, W)
  BY DEF GoodLine
<1>1. CASE i \in 1..Len(q)
  <2>1. Append(q, m)[i] = q[i]
    BY <1>1, QueueAppend
  <2> QED BY <1>1, <2>1 DEF GoodLine
<1>2. CASE i = Len(q) + 1
  BY <1>2, QueueAppend
<1> QED BY <1>1, <1>2, QueueAppend

LEMMA GoodGrows ==
    ASSUME NEW q, NEW n \in Nat, NEW o \in Nat, n <= o, NEW V, NEW W,
           \A x \in W : x \in V \/ x \notin 1..n, GoodLine(q, n, V)
    PROVE  GoodLine(q, o, W)
BY DEF GoodLine, Good

\* Init and Ack, made of a key pair.
LEMMA ExchangeMessage ==
    ASSUME NEW t \in {"init", "ack"}, NEW i \in Pair
    PROVE  /\ Message(t, i, {}, 0) \in Messages
           /\ Message(t, i, {}, 0).type = t /\ Message(t, i, {}, 0).pair = i
BY SessionsAssumption DEF Message, Messages, Pair

\* What is due to be sent.
LEMMA DueType ==
    ASSUME NEW l \in Link, NEW j \in Pair
    PROVE  \E d \in Due : d = [link |-> l, pair |-> j] /\ d.link = l /\ d.pair = j
<1> DEFINE d == [link |-> l, pair |-> j]
<1>1. d \in Due /\ d.link = l /\ d.pair = j
  BY DEF Due
<1> QED BY <1>1

\* A chat message.
LEMMA ChatMessage ==
    ASSUME NEW s \in SUBSET Pair, NEW i \in 1..MaxChats
    PROVE  /\ Message("chat", 0, s, i) \in Messages
           /\ Message("chat", 0, s, i).type = "chat" /\ Message("chat", 0, s, i).id = i
BY SessionsAssumption DEF Message, Messages, Pair

-----------------------------------------------------------------------------
\* The lines after a message was sent, or lost.
LEMMA TransmitLine ==
    ASSUME SessionsTypeOK, MessageInv, NEW l \in Link, NEW m \in Messages,
           Transmit(l, m), Good(m, pairs, Waits)
    PROVE  /\ line' \in [Link -> Seq(Messages)]
           /\ \A k \in Link : GoodLine(line'[k], pairs, Waits)
<1>a. line \in [Link -> Seq(Messages)] /\ pairs \in Nat
  BY SessionsAssumption DEF SessionsTypeOK
<1>b. \A k \in Link : GoodLine(line[k], pairs, Waits)
  BY DEF MessageInv
<1>1. CASE UNCHANGED line
  BY <1>1, <1>a, <1>b
<1>2. CASE line' = [line EXCEPT ![l] = Append(line[l], m)]
  <2>1. Append(line[l], m) \in Seq(Messages)
    BY <1>a, QueueAppend
  <2>2. GoodLine(Append(line[l], m), pairs, Waits)
    BY <1>a, <1>b, GoodAppend
  <2>3. /\ line' \in [Link -> Seq(Messages)] /\ line'[l] = Append(line[l], m)
        /\ \A k \in Link : k # l => line'[k] = line[k]
    BY <1>2, <1>a, <2>1
  <2> QED BY <1>b, <2>2, <2>3
<1> QED BY <1>1, <1>2 DEF Transmit

\* The lines after a message was taken.
LEMMA ReceiveLine ==
    ASSUME SessionsTypeOK, MessageInv, NEW l \in Link, NEW t, Receives(l, t)
    PROVE  /\ line' \in [Link -> Seq(Messages)]
           /\ line[l] \in Seq(Messages) /\ line[l] # <<>>
           /\ line'[l] = Tail(line[l])
           /\ \A k \in Link : k # l => line'[k] = line[k]
           /\ \A k \in Link : GoodLine(line'[k], pairs, Waits)
           /\ Head(line[l]).type = t /\ Good(Head(line[l]), pairs, Waits)
<1>a. line \in [Link -> Seq(Messages)] /\ pairs \in Nat
  BY SessionsAssumption DEF SessionsTypeOK
<1>b. \A k \in Link : GoodLine(line[k], pairs, Waits)
  BY DEF MessageInv
<1>1. line[l] # <<>> /\ Head(line[l]).type = t /\ line' = [line EXCEPT ![l] = Tail(line[l])]
  BY DEF Receives
<1>2. Tail(line[l]) \in Seq(Messages)
  BY <1>a, <1>1, QueueTail
<1>3. /\ line' \in [Link -> Seq(Messages)] /\ line'[l] = Tail(line[l])
      /\ \A k \in Link : k # l => line'[k] = line[k]
  BY <1>a, <1>1, <1>2
<1>4. GoodLine(Tail(line[l]), pairs, Waits) /\ Good(Head(line[l]), pairs, Waits)
  BY <1>a, <1>b, <1>1, GoodTail
<1> QED BY <1>a, <1>b, <1>1, <1>3, <1>4

\* The key pairs that wait after no key pair has begun to wait.
LEMMA WaitsShrink ==
    ASSUME \A l \in Link : waiting'[l] = waiting[l] \/ waiting'[l] = None,
           MessageInv, SessionsTypeOK
    PROVE  \A x \in Waits' : x \in Waits \/ x \notin 1..pairs
BY NotNone, SessionsAssumption DEF Waits, SessionsTypeOK, Pair

\* A step that leaves the key pairs, those that wait and what is due alone.
LEMMA MessageStays ==
    ASSUME SessionsTypeOK, MessageInv, UNCHANGED pairs,
           \A l \in Link : waiting'[l] = waiting[l] \/ waiting'[l] = None,
           \A l \in Link : GoodLine(line'[l], pairs, Waits),
           \A x \in writing' : x \in writing,
           \A x \in unsent' : x \in unsent,
           \A n \in Person : ackDue'[n] = ackDue[n] \/ ackDue'[n] = None
    PROVE  MessageInv'
<1>1. \A x \in Waits' : x \in Waits \/ x \notin 1..pairs
  BY WaitsShrink
<1>2. pairs \in Nat
  BY SessionsAssumption DEF SessionsTypeOK
<1>3. \A l \in Link : GoodLine(line'[l], pairs', Waits')
  BY <1>1, <1>2, GoodGrows
<1>4. \A n \in Person : ackDue'[n] # None =>
          /\ ackDue'[n].link[1] = n
          /\ ackDue'[n].pair \in 1..pairs' /\ ackDue'[n].pair \notin Waits'
  BY <1>1 DEF MessageInv
<1>5. \A l \in Link : waiting'[l] # None => waiting'[l] \in 1..pairs'
  BY DEF MessageInv
<1> QED BY <1>3, <1>4, <1>5 DEF MessageInv

\* The initial states have the types.
LEMMA InitType == SessionsInit => SessionsTypeOK /\ MessageInv
<1> SUFFICES ASSUME SessionsInit PROVE SessionsTypeOK /\ MessageInv
  OBVIOUS
<1> USE DEF SessionsInit
<1>1. SessionsTypeOK
  BY SessionsAssumption, SessionSize DEF SessionsTypeOK
<1>2. MessageInv
  BY DEF MessageInv, GoodLine
<1> QED BY <1>1, <1>2

\* A new key pair that waits.
LEMMA InitiateType ==
    ASSUME SessionsTypeOK, MessageInv, NEW l \in Link, InitiateHandshake(l)
    PROVE  SessionsTypeOK' /\ MessageInv'
<1>a. pairs \in Nat /\ pairs + 1 \in Pair /\ pairs' = pairs + 1 /\ pairs' \in 0..MaxPairs
  BY PairNat, SessionsAssumption DEF SessionsTypeOK, InitiateHandshake
<1>1. /\ waiting' \in [Link -> Pair \cup {None}]
      /\ \A k \in Link : waiting'[k] = waiting[k] \/ waiting'[k] = pairs + 1
      /\ unsent' \in SUBSET (Link \X Pair)
      /\ \A x \in unsent' : x \in unsent \/ x[2] = pairs + 1
  BY <1>a DEF InitiateHandshake, SessionsTypeOK
<1>2. tangled' \in SUBSET Link
  BY BackLink DEF InitiateHandshake, SessionsTypeOK
<1>b. /\ starting' \in [Link -> 0..MaxStarting]
      /\ UNCHANGED <<chats, crashes, session, ackDue, writing, line, stored>>
  BY SessionsAssumption DEF InitiateHandshake, SessionsTypeOK
<1>3. SessionsTypeOK'
  BY <1>a, <1>b, <1>1, <1>2 DEF SessionsTypeOK
<1>4. \A x \in Waits' : x \in Waits \/ x \notin 1..pairs
  BY <1>a, <1>1 DEF Waits
<1>5. \A k \in Link : GoodLine(line'[k], pairs', Waits')
  BY <1>a, <1>b, <1>4, GoodGrows DEF MessageInv
<1>6. \A n \in Person : ackDue'[n] # None =>
          /\ ackDue'[n].link[1] = n
          /\ ackDue'[n].pair \in 1..pairs' /\ ackDue'[n].pair \notin Waits'
  BY <1>a, <1>b, <1>4 DEF MessageInv
<1>7. MessageInv'
  BY <1>a, <1>b, <1>1, <1>5, <1>6 DEF MessageInv
<1> QED BY <1>3, <1>7

\* Every step keeps the types.
LEMMA StepType ==
    ASSUME SessionsTypeOK, MessageInv, [SessionsNext]_sessionVars
    PROVE  SessionsTypeOK' /\ MessageInv'
<1>a. /\ pairs \in Nat /\ pairs <= MaxPairs /\ chats \in Nat /\ chats <= MaxChats
      /\ MaxPairs \in Nat /\ MaxChats \in Nat
  BY SessionsAssumption DEF SessionsTypeOK
<1>b. \A k \in Link : GoodLine(line[k], pairs, Waits)
  BY DEF MessageInv
<1>1. ASSUME NEW l \in Link, SendMessage(l) PROVE SessionsTypeOK' /\ MessageInv'
  <2>1. CASE /\ starting[l] < MaxStarting /\ starting' = [starting EXCEPT ![l] = @ + 1]
             /\ UNCHANGED <<pairs, chats, crashes, session, waiting, unsent, ackDue,
                            writing, line, stored, tangled>>
    <3>1. starting' \in [Link -> 0..MaxStarting]
      BY <2>1, SessionsAssumption DEF SessionsTypeOK
    <3>2. SessionsTypeOK'
      BY <2>1, <3>1 DEF SessionsTypeOK
    <3> QED BY <1>b, <2>1, <3>2, MessageStays
  <2>2. CASE /\ session[l] # {} /\ chats < MaxChats
             /\ chats' = chats + 1
             /\ writing' = writing \cup {<<l, Message("chat", 0, session[l], chats + 1)>>}
             /\ UNCHANGED <<pairs, crashes, session, starting, waiting, unsent, ackDue,
                            line, stored, tangled>>
    <3>1. PICK m \in Messages : /\ m = Message("chat", 0, session[l], chats + 1)
                                /\ m.type = "chat" /\ m.id \in 1..MaxChats
      <4>1. session[l] \in SUBSET Pair /\ chats + 1 \in 1..MaxChats
        BY <1>a, <2>2 DEF SessionsTypeOK
      <4> QED BY <4>1, ChatMessage
    <3>2. writing' = writing \cup {<<l, m>>}
      BY <2>2, <3>1
    <3>3. writing' \in SUBSET (Link \X Messages) /\ chats' \in 0..MaxChats
      BY <1>a, <2>2, <3>2 DEF SessionsTypeOK
    <3>4. SessionsTypeOK'
      BY <2>2, <3>3 DEF SessionsTypeOK
    <3>5. \A x \in writing' : x[2].type = "chat" /\ x[2].id \in 1..MaxChats
      BY <3>1, <3>2 DEF MessageInv
    <3>6. Waits' = Waits
      BY <2>2 DEF Waits
    <3> QED BY <2>2, <3>4, <3>5, <3>6 DEF MessageInv
  <2> QED BY <1>1, <2>1, <2>2 DEF SendMessage
<1>c. ASSUME NEW l \in Link, InitiateHandshake(l) PROVE SessionsTypeOK' /\ MessageInv'
  BY <1>c, InitiateType
<1>2. ASSUME NEW x \in unsent, SendInit(x) PROVE SessionsTypeOK' /\ MessageInv'
  <2>1. x[1] \in Link /\ x[2] \in Pair /\ x[2] \in 1..pairs
    BY DEF SessionsTypeOK, MessageInv
  <2>2. PICK m \in Messages : m = Message("init", x[2], {}, 0) /\ m.type = "init" /\ m.pair = x[2]
    BY <2>1, ExchangeMessage
  <2>3. Good(m, pairs, Waits) /\ Transmit(x[1], m)
    BY <1>2, <2>1, <2>2 DEF Good, SendInit
  <2>4. /\ line' \in [Link -> Seq(Messages)]
        /\ \A k \in Link : GoodLine(line'[k], pairs, Waits)
    BY <2>1, <2>3, TransmitLine
  <2>5. SessionsTypeOK'
    BY <1>2, <2>4 DEF SendInit, SessionsTypeOK
  <2> QED BY <1>2, <2>4, <2>5, MessageStays DEF SendInit
<1>3. ASSUME NEW x \in writing, SendChat(x) PROVE SessionsTypeOK' /\ MessageInv'
  <2>1. x[1] \in Link /\ x[2] \in Messages /\ x[2].type = "chat" /\ x[2].id \in 1..MaxChats
    BY DEF SessionsTypeOK, MessageInv
  <2>2. Good(x[2], pairs, Waits) /\ Transmit(x[1], x[2])
    BY <1>3, <2>1 DEF Good, SendChat
  <2>3. /\ line' \in [Link -> Seq(Messages)]
        /\ \A k \in Link : GoodLine(line'[k], pairs, Waits)
    BY <2>1, <2>2, TransmitLine
  <2>4. stored' \in [Person -> SUBSET (1..MaxChats)]
    BY <1>3, <2>1, BackLink DEF SendChat, SessionsTypeOK
  <2>5. SessionsTypeOK'
    BY <1>3, <2>3, <2>4 DEF SendChat, SessionsTypeOK
  <2> QED BY <1>3, <2>3, <2>5, MessageStays DEF SendChat
<1>4. ASSUME NEW l \in Link, HandleKeyExchangeInit(l) PROVE SessionsTypeOK' /\ MessageInv'
  <2>1. /\ line' \in [Link -> Seq(Messages)]
        /\ \A k \in Link : GoodLine(line'[k], pairs, Waits)
        /\ Head(line[l]).type = "init" /\ Good(Head(line[l]), pairs, Waits)
    BY <1>4, ReceiveLine DEF HandleKeyExchangeInit
  <2>2. PICK i \in Pair : i = Head(line[l]).pair /\ i \in 1..pairs
    BY <1>a, <2>1 DEF Good, Pair
  <2>3. PICK j \in Pair : j = pairs + 1
    BY <1>4, <1>a, PairNat DEF HandleKeyExchangeInit
  <2>4. PICK d \in Due : d = [link |-> Back(l), pair |-> j] /\ d.link = Back(l) /\ d.pair = j
    <3>1. Back(l) \in Link
      BY BackLink
    <3> QED BY <3>1, DueType
  <2>5. /\ pairs' = j
        /\ session' = [session EXCEPT ![Back(l)] = {i, j}]
        /\ ackDue' = [ackDue EXCEPT ![l[2]] = d]
        /\ UNCHANGED <<chats, crashes, starting, waiting, unsent, writing, stored, tangled>>
    BY <1>4, <2>2, <2>3, <2>4 DEF HandleKeyExchangeInit
  <2>6. Cardinality({i, j}) = 2 /\ {i, j} \in SUBSET Pair
    BY <1>a, <2>2, <2>3, SessionSize
  <2>7. /\ session' \in [Link -> SUBSET Pair]
        /\ \A k \in Link : session'[k] = session[k] \/ session'[k] = {i, j}
    BY <2>5, <2>6 DEF SessionsTypeOK
  <2>8. /\ ackDue' \in [Person -> Due \cup {None}]
        /\ \A n \in Person : ackDue'[n] = ackDue[n] \/ (n = l[2] /\ ackDue'[n] = d)
    BY <2>5, BackLink DEF SessionsTypeOK, Due
  <2>9. \A k \in Link : Cardinality(session'[k]) \in {0, 2}
    BY <2>6, <2>7 DEF SessionsTypeOK
  <2>10. pairs' \in 0..MaxPairs
    BY <2>5, SessionsAssumption DEF Pair
  <2>11. SessionsTypeOK'
    BY <2>1, <2>5, <2>7, <2>8, <2>9, <2>10 DEF SessionsTypeOK, Due
  <2>12. Waits' = Waits /\ \A x \in Waits : x \in 1..pairs \/ x = None
    BY <2>5 DEF Waits, MessageInv
  <2>13. \A k \in Link : GoodLine(line'[k], pairs', Waits')
    BY <1>a, <2>1, <2>3, <2>5, <2>12, GoodGrows
  <2>14. d.pair \notin Waits' /\ d.pair \in 1..pairs' /\ d.link[1] = l[2]
    BY <1>a, <2>3, <2>4, <2>5, <2>12, NotNone, BackLink
  <2>15. \A n \in Person : ackDue'[n] # None =>
          /\ ackDue'[n].link[1] = n
          /\ ackDue'[n].pair \in 1..pairs' /\ ackDue'[n].pair \notin Waits'
    BY <1>a, <2>3, <2>5, <2>8, <2>12, <2>14 DEF MessageInv
  <2>16. MessageInv'
    BY <1>a, <2>3, <2>5, <2>13, <2>15 DEF MessageInv
  <2> QED BY <2>11, <2>16
<1>5. ASSUME NEW n \in Person, SendAck(n) PROVE SessionsTypeOK' /\ MessageInv'
  <2>1. PICK d \in Due : d = ackDue[n]
    BY <1>5 DEF SendAck, SessionsTypeOK, Due
  <2>2. d.link \in Link /\ d.pair \in Pair /\ d.pair \in 1..pairs /\ d.pair \notin Waits
    BY <2>1, NotNone DEF Due, MessageInv
  <2>3. PICK m \in Messages : m = Message("ack", d.pair, {}, 0) /\ m.type = "ack" /\ m.pair = d.pair
    BY <2>2, ExchangeMessage
  <2>4. Good(m, pairs, Waits) /\ Transmit(d.link, m)
    BY <1>5, <2>1, <2>2, <2>3 DEF Good, SendAck
  <2>5. /\ line' \in [Link -> Seq(Messages)]
        /\ \A k \in Link : GoodLine(line'[k], pairs, Waits)
    BY <2>2, <2>4, TransmitLine
  <2>6. /\ ackDue' \in [Person -> Due \cup {None}]
        /\ \A p \in Person : ackDue'[p] = ackDue[p] \/ ackDue'[p] = None
    BY <1>5 DEF SendAck, SessionsTypeOK, Due
  <2>7. SessionsTypeOK'
    BY <1>5, <2>5, <2>6 DEF SendAck, SessionsTypeOK, Due
  <2> QED BY <1>5, <2>5, <2>6, <2>7, MessageStays DEF SendAck
<1>6. ASSUME NEW l \in Link, HandleKeyExchangeAck(l) PROVE SessionsTypeOK' /\ MessageInv'
  <2>1. /\ line' \in [Link -> Seq(Messages)]
        /\ \A k \in Link : GoodLine(line'[k], pairs, Waits)
        /\ Head(line[l]).type = "ack" /\ Good(Head(line[l]), pairs, Waits)
    BY <1>6, ReceiveLine DEF HandleKeyExchangeAck
  <2>2. PICK j \in Pair : j = Head(line[l]).pair /\ j \notin Waits
    BY <1>a, <2>1 DEF Good, Pair
  <2>3. UNCHANGED <<pairs, chats, crashes, starting, unsent, ackDue, writing, stored, tangled>>
    BY <1>6 DEF HandleKeyExchangeAck
  <2>4. /\ session' \in [Link -> SUBSET Pair] /\ waiting' \in [Link -> Pair \cup {None}]
        /\ \A k \in Link : Cardinality(session'[k]) \in {0, 2}
        /\ \A k \in Link : waiting'[k] = waiting[k] \/ waiting'[k] = None
    <3>1. CASE waiting[Back(l)] = None
      BY <1>6, <3>1 DEF HandleKeyExchangeAck, SessionsTypeOK
    <3>2. CASE waiting[Back(l)] # None
      <4>1. PICK i \in Pair : i = waiting[Back(l)] /\ i \in Waits
        BY <3>2, BackLink DEF SessionsTypeOK, Waits
      <4>2. /\ session' = [session EXCEPT ![Back(l)] = {i, j}]
            /\ waiting' = [waiting EXCEPT ![Back(l)] = None]
        BY <1>6, <2>2, <3>2, <4>1 DEF HandleKeyExchangeAck
      <4>3. Cardinality({i, j}) = 2 /\ {i, j} \in SUBSET Pair
        BY <2>2, <4>1, SessionSize
      <4>4. /\ session' \in [Link -> SUBSET Pair]
            /\ \A k \in Link : session'[k] = session[k] \/ session'[k] = {i, j}
        BY <4>2, <4>3 DEF SessionsTypeOK
      <4>5. /\ waiting' \in [Link -> Pair \cup {None}]
            /\ \A k \in Link : waiting'[k] = waiting[k] \/ waiting'[k] = None
        BY <4>2 DEF SessionsTypeOK
      <4>6. \A k \in Link : Cardinality(session'[k]) \in {0, 2}
        BY <4>3, <4>4 DEF SessionsTypeOK
      <4> QED BY <4>4, <4>5, <4>6
    <3> QED BY <3>1, <3>2
  <2>5. SessionsTypeOK'
    BY <2>1, <2>3, <2>4 DEF SessionsTypeOK
  <2> QED BY <2>1, <2>3, <2>4, <2>5, MessageStays
<1>7. ASSUME NEW l \in Link, HandleChatMessage(l) PROVE SessionsTypeOK' /\ MessageInv'
  <2>1. /\ line' \in [Link -> Seq(Messages)]
        /\ \A k \in Link : GoodLine(line'[k], pairs, Waits)
        /\ Head(line[l]).type = "chat" /\ Good(Head(line[l]), pairs, Waits)
    BY <1>7, ReceiveLine DEF HandleChatMessage
  <2>2. Head(line[l]).id \in 1..MaxChats
    BY <2>1 DEF Good
  <2>3. stored' \in [Person -> SUBSET (1..MaxChats)]
    BY <1>7, <2>2, BackLink DEF HandleChatMessage, SessionsTypeOK
  <2>4. SessionsTypeOK'
    BY <1>7, <2>1, <2>3 DEF HandleChatMessage, SessionsTypeOK
  <2> QED BY <1>7, <2>1, <2>4, MessageStays DEF HandleChatMessage
<1>8. ASSUME NEW n \in Person, RestartPerson(n) PROVE SessionsTypeOK' /\ MessageInv'
  <2>1. /\ session' \in [Link -> SUBSET Pair]
        /\ \A k \in Link : session'[k] = session[k] \/ session'[k] = {}
    BY <1>8 DEF RestartPerson, SessionsTypeOK
  <2>2. \A k \in Link : Cardinality(session'[k]) \in {0, 2}
    BY <2>1, SessionSize DEF SessionsTypeOK
  <2>3. /\ waiting' \in [Link -> Pair \cup {None}]
        /\ \A k \in Link : waiting'[k] = waiting[k] \/ waiting'[k] = None
    BY <1>8 DEF RestartPerson, SessionsTypeOK
  <2>4. /\ line' \in [Link -> Seq(Messages)]
        /\ \A k \in Link : line'[k] = line[k] \/ line'[k] = <<>>
    BY <1>8 DEF RestartPerson, SessionsTypeOK
  <2>5. \A k \in Link : GoodLine(line'[k], pairs, Waits)
    <3>1. GoodLine(<<>>, pairs, Waits)
      BY DEF GoodLine
    <3> QED BY <1>b, <2>4, <3>1
  <2>6. /\ ackDue' \in [Person -> Due \cup {None}]
        /\ \A p \in Person : ackDue'[p] = ackDue[p] \/ ackDue'[p] = None
    BY <1>8 DEF RestartPerson, SessionsTypeOK, Due
  <2>7. /\ unsent' \subseteq unsent /\ writing' \subseteq writing
        /\ UNCHANGED <<pairs, chats, stored, tangled>> /\ crashes' \in 0..MaxCrashes
        /\ starting' \in [Link -> 0..MaxStarting]
    BY <1>8, SessionsAssumption DEF RestartPerson, SessionsTypeOK
  <2>8. SessionsTypeOK'
    BY <2>1, <2>2, <2>3, <2>4, <2>6, <2>7 DEF SessionsTypeOK, Due
  <2> QED BY <2>3, <2>5, <2>6, <2>7, <2>8, MessageStays
<1>9. CASE UNCHANGED sessionVars
  <2>1. SessionsTypeOK'
    BY <1>9 DEF sessionVars, SessionsTypeOK
  <2> QED BY <1>9, <1>b, <2>1, MessageStays DEF sessionVars
<1> QED BY <1>c, <1>1, <1>2, <1>3, <1>4, <1>5, <1>6, <1>7, <1>8, <1>9 DEF SessionsNext

-----------------------------------------------------------------------------
(***************************************************************************)
(* Exchanges.  Between two clients that were never tangled at most one     *)
(* Init or Ack is under way, and the sessions agree with where it is.      *)
(***************************************************************************)
\* A line that carries chat messages only, or besides them one message of type t for
\* key pair j.
Silent(q) == \A i \in 1..Len(q) : q[i].type = "chat"
Only(q, t, j) ==
    \E n \in 1..Len(q) : /\ q[n].type = t /\ q[n].pair = j
                         /\ \A i \in 1..Len(q) : i # n => q[i].type = "chat"

AllSent(l) == \A x \in unsent : x[1] # l
DueOn(l) == ackDue[l[1]] # None /\ ackDue[l[1]].link = l
Quiet(l) == AllSent(l) /\ ~DueOn(l) /\ Silent(line[l])

\* Key pair i of an Init on l waits for its Ack, if the sender has not restarted.
Starting(l, i) == session[l] = {} /\ waiting[l] \in {i, None}

\* An Ack on l with key pair j meets the session it was sent for, if neither end has
\* restarted.
Answering(l, j) ==
    /\ session[Back(l)] = {}
    /\ waiting[Back(l)] = None \/ session[l] = {} \/ session[l] = {waiting[Back(l)], j}

InitToSend(l) ==
    /\ ~DueOn(l) /\ Silent(line[l])
    /\ \E i \in Pair : /\ <<l, i>> \in unsent /\ Starting(l, i)
                       /\ \A x \in unsent : x[1] = l => x = <<l, i>>
InitOnLine(l) ==
    /\ AllSent(l) /\ ~DueOn(l)
    /\ \E i \in Pair : Only(line[l], "init", i) /\ Starting(l, i)
AckToSend(l) ==
    /\ AllSent(l) /\ DueOn(l) /\ Silent(line[l])
    /\ Answering(l, ackDue[l[1]].pair)
AckOnLine(l) ==
    /\ AllSent(l) /\ ~DueOn(l)
    /\ \E j \in Pair : Only(line[l], "ack", j) /\ Answering(l, j)

UnderWay(l) ==
    /\ Quiet(Back(l))
    /\ InitToSend(l) \/ InitOnLine(l) \/ AckToSend(l) \/ AckOnLine(l)

AtRest(l) ==
    /\ Quiet(l) /\ Quiet(Back(l))
    /\ session[l] = {} \/ session[Back(l)] = {} \/ session[l] = session[Back(l)]

Orderly(l) == AtRest(l) \/ UnderWay(l) \/ UnderWay(Back(l))

ExchangeInv == \A l \in Link : l \notin tangled => Orderly(l)

\* A line that gets shorter or longer.
LEMMA SilentTail ==
    ASSUME NEW q \in Seq(Messages), q # <<>>, Silent(q)
    PROVE  Silent(Tail(q)) /\ Head(q).type = "chat"
BY QueueTail DEF Silent

LEMMA OnlyTail ==
    ASSUME NEW q \in Seq(Messages), q # <<>>, NEW t \in {"init", "ack"}, NEW j,
           Only(q, t, j)
    PROVE  \/ Head(q).type = "chat" /\ Only(Tail(q), t, j)
           \/ Head(q).type = t /\ Head(q).pair = j /\ Silent(Tail(q))
<1>1. PICK n \in 1..Len(q) : /\ q[n].type = t /\ q[n].pair = j
                             /\ \A i \in 1..Len(q) : i # n => q[i].type = "chat"
  BY DEF Only
<1>2. CASE n = 1
  BY <1>1, <1>2, QueueTail DEF Silent
<1>3. CASE n # 1
  <2>1. Head(q).type = "chat"
    BY <1>1, <1>3, QueueTail
  <2>2. n - 1 \in 1..Len(Tail(q)) /\ Tail(q)[n - 1] = q[n]
    BY <1>3, QueueTail
  <2>3. \A i \in 1..Len(Tail(q)) : i # n - 1 => Tail(q)[i].type = "chat"
    BY <1>1, QueueTail
  <2> QED BY <1>1, <2>1, <2>2, <2>3 DEF Only
<1> QED BY <1>2, <1>3

LEMMA SilentAppend ==
    ASSUME NEW q \in Seq(Messages), NEW m \in Messages, Silent(q)
    PROVE  /\ m.type = "chat" => Silent(Append(q, m))
           /\ m.type # "chat" => Only(Append(q, m), m.type, m.pair)
<1>1. \A i \in 1..Len(q) : Append(q, m)[i].type = "chat"
  BY QueueAppend DEF Silent
<1>2. Len(q) + 1 \in 1..Len(Append(q, m))
  BY QueueAppend
<1>3. \A i \in 1..Len(Append(q, m)) : i # Len(q) + 1 => Append(q, m)[i].type = "chat"
  BY <1>1, QueueAppend
<1>4. Append(q, m)[Len(q) + 1] = m
  BY QueueAppend
<1> QED BY <1>2, <1>3, <1>4 DEF Silent, Only

LEMMA OnlyAppend ==
    ASSUME NEW q \in Seq(Messages), NEW m \in Messages, m.type = "chat", NEW t, NEW j,
           Only(q, t, j)
    PROVE  Only(Append(q, m), t, j)
<1>1. PICK n \in 1..Len(q) : /\ q[n].type = t /\ q[n].pair = j
                             /\ \A i \in 1..Len(q) : i # n => q[i].type = "chat"
  BY DEF Only
<1>2. n \in 1..Len(Append(q, m)) /\ Append(q, m)[n] = q[n]
  BY QueueAppend
<1>3. \A i \in 1..Len(Append(q, m)) : i # n => Append(q, m)[i].type = "chat"
  BY <1>1, QueueAppend
<1> QED BY <1>1, <1>2, <1>3 DEF Only

LEMMA OnlyNotSilent ==
    ASSUME NEW q, NEW t \in {"init", "ack"}, NEW j, Only(q, t, j)
    PROVE  ~Silent(q)
BY DEF Only, Silent

LEMMA EmptyIsSilent == Silent(<<>>)
BY DEF Silent

\* Orderly does not depend on the direction.
LEMMA OrderlyBack ==
    ASSUME NEW l \in Link
    PROVE  Orderly(Back(l)) <=> Orderly(l)
BY BackLink DEF Orderly, AtRest

\* Nothing is under way on links that are not busy.
LEMMA NotBusy ==
    ASSUME SessionsTypeOK, NEW l \in Link, ~Busy(l)
    PROVE  Quiet(l) /\ Quiet(Back(l))
<1>1. ASSUME NEW k \in {l, Back(l)} PROVE Quiet(k)
  <2>1. AllSent(k)
    BY <1>1 DEF Busy, AllSent
  <2>2. ~DueOn(k)
    BY <1>1, BackLink DEF Busy, DueOn
  <2>3. Silent(line[k])
    <3>1. line[k] \in Seq(Messages)
      BY <1>1, BackLink DEF SessionsTypeOK
    <3>2. \A i \in 1..Len(line[k]) : line[k][i] \in Range(line[k])
      BY <3>1 DEF Range
    <3> QED BY <1>1, <3>2 DEF Busy, Silent
  <2> QED BY <2>1, <2>2, <2>3 DEF Quiet
<1> QED BY <1>1

\* Quiet links are not under way.
LEMMA QuietIsAtRest ==
    ASSUME NEW l \in Link, Orderly(l), Quiet(l), Quiet(Back(l))
    PROVE  AtRest(l)
<1>1. ASSUME NEW k \in Link, Quiet(k), UnderWay(k) PROVE FALSE
  <2>1. ~InitToSend(k)
    <3> SUFFICES ASSUME InitToSend(k) PROVE FALSE
      OBVIOUS
    <3>1. PICK i \in Pair : <<k, i>> \in unsent
      BY DEF InitToSend
    <3>2. <<k, i>>[1] = k
      OBVIOUS
    <3> QED BY <1>1, <3>1, <3>2 DEF Quiet, AllSent
  <2>2. ~InitOnLine(k) /\ ~AckOnLine(k)
    BY <1>1, OnlyNotSilent DEF InitOnLine, AckOnLine, Quiet
  <2>3. ~AckToSend(k)
    BY <1>1 DEF AckToSend, Quiet
  <2> QED BY <1>1, <2>1, <2>2, <2>3 DEF UnderWay
<1> QED BY <1>1, BackLink DEF Orderly

-----------------------------------------------------------------------------
\* A step that leaves what is under way on m, or the keys of m, alone.
SameExchange(m) ==
    /\ \A x : x[1] = m => (x \in unsent' <=> x \in unsent)
    /\ DueOn(m)' <=> DueOn(m)
    /\ DueOn(m) => ackDue'[m[1]] = ackDue[m[1]]
SameKeys(m) == session'[m] = session[m] /\ waiting'[m] = waiting[m]

\* What a line carries besides chat messages.
SameLine(m) ==
    /\ Silent(line[m]) => Silent(line'[m])
    /\ \A t \in {"init", "ack"}, j \in Pair : Only(line[m], t, j) => Only(line'[m], t, j)

LEMMA SameQuiet ==
    ASSUME NEW m, SameExchange(m), SameLine(m), Quiet(m)
    PROVE  Quiet(m)'
<1>1. AllSent(m)'
  BY DEF SameExchange, Quiet, AllSent
<1> QED BY <1>1 DEF SameExchange, SameLine, Quiet

LEMMA SameUnderWay ==
    ASSUME NEW l \in Link, SameExchange(l), SameLine(l), SameKeys(l),
           SameExchange(Back(l)), SameLine(Back(l)), SameKeys(Back(l)), UnderWay(l)
    PROVE  UnderWay(l)'
<1>1. Quiet(Back(l))'
  <2>1. PICK m \in Link : m = Back(l)
    BY BackLink
  <2> QED BY <2>1, SameQuiet DEF UnderWay, Quiet, AllSent, DueOn
<1>2. AllSent(l)' <=> AllSent(l)
  BY DEF SameExchange, AllSent
<1>3. \A i : Starting(l, i)' <=> Starting(l, i)
  BY DEF Starting, SameKeys
<1>4. \A j : Answering(l, j)' <=> Answering(l, j)
  BY DEF Answering, SameKeys
<1>5. CASE InitToSend(l)
  <2>1. PICK i \in Pair : /\ <<l, i>> \in unsent /\ Starting(l, i)
                          /\ \A x \in unsent : x[1] = l => x = <<l, i>>
    BY <1>5 DEF InitToSend
  <2>2. <<l, i>> \in unsent'
    BY <2>1 DEF SameExchange
  <2>3. \A x \in unsent' : x[1] = l => x = <<l, i>>
    BY <2>1 DEF SameExchange
  <2>4. Starting(l, i)'
    BY <1>3, <2>1
  <2>5. ~DueOn(l)' /\ Silent(line'[l])
    BY <1>5 DEF InitToSend, SameExchange, SameLine
  <2>6. InitToSend(l)'
    BY <2>2, <2>3, <2>4, <2>5 DEF InitToSend
  <2> QED BY <1>1, <2>6 DEF UnderWay
<1>6. CASE InitOnLine(l)
  <2>1. PICK i \in Pair : Only(line[l], "init", i) /\ Starting(l, i)
    BY <1>6 DEF InitOnLine
  <2>2. Only(line'[l], "init", i) /\ Starting(l, i)'
    BY <1>3, <2>1 DEF SameLine
  <2>3. InitOnLine(l)'
    BY <1>2, <1>6, <2>2 DEF InitOnLine, SameExchange
  <2> QED BY <1>1, <2>3 DEF UnderWay
<1>7. CASE AckToSend(l)
  <2>1. PICK j : j = ackDue[l[1]].pair /\ j = ackDue'[l[1]].pair
    BY <1>7 DEF AckToSend, SameExchange
  <2>2. Answering(l, j)'
    BY <1>4, <1>7, <2>1 DEF AckToSend
  <2>3. AckToSend(l)'
    BY <1>2, <1>7, <2>1, <2>2 DEF AckToSend, SameExchange, SameLine, Answering
  <2> QED BY <1>1, <2>3 DEF UnderWay
<1>8. CASE AckOnLine(l)
  <2>1. PICK j \in Pair : Only(line[l], "ack", j) /\ Answering(l, j)
    BY <1>8 DEF AckOnLine
  <2>2. Only(line'[l], "ack", j) /\ Answering(l, j)'
    BY <1>4, <2>1 DEF SameLine
  <2>3. AckOnLine(l)'
    BY <1>2, <1>8, <2>2 DEF AckOnLine, SameExchange
  <2> QED BY <1>1, <2>3 DEF UnderWay
<1> QED BY <1>5, <1>6, <1>7, <1>8 DEF UnderWay

\* Links whose exchanges and keys a step leaves alone stay orderly.
LEMMA SameOrderly ==
    ASSUME NEW l \in Link, SameExchange(l), SameLine(l), SameKeys(l),
           SameExchange(Back(l)), SameLine(Back(l)), SameKeys(Back(l)), Orderly(l)
    PROVE  Orderly(l)'
<1>1. PICK m \in Link : m = Back(l) /\ l = Back(m)
  BY BackLink
<1>2. CASE UnderWay(l)
  BY <1>2, SameUnderWay DEF Orderly
<1>3. CASE UnderWay(Back(l))
  <2>1. UnderWay(m)'
    BY <1>1, <1>3, SameUnderWay
  <2> QED BY <1>1, <2>1 DEF Orderly
<1>4. CASE AtRest(l)
  <2>1. Quiet(l)' /\ Quiet(m)'
    BY <1>1, <1>4, SameQuiet DEF AtRest
  <2>2. AtRest(l)'
    BY <1>1, <1>4, <2>1 DEF AtRest, SameKeys
  <2> QED BY <2>2 DEF Orderly
<1> QED BY <1>2, <1>3, <1>4 DEF Orderly

LEMMA UnchangedLine ==
    ASSUME NEW m, line'[m] = line[m]
    PROVE  SameLine(m)
BY DEF SameLine

\* A step that concerns the two clients of k only.
About(k) ==
    \A l \in Link : l # k /\ l # Back(k) => SameExchange(l) /\ SameLine(l) /\ SameKeys(l)

\* A step about one link leaves the others as orderly as they were.
LEMMA OneLink ==
    ASSUME ExchangeInv, NEW k \in Link, tangled \subseteq tangled',
           Orderly(k) => Orderly(k)' \/ (k \in tangled' /\ Back(k) \in tangled'),
           About(k)
    PROVE  ExchangeInv'
<1> SUFFICES ASSUME NEW l \in Link, l \notin tangled' PROVE Orderly(l)'
  BY DEF ExchangeInv
<1>1. Orderly(l)
  BY DEF ExchangeInv
<1>2. CASE l = k
  BY <1>1, <1>2
<1>3. CASE l = Back(k)
  <2>1. Orderly(k)
    BY <1>1, <1>3, OrderlyBack
  <2>2. Orderly(k)'
    BY <1>3, <2>1
  <2>3. k = Back(l)
    BY <1>3, BackLink
  <2> QED BY <2>2, <2>3, BackLink DEF Orderly, AtRest
<1>4. CASE l # k /\ l # Back(k)
  <2>1. Back(l) \in Link /\ Back(l) # k /\ Back(l) # Back(k)
    BY <1>4, BackLink
  <2>2. SameExchange(l) /\ SameLine(l) /\ SameKeys(l)
    BY <1>4 DEF About
  <2>3. SameExchange(Back(l)) /\ SameLine(Back(l)) /\ SameKeys(Back(l))
    BY <2>1 DEF About
  <2> QED BY <1>1, <2>2, <2>3, SameOrderly
<1> QED BY <1>2, <1>3, <1>4

\* An Init leaves its client, or is lost.
LEMMA SendInitOrderly ==
    ASSUME SessionsTypeOK, MessageInv, ExchangeInv, NEW x \in unsent, SendInit(x)
    PROVE  ExchangeInv' /\ \E k \in Link : About(k) /\ ~Quiet(k)
<1>1. PICK k \in Link, i \in Pair : x = <<k, i>> /\ x[1] = k /\ x[2] = i
  BY DEF SessionsTypeOK
<1>2. PICK m \in Messages : m = Message("init", i, {}, 0) /\ m.type = "init" /\ m.pair = i
  BY ExchangeMessage
<1>3. /\ unsent' = unsent \ {x}
      /\ Transmit(k, m)
      /\ UNCHANGED <<session, waiting, ackDue, tangled>>
  BY <1>1, <1>2 DEF SendInit
<1>4. line[k] \in Seq(Messages) /\ \A l \in Link : l # k => line'[l] = line[l]
  BY <1>3 DEF Transmit, SessionsTypeOK
<1>5. \A l \in Link : l # k => SameExchange(l) /\ SameLine(l) /\ SameKeys(l)
  BY <1>1, <1>3, <1>4, UnchangedLine DEF SameExchange, SameKeys, DueOn
<1>6. ASSUME Orderly(k) PROVE Orderly(k)'
  <2>1. ~AllSent(k)
    BY <1>1 DEF AllSent
  <2>2. Quiet(Back(k)) /\ InitToSend(k)
    BY <1>6, <2>1, BackLink
       DEF Orderly, AtRest, UnderWay, Quiet, InitOnLine, AckToSend, AckOnLine
  <2>3. PICK j \in Pair : Starting(k, j) /\ \A y \in unsent : y[1] = k => y = <<k, j>>
    BY <2>2 DEF InitToSend
  <2>4. j = i
    BY <1>1, <2>3
  <2>5. AllSent(k)'
    BY <1>1, <1>3, <2>3, <2>4 DEF AllSent
  <2>6. Starting(k, i)' /\ session'[k] = {}
    BY <1>3, <2>3, <2>4 DEF Starting
  <2>7. ~DueOn(k)' /\ Silent(line[k])
    BY <1>3, <2>2 DEF InitToSend, DueOn
  <2>8. Quiet(Back(k))'
    <3>1. PICK l \in Link : l = Back(k) /\ l # k
      BY BackLink
    <3>2. Quiet(l)'
      BY <1>5, <2>2, <3>1, SameQuiet
    <3> QED BY <3>1, <3>2
  <2>9. CASE UNCHANGED line
    <3>1. Quiet(k)'
      BY <2>5, <2>7, <2>9 DEF Quiet
    <3> QED BY <2>6, <2>8, <3>1 DEF Orderly, AtRest
  <2>10. CASE line' = [line EXCEPT ![k] = Append(line[k], m)]
    <3>1. line'[k] = Append(line[k], m)
      BY <2>10 DEF SessionsTypeOK
    <3>2. Only(line'[k], "init", i)
      BY <1>2, <1>4, <2>7, <3>1, SilentAppend
    <3>3. InitOnLine(k)'
      BY <2>5, <2>6, <2>7, <3>2 DEF InitOnLine
    <3> QED BY <2>8, <3>3 DEF Orderly, UnderWay
  <2> QED BY <1>3, <2>9, <2>10 DEF Transmit
<1>7. About(k)
  BY <1>5 DEF About
<1>8. ~Quiet(k)
  BY <1>1 DEF Quiet, AllSent
<1> QED BY <1>3, <1>6, <1>7, <1>8, OneLink

\* An Ack leaves its client, or is lost.
LEMMA SendAckOrderly ==
    ASSUME SessionsTypeOK, MessageInv, ExchangeInv, NEW n \in Person, SendAck(n)
    PROVE  ExchangeInv' /\ \E k \in Link : About(k) /\ ~Quiet(k)
<1>1. PICK k \in Link, j \in Pair : /\ ackDue[n].link = k /\ ackDue[n].pair = j
                                    /\ k[1] = n /\ DueOn(k)
  BY DEF SendAck, SessionsTypeOK, MessageInv, DueOn
<1>2. PICK m \in Messages : m = Message("ack", j, {}, 0) /\ m.type = "ack" /\ m.pair = j
  BY ExchangeMessage
<1>3. /\ ackDue' = [ackDue EXCEPT ![n] = None]
      /\ Transmit(k, m)
      /\ UNCHANGED <<session, waiting, unsent, tangled>>
  BY <1>1, <1>2 DEF SendAck
<1>4. line[k] \in Seq(Messages) /\ \A l \in Link : l # k => line'[l] = line[l]
  BY <1>3 DEF Transmit, SessionsTypeOK
<1>a. \A p \in Person : p # n => ackDue'[p] = ackDue[p]
  BY <1>3 DEF SessionsTypeOK
<1>b. ackDue'[n] = None
  BY <1>3 DEF SessionsTypeOK
<1>5. ASSUME NEW l \in Link, l # k PROVE SameExchange(l) /\ SameLine(l) /\ SameKeys(l)
  <2>1. SameExchange(l)
    <3>1. CASE l[1] = n
      BY <1>1, <1>3, <1>5, <1>b, <3>1 DEF SameExchange, DueOn
    <3>2. CASE l[1] # n
      <4>1. ackDue'[l[1]] = ackDue[l[1]]
        BY <1>a, <3>2, BackLink
      <4> QED BY <1>3, <4>1 DEF SameExchange, DueOn
    <3> QED BY <3>1, <3>2
  <2> QED BY <1>3, <1>4, <1>5, <2>1, UnchangedLine DEF SameKeys
<1>6. ASSUME Orderly(k) PROVE Orderly(k)'
  <2>2. Quiet(Back(k)) /\ AckToSend(k)
    BY <1>1, <1>6, BackLink
       DEF Orderly, AtRest, UnderWay, Quiet, InitToSend, InitOnLine, AckOnLine
  <2>3. Answering(k, j) /\ AllSent(k) /\ Silent(line[k])
    BY <1>1, <2>2 DEF AckToSend
  <2>4. Answering(k, j)' /\ session'[Back(k)] = {}
    BY <1>3, <2>3 DEF Answering
  <2>5. AllSent(k)' /\ ~DueOn(k)'
    BY <1>1, <1>3, <1>b, <2>3 DEF AllSent, DueOn
  <2>8. Quiet(Back(k))'
    <3>1. PICK l \in Link : l = Back(k) /\ l # k
      BY BackLink
    <3>2. Quiet(l)'
      BY <1>5, <2>2, <3>1, SameQuiet
    <3> QED BY <3>1, <3>2
  <2>9. CASE UNCHANGED line
    <3>1. Quiet(k)'
      BY <2>3, <2>5, <2>9 DEF Quiet
    <3> QED BY <2>4, <2>8, <3>1 DEF Orderly, AtRest
  <2>10. CASE line' = [line EXCEPT ![k] = Append(line[k], m)]
    <3>1. line'[k] = Append(line[k], m)
      BY <2>10 DEF SessionsTypeOK
    <3>2. Only(line'[k], "ack", j)
      BY <1>2, <1>4, <2>3, <3>1, SilentAppend
    <3>3. AckOnLine(k)'
      BY <2>4, <2>5, <3>2 DEF AckOnLine
    <3> QED BY <2>8, <3>3 DEF Orderly, UnderWay
  <2> QED BY <1>3, <2>9, <2>10 DEF Transmit
<1>7. About(k)
  BY <1>5 DEF About
<1>8. ~Quiet(k)
  BY <1>1 DEF Quiet
<1> QED BY <1>3, <1>6, <1>7, <1>8, OneLink

\* An exchange begins, between two clients with none under way or tangled with it.
LEMMA InitiateOrderly ==
    ASSUME SessionsTypeOK, MessageInv, ExchangeInv, NEW k \in Link,
           InitiateHandshake(k)
    PROVE  ExchangeInv' /\ About(k)
<1>1. PICK p \in Pair : p = pairs + 1
  BY PairNat, SessionsAssumption DEF SessionsTypeOK, InitiateHandshake
<1>2. /\ unsent' = unsent \cup {<<k, p>>}
      /\ waiting' = [waiting EXCEPT ![k] = p]
      /\ tangled' = IF Busy(k) \/ session[k] # {} THEN tangled \cup {k, Back(k)}
                                                 ELSE tangled
      /\ UNCHANGED <<session, ackDue, line>>
  BY <1>1 DEF InitiateHandshake
<1>3. waiting'[k] = p /\ \A l \in Link : l # k => waiting'[l] = waiting[l]
  BY <1>2 DEF SessionsTypeOK
<1>4. <<k, p>>[1] = k
  OBVIOUS
<1>5. \A l \in Link : l # k => SameExchange(l) /\ SameLine(l) /\ SameKeys(l)
  BY <1>2, <1>3, <1>4, UnchangedLine DEF SameExchange, SameKeys, DueOn
<1>6. ASSUME Orderly(k), ~Busy(k), session[k] = {} PROVE Orderly(k)'
  <2>1. Quiet(k) /\ Quiet(Back(k))
    BY <1>6, NotBusy
  <2>2. Quiet(Back(k))'
    <3>1. PICK l \in Link : l = Back(k) /\ l # k
      BY BackLink
    <3>2. Quiet(l)'
      BY <1>5, <2>1, <3>1, SameQuiet
    <3> QED BY <3>1, <3>2
  <2>3. Starting(k, p)'
    BY <1>2, <1>3, <1>6 DEF Starting
  <2>4. \A x \in unsent' : x[1] = k => x = <<k, p>>
    BY <1>2, <2>1 DEF Quiet, AllSent
  <2>5. ~DueOn(k)' /\ Silent(line'[k])
    BY <1>2, <2>1 DEF Quiet, DueOn
  <2>6. InitToSend(k)'
    BY <1>2, <2>3, <2>4, <2>5 DEF InitToSend
  <2> QED BY <2>2, <2>6 DEF Orderly, UnderWay
<1>7. Busy(k) \/ session[k] # {} => k \in tangled' /\ Back(k) \in tangled'
  BY <1>2
<1>8. tangled \subseteq tangled'
  BY <1>2
<1>9. About(k)
  BY <1>5 DEF About
<1> QED BY <1>6, <1>7, <1>8, <1>9, OneLink

\* An Init arrives: the receiver has its session and an Ack to send.
LEMMA HandleInitOrderly ==
    ASSUME SessionsTypeOK, MessageInv, ExchangeInv, NEW k \in Link,
           HandleKeyExchangeInit(k)
    PROVE  ExchangeInv' /\ About(k) /\ ~Quiet(k)
<1> DEFINE m == Back(k)
<1>a. /\ m \in Link /\ m # k /\ Back(m) = k /\ m[1] = k[2] /\ m[1] \in Person
      /\ k[1] \in Person /\ k[1] # k[2]
  BY BackLink DEF Link
<1>b. /\ line[k] \in Seq(Messages) /\ line[k] # <<>> /\ line'[k] = Tail(line[k])
      /\ \A l \in Link : l # k => line'[l] = line[l]
      /\ Head(line[k]).type = "init" /\ Good(Head(line[k]), pairs, Waits)
  BY ReceiveLine DEF HandleKeyExchangeInit
<1>c. PICK j \in Pair : j = pairs + 1
  BY PairNat, SessionsAssumption DEF HandleKeyExchangeInit, SessionsTypeOK
<1>d. PICK d \in Due : d = [link |-> m, pair |-> j] /\ d.link = m /\ d.pair = j
  BY <1>a, DueType
<1>e. /\ session' = [session EXCEPT ![m] = {Head(line[k]).pair, j}]
      /\ ackDue[m[1]] = None /\ ackDue' = [ackDue EXCEPT ![m[1]] = d]
      /\ UNCHANGED <<waiting, unsent, tangled>>
  BY <1>a, <1>c, <1>d DEF HandleKeyExchangeInit, Receives
<1> HIDE DEF m
<1>f. /\ session'[m] = {Head(line[k]).pair, j}
      /\ \A l \in Link : l # m => session'[l] = session[l]
      /\ ackDue'[m[1]] = d /\ \A p \in Person : p # m[1] => ackDue'[p] = ackDue[p]
  BY <1>a, <1>e DEF SessionsTypeOK
<1>1. ASSUME NEW l \in Link, l # m PROVE SameExchange(l) /\ (DueOn(l)' <=> DueOn(l))
  <2>1. CASE l[1] = m[1]
    BY <1>1, <1>d, <1>e, <1>f, <2>1 DEF SameExchange, DueOn
  <2>2. CASE l[1] # m[1]
    <3>1. ackDue'[l[1]] = ackDue[l[1]]
      BY <1>f, <2>2, BackLink
    <3> QED BY <1>e, <3>1 DEF SameExchange, DueOn
  <2> QED BY <2>1, <2>2
<1>2. ASSUME NEW l \in Link, l # k, l # m PROVE SameExchange(l) /\ SameLine(l) /\ SameKeys(l)
  BY <1>1, <1>2, <1>b, <1>e, <1>f, UnchangedLine DEF SameKeys
<1>3. ASSUME Orderly(k) PROVE Orderly(k)'
  <2>1. ~Silent(line[k])
    BY <1>b, SilentTail
  <2>2. \A i \in Pair : ~Only(line[k], "ack", i)
    BY <1>b, OnlyTail
  <2>3. Quiet(m) /\ InitOnLine(k)
    BY <1>3, <1>a, <2>1, <2>2
       DEF Orderly, AtRest, UnderWay, Quiet, InitToSend, AckToSend, AckOnLine, m
  <2>4. PICK i \in Pair : Only(line[k], "init", i) /\ Starting(k, i)
    BY <2>3 DEF InitOnLine
  <2>5. Head(line[k]).pair = i /\ Silent(Tail(line[k]))
    BY <1>b, <2>4, OnlyTail
  <2>6. Quiet(k)'
    <3>1. AllSent(k)' /\ ~DueOn(k)'
      BY <1>1, <1>a, <1>e, <2>3 DEF InitOnLine, AllSent
    <3> QED BY <1>b, <2>5, <3>1 DEF Quiet
  <2>7. AllSent(m)' /\ Silent(line'[m])
    BY <1>a, <1>b, <1>e, <2>3 DEF Quiet, AllSent
  <2>8. DueOn(m)'
    BY <1>d, <1>f, NotNone DEF DueOn
  <2>9. session'[k] = {} /\ waiting'[k] \in {i, None} /\ session'[m] = {i, j}
    BY <1>a, <1>e, <1>f, <2>4, <2>5 DEF Starting
  <2>10. Answering(m, j)'
    BY <1>a, <2>9 DEF Answering
  <2>11. Answering(m, ackDue[m[1]].pair)'
    BY <1>d, <1>f, <2>10 DEF Answering
  <2>12. UnderWay(m)'
    BY <1>a, <2>6, <2>7, <2>8, <2>11 DEF UnderWay, AckToSend
  <2> QED BY <2>12 DEF Orderly, m
<1>4. About(k)
  BY <1>2 DEF About, m
<1>5. ~Quiet(k)
  BY <1>b, SilentTail DEF Quiet
<1> QED BY <1>3, <1>4, <1>5, <1>e, OneLink

\* An Ack arrives: both ends have the same session, or one has none.
LEMMA HandleAckOrderly ==
    ASSUME SessionsTypeOK, MessageInv, ExchangeInv, NEW k \in Link,
           HandleKeyExchangeAck(k)
    PROVE  ExchangeInv' /\ About(k) /\ ~Quiet(k)
<1> DEFINE m == Back(k)
<1>a. m \in Link /\ m # k /\ Back(m) = k
  BY BackLink
<1>b. /\ line[k] \in Seq(Messages) /\ line[k] # <<>> /\ line'[k] = Tail(line[k])
      /\ \A l \in Link : l # k => line'[l] = line[l]
      /\ Head(line[k]).type = "ack"
  BY ReceiveLine DEF HandleKeyExchangeAck
<1>c. /\ UNCHANGED <<unsent, ackDue, tangled>>
      /\ IF waiting[m] = None
         THEN UNCHANGED <<session, waiting>>
         ELSE /\ session' = [session EXCEPT ![m] = {waiting[m], Head(line[k]).pair}]
              /\ waiting' = [waiting EXCEPT ![m] = None]
  BY DEF HandleKeyExchangeAck
<1> HIDE DEF m
<1>d. /\ \A l \in Link : l # m => session'[l] = session[l] /\ waiting'[l] = waiting[l]
      /\ waiting[m] = None => session'[m] = session[m]
      /\ waiting[m] # None => session'[m] = {waiting[m], Head(line[k]).pair}
  BY <1>a, <1>c DEF SessionsTypeOK
<1>1. ASSUME NEW l \in Link, l # k, l # m PROVE SameExchange(l) /\ SameLine(l) /\ SameKeys(l)
  BY <1>1, <1>b, <1>c, <1>d, UnchangedLine DEF SameExchange, SameKeys, DueOn
<1>2. ASSUME Orderly(k) PROVE Orderly(k)'
  <2>1. ~Silent(line[k])
    BY <1>b, SilentTail
  <2>2. \A i \in Pair : ~Only(line[k], "init", i)
    BY <1>b, OnlyTail
  <2>3. Quiet(m) /\ AckOnLine(k)
    BY <1>2, <1>a, <2>1, <2>2
       DEF Orderly, AtRest, UnderWay, Quiet, InitToSend, AckToSend, InitOnLine, m
  <2>4. PICK j \in Pair : Only(line[k], "ack", j) /\ Answering(k, j)
    BY <2>3 DEF AckOnLine
  <2>5. Head(line[k]).pair = j /\ Silent(Tail(line[k]))
    BY <1>b, <2>4, OnlyTail
  <2>6. Quiet(k)' /\ Quiet(m)'
    BY <1>a, <1>b, <1>c, <2>3, <2>5 DEF Quiet, AllSent, DueOn, AckOnLine
  <2>7. session'[k] = {} \/ session'[m] = {} \/ session'[k] = session'[m]
    <3>1. session[m] = {} /\ (waiting[m] = None \/ session[k] = {} \/ session[k] = {waiting[m], j})
      BY <2>4 DEF Answering, m
    <3> QED BY <1>a, <1>d, <2>5, <3>1
  <2> QED BY <2>6, <2>7 DEF Orderly, AtRest, m
<1>3. About(k)
  BY <1>1 DEF About, m
<1>4. ~Quiet(k)
  BY <1>b, SilentTail DEF Quiet
<1> QED BY <1>2, <1>3, <1>4, <1>c, OneLink

\* A step that leaves keys and exchanges alone and changes lines by chat messages only.
Chatting == \A l \in Link : SameExchange(l) /\ SameLine(l) /\ SameKeys(l)

LEMMA ChattingOrderly ==
    ASSUME ExchangeInv, Chatting, UNCHANGED tangled
    PROVE  ExchangeInv'
BY SameOrderly, BackLink DEF ExchangeInv, Chatting

\* A chat message leaves its client, or is lost.
LEMMA SendChatOrderly ==
    ASSUME SessionsTypeOK, MessageInv, ExchangeInv, NEW x \in writing, SendChat(x)
    PROVE  ExchangeInv' /\ Chatting
<1>1. PICK k \in Link, m \in Messages : x[1] = k /\ x[2] = m /\ m.type = "chat"
  BY DEF SessionsTypeOK, MessageInv
<1>2. Transmit(k, m) /\ UNCHANGED <<session, waiting, unsent, ackDue, tangled>>
  BY <1>1 DEF SendChat
<1>3. ASSUME NEW l \in Link PROVE SameLine(l)
  <2>1. CASE line'[l] = line[l]
    BY <2>1, UnchangedLine
  <2>2. CASE line'[l] = Append(line[l], m)
    <3>1. line[l] \in Seq(Messages)
      BY DEF SessionsTypeOK
    <3> QED BY <1>1, <2>2, <3>1, SilentAppend, OnlyAppend DEF SameLine
  <2> QED BY <1>2, <2>1, <2>2 DEF Transmit, SessionsTypeOK
<1>4. Chatting
  BY <1>2, <1>3 DEF Chatting, SameExchange, SameKeys, DueOn
<1> QED BY <1>2, <1>4, ChattingOrderly

\* A chat message arrives.
LEMMA HandleChatOrderly ==
    ASSUME SessionsTypeOK, MessageInv, ExchangeInv, NEW k \in Link, HandleChatMessage(k)
    PROVE  ExchangeInv' /\ Chatting
<1>1. /\ line[k] \in Seq(Messages) /\ line[k] # <<>> /\ line'[k] = Tail(line[k])
      /\ \A l \in Link : l # k => line'[l] = line[l]
      /\ Head(line[k]).type = "chat"
  BY ReceiveLine DEF HandleChatMessage
<1>2. UNCHANGED <<session, waiting, unsent, ackDue, tangled>>
  BY DEF HandleChatMessage
<1>3. ASSUME NEW l \in Link PROVE SameLine(l)
  <2>1. CASE l # k
    BY <1>1, <2>1, UnchangedLine
  <2>2. CASE l = k
    BY <1>1, <2>2, SilentTail, OnlyTail DEF SameLine
  <2> QED BY <2>1, <2>2
<1>4. Chatting
  BY <1>2, <1>3 DEF Chatting, SameExchange, SameKeys, DueOn
<1> QED BY <1>2, <1>4, ChattingOrderly

\* A client restarts: it has no session with anybody, its Inits and Acks that have not
\* left are gone, and so is what was on its way to it.
LEMMA RestartLink ==
    ASSUME SessionsTypeOK, NEW n \in Person, RestartPerson(n),
           NEW l \in Link, l[1] = n, Orderly(l)
    PROVE  Orderly(l)'
<1>1. PICK m \in Link : /\ m = Back(l) /\ l = Back(m) /\ m[2] = n /\ m[1] # n
                        /\ l[2] # n /\ m[1] \in Person
  BY BackLink DEF Link
<1>2. /\ session'[l] = {} /\ waiting'[l] = None
      /\ session'[m] = session[m] /\ waiting'[m] = waiting[m]
      /\ line'[l] = line[l] /\ line'[m] = <<>>
  BY <1>1 DEF RestartPerson
<1>3. ackDue'[n] = None /\ ackDue'[m[1]] = ackDue[m[1]]
  BY <1>1 DEF RestartPerson, SessionsTypeOK
<1>4. AllSent(l)'
  BY DEF RestartPerson, AllSent
<1>5. \A x : x[1] = m => (x \in unsent' <=> x \in unsent)
  BY <1>1 DEF RestartPerson
<1>6. ~DueOn(l)' /\ (DueOn(m)' <=> DueOn(m))
  BY <1>3 DEF DueOn
<1>7. Silent(line'[m])
  BY <1>2, EmptyIsSilent
<1>8. AllSent(m) => AllSent(m)'
  BY <1>5 DEF AllSent
<1>9. Silent(line[l]) => Quiet(l)'
  BY <1>2, <1>4, <1>6 DEF Quiet
<1>10. AllSent(m) /\ ~DueOn(m) => Quiet(m)'
  BY <1>6, <1>7, <1>8 DEF Quiet
<1>11. Quiet(l)' /\ Quiet(m)' => AtRest(l)'
  BY <1>1, <1>2 DEF AtRest
<1>12. CASE AtRest(l)
  BY <1>1, <1>9, <1>10, <1>11, <1>12 DEF AtRest, Quiet, Orderly
<1>13. CASE UnderWay(l)
  <2>1. Quiet(m)'
    BY <1>1, <1>10, <1>13 DEF UnderWay, Quiet
  <2>2. CASE Silent(line[l])
    BY <1>9, <1>11, <2>1, <2>2 DEF Orderly
  <2>3. CASE InitOnLine(l)
    <3>1. PICK i \in Pair : Only(line[l], "init", i)
      BY <2>3 DEF InitOnLine
    <3>2. InitOnLine(l)'
      BY <1>2, <1>4, <1>6, <3>1 DEF InitOnLine, Starting
    <3> QED BY <1>1, <2>1, <3>2 DEF Orderly, UnderWay
  <2>4. CASE AckOnLine(l)
    <3>1. PICK j \in Pair : Only(line[l], "ack", j) /\ Answering(l, j)
      BY <2>4 DEF AckOnLine
    <3>2. AckOnLine(l)'
      BY <1>1, <1>2, <1>4, <1>6, <3>1 DEF AckOnLine, Answering
    <3> QED BY <1>1, <2>1, <3>2 DEF Orderly, UnderWay
  <2> QED BY <1>13, <2>2, <2>3, <2>4 DEF UnderWay, InitToSend, AckToSend
<1>14. CASE UnderWay(m)
  <2>1. Quiet(l)'
    BY <1>1, <1>9, <1>14 DEF UnderWay, Quiet
  <2>2. CASE AllSent(m) /\ ~DueOn(m)
    BY <1>10, <1>11, <2>1, <2>2 DEF Orderly
  <2>3. CASE InitToSend(m)
    <3>1. PICK i \in Pair : /\ <<m, i>> \in unsent /\ Starting(m, i)
                            /\ \A x \in unsent : x[1] = m => x = <<m, i>>
      BY <2>3 DEF InitToSend
    <3>2. <<m, i>> \in unsent' /\ \A x \in unsent' : x[1] = m => x = <<m, i>>
      BY <1>5, <3>1
    <3>3. Starting(m, i)'
      BY <1>2, <3>1 DEF Starting
    <3>4. InitToSend(m)'
      BY <1>6, <1>7, <2>3, <3>2, <3>3 DEF InitToSend
    <3> QED BY <1>1, <2>1, <3>4 DEF Orderly, UnderWay
  <2>4. CASE AckToSend(m)
    <3>1. AckToSend(m)'
      BY <1>1, <1>2, <1>6, <1>7, <1>8, <2>4 DEF AckToSend, Answering
    <3> QED BY <1>1, <2>1, <3>1 DEF Orderly, UnderWay
  <2> QED BY <1>14, <2>2, <2>3, <2>4 DEF UnderWay, InitOnLine, AckOnLine
<1> QED BY <1>1, <1>12, <1>13, <1>14 DEF Orderly

LEMMA RestartOrderly ==
    ASSUME SessionsTypeOK, ExchangeInv, NEW n \in Person, RestartPerson(n)
    PROVE  ExchangeInv'
<1> SUFFICES ASSUME NEW l \in Link, l \notin tangled' PROVE Orderly(l)'
  BY DEF ExchangeInv
<1>1. Orderly(l)
  BY DEF ExchangeInv, RestartPerson
<1>2. CASE l[1] = n
  BY <1>1, <1>2, RestartLink
<1>3. CASE l[2] = n
  <2>1. PICK m \in Link : m = Back(l) /\ l = Back(m) /\ m[1] = n
    BY <1>3, BackLink
  <2>2. Orderly(m)
    BY <1>1, <2>1, OrderlyBack
  <2>3. Orderly(m)'
    BY <2>1, <2>2, RestartLink
  <2> QED BY <2>1, <2>3 DEF Orderly, AtRest
<1>4. CASE l[1] # n /\ l[2] # n
  <2>1. ASSUME NEW k \in Link, k[1] # n, k[2] # n
        PROVE  SameExchange(k) /\ SameLine(k) /\ SameKeys(k)
    <3>1. line'[k] = line[k] /\ session'[k] = session[k] /\ waiting'[k] = waiting[k]
      BY <2>1 DEF RestartPerson
    <3>2. ackDue'[k[1]] = ackDue[k[1]]
      BY <2>1, BackLink DEF RestartPerson, SessionsTypeOK
    <3>3. \A x : x[1] = k => (x \in unsent' <=> x \in unsent)
      BY <2>1 DEF RestartPerson
    <3> QED BY <3>1, <3>2, <3>3, UnchangedLine DEF SameExchange, SameKeys, DueOn
  <2> QED BY <1>1, <1>4, <2>1, BackLink, SameOrderly
<1> QED BY <1>2, <1>3, <1>4

-----------------------------------------------------------------------------
\* At the start every link is quiet and nobody has a session.
LEMMA InitOrderly == SessionsInit => ExchangeInv
<1> SUFFICES ASSUME SessionsInit, NEW l \in Link PROVE Orderly(l)
  BY DEF ExchangeInv
<1>1. ASSUME NEW k \in Link PROVE Quiet(k) /\ session[k] = {}
  <2>1. AllSent(k) /\ ~DueOn(k) /\ line[k] = <<>> /\ session[k] = {}
    BY BackLink DEF SessionsInit, AllSent, DueOn
  <2> QED BY <2>1, EmptyIsSilent DEF Quiet
<1> QED BY <1>1, BackLink DEF Orderly, AtRest

\* A step that a link with two sessions, nothing under way and no call about to start an
\* exchange does not take.
Exchanging == \E k \in Link : About(k) /\ (~Quiet(k) \/ starting[k] # 0)

\* Every step keeps the links orderly; it passes chat messages on, it is part of an
\* exchange, or a client restarts.
LEMMA StepOrderly ==
    ASSUME SessionsTypeOK, MessageInv, ExchangeInv, [SessionsNext]_sessionVars
    PROVE  ExchangeInv' /\ (Chatting \/ Exchanging \/ crashes' = crashes + 1)
<1> USE DEF Exchanging
<1>0. ASSUME UNCHANGED <<session, waiting, unsent, ackDue, line, tangled>>
      PROVE  ExchangeInv' /\ Chatting
  <2>1. Chatting
    BY <1>0, UnchangedLine DEF Chatting, SameExchange, SameKeys, DueOn
  <2> QED BY <1>0, <2>1, ChattingOrderly
<1>1. ASSUME NEW l \in Link, SendMessage(l) PROVE ExchangeInv' /\ (Chatting \/ Exchanging)
  BY <1>0, <1>1 DEF SendMessage
<1>a. ASSUME NEW l \in Link, InitiateHandshake(l) PROVE ExchangeInv' /\ Exchanging
  <2>1. starting[l] # 0
    BY <1>a DEF InitiateHandshake, SessionsTypeOK
  <2> QED BY <1>a, <2>1, InitiateOrderly
<1>2. ASSUME NEW x \in unsent, SendInit(x) PROVE ExchangeInv' /\ Exchanging
  BY <1>2, SendInitOrderly
<1>3. ASSUME NEW x \in writing, SendChat(x) PROVE ExchangeInv' /\ Chatting
  BY <1>3, SendChatOrderly
<1>4. ASSUME NEW l \in Link, HandleKeyExchangeInit(l) PROVE ExchangeInv' /\ Exchanging
  BY <1>4, HandleInitOrderly
<1>5. ASSUME NEW n \in Person, SendAck(n) PROVE ExchangeInv' /\ Exchanging
  BY <1>5, SendAckOrderly
<1>6. ASSUME NEW l \in Link, HandleKeyExchangeAck(l) PROVE ExchangeInv' /\ Exchanging
  BY <1>6, HandleAckOrderly
<1>7. ASSUME NEW l \in Link, HandleChatMessage(l) PROVE ExchangeInv' /\ Chatting
  BY <1>7, HandleChatOrderly
<1>8. ASSUME NEW n \in Person, RestartPerson(n) PROVE ExchangeInv' /\ crashes' = crashes + 1
  BY <1>8, RestartOrderly DEF RestartPerson
<1>9. CASE UNCHANGED sessionVars
  BY <1>0, <1>9 DEF sessionVars
<1> HIDE DEF Exchanging
<1> QED BY <1>a, <1>1, <1>2, <1>3, <1>4, <1>5, <1>6, <1>7, <1>8, <1>9 DEF SessionsNext

\* The inductive invariant.
SessionsInv == SessionsTypeOK /\ MessageInv /\ ExchangeInv

\* It holds in every state of every behaviour, whoever exchanges keys with whom, whatever
\* the relay drops and whoever restarts.
THEOREM SessionsInvariance == SessionsSpec => []SessionsInv
<1>1. SessionsInit => SessionsInv
  BY InitType, InitOrderly DEF SessionsInv
<1>2. SessionsInv /\ [SessionsNext]_sessionVars => SessionsInv'
  BY StepType, StepOrderly DEF SessionsInv
<1> QED BY <1>1, <1>2, PTL DEF SessionsSpec

\* Every variable has its type, and a session has two different key pairs.
THEOREM SessionsTypeCorrect == SessionsSpec => []SessionsTypeOK
<1>1. SessionsInv => SessionsTypeOK
  BY DEF SessionsInv
<1> QED BY <1>1, SessionsInvariance, PTL

\* Two clients that have settled share a key, unless one of their exchanges began while
\* another was under way, or after the call that began it had found no session and its
\* client had got one (SendMessage, handleKeyExchangeInit, handleKeyExchangeAck).
THEOREM SettledShareKey == SessionsSpec => []AgreeUnlessTangled
<1>1. SessionsInv => AgreeUnlessTangled
  <2> SUFFICES ASSUME SessionsInv, NEW l \in Link, Settled(l), l \notin tangled
               PROVE  session[l] = session[Back(l)]
    BY DEF AgreeUnlessTangled
  <2>1. Quiet(l) /\ Quiet(Back(l))
    BY NotBusy DEF SessionsInv, Settled
  <2>2. Orderly(l)
    BY DEF SessionsInv, ExchangeInv
  <2>3. AtRest(l)
    BY <2>1, <2>2, QuietIsAtRest
  <2> QED BY <2>3 DEF AtRest, Settled
<1> QED BY <1>1, SessionsInvariance, PTL

\* Links that are quiet are not busy: an Ack is due on the link of the client that owes it.
LEMMA QuietNotBusy ==
    SessionsTypeOK /\ MessageInv => \A l \in Link : Quiet(l) /\ Quiet(Back(l)) => ~Busy(l)
<1> SUFFICES ASSUME SessionsTypeOK, MessageInv, NEW l \in Link, Quiet(l), Quiet(Back(l))
             PROVE  ~Busy(l)
  OBVIOUS
<1>1. ASSUME NEW k \in {l, Back(l)} PROVE Quiet(k) /\ k \in Link
  BY <1>1, BackLink
<1>2. \A x \in unsent : x[1] \notin {l, Back(l)}
  BY <1>1 DEF Quiet, AllSent
<1>3. ASSUME NEW n \in Person, ackDue[n] # None, ackDue[n].link \in {l, Back(l)} PROVE FALSE
  <2>1. PICK k \in {l, Back(l)} : k = ackDue[n].link
    BY <1>3
  <2>2. k[1] = n
    BY <1>3, <2>1 DEF MessageInv
  <2> QED BY <1>1, <1>3, <2>1, <2>2 DEF Quiet, DueOn
<1>4. ASSUME NEW k \in {l, Back(l)}, NEW m \in Range(line[k]) PROVE m.type = "chat"
  <2>1. line[k] \in Seq(Messages) /\ Silent(line[k])
    BY <1>1 DEF SessionsTypeOK, Quiet
  <2>2. PICK i \in 1..Len(line[k]) : m = line[k][i]
    BY <2>1 DEF Range
  <2> QED BY <2>1, <2>2 DEF Silent
<1> QED BY <1>2, <1>3, <1>4 DEF Busy

\* A call is about to start an exchange only if it found no session.
LEMMA StepStarting ==
    ASSUME SessionsTypeOK, [SessionsNext]_sessionVars,
           NEW l \in Link, session[l] # {}, starting[l] = 0
    PROVE  starting'[l] = 0
<1>a. starting \in [Link -> 0..MaxStarting]
  BY DEF SessionsTypeOK
<1>1. ASSUME NEW k \in Link, SendMessage(k) PROVE starting'[l] = 0
  <2>1. CASE session[k] = {} /\ starting' = [starting EXCEPT ![k] = @ + 1]
    BY <1>a, <2>1
  <2> QED BY <1>1, <2>1 DEF SendMessage
<1>2. ASSUME NEW k \in Link, InitiateHandshake(k) PROVE starting'[l] = 0
  BY <1>a, <1>2 DEF InitiateHandshake
<1>3. ASSUME NEW k \in Link, HandleKeyExchangeInit(k) \/ HandleKeyExchangeAck(k)
                               \/ HandleChatMessage(k)
      PROVE  starting'[l] = 0
  BY <1>3 DEF HandleKeyExchangeInit, HandleKeyExchangeAck, HandleChatMessage
<1>4. ASSUME NEW x, SendInit(x) \/ SendChat(x) PROVE starting'[l] = 0
  BY <1>4 DEF SendInit, SendChat
<1>5. ASSUME NEW n \in Person, SendAck(n) \/ RestartPerson(n) PROVE starting'[l] = 0
  BY <1>5 DEF SendAck, RestartPerson
<1>6. CASE UNCHANGED sessionVars
  BY <1>6 DEF sessionVars
<1> QED BY <1>1, <1>2, <1>3, <1>4, <1>5, <1>6 DEF SessionsNext

\* Two clients that have settled on different keys, with no call about to start an
\* exchange, stay so until one of them restarts: SendMessage goes on to an exchange only
\* if it found no session, and a message that cannot be decrypted is dropped.
THEOREM DisagreementIsStuck == SessionsSpec => DisagreementStays
<1> DEFINE Stays == \A l \in Link :
               Stuck(l) /\ crashes' = crashes => Stuck(l)'
<1>1. SessionsInv /\ SessionsInv' /\ (\A l \in Link : Quiet(l) /\ Quiet(Back(l)) => ~Busy(l))'
        /\ [SessionsNext]_sessionVars => [Stays]_sessionVars
  <2> SUFFICES ASSUME SessionsInv, SessionsInv', [SessionsNext]_sessionVars,
                      (\A l \in Link : Quiet(l) /\ Quiet(Back(l)) => ~Busy(l))',
                      NEW l \in Link, Settled(l), session[l] # session[Back(l)],
                      starting[l] = 0, starting[Back(l)] = 0, crashes' = crashes
               PROVE  Stuck(l)'
    BY DEF Stuck
  <2>1. Quiet(l) /\ Quiet(Back(l)) /\ session[l] # {} /\ session[Back(l)] # {}
    BY NotBusy DEF SessionsInv, Settled
  <2>2. PICK m \in Link : m = Back(l) /\ l = Back(m)
    BY BackLink
  <2>3. Chatting \/ Exchanging
    <3>1. crashes \in Nat
      BY SessionsAssumption DEF SessionsInv, SessionsTypeOK
    <3> QED BY <3>1, StepOrderly DEF SessionsInv
  <2>4. ASSUME NEW n \in {l, m} PROVE SameExchange(n) /\ SameLine(n) /\ SameKeys(n)
    <3>1. CASE Chatting
      BY <3>1 DEF Chatting
    <3>2. CASE Exchanging
      <4>1. PICK k \in Link : About(k) /\ (~Quiet(k) \/ starting[k] # 0)
        BY <3>2 DEF Exchanging
      <4>2. k # l /\ k # m
        BY <2>1, <2>2, <4>1
      <4>3. n # k /\ n # Back(k)
        BY <2>2, <4>2, BackLink
      <4> QED BY <4>1, <4>3 DEF About
    <3> QED BY <2>3, <3>1, <3>2
  <2>5. Quiet(l)' /\ Quiet(m)'
    BY <2>1, <2>2, <2>4, SameQuiet
  <2>6. session'[l] = session[l] /\ session'[m] = session[m]
    BY <2>4 DEF SameKeys
  <2>7. ~Busy(l)'
    BY <2>2, <2>5
  <2>8. starting'[l] = 0 /\ starting'[m] = 0
    BY <2>1, <2>2, StepStarting DEF SessionsInv
  <2>9. Settled(l)'
    BY <2>1, <2>2, <2>6, <2>7 DEF Settled
  <2> QED BY <2>1, <2>2, <2>6, <2>8, <2>9 DEF Stuck
<1>2. SessionsTypeOK /\ MessageInv => \A l \in Link : Quiet(l) /\ Quiet(Back(l)) => ~Busy(l)
  BY QuietNotBusy
<1>3. SessionsInv => SessionsTypeOK /\ MessageInv
  BY DEF SessionsInv
<1> QED BY <1>1, <1>2, <1>3, SessionsInvariance, PTL DEF SessionsSpec, DisagreementStays
=============================================================================
