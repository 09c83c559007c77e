--------------------------- MODULE ClientSessions ---------------------------
(***************************************************************************)
(* Direct messages of the client SDK: the X25519 exchange that gives two   *)
(* clients a shared key, and the chat messages encrypted with it.          *)
(*                                                                         *)
(* A client has a goroutine that handles what the relay delivers and       *)
(* others that serve the user.  The sessions are changed under a mutex,    *)
(* messages are sent outside it, so every handler is two steps, and        *)
(* SendMessage releases it between finding no session and starting an      *)
(* exchange.  A shared key is the set of the two key pairs it is derived   *)
(* from.                                                                   *)
(***************************************************************************)
EXTENDS Basics

CONSTANTS Person,      \* clients, by node id
          MaxPairs,    \* bound: key pairs generated
          MaxStarting, \* bound: calls of one client that found no session at once
          MaxChats,    \* bound: chat messages
          MaxCrashes   \* bound: restarts of a client

ASSUME SessionsAssumption ==
    /\ MaxPairs \in Nat /\ MaxStarting \in Nat
    /\ MaxChats \in Nat /\ MaxCrashes \in Nat

Pair == 1..MaxPairs
Link == {l \in Person \X Person : l[1] # l[2]}   \* from, to
Back(l) == <<l[2], l[1]>>

ASSUME SessionsNoneAssumption ==
    None \notin Pair /\ None \notin [link : Link, pair : Pair]

VARIABLES
    pairs,     \* number of key pairs generated
    chats,     \* number of chat messages
    crashes,   \* number of restarts
    session,   \* e2eSessions, by owner and peer
    starting,  \* SendMessage calls that found no session and have yet to start an
               \* exchange, by owner and peer
    waiting,   \* e2ePendingKeys, by owner and peer
    unsent,    \* key pairs whose Init has yet to be sent
    ackDue,    \* the Ack the receiving goroutine has yet to send
    writing,   \* chat messages encrypted and not yet sent
    line,      \* what the relay carries, by sender and receiver
    stored,    \* table messages: chat messages, by owner
    tangled    \* history: pairs of clients one of whose exchanges began while another
               \* was under way, or after its starter had got a session meanwhile

sessionVars == <<pairs, chats, crashes, session, starting, waiting, unsent, ackDue,
                 writing, line, stored, tangled>>

SessionsInit ==
    /\ pairs = 0 /\ chats = 0 /\ crashes = 0
    /\ session = [l \in Link |-> {}]
    /\ starting = [l \in Link |-> 0]
    /\ waiting = [l \in Link |-> None]
    /\ unsent = {}
    /\ ackDue = [n \in Person |-> None]
    /\ writing = {}
    /\ line = [l \in Link |-> <<>>]
    /\ stored = [n \in Person |-> {}]
    /\ tangled = {}

Message(type, pair, key, id) == [type |-> type, pair |-> pair, key |-> key, id |-> id]

\* An Init or an Ack between the two ends of l is under way.
Busy(l) ==
    \/ \E x \in unsent : x[1] \in {l, Back(l)}
    \/ \E n \in Person : ackDue[n] # None /\ ackDue[n].link \in {l, Back(l)}
    \/ \E k \in {l, Back(l)} : \E m \in Range(line[k]) : m.type # "chat"

\* The relay may drop a message on a full channel or for a client that is away.
Transmit(l, m) ==
    \/ line' = [line EXCEPT ![l] = Append(@, m)]
    \/ UNCHANGED line

\* initiateHandshake, of a call that found no session: the new key pair replaces the
\* one that was waiting, whatever came of the session since.
InitiateHandshake(l) ==
    /\ starting[l] > 0 /\ pairs < MaxPairs
    /\ starting' = [starting EXCEPT ![l] = @ - 1]
    /\ pairs' = pairs + 1
    /\ waiting' = [waiting EXCEPT ![l] = pairs + 1]
    /\ unsent' = unsent \cup {<<l, pairs + 1>>}
    /\ tangled' = IF Busy(l) \/ session[l] # {} THEN tangled \cup {l, Back(l)} ELSE tangled
    /\ UNCHANGED <<chats, crashes, session, ackDue, writing, line, stored>>

SendInit(x) ==
    /\ x \in unsent
    /\ unsent' = unsent \ {x}
    /\ Transmit(x[1], Message("init", x[2], {}, 0))
    /\ UNCHANGED <<pairs, chats, crashes, session, waiting, ackDue, writing, stored,
                   starting, tangled>>

\* SendMessage looks the session up under the mutex: without one the call goes on to
\* initiateHandshake and asks the user to try again, with one it takes the key.
SendMessage(l) ==
    \/ /\ session[l] = {} /\ starting[l] < MaxStarting
       /\ starting' = [starting EXCEPT ![l] = @ + 1]
       /\ UNCHANGED <<pairs, chats, crashes, session, waiting, unsent, ackDue, writing,
                      line, stored, tangled>>
    \/ /\ session[l] # {} /\ chats < MaxChats
       /\ chats' = chats + 1
       /\ writing' = writing \cup {<<l, Message("chat", 0, session[l], chats + 1)>>}
       /\ UNCHANGED <<pairs, crashes, session, starting, waiting, unsent, ackDue, line,
                      stored, tangled>>

\* sendPayload and StoreMessage: stored by the sender whether or not it got through.
SendChat(x) ==
    /\ x \in writing
    /\ writing' = writing \ {x}
    /\ Transmit(x[1], x[2])
    /\ stored' = [stored EXCEPT ![x[1][1]] = @ \cup {x[2].id}]
    /\ UNCHANGED <<pairs, chats, crashes, session, waiting, unsent, ackDue, starting, tangled>>

\* The receiving goroutine takes the next message of l and has no Ack to send.
Receives(l, type) ==
    /\ line[l] # <<>> /\ Head(line[l]).type = type /\ ackDue[l[2]] = None
    /\ line' = [line EXCEPT ![l] = Tail(@)]

\* Faulty variant: a client that has a session keeps it, and answers all the same.
HandleKeyExchangeInitKeeps(l) ==
    /\ Receives(l, "init") /\ pairs < MaxPairs
    /\ pairs' = pairs + 1
    /\ session' = [session EXCEPT ![Back(l)] =
                       IF @ = {} THEN {Head(line[l]).pair, pairs + 1} ELSE @]
    /\ ackDue' = [ackDue EXCEPT ![l[2]] = [link |-> Back(l), pair |-> pairs + 1]]
    /\ UNCHANGED <<chats, crashes, waiting, unsent, writing, stored, starting, tangled>>

\* A new key pair, the session, then the Ack.
HandleKeyExchangeInit(l) ==
    /\ Receives(l, "init") /\ pairs < MaxPairs
    /\ pairs' = pairs + 1
    /\ session' = [session EXCEPT ![Back(l)] = {Head(line[l]).pair, pairs + 1}]
    /\ ackDue' = [ackDue EXCEPT ![l[2]] = [link |-> Back(l), pair |-> pairs + 1]]
    /\ UNCHANGED <<chats, crashes, waiting, unsent, writing, stored, starting, tangled>>

SendAck(n) ==
    /\ ackDue[n] # None
    /\ ackDue' = [ackDue EXCEPT ![n] = None]
    /\ Transmit(ackDue[n].link, Message("ack", ackDue[n].pair, {}, 0))
    /\ UNCHANGED <<pairs, chats, crashes, session, waiting, unsent, writing, stored,
                   starting, tangled>>

\* The Ack is taken for the answer to the key pair that is waiting now, if any.
HandleKeyExchangeAck(l) ==
    LET me == Back(l)
    IN  /\ Receives(l, "ack")
        /\ IF waiting[me] = None
           THEN UNCHANGED <<session, waiting>>
           ELSE /\ session' = [session EXCEPT ![me] = {waiting[me], Head(line[l]).pair}]
                /\ waiting' = [waiting EXCEPT ![me] = None]
        /\ UNCHANGED <<pairs, chats, crashes, unsent, ackDue, writing, stored, starting, tangled>>

\* Faulty variant: a message that cannot be read ends the session.
HandleChatMessageRenews(l) ==
    LET me == Back(l)
    IN  /\ Receives(l, "chat")
        /\ \/ /\ Head(line[l]).key = session[me]
              /\ stored' = [stored EXCEPT ![l[2]] = @ \cup {Head(line[l]).id}]
              /\ UNCHANGED <<session, waiting, unsent, pairs, tangled>>
           \/ /\ Head(line[l]).key # session[me]
              /\ session' = [session EXCEPT ![me] = {}]
              /\ UNCHANGED <<waiting, unsent, pairs, tangled, stored>>
        /\ UNCHANGED <<chats, crashes, starting, ackDue, writing>>

\* A message that cannot be decrypted is dropped without a word.
HandleChatMessage(l) ==
    LET m == Head(line[l])
    IN  /\ Receives(l, "chat")
        /\ stored' = IF m.key = session[Back(l)]
                     THEN [stored EXCEPT ![l[2]] = @ \cup {m.id}] ELSE stored
        /\ UNCHANGED <<pairs, chats, crashes, session, waiting, unsent, ackDue, writing,
                       starting, tangled>>

\* The program ends and starts again: sessions live in memory only.
RestartPerson(n) ==
    LET mine == {l \in Link : l[1] = n}
    IN  /\ crashes < MaxCrashes
        /\ crashes' = crashes + 1
        /\ session' = [l \in Link |-> IF l \in mine THEN {} ELSE session[l]]
        /\ starting' = [l \in Link |-> IF l \in mine THEN 0 ELSE starting[l]]
        /\ waiting' = [l \in Link |-> IF l \in mine THEN None ELSE waiting[l]]
        /\ unsent' = {x \in unsent : x[1] \notin mine}
        /\ writing' = {x \in writing : x[1] \notin mine}
        /\ ackDue' = [ackDue EXCEPT ![n] = None]
        /\ line' = [l \in Link |-> IF l[2] = n THEN <<>> ELSE line[l]]
        /\ UNCHANGED <<pairs, chats, stored, tangled>>

SessionsNext ==
    \/ \E l \in Link : \/ SendMessage(l) \/ InitiateHandshake(l) \/ HandleKeyExchangeInit(l)
                       \/ HandleKeyExchangeAck(l) \/ HandleChatMessage(l)
    \/ \E x \in unsent : SendInit(x)
    \/ \E x \in writing : SendChat(x)
    \/ \E n \in Person : SendAck(n) \/ RestartPerson(n)

SessionsSpec == SessionsInit /\ [][SessionsNext]_sessionVars

(***************************************************************************)
(* Properties.                                                             *)
(***************************************************************************)
Messages ==
    [type : {"init", "ack", "chat"}, pair : 0..MaxPairs, key : SUBSET Pair,
     id : 0..MaxChats]

\* Every variable has its type.
SessionsTypeOK ==
    /\ pairs \in 0..MaxPairs /\ chats \in 0..MaxChats /\ crashes \in 0..MaxCrashes
    /\ session \in [Link -> SUBSET Pair]
    /\ \A l \in Link : Cardinality(session[l]) \in {0, 2}
    /\ starting \in [Link -> 0..MaxStarting]
    /\ waiting \in [Link -> Pair \cup {None}]
    /\ unsent \in SUBSET (Link \X Pair)
    /\ ackDue \in [Person -> [link : Link, pair : Pair] \cup {None}]
    /\ writing \in SUBSET (Link \X Messages)
    /\ line \in [Link -> Seq(Messages)]
    /\ stored \in [Person -> SUBSET (1..MaxChats)]
    /\ tangled \in SUBSET Link

\* Both ends of l have a session, and no exchange between them is under way.
Settled(l) == session[l] # {} /\ session[Back(l)] # {} /\ ~Busy(l)

\* They settled on different keys, and no call is about to start an exchange.
Stuck(l) ==
    /\ Settled(l) /\ session[l] # session[Back(l)]
    /\ starting[l] = 0 /\ starting[Back(l)] = 0

\* Two clients that have settled share a key, whatever messages were lost and whoever
\* restarted, unless one of their exchanges began while another was under way, or was
\* begun by a call whose client had got a session since the call looked for one.
AgreeUnlessTangled ==
    \A l \in Link : Settled(l) /\ l \notin tangled => session[l] = session[Back(l)]

\* Two clients that have settled share a key.
SettledAgree ==
    \A l \in Link : Settled(l) => session[l] = session[Back(l)]

\* Two clients that have settled on different keys, with no SendMessage between its
\* look-up and its exchange, stay so until one of them restarts: nothing the user sends
\* from then on and nothing that arrives repairs the session.
DisagreementStays ==
    [][\A l \in Link :
          Stuck(l) /\ crashes' = crashes => Stuck(l)']_sessionVars
=============================================================================
