------------------------------ MODULE Cluster -------------------------------
(***************************************************************************)
(* A cluster of core servers, each with its own cluster_peers table, and   *)
(* the client that learns from them which cores it may fall back to.       *)
(* A core server tells everyone that its own address is the loopback       *)
(* address, so SelfAddress need not lead a client back to it.              *)
(***************************************************************************)
EXTENDS Basics

CONSTANTS Core,         \* core servers
          Peer,         \* peer ids
          Address,      \* network addresses
          Seed,         \* the address the client is built with
          SelfAddress,  \* selfAddress of every core
          Dial,         \* the core behind an address, seen from the client, or None
          MaxJoins,     \* bound: RequestJoin calls
          MaxStops      \* bound: stops of a core server

ASSUME ClusterAssumption ==
    /\ Seed \in Address
    /\ SelfAddress \in [Core -> Address]
    /\ Dial \in [Address -> Core \cup {None}]
    /\ MaxJoins \in Nat /\ MaxStops \in Nat

Status == {"pending", "active"}
Peers == [address : Address, status : Status] \cup {None}
Pairs == Core \X Address

ASSUME ClusterNoneAssumption ==
    /\ None \notin Core /\ None \notin Address
    /\ None \notin [address : Address, status : Status]
    /\ None \notin [core : Core, list : Seq(Address)]

VARIABLES
    up,         \* core servers that run
    stops,      \* number of stops
    peers,      \* table cluster_peers of every core
    joins,      \* number of RequestJoin calls
    approving,  \* ApprovePeer handlers between SELECT and UPDATE
    sending,    \* goroutines about to send nodes: the core and the address, if known
    registered, \* cores that have the client in their nodes table
    proc,       \* the client: off, dialing, failed, on
    known,      \* knownCores
    savedCores, \* known_cores in SQLite
    next,       \* index of connectToCore in knownCores
    conn,       \* coreConn
    discovery,  \* discoverClusterNodes: none, asked, answered, applied
    answer,     \* the answer it holds: the core and the addresses
    vouched,    \* history: addresses an approver has read, by core
    overtaken,  \* history: addresses written while an approver was at work
    told,       \* history: addresses a core has sent nodes to
    learned,    \* history: addresses of peers in an answer that was saved
    demoted,    \* history: addresses whose active row was overwritten
    source      \* history: the core whose answer is saved

clusterVars == <<up, stops, peers, joins, approving, sending, registered, proc, known,
                 savedCores, next, conn, discovery, answer, vouched, overtaken, told,
                 learned, demoted, source>>
table == <<peers, joins, vouched, overtaken, demoted>>
client == <<proc, known, savedCores, next, conn, discovery, answer, learned, source>>

ClusterInit ==
    /\ up = Core /\ stops = 0
    /\ peers = [k \in Core |-> [p \in Peer |-> None]]
    /\ joins = 0
    /\ approving = {} /\ sending = {} /\ registered = {}
    /\ proc = "off"
    /\ known = <<>> /\ savedCores = <<>> /\ next = 0 /\ conn = None
    /\ discovery = "none" /\ answer = None
    /\ vouched = {} /\ overtaken = {} /\ told = {} /\ learned = {} /\ demoted = {}
    /\ source = None

(***************************************************************************)
(* The ClusterService of a core server.                                    *)
(***************************************************************************)
\* Faulty variant: the upsert keeps the status a row has.
UpsertClusterPeerKeeps(k, p, a) ==
    [peers EXCEPT ![k][p] = [address |-> a,
                             status |-> IF @ = None THEN "pending" ELSE @.status]]

\* INSERT ... ON CONFLICT DO UPDATE, with status pending.
UpsertClusterPeer(k, p, a) ==
    [peers EXCEPT ![k][p] = [address |-> a, status |-> "pending"]]

\* Nobody is asked, and a peer that is active becomes pending again.
RequestJoin(k, p, a) ==
    /\ k \in up /\ joins < MaxJoins
    /\ joins' = joins + 1
    /\ peers' = UpsertClusterPeer(k, p, a)
    /\ overtaken' = IF \E x \in approving : x.core = k /\ x.peer = p
                    THEN overtaken \cup {<<k, a>>} ELSE overtaken
    /\ demoted' = IF peers[k][p] # None /\ peers[k][p].status = "active"
                  THEN demoted \cup {<<k, peers[k][p].address>>} ELSE demoted
    /\ UNCHANGED <<up, stops, approving, sending, registered, vouched, told, client>>

GetClusterPeer(k, p) == peers[k][p]

\* An unknown or an active peer ends the call.
ApprovePeer(k, p) ==
    /\ k \in up
    /\ GetClusterPeer(k, p) # None /\ GetClusterPeer(k, p).status # "active"
    /\ approving' = approving \cup {[core |-> k, peer |-> p,
                                     address |-> GetClusterPeer(k, p).address]}
    /\ vouched' = vouched \cup {<<k, GetClusterPeer(k, p).address>>}
    /\ UNCHANGED <<up, stops, peers, joins, sending, registered, overtaken, demoted,
                   told, client>>

\* UpdateClusterPeerStatus goes by the id; the sync goes to the address read before.
ActivatePeer(x) ==
    /\ x \in approving
    /\ approving' = approving \ {x}
    /\ \/ /\ peers' = [peers EXCEPT ![x.core][x.peer].status = "active"]
          /\ sending' = sending \cup {<<x.core, x.address>>}
       \/ UNCHANGED <<peers, sending>>
    /\ UNCHANGED <<up, stops, joins, registered, vouched, overtaken, demoted, told, client>>

\* GetAllNodes: there is a node to tell a peer of.
HasNodes(k) == k \in registered

\* The peers at addresses A get a list of nodes from core k, which they only log.
SyncNodes(k, A) == told' = told \cup ({k} \X A)

PerformInitialSync(k, a) ==
    /\ <<k, a>> \in sending
    /\ sending' = sending \ {<<k, a>>}
    /\ \/ SyncNodes(k, IF HasNodes(k) THEN {a} ELSE {})
       \/ UNCHANGED told                          \* dialling or the call fails
    /\ UNCHANGED <<up, stops, table, approving, registered, client>>

\* Faulty variant: the query asks for the other status.
GetActiveClusterPeersPending(k) ==
    {p \in Peer : peers[k][p] # None /\ peers[k][p].status # "active"}

GetActiveClusterPeers(k) ==
    {p \in Peer : peers[k][p] # None /\ peers[k][p].status = "active"}

ActiveAddresses(k) == {peers[k][p].address : p \in GetActiveClusterPeers(k)}

\* The registration has been answered when the goroutine reads the table: its context
\* may be cancelled, and then nobody is told; each peer is called on its own, and may
\* not answer.
BroadcastNodeRegistration(k) ==
    /\ <<k, None>> \in sending
    /\ sending' = sending \ {<<k, None>>}
    /\ \E A \in SUBSET ActiveAddresses(k) : SyncNodes(k, A)
    /\ UNCHANGED <<up, stops, table, approving, registered, client>>

\* The rows come in any order, after the server itself.
Listings(k) ==
    LET A == GetActiveClusterPeers(k)
    IN  {<<SelfAddress[k]>> \o [i \in 1..Cardinality(A) |-> peers[k][f[i]].address] :
            f \in {g \in [1..Cardinality(A) -> A] : Range(g) = A}}

(***************************************************************************)
(* The client.                                                             *)
(***************************************************************************)
server == <<up, stops, table, approving, sending, registered, told>>

\* The list in SQLite, the addresses joined by commas, which no address contains;
\* without a row it is empty.
GetConfig == savedCores
SetConfig(list) == savedCores' = list

\* NewEnxameClient and the head of connectToCore.  Without a list, or when it cannot be read,
\* the client begins with the address it was given.
StartClient ==
    /\ proc = "off"
    /\ proc' = "dialing"
    /\ known' \in {<<Seed>>} \cup ({GetConfig} \ {<<>>})
    /\ next' = 1
    /\ UNCHANGED <<server, savedCores, conn, discovery, answer, learned, source>>

\* An address that does not answer within five seconds is passed over.
ConnectToCore ==
    /\ proc = "dialing" /\ next <= Len(known)
    /\ \/ /\ Dial[known[next]] \in up
          /\ conn' = Dial[known[next]]
          /\ proc' = "on" /\ discovery' = "asked"
          /\ UNCHANGED next
       \/ next' = next + 1 /\ UNCHANGED <<proc, conn, discovery>>
    /\ UNCHANGED <<server, known, savedCores, answer, learned, source>>

NoCoreLeft ==
    /\ proc = "dialing" /\ next > Len(known)
    /\ proc' = "failed"
    /\ UNCHANGED <<server, known, savedCores, next, conn, discovery, answer, learned, source>>

\* getCoreConn dials again when a later call finds no connection.
GetCoreConn ==
    /\ proc = "failed"
    /\ proc' = "dialing" /\ next' = 1
    /\ UNCHANGED <<server, known, savedCores, conn, discovery, answer, learned, source>>

\* register: the node is stored by the core that was reached and by no other.
Register ==
    /\ proc = "on" /\ conn \in up
    /\ registered' = registered \cup {conn}
    /\ sending' = sending \cup {<<conn, None>>}
    /\ UNCHANGED <<up, stops, table, approving, told, client>>

\* discoverClusterNodes asks; without an answer it gives up.
GetClusterNodes ==
    /\ discovery = "asked"
    /\ \/ /\ conn \in up
          /\ \E l \in Listings(conn) : answer' = [core |-> conn, list |-> l]
          /\ discovery' = "answered"
       \/ discovery' = "none" /\ UNCHANGED answer
    /\ UNCHANGED <<server, proc, known, savedCores, next, conn, learned, source>>

\* The list is replaced, under the lock.
ReplaceKnownCores ==
    /\ discovery = "answered"
    /\ known' = answer.list
    /\ discovery' = "applied"
    /\ UNCHANGED <<server, proc, savedCores, next, conn, answer, learned, source>>

\* SetConfig, or its error.
SaveKnownCores ==
    /\ discovery = "applied"
    /\ discovery' = "none" /\ answer' = None
    /\ \/ /\ SetConfig(answer.list)
          /\ source' = answer.core
          /\ learned' = learned \cup ({answer.core} \X Range(Tail(answer.list)))
       \/ UNCHANGED <<savedCores, source, learned>>
    /\ UNCHANGED <<server, proc, known, next, conn>>

\* Faulty variant: a closed client keeps its connection.
StopClientConnected ==
    /\ proc # "off"
    /\ proc' = "off" /\ known' = <<>> /\ next' = 0
    /\ discovery' = "none" /\ answer' = None
    /\ UNCHANGED <<server, savedCores, conn, learned, source>>

\* Close, or the end of the process at any point.
StopClient ==
    /\ proc # "off"
    /\ proc' = "off" /\ conn' = None /\ known' = <<>> /\ next' = 0
    /\ discovery' = "none" /\ answer' = None
    /\ UNCHANGED <<server, savedCores, learned, source>>

(***************************************************************************)
(* Stops and restarts of a core server, which lose its handlers.           *)
(***************************************************************************)
StopCore(k) ==
    /\ k \in up /\ stops < MaxStops
    /\ up' = up \ {k} /\ stops' = stops + 1
    /\ approving' = {x \in approving : x.core # k}
    /\ sending' = {x \in sending : x[1] # k}
    /\ UNCHANGED <<table, registered, told, client>>

StartCore(k) ==
    /\ k \notin up
    /\ up' = up \cup {k}
    /\ UNCHANGED <<stops, table, approving, sending, registered, told, client>>

ClusterNext ==
    \/ \E k \in Core, p \in Peer : \/ ApprovePeer(k, p)
                                   \/ \E a \in Address : RequestJoin(k, p, a)
    \/ \E x \in approving : ActivatePeer(x)
    \/ \E k \in Core : \/ \E a \in Address : PerformInitialSync(k, a)
                       \/ BroadcastNodeRegistration(k)
                       \/ StopCore(k) \/ StartCore(k)
    \/ StartClient \/ ConnectToCore \/ NoCoreLeft \/ GetCoreConn \/ Register
    \/ GetClusterNodes \/ ReplaceKnownCores \/ SaveKnownCores \/ StopClient

ClusterSpec == ClusterInit /\ [][ClusterNext]_clusterVars

(***************************************************************************)
(* Properties.                                                             *)
(***************************************************************************)
\* Every variable has its type.
ClusterTypeOK ==
    /\ up \in SUBSET Core /\ stops \in 0..MaxStops
    /\ peers \in [Core -> [Peer -> Peers]]
    /\ joins \in 0..MaxJoins
    /\ approving \in SUBSET [core : Core, peer : Peer, address : Address]
    /\ sending \in SUBSET (Core \X (Address \cup {None}))
    /\ registered \in SUBSET Core
    /\ proc \in {"off", "dialing", "failed", "on"}
    /\ known \in Seq(Address) /\ savedCores \in Seq(Address)
    /\ next \in Nat
    /\ conn \in Core \cup {None}
    /\ (proc = "on") <=> (conn # None)
    /\ discovery \in {"none", "asked", "answered", "applied"}
    /\ answer # None => answer.core \in Core /\ answer.list \in Seq(Address)
    /\ (answer = None) <=> (discovery \in {"none", "asked"})
    /\ \A h \in {vouched, overtaken, told, learned, demoted} : h \in SUBSET Pairs
    /\ source \in Core \cup {None}

\* Nodes are sent, and clients are led, only to addresses that an approver has read or
\* that were written while an approver was between its SELECT and its UPDATE; and, for
\* clients, to the address the core gives for itself and the one they are built with.
OnlyVouchedAddresses ==
    LET fine == vouched \cup overtaken
    IN  /\ told \subseteq fine
        /\ \A k \in Core : {k} \X ActiveAddresses(k) \subseteq fine
        /\ Range(known) \cup Range(savedCores)
             \subseteq {Seed} \cup Range(SelfAddress) \cup {x[2] : x \in fine}

\* A client forgets the address of a peer that the same core had told it before only
\* after a RequestJoin has overwritten the active row, whatever restarts, failed saves
\* and other answers came in between.
ForgottenOnlyAfterRejoin ==
    \A x \in learned :
        x[1] = source => x[2] \in Range(savedCores) \/ x \in demoted
=============================================================================
