---------------------------- MODULE ClusterProofs ---------------------------
(***************************************************************************)
(* Proofs about Cluster for every set of core servers, peers and           *)
(* addresses, every network behind the addresses and every number of joins *)
(* and stops.                                                              *)
(***************************************************************************)
EXTENDS Cluster, FiniteSetTheorems, TLAPS

PeerRow == [address : Address, status : Status]
Answer == [core : Core, list : Seq(Address)]

\* A table has finitely many rows, discoverClusterNodes runs in a connected client only,
\* and an answer names at least the server itself.
ShapeInv ==
    /\ \A k \in Core : IsFiniteSet({p \in Peer : peers[k][p] # None})
    /\ discovery # "none" => proc = "on"
    /\ answer # None => answer \in Answer /\ answer.list # <<>>

Fine == vouched \cup overtaken
Reached == {Seed} \cup Range(SelfAddress) \cup {x[2] : x \in Fine}

\* What an approver holds was read by it, and the row it is about to activate is there
\* with an address that was read or was written meanwhile; so every active row has such
\* an address, and what is sent to peers and to clients too.
FineInv ==
    /\ \A x \in approving : /\ <<x.core, x.address>> \in vouched
                            /\ peers[x.core][x.peer] # None
                            /\ <<x.core, peers[x.core][x.peer].address>> \in Fine
    /\ \A k \in Core, a \in Address : <<k, a>> \in sending => <<k, a>> \in vouched
    /\ \A k \in Core, p \in Peer :
          peers[k][p] # None /\ peers[k][p].status = "active" =>
             <<k, peers[k][p].address>> \in Fine
    /\ told \subseteq Fine
    /\ answer # None => Range(answer.list) \subseteq Reached
    /\ Range(known) \subseteq Reached /\ Range(savedCores) \subseteq Reached

Kept(k, a) == a \in ActiveAddresses(k) \/ <<k, a>> \in demoted

\* What a client has learned from a core is still active there or was overwritten; so
\* is what the answer it holds says, and that answer has all that the client had
\* learned from this core.
LearnedInv ==
    /\ \A x \in learned : Kept(x[1], x[2])
    /\ answer # None =>
          /\ \A a \in Range(Tail(answer.list)) : Kept(answer.core, a)
          /\ \A x \in learned : x[1] = answer.core =>
                x[2] \in Range(answer.list) \/ x \in demoted

ClusterInv == ClusterTypeOK /\ ShapeInv /\ FineInv /\ LearnedInv /\ ForgottenOnlyAfterRejoin

-----------------------------------------------------------------------------
LEMMA NotNone == None \notin Core /\ None \notin Address /\ None \notin PeerRow /\ None \notin Answer
BY ClusterNoneAssumption DEF PeerRow, Answer

\* What a sequence that is not empty has after its head.
LEMMA TailRange ==
    ASSUME NEW S, NEW q \in Seq(S), q # <<>>
    PROVE  Tail(q) \in Seq(S) /\ Range(Tail(q)) \subseteq Range(q)
<1>1. /\ Tail(q) \in Seq(S) /\ Len(q) > 0
      /\ DOMAIN Tail(q) = 1..Len(q) - 1 /\ DOMAIN q = 1..Len(q)
      /\ \A i \in 1..Len(q) - 1 : Tail(q)[i] = q[i + 1]
  OBVIOUS
<1> QED BY <1>1 DEF Range

\* The elements of a sequence are elements of its set.
LEMMA SeqRange == ASSUME NEW S, NEW q \in Seq(S) PROVE Range(q) \subseteq S
BY DEF Range

\* A sequence with one element before it.
LEMMA ConsRange ==
    ASSUME NEW S, NEW a \in S, NEW n \in Nat, NEW g \in [1..n -> S]
    PROVE  /\ <<a>> \o g \in Seq(S) /\ <<a>> \o g # <<>>
           /\ Range(Tail(<<a>> \o g)) = Range(g)
           /\ Range(<<a>> \o g) = {a} \cup Range(g)
<1> DEFINE s == <<a>> \o g
<1>1. g \in Seq(S) /\ Len(g) = n /\ DOMAIN g = 1..n
  OBVIOUS
<1>2. /\ s \in Seq(S) /\ Len(s) = n + 1 /\ s[1] = a
      /\ \A i \in 1..n : s[i + 1] = g[i]
  BY <1>1
<1>3. s # <<>> /\ DOMAIN s = 1..n + 1
  BY <1>2
<1>4. /\ DOMAIN Tail(s) = 1..n
      /\ \A i \in 1..n : Tail(s)[i] = g[i]
  BY <1>2, <1>3
<1> HIDE DEF s
<1>5. Range(Tail(s)) = Range(g)
  BY <1>1, <1>4 DEF Range
<1>6. Range(s) = {a} \cup Range(g)
  <2>1. \A i \in 1..n + 1 : i = 1 \/ (i - 1 \in 1..n /\ s[i] = g[i - 1])
    BY <1>2
  <2>2. 1 \in 1..n + 1 /\ \A i \in 1..n : i + 1 \in 1..n + 1
    OBVIOUS
  <2> QED BY <1>1, <1>2, <1>3, <2>1, <2>2 DEF Range
<1> QED BY <1>2, <1>3, <1>5, <1>6 DEF s

\* Rows of the tables.
LEMMA RowType ==
    ASSUME ClusterTypeOK, NEW k \in Core, NEW p \in Peer
    PROVE  /\ peers[k][p] \in Peers
           /\ peers[k][p] # None => /\ peers[k][p] \in PeerRow
                                    /\ peers[k][p].address \in Address
                                    /\ peers[k][p].status \in Status
BY DEF ClusterTypeOK, Peers, PeerRow

\* The tables after one row has been written.
LEMMA WriteRow ==
    ASSUME ClusterTypeOK, NEW k \in Core, NEW p \in Peer, NEW r \in PeerRow,
           peers' = [peers EXCEPT ![k][p] = r]
    PROVE  /\ peers' \in [Core -> [Peer -> Peers]]
           /\ peers'[k][p] = r
           /\ \A j \in Core, q \in Peer : j # k \/ q # p => peers'[j][q] = peers[j][q]
<1>1. peers \in [Core -> [Peer -> Peers]] /\ r \in Peers
  BY DEF ClusterTypeOK, Peers, PeerRow
<1>2. peers' = [peers EXCEPT ![k] = [peers[k] EXCEPT ![p] = r]]
  BY <1>1
<1>3. [peers[k] EXCEPT ![p] = r] \in [Peer -> Peers]
  BY <1>1
<1> QED BY <1>1, <1>2, <1>3

\* UpdateClusterPeerStatus on a row that is there.
LEMMA ActivateRow ==
    ASSUME ClusterTypeOK, NEW k \in Core, NEW p \in Peer, peers[k][p] # None,
           peers' = [peers EXCEPT ![k][p].status = "active"]
    PROVE  /\ peers' \in [Core -> [Peer -> Peers]]
           /\ peers'[k][p] = [address |-> peers[k][p].address, status |-> "active"]
           /\ \A j \in Core, q \in Peer : j # k \/ q # p => peers'[j][q] = peers[j][q]
<1>1. peers[k][p] \in PeerRow
  BY RowType
<1>2. PICK r \in PeerRow : r = [address |-> peers[k][p].address, status |-> "active"]
  BY <1>1 DEF PeerRow, Status
<1>3. [peers[k][p] EXCEPT !.status = "active"] = r
  BY <1>1, <1>2 DEF PeerRow
<1>4. peers' = [peers EXCEPT ![k] = [peers[k] EXCEPT ![p] =
                                       [peers[k][p] EXCEPT !.status = "active"]]]
  BY DEF ClusterTypeOK
<1>5. peers' = [peers EXCEPT ![k] = [peers[k] EXCEPT ![p] = r]]
  BY <1>3, <1>4
<1>6. r \in Peers /\ peers \in [Core -> [Peer -> Peers]]
  BY DEF ClusterTypeOK, Peers, PeerRow
<1>7. /\ peers' \in [Core -> [Peer -> Peers]]
      /\ peers'[k][p] = r
      /\ \A j \in Core, q \in Peer : j # k \/ q # p => peers'[j][q] = peers[j][q]
  <2>1. [peers[k] EXCEPT ![p] = r] \in [Peer -> Peers]
    BY <1>6
  <2> QED BY <1>5, <1>6, <2>1
<1> QED BY <1>2, <1>7

\* The addresses of the active rows.
LEMMA ActiveAddress ==
    ASSUME NEW k, NEW a
    PROVE  a \in ActiveAddresses(k) <=>
              \E p \in Peer : /\ peers[k][p] # None /\ peers[k][p].status = "active"
                              /\ peers[k][p].address = a
BY DEF ActiveAddresses, GetActiveClusterPeers

\* GetClusterNodes answers the server itself and then the active peers.
LEMMA ListingRange ==
    ASSUME ClusterTypeOK, ShapeInv, NEW k \in Core, NEW l \in Listings(k)
    PROVE  /\ l \in Seq(Address) /\ l # <<>>
           /\ Range(Tail(l)) = ActiveAddresses(k)
           /\ Range(l) = {SelfAddress[k]} \cup ActiveAddresses(k)
<1> DEFINE A == GetActiveClusterPeers(k)
           n == Cardinality(A)
<1>1. IsFiniteSet(A)
  <2>1. A \subseteq {p \in Peer : peers[k][p] # None}
    BY DEF GetActiveClusterPeers
  <2> QED BY <2>1, FS_Subset DEF ShapeInv
<1>2. n \in Nat
  BY <1>1, FS_CardinalityType
<1>3. A \subseteq Peer /\ \A p \in A : peers[k][p].address \in Address
  BY RowType DEF GetActiveClusterPeers
<1>4. PICK f \in [1..n -> A] :
          /\ Range(f) = A
          /\ l = <<SelfAddress[k]>> \o [i \in 1..n |-> peers[k][f[i]].address]
  BY DEF Listings
<1> DEFINE g == [i \in 1..n |-> peers[k][f[i]].address]
<1> HIDE DEF n, A
<1>5. g \in [1..n -> Address]
  BY <1>3, <1>4
<1>6. Range(g) = ActiveAddresses(k)
  <2>1. Range(g) = {peers[k][f[i]].address : i \in 1..n}
    BY DEF Range
  <2>2. Range(f) = {f[i] : i \in 1..n}
    BY <1>4 DEF Range
  <2>3. ActiveAddresses(k) = {peers[k][p].address : p \in A}
    BY DEF ActiveAddresses, A
  <2> HIDE DEF g
  <2>4. \A i \in 1..n : f[i] \in A
    BY <1>4
  <2>5. \A p \in A : \E i \in 1..n : p = f[i]
    BY <1>4, <2>2
  <2>6. \A a \in ActiveAddresses(k) : \E i \in 1..n : a = peers[k][f[i]].address
    BY <2>3, <2>5
  <2>7. \A i \in 1..n : peers[k][f[i]].address \in ActiveAddresses(k)
    BY <2>3, <2>4
  <2> QED BY <2>1, <2>6, <2>7
<1>7. SelfAddress[k] \in Address
  BY ClusterAssumption
<1> HIDE DEF g
<1>8. l = <<SelfAddress[k]>> \o g
  BY <1>4 DEF g
<1> QED BY <1>2, <1>5, <1>6, <1>7, <1>8, ConsRange

-----------------------------------------------------------------------------
\* The initial states satisfy the invariant.
LEMMA ClusterInvInit == ClusterInit => ClusterInv
<1> SUFFICES ASSUME ClusterInit PROVE ClusterInv
  OBVIOUS
<1> USE DEF ClusterInit
<1>1. ClusterTypeOK
  BY ClusterAssumption, NotNone DEF ClusterTypeOK, Peers
<1>2. ShapeInv
  <2>1. \A k \in Core : {p \in Peer : peers[k][p] # None} = {}
    OBVIOUS
  <2> QED BY <2>1, FS_EmptySet DEF ShapeInv
<1>3. Range(<<>>) = {}
  BY DEF Range
<1>4. FineInv
  BY <1>3 DEF FineInv
<1>5. LearnedInv /\ ForgottenOnlyAfterRejoin
  BY DEF LearnedInv, ForgottenOnlyAfterRejoin
<1> QED BY <1>1, <1>2, <1>4, <1>5 DEF ClusterInv

\* What a RequestJoin writes.
LEMMA JoinRow ==
    ASSUME ClusterTypeOK, NEW k \in Core, NEW p \in Peer, NEW a \in Address,
           RequestJoin(k, p, a)
    PROVE  /\ peers' \in [Core -> [Peer -> Peers]]
           /\ peers'[k][p] = [address |-> a, status |-> "pending"]
           /\ \A j \in Core, q \in Peer : j # k \/ q # p => peers'[j][q] = peers[j][q]
<1>1. PICK r \in PeerRow : r = [address |-> a, status |-> "pending"]
  BY DEF PeerRow, Status
<1>2. peers' = [peers EXCEPT ![k][p] = r]
  BY <1>1 DEF RequestJoin, UpsertClusterPeer
<1>3. /\ peers' \in [Core -> [Peer -> Peers]]
      /\ peers'[k][p] = r
      /\ \A j \in Core, q \in Peer : j # k \/ q # p => peers'[j][q] = peers[j][q]
  BY <1>2, WriteRow
<1> QED BY <1>1, <1>3

\* What the UPDATE of an approver writes.
LEMMA ActiveRow ==
    ASSUME ClusterTypeOK, FineInv, NEW x \in approving,
           peers' = [peers EXCEPT ![x.core][x.peer].status = "active"]
    PROVE  /\ x.core \in Core /\ x.peer \in Peer
           /\ peers' \in [Core -> [Peer -> Peers]]
           /\ peers[x.core][x.peer] # None
           /\ peers'[x.core][x.peer] = [address |-> peers[x.core][x.peer].address,
                                        status |-> "active"]
           /\ \A j \in Core, q \in Peer :
                 j # x.core \/ q # x.peer => peers'[j][q] = peers[j][q]
<1>1. x.core \in Core /\ x.peer \in Peer
  BY DEF ClusterTypeOK
<1>2. peers[x.core][x.peer] # None
  BY DEF FineInv
<1>3. PICK k \in Core, p \in Peer : k = x.core /\ p = x.peer
  BY <1>1
<1>4. peers[k][p] # None /\ peers' = [peers EXCEPT ![k][p].status = "active"]
  BY <1>2, <1>3
<1>5. /\ peers' \in [Core -> [Peer -> Peers]]
      /\ peers'[k][p] = [address |-> peers[k][p].address, status |-> "active"]
      /\ \A j \in Core, q \in Peer : j # k \/ q # p => peers'[j][q] = peers[j][q]
  BY <1>4, ActivateRow
<1> QED BY <1>1, <1>2, <1>3, <1>5

\* A step that leaves the client alone, and of the server changes what it changes.
LEMMA ServerType ==
    ASSUME ClusterTypeOK, ShapeInv, UNCHANGED client,
           up' \in SUBSET Core, stops' \in 0..MaxStops,
           peers' \in [Core -> [Peer -> Peers]],
           \A k \in Core : IsFiniteSet({p \in Peer : peers'[k][p] # None}),
           joins' \in 0..MaxJoins,
           approving' \in SUBSET [core : Core, peer : Peer, address : Address],
           sending' \in SUBSET (Core \X (Address \cup {None})),
           registered' \in SUBSET Core,
           vouched' \in SUBSET Pairs, overtaken' \in SUBSET Pairs,
           told' \in SUBSET Pairs, demoted' \in SUBSET Pairs
    PROVE  ClusterTypeOK' /\ ShapeInv'
BY DEF ClusterTypeOK, ShapeInv, client

\* The addresses of active peers are addresses.
LEMMA ActiveType ==
    ASSUME ClusterTypeOK, NEW k \in Core
    PROVE  ActiveAddresses(k) \subseteq Address
BY ActiveAddress, RowType

\* A step of the servers keeps the types.
LEMMA ServerStepType ==
    ASSUME ClusterTypeOK, ShapeInv, FineInv,
           \/ \E k \in Core, p \in Peer : \/ ApprovePeer(k, p)
                                          \/ \E a \in Address : RequestJoin(k, p, a)
           \/ \E x \in approving : ActivatePeer(x)
           \/ \E k \in Core : \/ \E a \in Address : PerformInitialSync(k, a)
                              \/ BroadcastNodeRegistration(k)
                              \/ StopCore(k) \/ StartCore(k)
           \/ Register
    PROVE  ClusterTypeOK' /\ ShapeInv'
<1>a. /\ up \in SUBSET Core /\ stops \in 0..MaxStops
      /\ peers \in [Core -> [Peer -> Peers]]
      /\ joins \in 0..MaxJoins
      /\ approving \in SUBSET [core : Core, peer : Peer, address : Address]
      /\ sending \in SUBSET (Core \X (Address \cup {None}))
      /\ registered \in SUBSET Core
      /\ vouched \in SUBSET Pairs /\ overtaken \in SUBSET Pairs
      /\ told \in SUBSET Pairs /\ demoted \in SUBSET Pairs
      /\ conn \in Core \cup {None}
  BY DEF ClusterTypeOK
<1>b. \A k \in Core : IsFiniteSet({p \in Peer : peers[k][p] # None})
  BY DEF ShapeInv
<1> USE ClusterAssumption
<1>1. ASSUME NEW k \in Core, NEW p \in Peer, NEW a \in Address, RequestJoin(k, p, a)
      PROVE  ClusterTypeOK' /\ ShapeInv'
  <2>1. \A j \in Core : IsFiniteSet({q \in Peer : peers'[j][q] # None})
    <3> SUFFICES ASSUME NEW j \in Core PROVE IsFiniteSet({q \in Peer : peers'[j][q] # None})
      OBVIOUS
    <3>a. \A i \in Core, q \in Peer : i # k \/ q # p => peers'[i][q] = peers[i][q]
      BY <1>1, JoinRow
    <3>1. {q \in Peer : peers'[j][q] # None} \subseteq {q \in Peer : peers[j][q] # None} \cup {p}
      BY <3>a
    <3>2. IsFiniteSet({q \in Peer : peers[j][q] # None} \cup {p})
      BY <1>b, FS_AddElement
    <3> QED BY <3>1, <3>2, FS_Subset
  <2>2. peers' \in [Core -> [Peer -> Peers]]
    BY <1>1, JoinRow
  <2>3. overtaken' \in SUBSET Pairs
    BY <1>1, <1>a DEF RequestJoin, Pairs
  <2>4. demoted' \in SUBSET Pairs
    BY <1>1, <1>a, RowType DEF RequestJoin, Pairs
  <2>5. joins' \in 0..MaxJoins
    BY <1>1, <1>a DEF RequestJoin
  <2> QED BY <1>1, <1>a, <2>1, <2>2, <2>3, <2>4, <2>5, ServerType DEF RequestJoin
<1>2. ASSUME NEW k \in Core, NEW p \in Peer, ApprovePeer(k, p)
      PROVE  ClusterTypeOK' /\ ShapeInv'
  <2>1. peers[k][p].address \in Address
    BY <1>2, RowType DEF ApprovePeer, GetClusterPeer
  <2>2. approving' \in SUBSET [core : Core, peer : Peer, address : Address]
    BY <1>2, <1>a, <2>1 DEF ApprovePeer, GetClusterPeer
  <2>3. vouched' \in SUBSET Pairs
    BY <1>2, <1>a, <2>1 DEF ApprovePeer, GetClusterPeer, Pairs
  <2> QED BY <1>2, <1>a, <1>b, <2>2, <2>3, ServerType DEF ApprovePeer
<1>3. ASSUME NEW x \in approving, ActivatePeer(x) PROVE ClusterTypeOK' /\ ShapeInv'
  <2>1. x.core \in Core /\ x.address \in Address
    BY <1>a
  <2>2. /\ peers' \in [Core -> [Peer -> Peers]]
        /\ \A j \in Core : IsFiniteSet({q \in Peer : peers'[j][q] # None})
    <3>1. CASE UNCHANGED peers
      BY <1>a, <1>b, <3>1
    <3>2. CASE peers' = [peers EXCEPT ![x.core][x.peer].status = "active"]
      <4> SUFFICES ASSUME NEW j \in Core
                   PROVE  IsFiniteSet({q \in Peer : peers'[j][q] # None})
        BY <3>2, ActiveRow
      <4>1. {q \in Peer : peers'[j][q] # None} \subseteq {q \in Peer : peers[j][q] # None}
        BY <3>2, ActiveRow
      <4> QED BY <1>b, <4>1, FS_Subset
    <3> QED BY <1>3, <3>1, <3>2 DEF ActivatePeer
  <2>3. sending' \in SUBSET (Core \X (Address \cup {None}))
    BY <1>3, <1>a, <2>1 DEF ActivatePeer
  <2> QED BY <1>3, <1>a, <2>2, <2>3, ServerType DEF ActivatePeer
<1>4. ASSUME NEW k \in Core, NEW a \in Address, PerformInitialSync(k, a)
      PROVE  ClusterTypeOK' /\ ShapeInv'
  <2>1. told' \in SUBSET Pairs
    BY <1>4, <1>a DEF PerformInitialSync, SyncNodes, Pairs
  <2> QED BY <1>4, <1>a, <1>b, <2>1, ServerType DEF PerformInitialSync, table
<1>5. ASSUME NEW k \in Core, BroadcastNodeRegistration(k) PROVE ClusterTypeOK' /\ ShapeInv'
  <2>1. told' \in SUBSET Pairs
    BY <1>5, <1>a, ActiveType DEF BroadcastNodeRegistration, SyncNodes, Pairs
  <2> QED BY <1>5, <1>a, <1>b, <2>1, ServerType DEF BroadcastNodeRegistration, table
<1>6. ASSUME NEW k \in Core, StopCore(k) \/ StartCore(k) PROVE ClusterTypeOK' /\ ShapeInv'
  <2>1. up' \in SUBSET Core /\ stops' \in 0..MaxStops
    BY <1>6, <1>a DEF StopCore, StartCore
  <2>2. /\ approving' \in SUBSET [core : Core, peer : Peer, address : Address]
        /\ sending' \in SUBSET (Core \X (Address \cup {None}))
    BY <1>6, <1>a DEF StopCore, StartCore
  <2> QED BY <1>6, <1>a, <1>b, <2>1, <2>2, ServerType DEF StopCore, StartCore, table
<1>7. ASSUME Register PROVE ClusterTypeOK' /\ ShapeInv'
  <2>1. registered' \in SUBSET Core /\ sending' \in SUBSET (Core \X (Address \cup {None}))
    BY <1>7, <1>a DEF Register
  <2> QED BY <1>7, <1>a, <1>b, <2>1, ServerType DEF Register, table
<1> QED BY <1>1, <1>2, <1>3, <1>4, <1>5, <1>6, <1>7

\* The steps of the client, Register apart.
ClientStep ==
    \/ StartClient \/ ConnectToCore \/ NoCoreLeft \/ GetCoreConn \/ GetClusterNodes
    \/ ReplaceKnownCores \/ SaveKnownCores \/ StopClient

\* The client changes nothing of the servers.
LEMMA ClientOnly == ClientStep => UNCHANGED server
BY DEF ClientStep, StartClient, GetConfig, ConnectToCore, NoCoreLeft, GetCoreConn, GetClusterNodes,
       ReplaceKnownCores, SaveKnownCores, SetConfig, StopClient

\* A step that leaves the servers alone, and of the client changes what it changes.
LEMMA ClientType ==
    ASSUME ClusterTypeOK, ShapeInv, UNCHANGED server,
           proc' \in {"off", "dialing", "failed", "on"},
           known' \in Seq(Address), savedCores' \in Seq(Address),
           next' \in Nat, conn' \in Core \cup {None}, (proc' = "on") <=> (conn' # None),
           discovery' \in {"none", "asked", "answered", "applied"},
           discovery' # "none" => proc' = "on",
           answer' # None => answer' \in Answer /\ answer'.list # <<>>,
           (answer' = None) <=> (discovery' \in {"none", "asked"}),
           learned' \in SUBSET Pairs, source' \in Core \cup {None}
    PROVE  ClusterTypeOK' /\ ShapeInv'
<1>1. answer' # None => answer'.core \in Core /\ answer'.list \in Seq(Address)
  BY DEF Answer
<1> QED BY <1>1 DEF ClusterTypeOK, ShapeInv, server, table

\* A step of the client keeps the types.
LEMMA ClientStepType ==
    ASSUME ClusterTypeOK, ShapeInv, ClientStep
    PROVE  ClusterTypeOK' /\ ShapeInv'
<1>a. /\ proc \in {"off", "dialing", "failed", "on"}
      /\ known \in Seq(Address) /\ savedCores \in Seq(Address)
      /\ next \in Nat /\ conn \in Core \cup {None} /\ ((proc = "on") <=> (conn # None))
      /\ discovery \in {"none", "asked", "answered", "applied"}
      /\ (answer = None) <=> (discovery \in {"none", "asked"})
      /\ learned \in SUBSET Pairs /\ source \in Core \cup {None}
      /\ up \in SUBSET Core
  BY DEF ClusterTypeOK
<1>b. /\ discovery # "none" => proc = "on"
      /\ answer # None => answer \in Answer /\ answer.list # <<>>
  BY DEF ShapeInv
<1>c. UNCHANGED server
  BY ClientOnly
<1> USE ClusterAssumption, NotNone
<1>1. CASE StartClient
  <2>1. known' = <<Seed>> \/ known' = savedCores
    BY <1>1 DEF StartClient, GetConfig
  <2>2. <<Seed>> \in Seq(Address)
    OBVIOUS
  <2>3. known' \in Seq(Address)
    BY <2>1, <2>2, <1>a
  <2> QED BY <1>1, <1>a, <1>b, <1>c, <2>3, ClientType DEF StartClient, GetConfig
<1>2. CASE ConnectToCore
  <2>1. CASE next' = next + 1 /\ UNCHANGED <<proc, conn, discovery>>
    BY <1>2, <1>a, <1>b, <1>c, <2>1, ClientType DEF ConnectToCore
  <2>2. CASE /\ Dial[known[next]] \in up /\ conn' = Dial[known[next]]
             /\ proc' = "on" /\ discovery' = "asked" /\ UNCHANGED next
    <3>1. conn' \in Core /\ conn' # None
      BY <1>a, <2>2
    <3>2. answer = None
      BY <1>2, <1>a, <1>b DEF ConnectToCore
    <3> QED BY <1>2, <1>a, <1>b, <1>c, <2>2, <3>1, <3>2, ClientType DEF ConnectToCore
  <2> QED BY <1>2, <2>1, <2>2 DEF ConnectToCore
<1>3. CASE NoCoreLeft
  BY <1>3, <1>a, <1>b, <1>c, ClientType DEF NoCoreLeft
<1>4. CASE GetCoreConn
  BY <1>4, <1>a, <1>b, <1>c, ClientType DEF GetCoreConn
<1>5. CASE GetClusterNodes
  <2>1. CASE discovery' = "none" /\ UNCHANGED answer
    BY <1>5, <1>a, <1>b, <1>c, <2>1, ClientType DEF GetClusterNodes
  <2>2. CASE /\ conn \in up
             /\ \E l \in Listings(conn) : answer' = [core |-> conn, list |-> l]
             /\ discovery' = "answered"
    <3>1. conn \in Core
      BY <1>a, <2>2
    <3>2. PICK l \in Listings(conn) : answer' = [core |-> conn, list |-> l]
      BY <2>2
    <3>3. l \in Seq(Address) /\ l # <<>>
      BY <3>1, ListingRange
    <3>4. answer' \in Answer /\ answer'.list # <<>> /\ answer' # None
      BY <3>1, <3>2, <3>3 DEF Answer
    <3> QED BY <1>5, <1>a, <1>b, <1>c, <2>2, <3>4, ClientType DEF GetClusterNodes
  <2> QED BY <1>5, <2>1, <2>2 DEF GetClusterNodes
<1>6. CASE ReplaceKnownCores
  <2>1. known' \in Seq(Address) /\ answer # None
    BY <1>6, <1>a, <1>b DEF ReplaceKnownCores, Answer
  <2> QED BY <1>6, <1>a, <1>b, <1>c, <2>1, ClientType DEF ReplaceKnownCores
<1>7. CASE SaveKnownCores
  <2>1. answer # None /\ answer.core \in Core /\ answer.list \in Seq(Address) /\ answer.list # <<>>
    BY <1>7, <1>a, <1>b DEF SaveKnownCores, SetConfig, Answer
  <2>2. Range(Tail(answer.list)) \subseteq Address
    BY <2>1, TailRange, SeqRange
  <2>3. /\ learned' \in SUBSET Pairs /\ source' \in Core \cup {None}
        /\ savedCores' \in Seq(Address)
    BY <1>7, <1>a, <2>1, <2>2 DEF SaveKnownCores, SetConfig, Pairs
  <2> QED BY <1>7, <1>a, <1>b, <1>c, <2>3, ClientType DEF SaveKnownCores, SetConfig
<1>8. CASE StopClient
  <2>1. <<>> \in Seq(Address)
    OBVIOUS
  <2> QED BY <1>8, <1>a, <1>b, <1>c, <2>1, ClientType DEF StopClient
<1> QED BY <1>1, <1>2, <1>3, <1>4, <1>5, <1>6, <1>7, <1>8 DEF ClientStep

\* Every step keeps the types.
LEMMA ClusterStepType ==
    ASSUME ClusterTypeOK, ShapeInv, FineInv, [ClusterNext]_clusterVars
    PROVE  ClusterTypeOK' /\ ShapeInv'
<1>1. CASE UNCHANGED clusterVars
  BY <1>1 DEF clusterVars, ClusterTypeOK, ShapeInv
<1> QED BY <1>1, ServerStepType, ClientStepType DEF ClusterNext, ClientStep

-----------------------------------------------------------------------------
\* Addresses stay fine, so what is reached stays so for a client that a step leaves alone.
LEMMA ReachedStays ==
    ASSUME FineInv, vouched \subseteq vouched', overtaken \subseteq overtaken',
           UNCHANGED <<answer, known, savedCores>>
    PROVE  /\ Fine \subseteq Fine'
           /\ answer' # None => Range(answer'.list) \subseteq Reached'
           /\ Range(known') \subseteq Reached' /\ Range(savedCores') \subseteq Reached'
<1>1. Fine \subseteq Fine' /\ Reached \subseteq Reached'
  BY DEF Fine, Reached
<1> QED BY <1>1 DEF FineInv

\* A step of the servers keeps addresses fine.
LEMMA ServerStepFine ==
    ASSUME ClusterTypeOK, FineInv, UNCHANGED client,
           \/ \E k \in Core, p \in Peer : \/ ApprovePeer(k, p)
                                          \/ \E a \in Address : RequestJoin(k, p, a)
           \/ \E x \in approving : ActivatePeer(x)
           \/ \E k \in Core : \/ \E a \in Address : PerformInitialSync(k, a)
                              \/ BroadcastNodeRegistration(k)
                              \/ StopCore(k) \/ StartCore(k)
           \/ Register
    PROVE  FineInv'
<1>a. UNCHANGED <<answer, known, savedCores>>
  BY DEF client
<1>b. approving \subseteq [core : Core, peer : Peer, address : Address]
  BY DEF ClusterTypeOK
<1> USE NotNone
<1>1. ASSUME NEW k \in Core, NEW p \in Peer, NEW a \in Address, RequestJoin(k, p, a)
      PROVE  FineInv'
  <2>1. /\ UNCHANGED <<approving, sending, vouched, told>>
        /\ overtaken \subseteq overtaken'
        /\ \A x \in approving : x.core = k /\ x.peer = p => <<k, a>> \in overtaken'
    BY <1>1 DEF RequestJoin
  <2>2. /\ peers'[k][p] = [address |-> a, status |-> "pending"]
        /\ \A j \in Core, q \in Peer : j # k \/ q # p => peers'[j][q] = peers[j][q]
    BY <1>1, JoinRow
  <2>3. PICK r \in PeerRow : r = [address |-> a, status |-> "pending"]
    BY DEF PeerRow, Status
  <2>4. r # None /\ r.address = a /\ r.status # "active" /\ peers'[k][p] = r
    BY <2>2, <2>3
  <2>5. Fine \subseteq Fine'
    BY <2>1 DEF Fine
  <2>6. ASSUME NEW x \in approving'
        PROVE  /\ <<x.core, x.address>> \in vouched'
               /\ peers'[x.core][x.peer] # None
               /\ <<x.core, peers'[x.core][x.peer].address>> \in Fine'
    <3>1. x \in approving /\ x.core \in Core /\ x.peer \in Peer
      BY <1>b, <2>1
    <3>2. CASE x.core = k /\ x.peer = p
      BY <2>1, <2>4, <3>1, <3>2 DEF FineInv, Fine
    <3>3. CASE x.core # k \/ x.peer # p
      BY <2>1, <2>2, <2>5, <3>1, <3>3 DEF FineInv
    <3> QED BY <3>2, <3>3
  <2>7. \A j \in Core, q \in Peer :
           peers'[j][q] # None /\ peers'[j][q].status = "active" =>
              <<j, peers'[j][q].address>> \in Fine'
    <3> SUFFICES ASSUME NEW j \in Core, NEW q \in Peer, peers'[j][q] # None,
                        peers'[j][q].status = "active"
                 PROVE  <<j, peers'[j][q].address>> \in Fine'
      OBVIOUS
    <3>1. j # k \/ q # p
      BY <2>4
    <3>2. peers'[j][q] = peers[j][q]
      BY <2>2, <3>1
    <3> QED BY <2>5, <3>2 DEF FineInv
  <2>8. told' \subseteq Fine'
    BY <2>1, <2>5 DEF FineInv
  <2>9. \A j \in Core, b \in Address : <<j, b>> \in sending' => <<j, b>> \in vouched'
    BY <2>1 DEF FineInv
  <2> QED BY <1>a, <2>1, <2>6, <2>7, <2>8, <2>9, ReachedStays DEF FineInv
<1>2. ASSUME NEW k \in Core, NEW p \in Peer, ApprovePeer(k, p) PROVE FineInv'
  <2>1. PICK a : a = peers[k][p].address
    OBVIOUS
  <2>2. /\ UNCHANGED <<peers, sending, overtaken, told>>
        /\ approving' = approving \cup {[core |-> k, peer |-> p, address |-> a]}
        /\ vouched' = vouched \cup {<<k, a>>}
        /\ peers[k][p] # None
    BY <1>2, <2>1 DEF ApprovePeer, GetClusterPeer
  <2>3. Fine \subseteq Fine' /\ <<k, a>> \in Fine' /\ vouched \subseteq vouched'
    BY <2>2 DEF Fine
  <2>4. \A x \in approving' : /\ <<x.core, x.address>> \in vouched'
                              /\ peers'[x.core][x.peer] # None
                              /\ <<x.core, peers'[x.core][x.peer].address>> \in Fine'
    <3>1. PICK y : y = [core |-> k, peer |-> p, address |-> a]
      OBVIOUS
    <3>2. y.core = k /\ y.peer = p /\ y.address = a
      BY <3>1
    <3>3. approving' = approving \cup {y}
      BY <2>2, <3>1
    <3>4. /\ <<y.core, y.address>> \in vouched'
          /\ peers'[y.core][y.peer] # None
          /\ <<y.core, peers'[y.core][y.peer].address>> \in Fine'
      BY <2>1, <2>2, <2>3, <3>2
    <3>5. \A x \in approving : /\ <<x.core, x.address>> \in vouched'
                               /\ peers'[x.core][x.peer] # None
                               /\ <<x.core, peers'[x.core][x.peer].address>> \in Fine'
      BY <2>2, <2>3 DEF FineInv
    <3> QED BY <3>3, <3>4, <3>5
  <2>5. \A j \in Core, q \in Peer :
           peers'[j][q] # None /\ peers'[j][q].status = "active" =>
              <<j, peers'[j][q].address>> \in Fine'
    BY <2>2, <2>3 DEF FineInv
  <2>6. told' \subseteq Fine'
    BY <2>2, <2>3 DEF FineInv
  <2>7. \A j \in Core, b \in Address : <<j, b>> \in sending' => <<j, b>> \in vouched'
    BY <2>2, <2>3 DEF FineInv
  <2> QED BY <1>a, <2>2, <2>3, <2>4, <2>5, <2>6, <2>7, ReachedStays DEF FineInv
<1>3. ASSUME NEW x \in approving, ActivatePeer(x) PROVE FineInv'
  <2>1. /\ UNCHANGED <<vouched, overtaken, told>>
        /\ approving' \subseteq approving
        /\ sending' \subseteq sending \cup {<<x.core, x.address>>}
        /\ \/ UNCHANGED peers
           \/ peers' = [peers EXCEPT ![x.core][x.peer].status = "active"]
    BY <1>3 DEF ActivatePeer
  <2>2. Fine' = Fine
    BY <2>1 DEF Fine
  <2>3. \A j \in Core, q \in Peer :
           \/ peers'[j][q] = peers[j][q]
           \/ /\ peers[j][q] # None /\ peers'[j][q] # None
              /\ peers'[j][q].address = peers[j][q].address
              /\ <<j, peers[j][q].address>> \in Fine
    <3>1. CASE peers' = [peers EXCEPT ![x.core][x.peer].status = "active"]
      <4>1. /\ x.core \in Core /\ x.peer \in Peer
            /\ peers' \in [Core -> [Peer -> Peers]]
            /\ peers[x.core][x.peer] # None
            /\ peers'[x.core][x.peer] = [address |-> peers[x.core][x.peer].address,
                                         status |-> "active"]
            /\ \A j \in Core, q \in Peer :
                  j # x.core \/ q # x.peer => peers'[j][q] = peers[j][q]
        BY <3>1, ActiveRow
      <4>2. peers[x.core][x.peer].address \in Address
        BY <4>1, RowType
      <4>3. PICK r \in PeerRow : r = [address |-> peers[x.core][x.peer].address, status |-> "active"]
        BY <4>2 DEF PeerRow, Status
      <4>4. r # None /\ r.address = peers[x.core][x.peer].address /\ peers'[x.core][x.peer] = r
        BY <4>1, <4>3
      <4>5. <<x.core, peers[x.core][x.peer].address>> \in Fine
        BY DEF FineInv
      <4> QED BY <4>1, <4>4, <4>5
    <3> QED BY <2>1, <3>1
  <2>4. ASSUME NEW y \in approving'
        PROVE  /\ <<y.core, y.address>> \in vouched'
               /\ peers'[y.core][y.peer] # None
               /\ <<y.core, peers'[y.core][y.peer].address>> \in Fine'
    <3>1. y \in approving /\ y.core \in Core /\ y.peer \in Peer
      BY <1>b, <2>1
    <3> QED BY <2>1, <2>2, <2>3, <3>1 DEF FineInv
  <2>5. \A j \in Core, q \in Peer :
           peers'[j][q] # None /\ peers'[j][q].status = "active" =>
              <<j, peers'[j][q].address>> \in Fine'
    BY <2>2, <2>3 DEF FineInv
  <2>6. told' \subseteq Fine'
    BY <2>1, <2>2 DEF FineInv
  <2>7. \A j \in Core, b \in Address : <<j, b>> \in sending' => <<j, b>> \in vouched'
    BY <2>1 DEF FineInv
  <2> QED BY <1>a, <2>1, <2>4, <2>5, <2>6, <2>7, ReachedStays DEF FineInv
<1>4. ASSUME UNCHANGED <<peers, vouched, overtaken>>,
             approving' \subseteq approving,
             \A j \in Core, b \in Address : <<j, b>> \in sending' => <<j, b>> \in sending,
             told' \subseteq Fine
      PROVE  FineInv'
  <2>1. Fine' = Fine
    BY <1>4 DEF Fine
  <2> QED BY <1>a, <1>4, <2>1, ReachedStays DEF FineInv
<1>5. ASSUME NEW k \in Core, NEW a \in Address, PerformInitialSync(k, a) PROVE FineInv'
  <2>1. told' \subseteq told \cup {<<k, a>>}
    BY <1>5 DEF PerformInitialSync, SyncNodes
  <2>2. <<k, a>> \in Fine
    BY <1>5 DEF PerformInitialSync, FineInv, Fine
  <2>3. told' \subseteq Fine
    BY <2>1, <2>2 DEF FineInv
  <2> QED BY <1>4, <1>5, <2>3 DEF PerformInitialSync, table
<1>6. ASSUME NEW k \in Core, BroadcastNodeRegistration(k) PROVE FineInv'
  <2>1. PICK A \in SUBSET ActiveAddresses(k) : told' = told \cup ({k} \X A)
    BY <1>6 DEF BroadcastNodeRegistration, SyncNodes
  <2>2. \A a \in A : <<k, a>> \in Fine
    BY <2>1, ActiveAddress DEF FineInv
  <2>3. told' \subseteq Fine
    BY <2>1, <2>2 DEF FineInv
  <2> QED BY <1>4, <1>6, <2>3 DEF BroadcastNodeRegistration, table
<1>7. ASSUME NEW k \in Core, StopCore(k) \/ StartCore(k) PROVE FineInv'
  <2>1. told' \subseteq Fine
    BY <1>7 DEF StopCore, StartCore, FineInv
  <2> QED BY <1>4, <1>7, <2>1 DEF StopCore, StartCore, table
<1>8. ASSUME Register PROVE FineInv'
  <2>1. told' \subseteq Fine
    BY <1>8 DEF Register, FineInv
  <2>2. \A j \in Core, b \in Address : <<j, b>> \in sending' => <<j, b>> \in sending
    BY <1>8 DEF Register
  <2> QED BY <1>4, <1>8, <2>1, <2>2 DEF Register, table
<1> QED BY <1>1, <1>2, <1>3, <1>5, <1>6, <1>7, <1>8

\* A step of the client keeps addresses fine.
LEMMA ClientStepFine ==
    ASSUME ClusterTypeOK, ShapeInv, FineInv, ClientStep
    PROVE  FineInv'
<1>a. UNCHANGED <<peers, approving, sending, told, vouched, overtaken>>
  BY ClientOnly DEF server, table
<1>b. Fine' = Fine /\ Reached' = Reached
  BY <1>a DEF Fine, Reached
<1>1. ASSUME answer' # None => Range(answer'.list) \subseteq Reached,
             Range(known') \subseteq Reached, Range(savedCores') \subseteq Reached
      PROVE  FineInv'
  BY <1>1, <1>a, <1>b DEF FineInv
<1>2. Range(<<>>) \subseteq Reached /\ Range(<<Seed>>) \subseteq Reached
  BY DEF Range, Reached
<1>3. CASE StartClient
  BY <1>1, <1>2, <1>3 DEF StartClient, GetConfig, FineInv
<1>4. CASE ConnectToCore \/ NoCoreLeft \/ GetCoreConn
  BY <1>1, <1>4 DEF ConnectToCore, NoCoreLeft, GetCoreConn, FineInv
<1>5. CASE GetClusterNodes
  <2>1. CASE UNCHANGED answer
    BY <1>1, <1>5, <2>1 DEF GetClusterNodes, FineInv
  <2>2. CASE /\ conn \in up
             /\ \E l \in Listings(conn) : answer' = [core |-> conn, list |-> l]
    <3>1. conn \in Core
      BY <2>2 DEF ClusterTypeOK
    <3>2. PICK l \in Listings(conn) : answer' = [core |-> conn, list |-> l]
      BY <2>2
    <3>3. Range(l) = {SelfAddress[conn]} \cup ActiveAddresses(conn)
      BY <3>1, ListingRange
    <3>4. \A a \in ActiveAddresses(conn) : <<conn, a>> \in Fine
      BY <3>1, ActiveAddress DEF FineInv
    <3>5. \A a \in ActiveAddresses(conn) : a \in Reached
      <4> SUFFICES ASSUME NEW a \in ActiveAddresses(conn) PROVE a \in Reached
        OBVIOUS
      <4>1. PICK x \in Fine : x = <<conn, a>>
        BY <3>4
      <4>2. x[2] = a
        BY <4>1
      <4> QED BY <4>2 DEF Reached
    <3>6. SelfAddress[conn] \in Reached
      <4>1. SelfAddress[conn] \in Range(SelfAddress)
        BY <3>1, ClusterAssumption DEF Range
      <4> QED BY <4>1 DEF Reached
    <3>7. answer'.list = l
      BY <3>2
    <3>8. Range(answer'.list) \subseteq Reached
      BY <3>3, <3>5, <3>6, <3>7
    <3> QED BY <1>1, <1>5, <3>8 DEF GetClusterNodes, FineInv
  <2> QED BY <1>5, <2>1, <2>2 DEF GetClusterNodes
<1>6. CASE ReplaceKnownCores
  <2>1. answer # None
    BY <1>6 DEF ReplaceKnownCores, ClusterTypeOK
  <2> QED BY <1>1, <1>6, <2>1 DEF ReplaceKnownCores, FineInv
<1>7. CASE SaveKnownCores
  <2>1. answer # None
    BY <1>7 DEF SaveKnownCores, SetConfig, ClusterTypeOK
  <2> QED BY <1>1, <1>7, <2>1 DEF SaveKnownCores, SetConfig, FineInv
<1>8. CASE StopClient
  BY <1>1, <1>2, <1>8 DEF StopClient, FineInv
<1> QED BY <1>3, <1>4, <1>5, <1>6, <1>7, <1>8 DEF ClientStep

\* The steps of the servers leave the client alone.
LEMMA ServerOnly ==
    ASSUME \/ \E k \in Core, p \in Peer : \/ ApprovePeer(k, p)
                                          \/ \E a \in Address : RequestJoin(k, p, a)
           \/ \E x \in approving : ActivatePeer(x)
           \/ \E k \in Core : \/ \E a \in Address : PerformInitialSync(k, a)
                              \/ BroadcastNodeRegistration(k)
                              \/ StopCore(k) \/ StartCore(k)
           \/ Register
    PROVE  UNCHANGED client
BY DEF ApprovePeer, RequestJoin, ActivatePeer, PerformInitialSync,
       BroadcastNodeRegistration, StopCore, StartCore, Register

\* Every step keeps addresses fine.
LEMMA StepFine ==
    ASSUME ClusterTypeOK, ShapeInv, FineInv, [ClusterNext]_clusterVars
    PROVE  FineInv'
<1>1. CASE UNCHANGED clusterVars
  BY <1>1 DEF clusterVars, FineInv, Fine, Reached
<1> QED BY <1>1, ServerStepFine, ServerOnly, ClientStepFine DEF ClusterNext, ClientStep

-----------------------------------------------------------------------------
\* A peer that was active stays active or is on record as overwritten.
LEMMA KeptStays ==
    ASSUME ClusterTypeOK, FineInv, [ClusterNext]_clusterVars,
           NEW k \in Core, NEW a, Kept(k, a)
    PROVE  Kept(k, a)'
<1>1. CASE UNCHANGED <<peers, demoted>>
  BY <1>1 DEF Kept, ActiveAddresses, GetActiveClusterPeers
<1>2. ASSUME demoted \subseteq demoted',
             NEW p \in Peer, peers[k][p] # None, peers[k][p].status = "active",
             peers[k][p].address = a,
             \/ peers'[k][p] = peers[k][p]
             \/ peers'[k][p] = [address |-> a, status |-> "active"]
             \/ <<k, a>> \in demoted'
      PROVE  Kept(k, a)'
  <2>1. CASE <<k, a>> \in demoted'
    BY <2>1 DEF Kept
  <2>2. CASE \/ peers'[k][p] = peers[k][p]
             \/ peers'[k][p] = [address |-> a, status |-> "active"]
    <3>1. a \in Address
      BY <1>2, RowType
    <3>2. PICK r \in PeerRow : r = [address |-> a, status |-> "active"]
      BY <3>1 DEF PeerRow, Status
    <3>3. r # None /\ r.address = a /\ r.status = "active"
      BY <3>2, NotNone
    <3>4. peers'[k][p] # None /\ peers'[k][p].status = "active" /\ peers'[k][p].address = a
      BY <1>2, <2>2, <3>2, <3>3
    <3>5. p \in GetActiveClusterPeers(k)'
      BY <3>4 DEF GetActiveClusterPeers
    <3>6. a \in ActiveAddresses(k)'
      BY <3>4, <3>5 DEF ActiveAddresses
    <3> QED BY <3>6 DEF Kept
  <2> QED BY <1>2, <2>1, <2>2
<1>3. ASSUME demoted \subseteq demoted',
             \A p \in Peer : peers[k][p] # None /\ peers[k][p].status = "active"
                /\ peers[k][p].address = a =>
                   \/ peers'[k][p] = peers[k][p]
                   \/ peers'[k][p] = [address |-> a, status |-> "active"]
                   \/ <<k, a>> \in demoted'
      PROVE  Kept(k, a)'
  <2>1. CASE <<k, a>> \in demoted
    BY <1>3, <2>1 DEF Kept
  <2>2. CASE a \in ActiveAddresses(k)
    <3>1. PICK p \in Peer : /\ peers[k][p] # None /\ peers[k][p].status = "active"
                            /\ peers[k][p].address = a
      BY <2>2, ActiveAddress
    <3> QED BY <1>2, <1>3, <3>1
  <2> QED BY <2>1, <2>2 DEF Kept
<1>4. ASSUME NEW j \in Core, NEW p \in Peer, NEW b \in Address, RequestJoin(j, p, b)
      PROVE  Kept(k, a)'
  <2>1. \A i \in Core, q \in Peer : i # j \/ q # p => peers'[i][q] = peers[i][q]
    BY <1>4, JoinRow
  <2>2. /\ demoted \subseteq demoted'
        /\ peers[j][p] # None /\ peers[j][p].status = "active" =>
              <<j, peers[j][p].address>> \in demoted'
    BY <1>4 DEF RequestJoin
  <2> QED BY <1>3, <2>1, <2>2
<1>5. ASSUME NEW x \in approving, ActivatePeer(x) PROVE Kept(k, a)'
  <2>1. CASE UNCHANGED peers
    BY <1>1, <1>5, <2>1 DEF ActivatePeer
  <2>2. CASE peers' = [peers EXCEPT ![x.core][x.peer].status = "active"]
    <3>1. /\ x.core \in Core /\ x.peer \in Peer
          /\ peers'[x.core][x.peer] = [address |-> peers[x.core][x.peer].address,
                                       status |-> "active"]
          /\ \A i \in Core, q \in Peer :
                i # x.core \/ q # x.peer => peers'[i][q] = peers[i][q]
      BY <2>2, ActiveRow
    <3>2. UNCHANGED demoted
      BY <1>5 DEF ActivatePeer
    <3> QED BY <1>3, <3>1, <3>2
  <2> QED BY <1>5, <2>1, <2>2 DEF ActivatePeer
<1>6. ASSUME \/ \E j \in Core, p \in Peer : ApprovePeer(j, p)
             \/ \E j \in Core : \/ \E b \in Address : PerformInitialSync(j, b)
                                \/ BroadcastNodeRegistration(j)
                                \/ StopCore(j) \/ StartCore(j)
             \/ Register \/ ClientStep \/ UNCHANGED clusterVars
      PROVE  UNCHANGED <<peers, demoted>>
  BY <1>6, ClientOnly DEF ApprovePeer, PerformInitialSync, BroadcastNodeRegistration,
                          StopCore, StartCore, Register, table, server, clusterVars
<1> QED BY <1>1, <1>4, <1>5, <1>6 DEF ClusterNext, ClientStep

\* No step forgets that a row was overwritten.
LEMMA DemotedStays ==
    ASSUME [ClusterNext]_clusterVars
    PROVE  demoted \subseteq demoted'
<1>1. ASSUME ClientStep PROVE UNCHANGED demoted
  BY <1>1, ClientOnly DEF server, table
<1> QED
  BY <1>1 DEF ClusterNext, ClientStep, ApprovePeer, RequestJoin, ActivatePeer,
              PerformInitialSync, BroadcastNodeRegistration, StopCore, StartCore, Register,
              table, clusterVars

\* Every step keeps what is known of the addresses a client has learned.
LEMMA StepLearned ==
    ASSUME ClusterTypeOK, ShapeInv, FineInv, LearnedInv, ForgottenOnlyAfterRejoin,
           [ClusterNext]_clusterVars
    PROVE  LearnedInv' /\ ForgottenOnlyAfterRejoin'
<1>a. demoted \subseteq demoted'
  BY DemotedStays
<1>b. \A k \in Core, b \in Address : Kept(k, b) => Kept(k, b)'
  BY KeptStays
<1>c. \A x \in learned : x[1] \in Core /\ x[2] \in Address
  BY DEF ClusterTypeOK, Pairs
<1>d. answer # None =>
         /\ answer.core \in Core /\ answer.list \in Seq(Address) /\ answer.list # <<>>
         /\ Range(Tail(answer.list)) \subseteq Address
  BY TailRange, SeqRange DEF ShapeInv, Answer
<1>1. \A x \in learned : Kept(x[1], x[2])'
  BY <1>b, <1>c DEF LearnedInv
<1>2. CASE UNCHANGED client
  <2>1. UNCHANGED <<answer, learned, savedCores, source>>
    BY <1>2 DEF client
  <2>2. \A x \in learned' : Kept(x[1], x[2])'
    BY <1>1, <2>1
  <2>3. answer' # None => \A b \in Range(Tail(answer'.list)) : Kept(answer.core, b)'
    <3> SUFFICES ASSUME answer' # None, NEW b \in Range(Tail(answer'.list))
                 PROVE  Kept(answer.core, b)'
      OBVIOUS
    <3>1. PICK k \in Core : k = answer.core /\ k = answer'.core
      BY <1>d, <2>1
    <3>2. b \in Address /\ Kept(k, b)
      BY <1>d, <2>1, <3>1 DEF LearnedInv
    <3>3. Kept(k, b)'
      BY <1>b, <3>2
    <3> QED BY <3>1, <3>3 DEF Kept, ActiveAddresses, GetActiveClusterPeers
  <2>4. LearnedInv'
    <3>1. answer' # None => \A x \in learned' : x[1] = answer'.core =>
             x[2] \in Range(answer'.list) \/ x \in demoted'
      BY <1>a, <2>1 DEF LearnedInv
    <3> QED BY <2>2, <2>3, <3>1 DEF LearnedInv
  <2>5. ForgottenOnlyAfterRejoin'
    BY <1>a, <2>1 DEF ForgottenOnlyAfterRejoin
  <2> QED BY <2>4, <2>5
<1>3. CASE ClientStep
  <2>0. UNCHANGED <<peers, demoted>>
    BY <1>3, ClientOnly DEF server, table
  <2>1. CASE UNCHANGED <<savedCores, learned, source>> /\ (UNCHANGED answer \/ answer' = None)
    <3>1. ForgottenOnlyAfterRejoin'
      BY <1>a, <2>1 DEF ForgottenOnlyAfterRejoin
    <3>2. LearnedInv'
      BY <2>0, <2>1 DEF LearnedInv, Kept, ActiveAddresses, GetActiveClusterPeers
    <3> QED BY <3>1, <3>2
  <2>2. CASE /\ GetClusterNodes /\ conn \in up
             /\ \E l \in Listings(conn) : answer' = [core |-> conn, list |-> l]
    <3>1. conn \in Core
      BY <2>2 DEF ClusterTypeOK
    <3>2. PICK l \in Listings(conn) : answer' = [core |-> conn, list |-> l]
      BY <2>2
    <3>3. /\ Range(Tail(l)) = ActiveAddresses(conn)
          /\ Range(l) = {SelfAddress[conn]} \cup ActiveAddresses(conn)
      BY <3>1, ListingRange
    <3>4. answer'.core = conn /\ answer'.list = l
      BY <3>2
    <3>5. UNCHANGED <<savedCores, learned, source>>
      BY <2>2 DEF GetClusterNodes
    <3>6. \A b \in Range(Tail(answer'.list)) : Kept(conn, b)
      BY <3>3, <3>4 DEF Kept
    <3>7. \A x \in learned : x[1] = conn => x[2] \in Range(l) \/ x \in demoted
      <4> SUFFICES ASSUME NEW x \in learned, x[1] = conn PROVE x[2] \in Range(l) \/ x \in demoted
        OBVIOUS
      <4>1. x = <<conn, x[2]>>
        BY DEF ClusterTypeOK, Pairs
      <4> QED BY <3>3, <4>1 DEF LearnedInv, Kept
    <3>8. LearnedInv'
      <4>1. \A x \in learned' : Kept(x[1], x[2])'
        BY <1>1, <3>5
      <4>2. \A b \in Range(Tail(answer'.list)) : Kept(answer'.core, b)
        BY <3>4, <3>6
      <4>3. /\ \A b \in Range(Tail(answer'.list)) :
                  b \in ActiveAddresses(answer'.core) \/ <<answer'.core, b>> \in demoted
        BY <4>2 DEF Kept
      <4>4. \A x \in learned' : x[1] = answer'.core =>
                x[2] \in Range(answer'.list) \/ x \in demoted'
        BY <2>0, <3>4, <3>5, <3>7
      <4> QED BY <2>0, <4>1, <4>3, <4>4
              DEF LearnedInv, Kept, ActiveAddresses, GetActiveClusterPeers
    <3>9. ForgottenOnlyAfterRejoin'
      BY <1>a, <3>5 DEF ForgottenOnlyAfterRejoin
    <3> QED BY <3>8, <3>9
  <2>3. CASE SaveKnownCores /\ savedCores' = answer.list /\ source' = answer.core
             /\ learned' = learned \cup ({answer.core} \X Range(Tail(answer.list)))
    <3>1. answer # None /\ answer' = None
      BY <2>3 DEF SaveKnownCores, SetConfig, ClusterTypeOK
    <3>2. /\ answer.core \in Core /\ answer.list \in Seq(Address) /\ answer.list # <<>>
          /\ Range(Tail(answer.list)) \subseteq Range(answer.list)
      BY <1>d, <3>1, TailRange
    <3>3. ASSUME NEW x \in learned', x \notin learned
          PROVE  x[1] = answer.core /\ x[2] \in Range(Tail(answer.list))
      BY <2>3, <3>3
    <3>4. \A x \in learned' : Kept(x[1], x[2])
      BY <3>1, <3>3 DEF LearnedInv
    <3>5. LearnedInv'
      BY <2>0, <3>1, <3>4 DEF LearnedInv, Kept, ActiveAddresses, GetActiveClusterPeers
    <3>6. \A x \in learned' : x[1] = answer.core =>
             x[2] \in Range(answer.list) \/ x \in demoted
      BY <3>1, <3>2, <3>3 DEF LearnedInv
    <3>7. ForgottenOnlyAfterRejoin'
      BY <2>0, <2>3, <3>6 DEF ForgottenOnlyAfterRejoin
    <3> QED BY <3>5, <3>7
  <2>4. \/ <2>1!1 \/ <2>2!1 \/ <2>3!1
    BY <1>3 DEF ClientStep, StartClient, GetConfig, ConnectToCore, NoCoreLeft, GetCoreConn,
                GetClusterNodes, ReplaceKnownCores, SaveKnownCores, SetConfig, StopClient
  <2> QED BY <2>1, <2>2, <2>3, <2>4
<1>4. CASE UNCHANGED clusterVars
  BY <1>2, <1>4 DEF clusterVars, client
<1> QED BY <1>2, <1>3, <1>4, ServerOnly DEF ClusterNext, ClientStep

-----------------------------------------------------------------------------
\* The invariant holds in every state of the cluster and its client.
THEOREM ClusterInvariance == ClusterSpec => []ClusterInv
<1>1. ClusterInv /\ [ClusterNext]_clusterVars => ClusterInv'
  BY ClusterStepType, StepFine, StepLearned DEF ClusterInv
<1> QED BY <1>1, ClusterInvInit, PTL DEF ClusterSpec

\* Every variable of Cluster keeps its type, whatever joins, approvals, stops and
\* restarts come: a client is connected exactly while it runs on a connection, and holds
\* an answer exactly between getting and saving it.
THEOREM ClusterTypeCorrect == ClusterSpec => []ClusterTypeOK
<1>1. ClusterInv => ClusterTypeOK
  BY DEF ClusterInv
<1> QED BY <1>1, ClusterInvariance, PTL

\* SyncNodes and GetClusterNodes lead only to addresses that an approver has read, or
\* that were written while an ApprovePeer was between its SELECT and its UPDATE.
THEOREM AddressesAreVouched == ClusterSpec => []OnlyVouchedAddresses
<1>1. ClusterInv => OnlyVouchedAddresses
  <2> SUFFICES ASSUME ClusterInv PROVE OnlyVouchedAddresses
    OBVIOUS
  <2>1. told \subseteq Fine
    BY DEF ClusterInv, FineInv
  <2>2. \A k \in Core : \A a \in ActiveAddresses(k) : <<k, a>> \in Fine
    <3>1. FineInv
      BY DEF ClusterInv
    <3> SUFFICES ASSUME NEW k \in Core, NEW a \in ActiveAddresses(k)
                 PROVE  <<k, a>> \in Fine
      OBVIOUS
    <3>2. PICK p \in Peer : /\ peers[k][p] # None /\ peers[k][p].status = "active"
                            /\ peers[k][p].address = a
      BY ActiveAddress
    <3> QED BY <3>1, <3>2 DEF FineInv
  <2>3. \A k \in Core : {k} \X ActiveAddresses(k) \subseteq Fine
    BY <2>2
  <2>4. Range(known) \cup Range(savedCores) \subseteq Reached
    BY DEF ClusterInv, FineInv
  <2> QED BY <2>1, <2>3, <2>4 DEF OnlyVouchedAddresses, Fine, Reached
<1> QED BY <1>1, ClusterInvariance, PTL

\* discoverClusterNodes forgets an address that the same core had told it before only
\* after a RequestJoin has overwritten the active row.
THEOREM ForgottenAfterRejoin == ClusterSpec => []ForgottenOnlyAfterRejoin
<1>1. ClusterInv => ForgottenOnlyAfterRejoin
  BY DEF ClusterInv
<1> QED BY <1>1, ClusterInvariance, PTL
=============================================================================
