---------------------------- MODULE NodeRegistry ----------------------------
(***************************************************************************)
(* The registry of the core server: NodeService and ModerationService over *)
(* the real-time state in Redis (redis.NodeManager) and the rows in        *)
(* PostgreSQL (postgres.NodeRepository), with the admin RPCs that ban.     *)
(*                                                                         *)
(* One step is one command to a store.  RPC handlers interleave between    *)
(* commands, keys expire, and every command may fail.                      *)
(***************************************************************************)
EXTENDS Integers, FiniteSets

CONSTANTS Node,      \* node ids
          Caller,    \* goroutines that serve RegisterNode, Heartbeat, BanNode
          Lister,    \* goroutines that serve GetActiveRelays
          None,      \* a missing key or row
          Forever,   \* ban_expires_at is NULL
          TTL,       \* heartbeatTTL in ticks of the clock
          Duration,  \* finite ban durations in ticks
          MaxRelays  \* maxRelays of NodeService

ASSUME RegistryAssumption ==
    /\ TTL \in Nat \ {0} /\ MaxRelays \in Nat \ {0}
    /\ Duration \subseteq Nat \ {0} /\ Forever \notin Nat
    /\ Caller \cap Lister = {}

Kind == {"relay", "client"}
Key == [kind : Kind, ttl : 1..TTL]
Row == [banned : BOOLEAN, left : Nat \cup {Forever}]

ASSUME MissingAssumption == None \notin Key \cup Row \cup Kind \cup Node

VARIABLES
    redis,      \* node:<id> keys, with what is left of their TTL
    nodes,      \* the nodes table: banned, and what is left of ban_expires_at
    published,  \* nodes for which a NODE_BANNED event was published
    pc,         \* the next command of each caller and lister
    node,       \* the node a caller works for
    kind,       \* the node type a caller will write
    todo,       \* keys a lister still has to GET
    found,      \* relays a lister has appended
    limit,      \* limit of the listing
    reply,      \* the last answer of a lister
    racers,     \* history: callers past the ban check when their node was banned
    steady      \* history: relays that have had their key since a lister's KEYS
                \* and whose GET has not failed

vars == <<redis, nodes, published, pc, node, kind, todo, found, limit, reply,
          racers, steady>>
listing == <<todo, found, limit, reply>>
call == <<node, kind>>

Init ==
    /\ redis = [n \in Node |-> None]
    /\ nodes = [n \in Node |-> None]
    /\ published = {}
    /\ pc = [p \in Caller \cup Lister |-> "idle"]
    /\ node = [c \in Caller |-> None]
    /\ kind = [c \in Caller |-> None]
    /\ todo = [l \in Lister |-> {}]
    /\ found = [l \in Lister |-> {}]
    /\ limit = [l \in Lister |-> MaxRelays]
    /\ reply = [l \in Lister |-> {}]
    /\ racers = {}
    /\ steady = [l \in Lister |-> {}]

(***************************************************************************)
(* Helpers.                                                                *)
(***************************************************************************)
Goto(p, x) == pc' = [pc EXCEPT ![p] = x]

\* The handler answers; the goroutine is free for the next call.
Return(c) ==
    /\ Goto(c, "idle")
    /\ node' = [node EXCEPT ![c] = None]
    /\ kind' = [kind EXCEPT ![c] = None]
    /\ racers' = racers \ {c}

IsRelay(n) == redis[n] # None /\ redis[n].kind = "relay"

\* A listing still counts on the relays that keep their key in this step.
StillThere == steady' = [l \in Lister |-> {n \in steady[l] : redis'[n] # None
                                              /\ redis'[n].kind = "relay"}]

SetKey(n, k) ==
    /\ redis' = [redis EXCEPT ![n] = [kind |-> k, ttl |-> TTL]]
    /\ StillThere

HasBan(n) == nodes[n] # None /\ nodes[n].banned
Expired(n) == HasBan(n) /\ nodes[n].left = 0
InForce(n) == HasBan(n) /\ ~Expired(n)

\* UPDATE nodes ... WHERE node_id = n: no effect on a node without a row.
UpdateBan(n, b, d) ==
    nodes' = IF nodes[n] = None THEN nodes
             ELSE [nodes EXCEPT ![n] = [banned |-> b, left |-> d]]

\* Callers that have read the row of n and still act on what they read.
PastCheck(n) == {c \in Caller : node[c] = n /\ pc[c] \in
                    {"register.unban", "register.set", "heartbeat.unban",
                     "heartbeat.get", "heartbeat.set"}}

BanRow(n, d) ==
    /\ UpdateBan(n, TRUE, d)
    /\ racers' = IF nodes[n] = None THEN racers ELSE racers \cup PastCheck(n)

(***************************************************************************)
(* IsNodeBanned, for a caller at `from': SELECT, and for a ban that has    *)
(* expired an UPDATE at `unban'; then the caller goes on at `to'.          *)
(***************************************************************************)
SelectBan(c, from, unban, to) ==
    /\ pc[c] = from
    /\ \/ /\ InForce(node[c])
          /\ Return(c)
       \/ /\ ~InForce(node[c])
          /\ Goto(c, IF Expired(node[c]) THEN unban ELSE to)
          /\ UNCHANGED <<call, racers>>
    /\ UNCHANGED <<redis, nodes, published, listing, steady>>

RemoveExpiredBan(c, unban, to) ==
    /\ pc[c] = unban
    /\ UpdateBan(node[c], FALSE, Forever)
    /\ Goto(c, to)
    /\ UNCHANGED <<redis, published, call, listing, racers, steady>>

(***************************************************************************)
(* RegisterNode, for an identity that was verified.                        *)
(***************************************************************************)
RegisterNode(c, n, k) ==
    /\ pc[c] = "idle"
    /\ node' = [node EXCEPT ![c] = n]
    /\ kind' = [kind EXCEPT ![c] = k]
    /\ Goto(c, "register.select")
    /\ UNCHANGED <<redis, nodes, published, listing, racers, steady>>

RegisterSelect(c) ==
    SelectBan(c, "register.select", "register.unban", "register.set")

RegisterUnban(c) == RemoveExpiredBan(c, "register.unban", "register.set")

\* SET with the TTL.  When the ZADD of a relay fails, or the answer to SET is lost,
\* the handler returns the error and the node stays without a row.
RegisterSet(c) ==
    /\ pc[c] = "register.set"
    /\ SetKey(node[c], kind[c])
    /\ \/ /\ Goto(c, "register.upsert")
          /\ UNCHANGED <<call, racers>>
       \/ Return(c)
    /\ UNCHANGED <<nodes, published, listing>>

\* INSERT ... ON CONFLICT DO UPDATE leaves the ban columns of a row alone.
RegisterUpsert(c) ==
    /\ pc[c] = "register.upsert"
    /\ nodes' = IF nodes[node[c]] # None THEN nodes
                ELSE [nodes EXCEPT ![node[c]] =
                         [banned |-> FALSE, left |-> Forever]]
    /\ Return(c)
    /\ UNCHANGED <<redis, published, listing, steady>>

(***************************************************************************)
(* Heartbeat and RefreshHeartbeat.                                         *)
(***************************************************************************)
Heartbeat(c, n) ==
    /\ pc[c] = "idle"
    /\ node' = [node EXCEPT ![c] = n]
    /\ Goto(c, "heartbeat.exists")
    /\ UNCHANGED <<redis, nodes, published, kind, listing, racers, steady>>

HeartbeatExists(c) ==
    /\ pc[c] = "heartbeat.exists"
    /\ \/ /\ redis[node[c]] = None
          /\ Return(c)
       \/ /\ redis[node[c]] # None
          /\ Goto(c, "heartbeat.select")
          /\ UNCHANGED <<call, racers>>
    /\ UNCHANGED <<redis, nodes, published, listing, steady>>

\* Faulty variant: the heartbeat does not look at the ban list.
HeartbeatSelectSkipped(c) ==
    /\ pc[c] = "heartbeat.select"
    /\ Goto(c, "heartbeat.get")
    /\ UNCHANGED <<redis, nodes, published, call, listing, racers, steady>>

\* Faulty variant: every ban is taken for one that has expired.
HeartbeatSelectAnyBan(c) ==
    /\ pc[c] = "heartbeat.select"
    /\ Goto(c, IF HasBan(node[c]) THEN "heartbeat.unban" ELSE "heartbeat.get")
    /\ UNCHANGED <<redis, nodes, published, call, listing, racers, steady>>

HeartbeatSelect(c) ==
    SelectBan(c, "heartbeat.select", "heartbeat.unban", "heartbeat.get")

HeartbeatUnban(c) == RemoveExpiredBan(c, "heartbeat.unban", "heartbeat.get")

HeartbeatGet(c) ==
    /\ pc[c] = "heartbeat.get"
    /\ \/ /\ redis[node[c]] = None
          /\ Return(c)
       \/ /\ redis[node[c]] # None
          /\ kind' = [kind EXCEPT ![c] = redis[node[c]].kind]
          /\ Goto(c, "heartbeat.set")
          /\ UNCHANGED <<node, racers>>
    /\ UNCHANGED <<redis, nodes, published, listing, steady>>

\* SET writes back what GET read, with a fresh TTL.
HeartbeatSet(c) ==
    /\ pc[c] = "heartbeat.set"
    /\ SetKey(node[c], kind[c])
    /\ Return(c)
    /\ UNCHANGED <<nodes, published, listing>>

(***************************************************************************)
(* Bans.  AdminServer.BanNode and UnbanNode are one UPDATE each.           *)
(* ModerationService.BanNode (no RPC calls it) also removes the key and    *)
(* publishes the event.                                                    *)
(***************************************************************************)
AdminBanNode(n, d) ==
    /\ BanRow(n, d)
    /\ UNCHANGED <<redis, published, pc, call, listing, steady>>

AdminUnbanNode(n) ==
    /\ UpdateBan(n, FALSE, Forever)
    /\ racers' = racers \ {c \in Caller : node[c] = n}
    /\ UNCHANGED <<redis, published, pc, call, listing, steady>>

ModerationBanNode(c, n, d) ==
    /\ pc[c] = "idle"
    /\ BanRow(n, d)
    /\ node' = [node EXCEPT ![c] = n]
    /\ Goto(c, "ban.remove")
    /\ UNCHANGED <<redis, published, kind, listing, steady>>

ModerationRemove(c) ==
    /\ pc[c] = "ban.remove"
    /\ redis' = [redis EXCEPT ![node[c]] = None]
    /\ StillThere
    /\ Goto(c, "ban.publish")
    /\ UNCHANGED <<nodes, published, call, listing, racers>>

ModerationPublish(c) ==
    /\ pc[c] = "ban.publish"
    /\ published' = published \cup {node[c]}
    /\ Return(c)
    /\ UNCHANGED <<redis, nodes, listing, steady>>

(***************************************************************************)
(* A store answers an error.  The handler returns, except after the errors *)
(* of UnbanNode and RemoveNode, which it ignores; the ignored error of     *)
(* UpsertNode is followed by the return anyway.                            *)
(***************************************************************************)
AfterIgnoredError ==
    [x \in {"register.unban", "heartbeat.unban", "ban.remove"} |->
        CASE x = "register.unban" -> "register.set"
          [] x = "heartbeat.unban" -> "heartbeat.get"
          [] x = "ban.remove" -> "ban.publish"]

IgnoreError(c) ==
    /\ pc[c] \in DOMAIN AfterIgnoredError
    /\ Goto(c, AfterIgnoredError[pc[c]])
    /\ UNCHANGED <<redis, nodes, published, call, listing, racers, steady>>

ReturnError(c) ==
    /\ pc[c] \notin DOMAIN AfterIgnoredError \cup {"idle"}
    /\ Return(c)
    /\ UNCHANGED <<redis, nodes, published, listing, steady>>

(***************************************************************************)
(* GetActiveRelays: KEYS, then one GET per key.                            *)
(***************************************************************************)
EffectiveLimit(m) == IF m <= 0 \/ m > MaxRelays THEN MaxRelays ELSE m

GetActiveRelays(l, m, exclude) ==
    /\ pc[l] = "idle"
    /\ todo' = [todo EXCEPT ![l] = {n \in Node : redis[n] # None} \ exclude]
    /\ found' = [found EXCEPT ![l] = {}]
    /\ limit' = [limit EXCEPT ![l] = EffectiveLimit(m)]
    /\ steady' = [steady EXCEPT ![l] = {n \in Node : IsRelay(n)} \ exclude]
    /\ Goto(l, "list.get")
    /\ UNCHANGED <<redis, nodes, published, call, reply, racers>>

\* Faulty variant: the first key that has expired ends the listing.
ListGetStops(l, n) ==
    /\ pc[l] = "list.get" /\ n \in todo[l]
    /\ todo' = [todo EXCEPT ![l] = IF redis[n] = None THEN {} ELSE @ \ {n}]
    /\ found' = [found EXCEPT ![l] = IF IsRelay(n) THEN @ \cup {n} ELSE @]
    /\ UNCHANGED <<redis, nodes, published, pc, call, limit, reply, racers, steady>>

\* A key that is gone or not a relay is skipped, and so is one whose GET fails.
ListGet(l, n) ==
    /\ pc[l] = "list.get" /\ n \in todo[l]
    /\ todo' = [todo EXCEPT ![l] = @ \ {n}]
    /\ \/ /\ found' = [found EXCEPT ![l] = IF IsRelay(n) THEN @ \cup {n} ELSE @]
          /\ UNCHANGED steady
       \/ /\ steady' = [steady EXCEPT ![l] = @ \ {n}]
          /\ UNCHANGED found
    /\ UNCHANGED <<redis, nodes, published, pc, call, limit, reply, racers>>

\* The shuffled relays up to the limit.
ListReply(l, r) ==
    /\ pc[l] = "list.get" /\ todo[l] = {}
    /\ r \subseteq found[l]
    /\ Cardinality(r) = IF Cardinality(found[l]) > limit[l] THEN limit[l]
                        ELSE Cardinality(found[l])
    /\ reply' = [reply EXCEPT ![l] = r]
    /\ Goto(l, "list.done")
    /\ UNCHANGED <<redis, nodes, published, call, todo, found, limit, racers,
                   steady>>

ListEnd(l) ==
    /\ pc[l] = "list.done"
    /\ Goto(l, "idle")
    /\ reply' = [reply EXCEPT ![l] = {}]
    /\ found' = [found EXCEPT ![l] = {}]
    /\ limit' = [limit EXCEPT ![l] = MaxRelays]
    /\ steady' = [steady EXCEPT ![l] = {}]
    /\ UNCHANGED <<redis, nodes, published, call, todo, racers>>

(***************************************************************************)
(* The clock: keys lose a tick of their TTL and go, bans run out.          *)
(***************************************************************************)
\* Faulty variants: a key expires a tick late; SET without an expiry.
TickOffByOne ==
    /\ redis' = [n \in Node |->
          IF redis[n] = None \/ redis[n].ttl = 0 THEN None
          ELSE [redis[n] EXCEPT !.ttl = @ - 1]]
    /\ nodes' = [n \in Node |->
          IF nodes[n] = None \/ nodes[n].left \in {0, Forever} THEN nodes[n]
          ELSE [nodes[n] EXCEPT !.left = @ - 1]]
    /\ StillThere
    /\ UNCHANGED <<published, pc, call, listing, racers>>

TickNoExpiry ==
    /\ nodes' = [n \in Node |->
          IF nodes[n] = None \/ nodes[n].left \in {0, Forever} THEN nodes[n]
          ELSE [nodes[n] EXCEPT !.left = @ - 1]]
    /\ UNCHANGED <<redis, published, pc, call, listing, racers, steady>>

Tick ==
    /\ redis' = [n \in Node |->
          IF redis[n] = None \/ redis[n].ttl = 1 THEN None
          ELSE [redis[n] EXCEPT !.ttl = @ - 1]]
    /\ nodes' = [n \in Node |->
          IF nodes[n] = None \/ nodes[n].left \in {0, Forever} THEN nodes[n]
          ELSE [nodes[n] EXCEPT !.left = @ - 1]]
    /\ StillThere
    /\ UNCHANGED <<published, pc, call, listing, racers>>

(***************************************************************************)
(* The specification.                                                      *)
(***************************************************************************)
CallStep(c) ==
    \/ RegisterSelect(c) \/ RegisterUnban(c) \/ RegisterSet(c) \/ RegisterUpsert(c)
    \/ HeartbeatExists(c) \/ HeartbeatSelect(c) \/ HeartbeatUnban(c)
    \/ HeartbeatGet(c) \/ HeartbeatSet(c)
    \/ ModerationRemove(c) \/ ModerationPublish(c)
    \/ IgnoreError(c) \/ ReturnError(c)

ListStep(l) ==
    \/ \E n \in Node : ListGet(l, n)
    \/ \E r \in SUBSET Node : ListReply(l, r)
    \/ ListEnd(l)

Request ==
    \/ \E c \in Caller, n \in Node, k \in Kind : RegisterNode(c, n, k)
    \/ \E c \in Caller, n \in Node : Heartbeat(c, n)
    \/ \E n \in Node, d \in Duration \cup {Forever} : AdminBanNode(n, d)
    \/ \E n \in Node : AdminUnbanNode(n)
    \/ \E c \in Caller, n \in Node, d \in Duration \cup {Forever} :
          ModerationBanNode(c, n, d)
    \/ \E l \in Lister, m \in 0..MaxRelays + 1, x \in SUBSET Node :
          GetActiveRelays(l, m, x)

Next ==
    \/ Request
    \/ \E c \in Caller : CallStep(c)
    \/ \E l \in Lister : ListStep(l)
    \/ Tick

Fairness ==
    /\ \A c \in Caller : WF_vars(CallStep(c))
    /\ WF_vars(Tick)

Spec == Init /\ [][Next]_vars
FairSpec == Spec /\ Fairness

(***************************************************************************)
(* Properties.                                                             *)
(***************************************************************************)
PC == {"idle", "register.select", "register.unban", "register.set",
       "register.upsert", "heartbeat.exists", "heartbeat.select",
       "heartbeat.unban", "heartbeat.get", "heartbeat.set", "ban.remove",
       "ban.publish", "list.get", "list.done"}

\* Every variable has its type; a key has some of its TTL left, a caller that is
\* about to SET knows what to write.
TypeOK ==
    /\ redis \in [Node -> Key \cup {None}]
    /\ nodes \in [Node -> Row \cup {None}]
    /\ published \in SUBSET Node
    /\ pc \in [Caller \cup Lister -> PC]
    /\ node \in [Caller -> Node \cup {None}]
    /\ kind \in [Caller -> Kind \cup {None}]
    /\ \A c \in Caller : /\ pc[c] # "idle" => node[c] \in Node
                         /\ pc[c] \in {"register.set", "heartbeat.set"} =>
                               kind[c] \in Kind
    /\ todo \in [Lister -> SUBSET Node]
    /\ found \in [Lister -> SUBSET Node]
    /\ limit \in [Lister -> 1..MaxRelays]
    /\ reply \in [Lister -> SUBSET Node]
    /\ racers \in SUBSET Caller
    /\ steady \in [Lister -> SUBSET Node]

\* The step gives n a key or lengthens the life of its key.
Renewed(n) ==
    redis'[n] # None /\ (redis[n] = None \/ redis'[n].ttl > redis[n].ttl)

\* The step lifts a ban on n that is in force.
Lifted(n) == InForce(n) /\ ~HasBan(n)'

\* While a ban is in force nothing renews the presence of the node, and nobody but an
\* administrator lifts the ban, but a RegisterNode or a Heartbeat that had read the row
\* before the ban: the row is read and the key written by different commands to
\* different stores, and IsNodeBanned lifts by node id, whatever ban the row has by then.
BanEvadedByRaceOnly ==
    [][\A n \in Node : InForce(n) /\ (Renewed(n) \/ (Lifted(n) /\ ~AdminUnbanNode(n)))
          => \E c \in racers : node[c] = n /\ pc[c] # "idle"]_vars

\* A node that stays banned leaves the registry for good, although neither ban RPC
\* stops its heartbeats: they stop renewing the key, and the key expires.
BannedGoesOffline ==
    \A n \in Node : <>[]InForce(n) => <>[](redis[n] = None)

\* A node that nobody registers or reports any more leaves the registry.
SilentGoesOffline ==
    \A n \in Node :
        <>[](\A c \in Caller : node[c] # n) => <>[](redis[n] = None)

\* An answer of GetActiveRelays that is shorter than the limit has every relay that
\* kept its key during the listing and could be read, whatever other keys came and
\* went meanwhile, and no answer is longer than the limit.
ListComplete ==
    \A l \in Lister : pc[l] = "list.done" =>
        /\ Cardinality(reply[l]) <= limit[l]
        /\ Cardinality(reply[l]) < limit[l] => steady[l] \subseteq reply[l]

\* What IsNodeBanned removes is a ban that has expired (node_repository.go:214).
OnlyExpiredBanIsRemoved ==
    [][\A n \in Node : Lifted(n) => AdminUnbanNode(n)]_vars
=============================================================================
