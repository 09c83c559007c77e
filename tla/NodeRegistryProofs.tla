------------------------- MODULE NodeRegistryProofs -------------------------
(***************************************************************************)
(* Proofs about NodeRegistry for every set of nodes, callers and listers,  *)
(* every TTL, every ban duration and every limit of a listing.             *)
(***************************************************************************)
EXTENDS NodeRegistry, FiniteSetTheorems, TLAPS

CallerPC == PC \ {"list.get", "list.done"}
ListerPC == {"idle", "list.get", "list.done"}

\* A caller serves RegisterNode, Heartbeat or BanNode, a lister serves listings, and a
\* registration knows from its first command on what it will write.
ServesInv ==
    /\ \A c \in Caller : /\ pc[c] \in CallerPC
                         /\ pc[c] \in {"register.select", "register.unban"} =>
                               kind[c] \in Kind
    /\ \A l \in Lister : pc[l] \in ListerPC

Past == {"register.unban", "register.set", "heartbeat.unban", "heartbeat.get",
         "heartbeat.set"}

\* A caller past its look at the row of a node whose ban is in force is a racer: it
\* looked before the ban was written.
RaceInv ==
    \A c \in Caller : pc[c] \in Past /\ InForce(node[c]) => c \in racers

\* The relays a listing counts on are relays now, and while it reads keys each one is
\* still to be read or is already in the answer, which is finite.
SteadyInv ==
    \A l \in Lister : /\ \A n \in steady[l] : IsRelay(n)
                      /\ IsFiniteSet(found[l])
                      /\ pc[l] = "list.get" => steady[l] \subseteq todo[l] \cup found[l]

Inv == TypeOK /\ ServesInv /\ RaceInv /\ SteadyInv /\ ListComplete

-----------------------------------------------------------------------------
\* A key, a row and a kind of node are not None.
LEMMA NotNone == None \notin Key /\ None \notin Row /\ None \notin Kind /\ None \notin Node
BY MissingAssumption

\* Callers and listers are different goroutines.
LEMMA Apart == \A c \in Caller : c \notin Lister
BY RegistryAssumption

\* The variables of the callers after a handler has answered.
LEMMA ReturnType ==
    ASSUME TypeOK, ServesInv, NEW c \in Caller, Return(c)
    PROVE  /\ pc' \in [Caller \cup Lister -> PC]
           /\ node' \in [Caller -> Node \cup {None}]
           /\ kind' \in [Caller -> Kind \cup {None}]
           /\ racers' \in SUBSET Caller
           /\ pc'[c] = "idle"
           /\ \A x \in (Caller \cup Lister) \ {c} : pc'[x] = pc[x]
           /\ \A x \in Caller \ {c} : node'[x] = node[x] /\ kind'[x] = kind[x]
           /\ racers' = racers \ {c}
BY DEF Return, Goto, TypeOK, PC

\* The pc after a handler has gone on to its next command.
LEMMA GotoType ==
    ASSUME TypeOK, NEW p \in Caller \cup Lister, NEW x \in PC, Goto(p, x)
    PROVE  /\ pc' \in [Caller \cup Lister -> PC]
           /\ pc'[p] = x
           /\ \A q \in (Caller \cup Lister) \ {p} : pc'[q] = pc[q]
BY DEF Goto, TypeOK

\* What the UPDATE that ends a ban leaves in the table.
LEMMA UnbanType ==
    ASSUME TypeOK, NEW n \in Node, UpdateBan(n, FALSE, Forever)
    PROVE  /\ nodes' \in [Node -> Row \cup {None}]
           /\ \A x \in Node : nodes'[x] # nodes[x] =>
                 x = n /\ nodes'[x] = [banned |-> FALSE, left |-> Forever]
           /\ ~HasBan(n)'
<1>1. [banned |-> FALSE, left |-> Forever] \in Row
  BY DEF Row
<1>2. CASE nodes[n] = None
  BY <1>2 DEF UpdateBan, TypeOK, HasBan
<1>3. CASE nodes[n] # None
  BY <1>1, <1>3 DEF UpdateBan, TypeOK, HasBan
<1> QED BY <1>2, <1>3

\* What the UPDATE that writes a ban leaves in the table, and who becomes a racer.
LEMMA BanType ==
    ASSUME TypeOK, NEW n \in Node, NEW d \in Duration \cup {Forever}, BanRow(n, d)
    PROVE  /\ nodes' \in [Node -> Row \cup {None}]
           /\ racers' \in SUBSET Caller
           /\ \A x \in Node \ {n} : nodes'[x] = nodes[x]
           /\ HasBan(n)' => PastCheck(n) \subseteq racers'
           /\ racers \subseteq racers'
<1>1. [banned |-> TRUE, left |-> d] \in Row
  BY RegistryAssumption DEF Row
<1>2. CASE nodes[n] = None
  BY <1>2 DEF BanRow, UpdateBan, TypeOK, HasBan
<1>3. CASE nodes[n] # None
  BY <1>1, <1>3 DEF BanRow, UpdateBan, TypeOK, HasBan, PastCheck
<1> QED BY <1>2, <1>3

\* What a SET leaves in Redis, and what it takes from the listings.
LEMMA SetKeyType ==
    ASSUME TypeOK, NEW n \in Node, NEW k \in Kind, SetKey(n, k)
    PROVE  /\ redis' \in [Node -> Key \cup {None}]
           /\ \A x \in Node \ {n} : redis'[x] = redis[x]
           /\ steady' \in [Lister -> SUBSET Node]
<1>1. [kind |-> k, ttl |-> TTL] \in Key
  BY RegistryAssumption DEF Key
<1> QED BY <1>1 DEF SetKey, StillThere, TypeOK

\* The relays a listing still counts on are relays after the step.
LEMMA StillThereRelays ==
    ASSUME TypeOK, StillThere
    PROVE  /\ steady' \in [Lister -> SUBSET Node]
           /\ \A l \in Lister : steady'[l] \subseteq steady[l]
           /\ \A l \in Lister : \A n \in steady'[l] : IsRelay(n)'
BY DEF StillThere, TypeOK, IsRelay

-----------------------------------------------------------------------------
\* The initial states satisfy the invariant.
LEMMA InitInv == Init => Inv
<1> SUFFICES ASSUME Init PROVE Inv
  OBVIOUS
<1> USE DEF Init
<1>1. TypeOK
  BY RegistryAssumption, NotNone DEF TypeOK, PC
<1>2. ServesInv /\ RaceInv
  BY DEF ServesInv, RaceInv, CallerPC, ListerPC, PC, Past
<1>3. SteadyInv
  BY FS_EmptySet DEF SteadyInv
<1>4. ListComplete
  BY DEF ListComplete
<1> QED BY <1>1, <1>2, <1>3, <1>4 DEF Inv

\* The commands of one caller, with what they do to the variables of the callers: the
\* caller answers, or goes on to its next command for the same node.
LEMMA CallStepControl ==
    ASSUME TypeOK, ServesInv, NEW c \in Caller, CallStep(c)
    PROVE  \/ Return(c)
           \/ /\ UNCHANGED <<node, racers>>
              /\ pc[c] # "idle"
              /\ \/ /\ UNCHANGED kind
                    /\ \/ /\ pc[c] = "register.select" /\ ~InForce(node[c])
                          /\ Goto(c, "register.unban") \/ Goto(c, "register.set")
                       \/ pc[c] = "register.unban" /\ Goto(c, "register.set")
                       \/ pc[c] = "register.set" /\ Goto(c, "register.upsert")
                       \/ pc[c] = "heartbeat.exists" /\ Goto(c, "heartbeat.select")
                       \/ /\ pc[c] = "heartbeat.select" /\ ~InForce(node[c])
                          /\ Goto(c, "heartbeat.unban") \/ Goto(c, "heartbeat.get")
                       \/ pc[c] = "heartbeat.unban" /\ Goto(c, "heartbeat.get")
                       \/ pc[c] = "ban.remove" /\ Goto(c, "ban.publish")
                 \/ /\ pc[c] = "heartbeat.get" /\ Goto(c, "heartbeat.set")
                    /\ kind' = [kind EXCEPT ![c] = redis[node[c]].kind]
                    /\ redis[node[c]] # None
<1>1. CASE RegisterSelect(c)
  BY <1>1 DEF RegisterSelect, SelectBan, call
<1>2. CASE RegisterUnban(c)
  BY <1>2 DEF RegisterUnban, RemoveExpiredBan, call
<1>3. CASE RegisterSet(c)
  BY <1>3 DEF RegisterSet, call
<1>4. CASE RegisterUpsert(c)
  BY <1>4 DEF RegisterUpsert
<1>5. CASE HeartbeatExists(c)
  BY <1>5 DEF HeartbeatExists, call
<1>6. CASE HeartbeatSelect(c)
  BY <1>6 DEF HeartbeatSelect, SelectBan, call
<1>7. CASE HeartbeatUnban(c)
  BY <1>7 DEF HeartbeatUnban, RemoveExpiredBan, call
<1>8. CASE HeartbeatGet(c)
  BY <1>8 DEF HeartbeatGet
<1>9. CASE HeartbeatSet(c)
  BY <1>9 DEF HeartbeatSet
<1>10. CASE ModerationRemove(c)
  BY <1>10 DEF ModerationRemove, call
<1>11. CASE ModerationPublish(c)
  BY <1>11 DEF ModerationPublish
<1>12. CASE IgnoreError(c)
  <2>1. /\ pc[c] \in {"register.unban", "heartbeat.unban", "ban.remove"}
        /\ Goto(c, AfterIgnoredError[pc[c]])
        /\ UNCHANGED <<node, kind, racers>>
    BY <1>12 DEF IgnoreError, AfterIgnoredError, call
  <2>2. /\ AfterIgnoredError["register.unban"] = "register.set"
        /\ AfterIgnoredError["heartbeat.unban"] = "heartbeat.get"
        /\ AfterIgnoredError["ban.remove"] = "ban.publish"
    BY DEF AfterIgnoredError
  <2> QED BY <2>1, <2>2
<1>13. CASE ReturnError(c)
  BY <1>13 DEF ReturnError
<1> QED
  BY <1>1, <1>2, <1>3, <1>4, <1>5, <1>6, <1>7, <1>8, <1>9, <1>10, <1>11, <1>12, <1>13
  DEF CallStep

\* The stores, the listings and the history of a step of one caller.
LEMMA CallStepStores ==
    ASSUME TypeOK, ServesInv, NEW c \in Caller, CallStep(c)
    PROVE  /\ redis' \in [Node -> Key \cup {None}]
           /\ nodes' \in [Node -> Row \cup {None}]
           /\ published' \in SUBSET Node
           /\ steady' \in [Lister -> SUBSET Node]
           /\ UNCHANGED listing
           /\ \A n \in Node : nodes'[n] # nodes[n] => ~HasBan(n)'
<1> USE NotNone
<1>a. pc[c] # "idle" => node[c] \in Node
  BY DEF TypeOK
<1>b. pc[c] \in {"register.set", "heartbeat.set"} => kind[c] \in Kind
  BY DEF TypeOK
<1>1. CASE \/ RegisterSelect(c) \/ HeartbeatExists(c) \/ HeartbeatSelect(c)
           \/ HeartbeatGet(c) \/ IgnoreError(c) \/ ReturnError(c)
  <2>1. UNCHANGED <<redis, nodes, published, listing, steady>>
    BY <1>1 DEF RegisterSelect, HeartbeatExists, HeartbeatSelect, SelectBan, HeartbeatGet,
                IgnoreError, ReturnError
  <2> QED BY <2>1 DEF TypeOK
<1>2. CASE RegisterUnban(c) \/ HeartbeatUnban(c)
  <2>1. /\ pc[c] # "idle" /\ UpdateBan(node[c], FALSE, Forever)
        /\ UNCHANGED <<redis, published, listing, steady>>
    BY <1>2 DEF RegisterUnban, HeartbeatUnban, RemoveExpiredBan
  <2>2. /\ nodes' \in [Node -> Row \cup {None}]
        /\ \A n \in Node : nodes'[n] # nodes[n] => nodes'[n] = [banned |-> FALSE, left |-> Forever]
    BY <1>a, <2>1, UnbanType
  <2>3. \A n \in Node : nodes'[n] # nodes[n] => ~HasBan(n)'
    BY <2>2 DEF HasBan
  <2> QED BY <2>1, <2>2, <2>3 DEF TypeOK
<1>3. CASE RegisterSet(c) \/ HeartbeatSet(c)
  <2>1. /\ pc[c] \in {"register.set", "heartbeat.set"} /\ SetKey(node[c], kind[c])
        /\ UNCHANGED <<nodes, published, listing>>
    BY <1>3 DEF RegisterSet, HeartbeatSet
  <2>2. node[c] \in Node /\ kind[c] \in Kind
    BY <1>a, <1>b, <2>1
  <2> QED BY <2>1, <2>2, SetKeyType DEF TypeOK
<1>4. CASE RegisterUpsert(c)
  <2>1. [banned |-> FALSE, left |-> Forever] \in Row
    BY DEF Row
  <2>2. node[c] \in Node
    BY <1>4, <1>a DEF RegisterUpsert
  <2>3. /\ nodes' \in [Node -> Row \cup {None}]
        /\ \A n \in Node : nodes'[n] # nodes[n] => nodes'[n] = [banned |-> FALSE, left |-> Forever]
    BY <1>4, <2>1, <2>2 DEF RegisterUpsert, TypeOK
  <2>4. \A n \in Node : nodes'[n] # nodes[n] => ~HasBan(n)'
    BY <2>3 DEF HasBan
  <2> QED BY <1>4, <2>3, <2>4 DEF RegisterUpsert, TypeOK
<1>5. CASE ModerationRemove(c)
  <2>1. redis' \in [Node -> Key \cup {None}] /\ UNCHANGED <<nodes, published, listing>>
    BY <1>5 DEF ModerationRemove, TypeOK
  <2>2. steady' \in [Lister -> SUBSET Node]
    BY <1>5, StillThereRelays DEF ModerationRemove
  <2> QED BY <2>1, <2>2 DEF TypeOK
<1>6. CASE ModerationPublish(c)
  BY <1>6, <1>a DEF ModerationPublish, TypeOK
<1> QED BY <1>1, <1>2, <1>3, <1>4, <1>5, <1>6 DEF CallStep

\* A step of one caller keeps the types.
LEMMA CallStepType ==
    ASSUME TypeOK, ServesInv, NEW c \in Caller, CallStep(c)
    PROVE  TypeOK' /\ ServesInv'
<1>1. /\ pc' \in [Caller \cup Lister -> PC]
      /\ pc'[c] \in CallerPC
      /\ \A x \in (Caller \cup Lister) \ {c} : pc'[x] = pc[x]
      /\ node' \in [Caller -> Node \cup {None}]
      /\ kind' \in [Caller -> Kind \cup {None}]
      /\ racers' \in SUBSET Caller
      /\ \A x \in Caller \ {c} : node'[x] = node[x] /\ kind'[x] = kind[x]
      /\ pc'[c] # "idle" => node'[c] \in Node
      /\ pc'[c] \in {"register.select", "register.unban", "register.set", "heartbeat.set"} =>
            kind'[c] \in Kind
  <2>1. CASE Return(c)
    BY <2>1, ReturnType DEF CallerPC, PC
  <2>2. ASSUME UNCHANGED <<node, racers, kind>>, pc[c] # "idle", NEW x \in CallerPC, Goto(c, x),
               x \in {"register.unban", "register.set"} =>
                  pc[c] \in {"register.select", "register.unban"},
               x \notin {"register.select", "heartbeat.set"}
        PROVE  <1>1!:
    <3>1. x \in PC
      BY DEF CallerPC
    <3>2. /\ pc' \in [Caller \cup Lister -> PC]
          /\ pc'[c] = x
          /\ \A q \in (Caller \cup Lister) \ {c} : pc'[q] = pc[q]
      BY <2>2, <3>1, GotoType
    <3> QED BY <2>2, <3>2 DEF TypeOK, ServesInv
  <2>3. ASSUME UNCHANGED <<node, racers>>, pc[c] = "heartbeat.get", Goto(c, "heartbeat.set"),
               kind' = [kind EXCEPT ![c] = redis[node[c]].kind], redis[node[c]] # None
        PROVE  <1>1!:
    <3>1. /\ pc' \in [Caller \cup Lister -> PC]
          /\ pc'[c] = "heartbeat.set"
          /\ \A q \in (Caller \cup Lister) \ {c} : pc'[q] = pc[q]
      BY <2>3, GotoType DEF PC
    <3>2. node[c] \in Node
      BY <2>3 DEF TypeOK
    <3>3. redis[node[c]].kind \in Kind
      BY <2>3, <3>2 DEF TypeOK, Key
    <3> QED BY <2>3, <3>1, <3>2, <3>3 DEF TypeOK, CallerPC, PC
  <2> QED BY <2>1, <2>2, <2>3, CallStepControl DEF CallerPC, PC
<1>2. TypeOK'
  BY <1>1, CallStepStores DEF TypeOK, listing
<1>3. ServesInv'
  BY <1>1, Apart DEF ServesInv, TypeOK
<1> QED BY <1>2, <1>3

\* A request keeps the types.
LEMMA RequestType ==
    ASSUME TypeOK, ServesInv, Request
    PROVE  TypeOK' /\ ServesInv'
<1> USE Apart
<1>1. ASSUME NEW c \in Caller, NEW n \in Node, NEW k \in Kind, RegisterNode(c, n, k)
      PROVE  TypeOK' /\ ServesInv'
  <2>1. /\ pc' \in [Caller \cup Lister -> PC]
        /\ pc'[c] = "register.select"
        /\ \A q \in (Caller \cup Lister) \ {c} : pc'[q] = pc[q]
    BY <1>1, GotoType DEF RegisterNode, PC
  <2>2. /\ node' \in [Caller -> Node \cup {None}] /\ node'[c] = n
        /\ kind' \in [Caller -> Kind \cup {None}] /\ kind'[c] = k
        /\ \A x \in Caller \ {c} : node'[x] = node[x] /\ kind'[x] = kind[x]
    BY <1>1 DEF RegisterNode, TypeOK
  <2>3. TypeOK'
    BY <1>1, <2>1, <2>2 DEF RegisterNode, TypeOK, listing
  <2> QED BY <2>1, <2>2, <2>3 DEF ServesInv, CallerPC, PC
<1>2. ASSUME NEW c \in Caller, NEW n \in Node, Heartbeat(c, n)
      PROVE  TypeOK' /\ ServesInv'
  <2>1. /\ pc' \in [Caller \cup Lister -> PC]
        /\ pc'[c] = "heartbeat.exists"
        /\ \A q \in (Caller \cup Lister) \ {c} : pc'[q] = pc[q]
    BY <1>2, GotoType DEF Heartbeat, PC
  <2>2. /\ node' \in [Caller -> Node \cup {None}] /\ node'[c] = n
        /\ \A x \in Caller \ {c} : node'[x] = node[x]
    BY <1>2 DEF Heartbeat, TypeOK
  <2>3. TypeOK'
    BY <1>2, <2>1, <2>2 DEF Heartbeat, TypeOK, listing
  <2> QED BY <1>2, <2>1, <2>2, <2>3 DEF Heartbeat, ServesInv, CallerPC, PC
<1>3. ASSUME NEW n \in Node, NEW d \in Duration \cup {Forever}, AdminBanNode(n, d)
      PROVE  TypeOK' /\ ServesInv'
  <2>1. nodes' \in [Node -> Row \cup {None}] /\ racers' \in SUBSET Caller
    BY <1>3, BanType DEF AdminBanNode
  <2> QED BY <1>3, <2>1 DEF AdminBanNode, TypeOK, ServesInv, listing, call
<1>4. ASSUME NEW n \in Node, AdminUnbanNode(n) PROVE TypeOK' /\ ServesInv'
  <2>1. nodes' \in [Node -> Row \cup {None}]
    BY <1>4, UnbanType DEF AdminUnbanNode
  <2> QED BY <1>4, <2>1 DEF AdminUnbanNode, TypeOK, ServesInv, listing, call
<1>5. ASSUME NEW c \in Caller, NEW n \in Node, NEW d \in Duration \cup {Forever},
             ModerationBanNode(c, n, d)
      PROVE  TypeOK' /\ ServesInv'
  <2>1. nodes' \in [Node -> Row \cup {None}] /\ racers' \in SUBSET Caller
    BY <1>5, BanType DEF ModerationBanNode
  <2>2. /\ pc' \in [Caller \cup Lister -> PC]
        /\ pc'[c] = "ban.remove"
        /\ \A q \in (Caller \cup Lister) \ {c} : pc'[q] = pc[q]
    BY <1>5, GotoType DEF ModerationBanNode, PC
  <2>3. /\ node' \in [Caller -> Node \cup {None}] /\ node'[c] = n
        /\ \A x \in Caller \ {c} : node'[x] = node[x]
    BY <1>5 DEF ModerationBanNode, TypeOK
  <2>4. TypeOK'
    BY <1>5, <2>1, <2>2, <2>3 DEF ModerationBanNode, TypeOK, listing
  <2> QED BY <1>5, <2>2, <2>3, <2>4 DEF ModerationBanNode, ServesInv, CallerPC, PC
<1>6. ASSUME NEW l \in Lister, NEW m \in 0..MaxRelays + 1, NEW x \in SUBSET Node,
             GetActiveRelays(l, m, x)
      PROVE  TypeOK' /\ ServesInv'
  <2>1. /\ pc' \in [Caller \cup Lister -> PC]
        /\ pc'[l] = "list.get"
        /\ \A q \in (Caller \cup Lister) \ {l} : pc'[q] = pc[q]
    BY <1>6, GotoType DEF GetActiveRelays, PC
  <2>2. EffectiveLimit(m) \in 1..MaxRelays
    BY RegistryAssumption DEF EffectiveLimit
  <2>3. /\ todo' \in [Lister -> SUBSET Node] /\ found' \in [Lister -> SUBSET Node]
        /\ steady' \in [Lister -> SUBSET Node]
    BY <1>6 DEF GetActiveRelays, TypeOK
  <2>4. limit' \in [Lister -> 1..MaxRelays]
    BY <1>6, <2>2 DEF GetActiveRelays, TypeOK
  <2>5. TypeOK'
    BY <1>6, <2>1, <2>3, <2>4 DEF GetActiveRelays, TypeOK, call
  <2> QED BY <1>6, <2>1, <2>5 DEF GetActiveRelays, ServesInv, ListerPC, call
<1> QED BY <1>1, <1>2, <1>3, <1>4, <1>5, <1>6 DEF Request

\* A step of one lister keeps the types.
LEMMA ListStepType ==
    ASSUME TypeOK, ServesInv, NEW l \in Lister, ListStep(l)
    PROVE  TypeOK' /\ ServesInv'
<1> USE Apart
<1>1. ASSUME NEW n \in Node, ListGet(l, n) PROVE TypeOK' /\ ServesInv'
  <2>1. /\ todo' \in [Lister -> SUBSET Node] /\ found' \in [Lister -> SUBSET Node]
        /\ steady' \in [Lister -> SUBSET Node]
    BY <1>1 DEF ListGet, TypeOK
  <2> QED BY <1>1, <2>1 DEF ListGet, TypeOK, ServesInv, call
<1>2. ASSUME NEW r \in SUBSET Node, ListReply(l, r) PROVE TypeOK' /\ ServesInv'
  <2>1. /\ pc' \in [Caller \cup Lister -> PC]
        /\ pc'[l] = "list.done"
        /\ \A q \in (Caller \cup Lister) \ {l} : pc'[q] = pc[q]
    BY <1>2, GotoType DEF ListReply, PC
  <2>2. reply' \in [Lister -> SUBSET Node]
    BY <1>2 DEF ListReply, TypeOK
  <2>3. TypeOK'
    BY <1>2, <2>1, <2>2 DEF ListReply, TypeOK, call
  <2> QED BY <1>2, <2>1, <2>3 DEF ListReply, ServesInv, ListerPC, call
<1>3. CASE ListEnd(l)
  <2>1. /\ pc' \in [Caller \cup Lister -> PC]
        /\ pc'[l] = "idle"
        /\ \A q \in (Caller \cup Lister) \ {l} : pc'[q] = pc[q]
    BY <1>3, GotoType DEF ListEnd, PC
  <2>2. /\ reply' \in [Lister -> SUBSET Node] /\ found' \in [Lister -> SUBSET Node]
        /\ steady' \in [Lister -> SUBSET Node] /\ limit' \in [Lister -> 1..MaxRelays]
    BY <1>3, RegistryAssumption DEF ListEnd, TypeOK
  <2>3. TypeOK'
    BY <1>3, <2>1, <2>2 DEF ListEnd, TypeOK, call
  <2> QED BY <1>3, <2>1, <2>3 DEF ListEnd, ServesInv, ListerPC, call
<1> QED BY <1>1, <1>2, <1>3 DEF ListStep

\* A tick takes a tick from a key, which goes with its last one, and from a ban.
LEMMA TickStores ==
    ASSUME TypeOK, Tick
    PROVE  /\ redis' \in [Node -> Key \cup {None}]
           /\ nodes' \in [Node -> Row \cup {None}]
           /\ \A n \in Node : redis'[n] # None =>
                 redis[n] # None /\ redis'[n].ttl < redis[n].ttl
           /\ \A n \in Node : InForce(n)' => InForce(n)
<1> USE NotNone, RegistryAssumption
<1>1. ASSUME NEW n \in Node
      PROVE  /\ redis'[n] \in Key \cup {None}
             /\ redis'[n] # None => redis[n] # None /\ redis'[n].ttl < redis[n].ttl
  <2>1. CASE redis[n] = None \/ redis[n].ttl = 1
    BY <2>1 DEF Tick
  <2>2. CASE redis[n] # None /\ redis[n].ttl # 1
    <3>1. redis[n] \in Key /\ redis[n].ttl \in 2..TTL
      BY <2>2 DEF TypeOK, Key
    <3>2. redis'[n] = [redis[n] EXCEPT !.ttl = redis[n].ttl - 1]
      BY <2>2 DEF Tick
    <3> QED BY <2>2, <3>1, <3>2 DEF Key
  <2> QED BY <2>1, <2>2
<1>2. ASSUME NEW n \in Node
      PROVE  nodes'[n] \in Row \cup {None} /\ (InForce(n)' => InForce(n))
  <2>1. CASE nodes[n] = None \/ nodes[n].left \in {0, Forever}
    <3>1. nodes'[n] = nodes[n]
      BY <2>1 DEF Tick
    <3> QED BY <3>1 DEF TypeOK, InForce, HasBan, Expired
  <2>2. CASE nodes[n] # None /\ nodes[n].left \notin {0, Forever}
    <3>1. nodes[n] \in Row /\ nodes[n].left \in Nat \ {0}
      BY <2>2 DEF TypeOK, Row
    <3>2. nodes'[n] = [nodes[n] EXCEPT !.left = nodes[n].left - 1]
      BY <2>2 DEF Tick
    <3>3. nodes'[n] \in Row /\ nodes'[n].banned = nodes[n].banned
      BY <3>1, <3>2 DEF Row
    <3> QED BY <2>2, <3>1, <3>3 DEF InForce, HasBan, Expired
  <2> QED BY <2>1, <2>2
<1>3. redis' = [n \in Node |-> redis'[n]] /\ nodes' = [n \in Node |-> nodes'[n]]
  BY DEF Tick
<1> QED BY <1>1, <1>2, <1>3

\* Every step keeps the types.
LEMMA StepType ==
    ASSUME TypeOK, ServesInv, [Next]_vars
    PROVE  TypeOK' /\ ServesInv'
<1>1. CASE Tick
  <2>1. steady' \in [Lister -> SUBSET Node]
    BY <1>1, StillThereRelays DEF Tick
  <2> QED BY <1>1, <2>1, TickStores DEF Tick, TypeOK, ServesInv, listing, call
<1>2. CASE UNCHANGED vars
  BY <1>2 DEF vars, TypeOK, ServesInv
<1> QED BY <1>1, <1>2, RequestType, CallStepType, ListStepType DEF Next

-----------------------------------------------------------------------------
\* Every step keeps who is a racer: a ban makes one of each caller past its look at the
\* row, and nobody else gets past a ban in force.
LEMMA StepRace ==
    ASSUME TypeOK, TypeOK', ServesInv, RaceInv, [Next]_vars
    PROVE  RaceInv'
<1>a. \A c \in Caller : pc[c] \in Past => node[c] \in Node
  BY DEF TypeOK, Past
<1>1. ASSUME \A n \in Node : InForce(n)' => InForce(n),
             UNCHANGED <<pc, node>>, racers \subseteq racers'
      PROVE  RaceInv'
  BY <1>1, <1>a DEF RaceInv
<1>2. ASSUME NEW c \in Caller, UNCHANGED <<nodes, racers>>, pc'[c] \notin Past,
             \A x \in Caller \ {c} : pc'[x] = pc[x] /\ node'[x] = node[x]
      PROVE  RaceInv'
  BY <1>2 DEF RaceInv, InForce, HasBan, Expired
<1>3. ASSUME NEW c \in Caller, CallStep(c) PROVE RaceInv'
  <2>1. \A n \in Node : InForce(n)' => InForce(n)
    BY <1>3, CallStepStores DEF InForce, HasBan, Expired
  <2>2. CASE Return(c)
    <3>1. /\ pc'[c] = "idle" /\ racers' = racers \ {c}
          /\ \A x \in Caller \ {c} : pc'[x] = pc[x] /\ node'[x] = node[x]
      BY <2>2, ReturnType
    <3> QED BY <2>1, <3>1, <1>a DEF RaceInv, Past, InForce, HasBan, Expired
  <2>3. ASSUME UNCHANGED <<node, racers>>, NEW y \in PC, Goto(c, y),
               pc[c] \in Past \/ ~InForce(node[c]) \/ y \notin Past, pc[c] # "idle"
        PROVE  RaceInv'
    <3>1. /\ pc'[c] = y
          /\ \A x \in Caller \ {c} : pc'[x] = pc[x] /\ node'[x] = node[x]
      BY <2>3, GotoType
    <3>2. node[c] \in Node
      BY <2>3 DEF TypeOK
    <3> QED BY <2>1, <2>3, <3>1, <3>2, <1>a DEF RaceInv, InForce, HasBan, Expired
  <2> QED BY <1>3, <2>2, <2>3, CallStepControl DEF Past, PC
<1>4. ASSUME NEW n \in Node, NEW d \in Duration \cup {Forever}, BanRow(n, d),
             \A x \in Caller : pc'[x] \in Past => pc'[x] = pc[x] /\ node'[x] = node[x]
      PROVE  RaceInv'
  <2>1. \A x \in Node \ {n} : InForce(x)' => InForce(x)
    BY <1>4, BanType DEF InForce, HasBan, Expired
  <2>2. \A c \in Caller : pc[c] \in Past /\ node[c] = n /\ InForce(n)' => c \in racers'
    BY <1>4, BanType DEF PastCheck, Past, InForce
  <2>3. racers \subseteq racers'
    BY <1>4, BanType
  <2>4. ASSUME NEW c \in Caller, pc'[c] \in Past, InForce(node[c])' PROVE c \in racers'
    <3>1. PICK x \in Node : x = node[c] /\ x = node'[c] /\ pc[c] \in Past
      BY <1>4, <1>a, <2>4
    <3>2. InForce(x)'
      BY <2>4, <3>1 DEF InForce, HasBan, Expired
    <3> QED BY <2>1, <2>2, <2>3, <3>1, <3>2 DEF RaceInv
  <2> QED BY <2>4 DEF RaceInv
<1>5. CASE Request
  <2>1. ASSUME NEW c \in Caller, NEW n \in Node, NEW k \in Kind, RegisterNode(c, n, k)
        PROVE  RaceInv'
    BY <2>1, <1>2, GotoType DEF RegisterNode, TypeOK, Past, PC
  <2>2. ASSUME NEW c \in Caller, NEW n \in Node, Heartbeat(c, n) PROVE RaceInv'
    BY <2>2, <1>2, GotoType DEF Heartbeat, TypeOK, Past, PC
  <2>3. ASSUME NEW n \in Node, NEW d \in Duration \cup {Forever}, AdminBanNode(n, d)
        PROVE  RaceInv'
    BY <2>3, <1>4 DEF AdminBanNode, call
  <2>4. ASSUME NEW n \in Node, AdminUnbanNode(n) PROVE RaceInv'
    <3>1. ~HasBan(n)' /\ \A x \in Node \ {n} : nodes'[x] = nodes[x]
      BY <2>4, UnbanType DEF AdminUnbanNode
    <3>2. UNCHANGED <<pc, node>> /\ racers' = racers \ {c \in Caller : node[c] = n}
      BY <2>4 DEF AdminUnbanNode, call
    <3> QED BY <3>1, <3>2, <1>a DEF RaceInv, InForce, HasBan, Expired
  <2>5. ASSUME NEW c \in Caller, NEW n \in Node, NEW d \in Duration \cup {Forever},
               ModerationBanNode(c, n, d)
        PROVE  RaceInv'
    <3>1. /\ pc'[c] = "ban.remove"
          /\ \A x \in Caller \ {c} : pc'[x] = pc[x] /\ node'[x] = node[x]
      BY <2>5, GotoType DEF ModerationBanNode, TypeOK, PC
    <3> QED BY <2>5, <3>1, <1>4 DEF ModerationBanNode, Past
  <2>6. ASSUME NEW l \in Lister, NEW m \in 0..MaxRelays + 1, NEW x \in SUBSET Node,
               GetActiveRelays(l, m, x)
        PROVE  RaceInv'
    <3>1. \A c \in Caller : pc'[c] = pc[c]
      BY <2>6, Apart, GotoType DEF GetActiveRelays, PC
    <3> QED BY <2>6, <3>1 DEF GetActiveRelays, call, RaceInv, InForce, HasBan, Expired
  <2> QED BY <1>5, <2>1, <2>2, <2>3, <2>4, <2>5, <2>6 DEF Request
<1>6. ASSUME NEW l \in Lister, ListStep(l) PROVE RaceInv'
  <2>1. \A c \in Caller : pc'[c] = pc[c]
    BY <1>6, Apart, GotoType DEF ListStep, ListGet, ListReply, ListEnd, PC
  <2>2. UNCHANGED <<nodes, node, racers>>
    BY <1>6 DEF ListStep, ListGet, ListReply, ListEnd, call
  <2> QED BY <2>1, <2>2 DEF RaceInv, InForce, HasBan, Expired
<1>7. CASE Tick
  BY <1>1, <1>7, TickStores DEF Tick, call
<1>8. CASE UNCHANGED vars
  BY <1>8 DEF vars, RaceInv, InForce, HasBan, Expired
<1> QED BY <1>3, <1>5, <1>6, <1>7, <1>8 DEF Next

\* A step that gives a banned node a key, or lengthens the life of its key, is the SET of
\* a caller that looked at the row before the ban.
LEMMA RenewedByRacer ==
    ASSUME TypeOK, ServesInv, RaceInv, [Next]_vars,
           NEW n \in Node, InForce(n), Renewed(n)
    PROVE  \E c \in racers : node[c] = n /\ pc[c] # "idle"
<1>1. ASSUME NEW c \in Caller, RegisterSet(c) \/ HeartbeatSet(c)
      PROVE  \E d \in racers : node[d] = n /\ pc[d] # "idle"
  <2>1. /\ pc[c] \in {"register.set", "heartbeat.set"}
        /\ SetKey(node[c], kind[c])
    BY <1>1 DEF RegisterSet, HeartbeatSet
  <2>2. node[c] \in Node /\ kind[c] \in Kind
    BY <2>1 DEF TypeOK
  <2>3. node[c] = n
    <3>1. \A x \in Node \ {node[c]} : redis'[x] = redis[x]
      BY <2>1, <2>2, SetKeyType
    <3>2. redis[n] # None => redis[n].ttl \in Nat
      BY RegistryAssumption DEF TypeOK, Key
    <3> QED BY <3>1, <3>2 DEF Renewed
  <2>4. c \in racers
    BY <2>1, <2>3 DEF RaceInv, Past
  <2> QED BY <2>1, <2>3, <2>4
<1>2. ASSUME redis'[n] = redis[n] \/ redis'[n] = None PROVE FALSE
  <2>1. redis[n] # None => redis[n].ttl \in Nat
    BY RegistryAssumption DEF TypeOK, Key
  <2> QED BY <1>2, <2>1 DEF Renewed
<1>3. ASSUME NEW c \in Caller, CallStep(c), ~(RegisterSet(c) \/ HeartbeatSet(c)) PROVE FALSE
  <2>1. CASE ModerationRemove(c)
    BY <1>2, <2>1 DEF ModerationRemove, TypeOK
  <2>2. CASE UNCHANGED redis
    BY <1>2, <2>2
  <2> QED
    BY <1>3, <2>1, <2>2
    DEF CallStep, RegisterSelect, RegisterUnban, RegisterUpsert, HeartbeatExists,
        HeartbeatSelect, HeartbeatUnban, HeartbeatGet, SelectBan, RemoveExpiredBan,
        ModerationPublish, IgnoreError, ReturnError
<1>4. ASSUME \/ Request
             \/ \E l \in Lister : ListStep(l)
             \/ UNCHANGED vars
      PROVE  FALSE
  <2>1. UNCHANGED redis
    BY <1>4 DEF Request, RegisterNode, Heartbeat, AdminBanNode, AdminUnbanNode,
                ModerationBanNode, GetActiveRelays, ListStep, ListGet, ListReply, ListEnd,
                vars
  <2> QED BY <1>2, <2>1
<1>5. CASE Tick
  <2>1. redis'[n] # None => redis[n] # None /\ redis'[n].ttl < redis[n].ttl
    BY <1>5, TickStores
  <2>2. redis'[n] # None => redis[n].ttl \in Nat /\ redis'[n].ttl \in Nat
    BY <1>5, <2>1, TickStores, RegistryAssumption DEF TypeOK, Key
  <2> QED BY <2>1, <2>2 DEF Renewed
<1> QED BY <1>1, <1>3, <1>4, <1>5 DEF Next

\* A step that lifts a ban in force is the administrator's UPDATE, or the UPDATE of a
\* caller that looked at the row before the ban.
LEMMA LiftedByRacer ==
    ASSUME TypeOK, ServesInv, RaceInv, [Next]_vars,
           NEW n \in Node, InForce(n), ~HasBan(n)'
    PROVE  \/ AdminUnbanNode(n)
           \/ \E c \in racers : /\ node[c] = n
                                /\ pc[c] \in {"register.unban", "heartbeat.unban"}
<1> USE NotNone
<1>1. nodes[n] # None /\ nodes'[n] # nodes[n]
  BY DEF InForce, HasBan
<1>2. ASSUME NEW c \in Caller, CallStep(c)
      PROVE  \E d \in racers : /\ node[d] = n
                               /\ pc[d] \in {"register.unban", "heartbeat.unban"}
  <2>1. CASE RegisterUnban(c) \/ HeartbeatUnban(c)
    <3>1. /\ pc[c] \in {"register.unban", "heartbeat.unban"}
          /\ UpdateBan(node[c], FALSE, Forever)
      BY <2>1 DEF RegisterUnban, HeartbeatUnban, RemoveExpiredBan
    <3>2. node[c] = n
      BY <1>1, <3>1 DEF UpdateBan, TypeOK
    <3>3. c \in racers
      BY <3>1, <3>2 DEF RaceInv, Past
    <3> QED BY <3>1, <3>2, <3>3
  <2>2. CASE RegisterUpsert(c)
    BY <1>1, <2>2 DEF RegisterUpsert, TypeOK
  <2>3. CASE UNCHANGED nodes
    BY <1>1, <2>3
  <2> QED
    BY <1>2, <2>1, <2>2, <2>3
    DEF CallStep, RegisterSelect, RegisterSet, HeartbeatExists, HeartbeatSelect,
        HeartbeatGet, HeartbeatSet, SelectBan, ModerationRemove, ModerationPublish,
        IgnoreError, ReturnError
<1>3. ASSUME NEW m \in Node, NEW d \in Duration \cup {Forever}, BanRow(m, d) PROVE FALSE
  <2>1. nodes'[n] \in {nodes[n], [banned |-> TRUE, left |-> d]}
    BY <1>3 DEF BanRow, UpdateBan, TypeOK
  <2>2. [banned |-> TRUE, left |-> d] \in Row
    BY RegistryAssumption DEF Row
  <2>3. nodes'[n] # None /\ nodes'[n].banned
    <3>1. CASE nodes'[n] = nodes[n]
      BY <1>1, <3>1 DEF InForce, HasBan
    <3>2. CASE nodes'[n] = [banned |-> TRUE, left |-> d]
      <4>1. nodes'[n] \in Row /\ nodes'[n].banned = TRUE
        BY <2>2, <3>2
      <4> QED BY <4>1
    <3> QED BY <2>1, <3>1, <3>2
  <2> QED BY <2>3 DEF HasBan
<1>4. ASSUME NEW m \in Node, AdminUnbanNode(m) PROVE AdminUnbanNode(n)
  <2>1. m = n
    BY <1>1, <1>4 DEF AdminUnbanNode, UpdateBan, TypeOK
  <2> QED BY <1>4, <2>1
<1>5. CASE Request
  <2>1. CASE \/ \E m \in Node, d \in Duration \cup {Forever} : AdminBanNode(m, d)
             \/ \E c \in Caller, m \in Node, d \in Duration \cup {Forever} :
                   ModerationBanNode(c, m, d)
    BY <1>3, <2>1 DEF AdminBanNode, ModerationBanNode
  <2>2. CASE \E m \in Node : AdminUnbanNode(m)
    BY <1>4, <2>2
  <2>3. CASE UNCHANGED nodes
    BY <1>1, <2>3
  <2> QED
    BY <1>5, <2>1, <2>2, <2>3 DEF Request, RegisterNode, Heartbeat, GetActiveRelays
<1>6. CASE (\E l \in Lister : ListStep(l)) \/ UNCHANGED vars
  <2>1. UNCHANGED nodes
    BY <1>6 DEF ListStep, ListGet, ListReply, ListEnd, vars
  <2> QED BY <1>1, <2>1
<1>7. CASE Tick
  <2>1. nodes[n] \in Row
    BY <1>1 DEF TypeOK
  <2>2. nodes'[n] = [nodes[n] EXCEPT !.left = @ - 1] /\ nodes[n].left \notin {0, Forever}
    BY <1>1, <1>7 DEF Tick
  <2>3. nodes'[n] \in Row /\ nodes'[n].banned = nodes[n].banned
    BY <2>1, <2>2 DEF Row
  <2> QED BY <2>3 DEF InForce, HasBan
<1> QED BY <1>2, <1>5, <1>6, <1>7 DEF Next

-----------------------------------------------------------------------------
\* A step of somebody else leaves a listing as it was, and counts out the relays whose
\* key it removes or turns into another.
LEMMA ListingStays ==
    ASSUME TypeOK, SteadyInv, ListComplete, UNCHANGED listing,
           \A l \in Lister : pc'[l] = pc[l],
           StillThere \/ UNCHANGED <<redis, steady>>
    PROVE  SteadyInv' /\ ListComplete'
<1>1. /\ \A l \in Lister : steady'[l] \subseteq steady[l]
      /\ \A l \in Lister : \A n \in steady'[l] : IsRelay(n)'
  <2>1. CASE StillThere
    BY <2>1, StillThereRelays
  <2>2. CASE UNCHANGED <<redis, steady>>
    BY <2>2 DEF SteadyInv, IsRelay
  <2> QED BY <2>1, <2>2
<1>2. UNCHANGED <<todo, found, limit, reply>>
  BY DEF listing
<1>3. SteadyInv'
  BY <1>1, <1>2 DEF SteadyInv
<1>4. ListComplete'
  BY <1>1, <1>2 DEF ListComplete
<1> QED BY <1>3, <1>4

\* A listing that has its answer: within the limit, and whole when shorter.
LEMMA ReplyComplete ==
    ASSUME NEW F, IsFiniteSet(F), NEW r, r \subseteq F, NEW m \in Nat,
           Cardinality(r) = IF Cardinality(F) > m THEN m ELSE Cardinality(F)
    PROVE  Cardinality(r) <= m /\ (Cardinality(r) < m => r = F)
<1>1. Cardinality(F) \in Nat
  BY FS_CardinalityType
<1>2. ASSUME Cardinality(r) = Cardinality(F) PROVE r = F
  BY <1>2, FS_Subset
<1> QED BY <1>1, <1>2

\* Every step keeps what is known of the listings.
LEMMA StepListing ==
    ASSUME TypeOK, TypeOK', ServesInv, SteadyInv, ListComplete, [Next]_vars
    PROVE  SteadyInv' /\ ListComplete'
<1>1. ASSUME NEW c \in Caller, CallStep(c) PROVE SteadyInv' /\ ListComplete'
  <2>1. \A l \in Lister : pc'[l] = pc[l]
    <3>1. CASE Return(c)
      BY <3>1, Apart, ReturnType
    <3>2. ASSUME NEW y \in PC, Goto(c, y) PROVE \A l \in Lister : pc'[l] = pc[l]
      BY <3>2, Apart, GotoType
    <3> QED BY <1>1, <3>1, <3>2, CallStepControl DEF PC
  <2>2. StillThere \/ UNCHANGED <<redis, steady>>
    BY <1>1 DEF CallStep, RegisterSelect, RegisterUnban, RegisterSet, RegisterUpsert,
                HeartbeatExists, HeartbeatSelect, HeartbeatUnban, HeartbeatGet,
                HeartbeatSet, SelectBan, RemoveExpiredBan, SetKey, ModerationRemove,
                ModerationPublish, IgnoreError, ReturnError
  <2>3. UNCHANGED listing
    BY <1>1, CallStepStores
  <2> QED BY <2>1, <2>2, <2>3, ListingStays
<1>2. ASSUME NEW c \in Caller, NEW n \in Node,
             \/ \E k \in Kind : RegisterNode(c, n, k)
             \/ Heartbeat(c, n)
             \/ \E d \in Duration \cup {Forever} : ModerationBanNode(c, n, d)
      PROVE  SteadyInv' /\ ListComplete'
  <2>1. \A l \in Lister : pc'[l] = pc[l]
    <3>1. ASSUME NEW y \in PC, Goto(c, y) PROVE \A l \in Lister : pc'[l] = pc[l]
      BY <3>1, Apart, GotoType
    <3> QED BY <1>2, <3>1 DEF RegisterNode, Heartbeat, ModerationBanNode, PC
  <2>2. UNCHANGED <<redis, steady>> /\ UNCHANGED listing
    BY <1>2 DEF RegisterNode, Heartbeat, ModerationBanNode
  <2> QED BY <2>1, <2>2, ListingStays
<1>3. ASSUME NEW n \in Node,
             \/ \E d \in Duration \cup {Forever} : AdminBanNode(n, d)
             \/ AdminUnbanNode(n)
      PROVE  SteadyInv' /\ ListComplete'
  BY <1>3, ListingStays DEF AdminBanNode, AdminUnbanNode
<1>4. ASSUME NEW l \in Lister, NEW m \in 0..MaxRelays + 1, NEW x \in SUBSET Node,
             GetActiveRelays(l, m, x)
      PROVE  SteadyInv' /\ ListComplete'
  <2>1. /\ pc'[l] = "list.get"
        /\ \A q \in Lister \ {l} : pc'[q] = pc[q]
    BY <1>4, GotoType DEF GetActiveRelays, PC
  <2>2. /\ todo'[l] = {n \in Node : redis[n] # None} \ x
        /\ steady'[l] = {n \in Node : IsRelay(n)} \ x
        /\ found'[l] = {}
    BY <1>4 DEF GetActiveRelays, TypeOK
  <2>3. /\ \A q \in Lister \ {l} : /\ todo'[q] = todo[q] /\ found'[q] = found[q]
                                   /\ limit'[q] = limit[q] /\ steady'[q] = steady[q]
        /\ UNCHANGED <<redis, reply>>
    BY <1>4 DEF GetActiveRelays, TypeOK
  <2>4. /\ \A n \in steady'[l] : IsRelay(n)'
        /\ IsFiniteSet(found'[l])
        /\ steady'[l] \subseteq todo'[l] \cup found'[l]
    BY <2>2, <2>3, FS_EmptySet DEF IsRelay
  <2>5. SteadyInv'
    BY <2>1, <2>3, <2>4 DEF SteadyInv, IsRelay
  <2>6. ListComplete'
    BY <2>1, <2>3 DEF ListComplete
  <2> QED BY <2>5, <2>6
<1>5. ASSUME NEW l \in Lister, NEW n \in Node, ListGet(l, n) PROVE SteadyInv' /\ ListComplete'
  <2>1. /\ todo'[l] = todo[l] \ {n}
        /\ \A q \in Lister \ {l} : /\ todo'[q] = todo[q] /\ found'[q] = found[q]
                                   /\ steady'[q] = steady[q]
        /\ UNCHANGED <<redis, pc, limit, reply>>
        /\ pc[l] = "list.get"
    BY <1>5 DEF ListGet, TypeOK
  <2>2. \/ /\ found'[l] = IF IsRelay(n) THEN found[l] \cup {n} ELSE found[l]
           /\ steady'[l] = steady[l]
        \/ found'[l] = found[l] /\ steady'[l] = steady[l] \ {n}
    BY <1>5 DEF ListGet, TypeOK
  <2>3. IsFiniteSet(found[l]) /\ IsFiniteSet(found[l] \cup {n})
    BY FS_AddElement DEF SteadyInv
  <2>4. IsFiniteSet(found'[l]) /\ steady'[l] \subseteq todo'[l] \cup found'[l]
    BY <2>1, <2>2, <2>3 DEF SteadyInv
  <2>5. \A q \in Lister : steady'[q] \subseteq steady[q]
    BY <2>1, <2>2
  <2>6. SteadyInv'
    BY <2>1, <2>4, <2>5 DEF SteadyInv, IsRelay
  <2>7. ListComplete'
    BY <2>1 DEF ListComplete
  <2> QED BY <2>6, <2>7
<1>6. ASSUME NEW l \in Lister, NEW r \in SUBSET Node, ListReply(l, r)
      PROVE  SteadyInv' /\ ListComplete'
  <2>1. /\ pc'[l] = "list.done"
        /\ \A q \in Lister \ {l} : pc'[q] = pc[q]
    BY <1>6, GotoType DEF ListReply, PC
  <2>2. /\ reply'[l] = r
        /\ \A q \in Lister \ {l} : reply'[q] = reply[q]
        /\ UNCHANGED <<redis, todo, found, limit, steady>>
        /\ pc[l] = "list.get" /\ todo[l] = {}
    BY <1>6 DEF ListReply, TypeOK
  <2>3. SteadyInv'
    BY <2>1, <2>2 DEF SteadyInv, IsRelay
  <2>4. IsFiniteSet(found[l]) /\ limit[l] \in Nat
    BY RegistryAssumption DEF SteadyInv, TypeOK
  <2>5. Cardinality(r) <= limit[l] /\ (Cardinality(r) < limit[l] => r = found[l])
    BY <1>6, <2>4, ReplyComplete DEF ListReply
  <2>6. steady[l] \subseteq found[l]
    BY <2>2 DEF SteadyInv
  <2>7. ListComplete'
    BY <2>1, <2>2, <2>5, <2>6 DEF ListComplete
  <2> QED BY <2>3, <2>7
<1>7. ASSUME NEW l \in Lister, ListEnd(l) PROVE SteadyInv' /\ ListComplete'
  <2>1. /\ pc'[l] = "idle"
        /\ \A q \in Lister \ {l} : pc'[q] = pc[q]
    BY <1>7, GotoType DEF ListEnd, PC
  <2>2. /\ found'[l] = {} /\ steady'[l] = {}
        /\ \A q \in Lister \ {l} : /\ reply'[q] = reply[q] /\ found'[q] = found[q]
                                   /\ limit'[q] = limit[q] /\ steady'[q] = steady[q]
        /\ UNCHANGED <<redis, todo>>
    BY <1>7 DEF ListEnd, TypeOK
  <2>3. SteadyInv'
    BY <2>1, <2>2, FS_EmptySet DEF SteadyInv, IsRelay
  <2>4. ListComplete'
    BY <2>1, <2>2 DEF ListComplete
  <2> QED BY <2>3, <2>4
<1>8. CASE Tick
  BY <1>8, ListingStays DEF Tick
<1>9. CASE UNCHANGED vars
  BY <1>9, ListingStays DEF vars, listing
<1> QED BY <1>1, <1>2, <1>3, <1>4, <1>5, <1>6, <1>7, <1>8, <1>9 DEF Next, Request, ListStep

-----------------------------------------------------------------------------
\* The invariant holds in every state of NodeService, ModerationService and the stores.
THEOREM Invariance == Spec => []Inv
<1>1. Inv /\ [Next]_vars => Inv'
  BY StepType, StepRace, StepListing DEF Inv
<1> QED BY <1>1, InitInv, PTL DEF Spec

\* Every variable keeps its type, whatever commands fail or interleave: no key is without
\* some of its TTL, and RegisterNode and RefreshHeartbeat know what they SET.
THEOREM RegistryTypeCorrect == Spec => []TypeOK
<1>1. Inv => TypeOK
  BY DEF Inv
<1> QED BY <1>1, Invariance, PTL

\* GetActiveRelays answers within its limit, and an answer that is shorter has every
\* relay that kept its key from KEYS on and could be read.
THEOREM ListingsAreComplete == Spec => []ListComplete
<1>1. Inv => ListComplete
  BY DEF Inv
<1> QED BY <1>1, Invariance, PTL

\* While a ban is in force only a RegisterNode or a Heartbeat that had read the row
\* before the ban renews the presence of the node, or lifts the ban without an
\* administrator.
THEOREM EvadedByRace == Spec => BanEvadedByRaceOnly
<1>1. Inv /\ [Next]_vars =>
        [\A n \in Node : InForce(n) /\ (Renewed(n) \/ (Lifted(n) /\ ~AdminUnbanNode(n)))
            => \E c \in racers : node[c] = n /\ pc[c] # "idle"]_vars
  BY RenewedByRacer, LiftedByRacer DEF Inv, Lifted
<1> QED BY <1>1, Invariance, PTL DEF Spec, BanEvadedByRaceOnly
=============================================================================
