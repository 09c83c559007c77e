-------------------------- MODULE ChannelGovernance --------------------------
(***************************************************************************)
(* The channel service of the core server: ChannelData objects in a        *)
(* sync.Map, created, promoted in, demoted in and kicked from by handlers  *)
(* that run concurrently, with the signed requests of the SDK and the      *)
(* audit log in PostgreSQL.                                                *)
(*                                                                         *)
(* A handler is: check the signature and its time; Load the channel; then, *)
(* under the mutex of the object it loaded, check the role, change it and  *)
(* write the audit row.  CreateChannel is a Load and a Store.              *)
(***************************************************************************)
EXTENDS Basics

CONSTANTS Node,        \* node ids
          Registered,  \* nodes that GetNode finds in Redis or PostgreSQL
          Channel,     \* names that CreateChannel is called with
          Inicio,      \* the channel every core server starts with
          System,      \* its owner
          Handler,     \* goroutines that serve the RPCs
          Window,      \* the 60 seconds a signature is good for, in ticks
          Skew,        \* what the server's clock is ahead of a signer's, in ticks
          MaxCreates,  \* bound: channel objects created
          MaxSigned,   \* bound: requests signed
          MaxCalls,    \* bound: signed requests delivered
          MaxRestarts  \* bound: restarts of the core server

ASSUME GovernanceAssumption ==
    /\ Registered \subseteq Node /\ System \notin Node /\ Inicio \notin Channel
    /\ Window \in Nat /\ MaxCreates \in Nat /\ MaxSigned \in Nat /\ MaxCalls \in Nat
    /\ MaxRestarts \in Nat
    /\ Skew \subseteq -(Window + 1)..(Window + 1)

\* PromoteUser stores whatever role it is given; "" is the role DemoteUser and KickUser
\* put into the payload they check the signature of.
ChannelRole == {"ADMIN", "MODERATOR", "MEMBER", ""}
CallerRole == {"guest", "member", "admin", "owner"}
Object == 0..MaxCreates
Data == [owner : Node \cup {System}, members : SUBSET Node,
         roles : [Node -> ChannelRole \cup {None}], avatar : {"none"} \cup Node]
Oldest == Window + 1
Op == {"promote", "demote", "kick", "avatar"}

\* The payload that was signed, and its age by the server's clock; one for an avatar has
\* no role.  The operation is not part of it.
Request == [by : Node, target : Node, role : ChannelRole \cup {None},
            channel : Channel \cup {Inicio}, age : -Oldest..Oldest]
Call == [op : Op \cup {"create"}, by : Node, target : Node \cup {None},
         role : ChannelRole \cup {None}, channel : Channel \cup {Inicio},
         object : Object \cup {None}]

ASSUME GovernanceNoneAssumption ==
    /\ None \notin Node /\ None \notin ChannelRole /\ None \notin Object
    /\ None \notin Call

VARIABLES
    channels,  \* s.channels: the object of every channel that exists
    data,      \* the ChannelData objects, those replaced but still in use included
    signed,    \* requests that were signed and may still arrive, or arrive again
    call,      \* what every handler works on
    log,       \* governance_audit_log, since the server started
    creates, signings, calls, restarts,
    raced,     \* history: handlers past their Load when the channel was stored
    recreated, \* history: channels replaced in such a race since the server started
    unlogged   \* history: channels with a change whose audit row was not written

channelVars == <<channels, data, signed, call, log, creates, signings, calls,
                 restarts, raced, recreated, unlogged>>
budget == <<creates, signings, calls, restarts>>
history == <<raced, recreated, unlogged>>

Blank == [owner |-> System, members |-> {}, roles |-> [n \in Node |-> None],
          avatar |-> "none"]

\* bootstrap: #Inicio belongs to nobody and has no roles.
Bootstrap == [c \in Channel \cup {Inicio} |-> IF c = Inicio THEN 0 ELSE None]

GovernanceInit ==
    /\ channels = Bootstrap
    /\ data = [o \in Object |-> Blank]
    /\ signed = {}
    /\ call = [h \in Handler |-> None]
    /\ log = <<>>
    /\ creates = 0 /\ signings = 0 /\ calls = 0 /\ restarts = 0
    /\ raced = {} /\ recreated = {} /\ unlogged = {}

Working(op, n, t, r, c) ==
    [op |-> op, by |-> n, target |-> t, role |-> r, channel |-> c, object |-> None]

Return(h) ==
    /\ call' = [call EXCEPT ![h] = None]
    /\ raced' = raced \ {h}

(***************************************************************************)
(* CreateChannel, for a request that authorize lets through.               *)
(***************************************************************************)
\* Faulty variant: the name is not looked up.
CreateChannelUnchecked(h, n, c, role) ==
    /\ call[h] = None
    /\ role \in {"admin", "owner"}
    /\ call' = [call EXCEPT ![h] = Working("create", n, None, None, c)]
    /\ UNCHANGED <<channels, data, signed, log, budget, history>>

CreateChannel(h, n, c, role) ==
    /\ call[h] = None
    /\ role \in {"admin", "owner"}
    /\ channels[c] = None
    /\ call' = [call EXCEPT ![h] = Working("create", n, None, None, c)]
    /\ UNCHANGED <<channels, data, signed, log, budget, history>>

\* Creators of c that have found no channel and have not stored theirs.
Creators(c) == {h \in Handler : call[h] # None /\ call[h].op = "create"
                                /\ call[h].channel = c}

StoreChannel(h) ==
    LET c == call[h].channel
        n == call[h].by
    IN  /\ call[h] # None /\ call[h].op = "create" /\ creates < MaxCreates
        /\ creates' = creates + 1
        /\ data' = [data EXCEPT ![creates + 1] =
               [owner |-> n, members |-> {n}, avatar |-> "none",
                roles |-> [x \in Node |-> IF x = n THEN "ADMIN" ELSE None]]]
        /\ channels' = [channels EXCEPT ![c] = creates + 1]
        /\ recreated' = IF h \in raced THEN recreated \cup {c} ELSE recreated
        /\ raced' = (raced \cup Creators(c)) \ {h}
        /\ call' = [call EXCEPT ![h] = None]
        /\ UNCHANGED <<signed, log, signings, calls, restarts, unlogged>>

(***************************************************************************)
(* The SDK signs a request.  It may arrive at any time, and again.  Nobody *)
(* has a role in #Inicio, so requests for it change nothing.               *)
(***************************************************************************)
Sign(n, t, r, c) ==
    /\ signings < MaxSigned
    /\ signings' = signings + 1
    /\ r = None => t = n
    /\ \E k \in Skew :
          signed' = signed \cup {[by |-> n, target |-> t, role |-> r, channel |-> c,
                                 age |-> k]}
    /\ UNCHANGED <<channels, data, call, log, creates, calls, restarts, history>>

\* verifyGovernanceSignature, the time check: a timestamp may lie ahead as well.
InWindow(q) == -Window <= q.age /\ q.age <= Window

\* The payload a handler puts together from its arguments can be the one signed:
\* DemoteUser and KickUser leave the role empty, so a request for one fits the other.
Fits(q, op) ==
    CASE op = "avatar" -> q.role = None
      [] op = "promote" -> q.role # None
      [] op \in {"demote", "kick"} -> q.role = ""

\* GetNode finds the signer's public key.
GetNode(n) == n \in Registered

\* A request whose signer is registered and whose time is right reaches the channel;
\* the time of an avatar request is not checked.
Verify(h, q, op) ==
    /\ call[h] = None /\ q \in signed
    /\ calls < MaxCalls /\ calls' = calls + 1
    /\ GetNode(q.by)
    /\ Fits(q, op)
    /\ op = "avatar" \/ InWindow(q)
    /\ call' = [call EXCEPT ![h] = Working(op, q.by, q.target, q.role, q.channel)]
    /\ UNCHANGED <<channels, data, signed, log, creates, signings, restarts, history>>

\* channels.Load; a channel that does not exist ends the call.
LoadChannel(h) ==
    /\ call[h] # None /\ call[h].op # "create" /\ call[h].object = None
    /\ IF channels[call[h].channel] = None THEN Return(h)
       ELSE /\ call' = [call EXCEPT ![h].object = channels[call[h].channel]]
            /\ UNCHANGED raced
    /\ UNCHANGED <<channels, data, signed, log, budget, recreated, unlogged>>

HasLoaded(x, op) == x # None /\ x.op = op /\ x.object # None

RoleIn(x) == data[x.object].roles[x.by]

\* The audit row; the error of LogGovernanceAction is dropped.
Audit(x) ==
    \/ /\ log' = Append(log, [action |-> x.op, target |-> x.target, channel |-> x.channel])
       /\ UNCHANGED unlogged
    \/ /\ unlogged' = unlogged \cup {x.channel}
       /\ UNCHANGED log

\* The request is refused: nothing changes and no row is written.
Deny(h) ==
    /\ Return(h)
    /\ UNCHANGED <<data, log, unlogged>>

Same == UNCHANGED <<channels, signed, budget, recreated>>

PromoteUser(h) ==
    LET x == call[h]
    IN  /\ HasLoaded(x, "promote")
        /\ \/ /\ RoleIn(x) # "ADMIN"
              /\ Deny(h)
           \/ /\ RoleIn(x) = "ADMIN"
              /\ data' = [data EXCEPT ![x.object].roles[x.target] = x.role]
              /\ Audit(x)
              /\ Return(h)
        /\ Same

DemoteUser(h) ==
    LET x == call[h]
    IN  /\ HasLoaded(x, "demote")
        /\ \/ /\ RoleIn(x) # "ADMIN"
              /\ Deny(h)
           \/ /\ RoleIn(x) = "ADMIN"
              /\ data' = [data EXCEPT ![x.object].roles[x.target] = None]
              /\ Audit(x)
              /\ Return(h)
        /\ Same

\* Faulty variant: a kick leaves the role of the node that is kicked.
KickUserKeepsRole(h) ==
    LET x == call[h]
    IN  /\ HasLoaded(x, "kick")
        /\ \/ /\ RoleIn(x) \notin {"ADMIN", "MODERATOR"}
              /\ Deny(h)
           \/ /\ RoleIn(x) \in {"ADMIN", "MODERATOR"}
              /\ data' = [data EXCEPT ![x.object].members = @ \ {x.target}]
              /\ Audit(x)
              /\ Return(h)
        /\ Same

KickUser(h) ==
    LET x == call[h]
    IN  /\ HasLoaded(x, "kick")
        /\ \/ /\ RoleIn(x) \notin {"ADMIN", "MODERATOR"}
              /\ Deny(h)
           \/ /\ RoleIn(x) \in {"ADMIN", "MODERATOR"}
              /\ data' = [data EXCEPT ![x.object].members = @ \ {x.target},
                                      ![x.object].roles[x.target] = None]
              /\ Audit(x)
              /\ Return(h)
        /\ Same

\* The owner may set the avatar whatever its role; no audit row.
UpdateChannelAvatar(h) ==
    LET x == call[h]
    IN  /\ HasLoaded(x, "avatar")
        /\ data' = IF RoleIn(x) = "ADMIN" \/ data[x.object].owner = x.by
                   THEN [data EXCEPT ![x.object].avatar = x.by] ELSE data
        /\ Return(h)
        /\ UNCHANGED <<log, unlogged>>
        /\ Same

(***************************************************************************)
(* The clock, and a restart: channels are in memory only.                  *)
(***************************************************************************)
Older(x) == IF x = Oldest THEN x ELSE x + 1

GovernanceTick ==
    /\ signed # {}
    /\ signed' = {[q EXCEPT !.age = Older(@)] : q \in signed}
    /\ UNCHANGED <<channels, data, call, log, budget, history>>

RestartCore ==
    /\ restarts < MaxRestarts
    /\ restarts' = restarts + 1
    /\ channels' = Bootstrap
    /\ data' = [o \in Object |-> Blank]
    /\ call' = [h \in Handler |-> None]
    /\ log' = <<>>
    /\ raced' = {} /\ recreated' = {} /\ unlogged' = {}
    /\ UNCHANGED <<signed, creates, signings, calls>>

Serve(h) ==
    \/ \E n \in Node, c \in Channel \cup {Inicio}, r \in CallerRole :
          CreateChannel(h, n, c, r)
    \/ StoreChannel(h)
    \/ \E q \in signed, op \in Op : Verify(h, q, op)
    \/ LoadChannel(h)
    \/ PromoteUser(h) \/ DemoteUser(h) \/ KickUser(h) \/ UpdateChannelAvatar(h)

GovernanceNext ==
    \/ \E h \in Handler : Serve(h)
    \/ \E n \in Node, t \in Node, r \in ChannelRole \cup {None}, c \in Channel :
          Sign(n, t, r, c)
    \/ GovernanceTick
    \/ RestartCore

GovernanceSpec == GovernanceInit /\ [][GovernanceNext]_channelVars

(***************************************************************************)
(* Properties.                                                             *)
(***************************************************************************)
Row == [action : {"promote", "demote", "kick"}, target : Node,
        channel : Channel \cup {Inicio}]

\* Every variable has its type.
GovernanceTypeOK ==
    /\ channels \in [Channel \cup {Inicio} -> Object \cup {None}]
    /\ data \in [Object -> Data]
    /\ signed \in SUBSET Request
    /\ call \in [Handler -> Call \cup {None}]
    /\ log \in Seq(Row)
    /\ creates \in 0..MaxCreates /\ signings \in 0..MaxSigned
    /\ calls \in 0..MaxCalls /\ restarts \in 0..MaxRestarts
    /\ raced \in SUBSET Handler
    /\ recreated \in SUBSET Channel
    /\ unlogged \in SUBSET (Channel \cup {Inicio})

\* By the rows s of the audit log node n has a role in channel c, which o created: the
\* last row about n promotes it, or there is none and n is the creator.
HasRoleBy(s, o, n, c) ==
    LET rows == {i \in DOMAIN s : s[i].channel = c /\ s[i].target = n}
    IN  \/ rows = {} /\ n = o
        \/ \E i \in rows : s[i].action = "promote" /\ \A j \in rows : j <= i

HoldersByLog(c) == {n \in Node : HasRoleBy(log, data[channels[c]].owner, n, c)}

\* The audit log tells who has an entry among the roles of a channel, whichever handlers
\* ran at the same time, unless a row failed to be written or two creations of the
\* channel have overlapped.
AuditExplainsRoles ==
    \A c \in Channel \cup {Inicio} :
        channels[c] # None /\ c \notin recreated \cup unlogged =>
            {n \in Node : data[channels[c]].roles[n] # None} = HoldersByLog(c)

\* A channel that exists is replaced only by a CreateChannel that had looked its name
\* up before it was stored.
ReplacedByRaceOnly ==
    [][\A c \in Channel : channels[c] # None /\ channels'[c] \notin {channels[c], None}
          => \E h \in raced : call[h].channel = c /\ h \notin raced']_channelVars

\* The object a handler has loaded, and waits for the mutex of, is the one the channel
\* has: what it changes is not lost, unless two CreateChannel calls of the same name
\* have overlapped.
LoadedIsCurrent ==
    \A h \in Handler : call[h] # None /\ call[h].object # None =>
        call[h].object = channels[call[h].channel] \/ call[h].channel \in recreated
=============================================================================
