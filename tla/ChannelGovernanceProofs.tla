----------------------- MODULE ChannelGovernanceProofs -----------------------
(***************************************************************************)
(* Proofs about ChannelGovernance for every set of nodes, channels and     *)
(* handlers, every window and every number of requests and restarts.       *)
(***************************************************************************)
EXTENDS ChannelGovernance, TLAPS

AnyChannel == Channel \cup {Inicio}

\* A handler has what its request said; one that creates works for a name that may be
\* used, and has been overtaken if the name is in use by now.
CallInv ==
    \A h \in Handler : call[h] # None =>
        /\ call[h].op # "create" => call[h].target # None
        /\ call[h].op = "promote" => call[h].role # None
        /\ call[h].op = "create" =>
              /\ call[h].channel \in Channel /\ call[h].object = None
              /\ channels[call[h].channel] # None => h \in raced

\* An object belongs to one channel, and a channel that was stored once has only one
\* object, in the map and in the hands of the handlers.
ObjectInv ==
    /\ channels[Inicio] = 0
    /\ \A c \in AnyChannel : channels[c] # None => channels[c] <= creates
    /\ \A c, d \in AnyChannel : channels[c] # None /\ channels[c] = channels[d] => c = d
    /\ \A h \in Handler : call[h] # None /\ call[h].object # None =>
          /\ call[h].object <= creates
          /\ channels[call[h].channel] # None
          /\ call[h].channel \notin recreated =>
                call[h].object = channels[call[h].channel]
          /\ \A c \in AnyChannel : channels[c] = call[h].object => c = call[h].channel

\* The log has rows only for channels that exist.
LogInv == \A i \in 1..Len(log) : channels[log[i].channel] # None

GovernanceInv == GovernanceTypeOK /\ CallInv /\ ObjectInv /\ LogInv /\ AuditExplainsRoles

-----------------------------------------------------------------------------
LEMMA NoneIsNone ==
    /\ None \notin Node /\ None \notin ChannelRole /\ None \notin Object
    /\ None \notin Call
BY GovernanceNoneAssumption

\* What the log says after a row is added: the row decides about its own target and
\* changes nothing for the others.
LEMMA LogAppend ==
    ASSUME NEW s \in Seq(Row), NEW r \in Row
    PROVE  /\ Append(s, r) \in Seq(Row)
           /\ Len(Append(s, r)) = Len(s) + 1
           /\ DOMAIN Append(s, r) = 1..Len(s) + 1 /\ DOMAIN s = 1..Len(s)
           /\ \A i \in 1..Len(s) : Append(s, r)[i] = s[i]
           /\ Append(s, r)[Len(s) + 1] = r
           /\ Len(s) \in Nat
OBVIOUS

LEMMA RowDecides ==
    ASSUME NEW s \in Seq(Row), NEW r \in Row, NEW o
    PROVE  HasRoleBy(Append(s, r), o, r.target, r.channel) <=> r.action = "promote"
<1> DEFINE t == Append(s, r)
           k == Len(s) + 1
           rows == {i \in DOMAIN t : t[i].channel = r.channel /\ t[i].target = r.target}
<1>1. k \in rows /\ \A j \in rows : j \in Nat /\ j <= k
  BY LogAppend
<1>2. t[k] = r
  BY LogAppend
<1>3. ASSUME NEW i \in rows, \A j \in rows : j <= i PROVE i = k
  BY <1>1, <1>3, LogAppend
<1> QED BY <1>1, <1>2, <1>3 DEF HasRoleBy

LEMMA RowLeavesOthers ==
    ASSUME NEW s \in Seq(Row), NEW r \in Row, NEW o, NEW n, NEW c,
           r.target # n \/ r.channel # c
    PROVE  HasRoleBy(Append(s, r), o, n, c) <=> HasRoleBy(s, o, n, c)
<1> DEFINE t == Append(s, r)
           before == {i \in DOMAIN s : s[i].channel = c /\ s[i].target = n}
           after == {i \in DOMAIN t : t[i].channel = c /\ t[i].target = n}
<1>1. after = before
  BY LogAppend
<1>2. \A i \in before : t[i] = s[i]
  BY LogAppend
<1> QED BY <1>1, <1>2 DEF HasRoleBy

\* A log without rows about a channel says that its creator has a role.
LEMMA NoRows ==
    ASSUME NEW s \in Seq(Row), NEW o, NEW n, NEW c,
           \A i \in 1..Len(s) : s[i].channel # c
    PROVE  HasRoleBy(s, o, n, c) <=> n = o
<1>1. DOMAIN s = 1..Len(s)
  OBVIOUS
<1> QED BY <1>1 DEF HasRoleBy

-----------------------------------------------------------------------------
\* The initial states satisfy the invariant.
LEMMA GovernanceInvInit == GovernanceInit => GovernanceInv
<1> SUFFICES ASSUME GovernanceInit PROVE GovernanceInv
  OBVIOUS
<1> USE GovernanceAssumption, NoneIsNone DEF GovernanceInit, Bootstrap
<1>1. GovernanceTypeOK
  <2>1. Blank \in Data
    BY DEF Blank, Data
  <2> QED BY <2>1 DEF GovernanceTypeOK, Object
<1>2. CallInv
  BY DEF CallInv
<1>3. channels[Inicio] = 0 /\ \A c \in Channel : channels[c] = None
  OBVIOUS
<1>4. ObjectInv /\ LogInv
  BY <1>3 DEF ObjectInv, LogInv, AnyChannel
<1>5. AuditExplainsRoles
  <2> SUFFICES ASSUME NEW c \in Channel \cup {Inicio}, channels[c] # None
               PROVE  {n \in Node : data[channels[c]].roles[n] # None} = HoldersByLog(c)
    BY DEF AuditExplainsRoles
  <2>1. channels[c] \in Object
    BY <1>1 DEF GovernanceTypeOK
  <2>2. data[channels[c]] = Blank
    BY <2>1
  <2>3. \A n \in Node : ~HasRoleBy(log, System, n, c)
    <3>1. log \in Seq(Row) /\ Len(log) = 0
      OBVIOUS
    <3>2. ASSUME NEW n \in Node PROVE ~HasRoleBy(log, System, n, c)
      <4>1. n # System /\ \A i \in 1..Len(log) : log[i].channel # c
        BY <3>1
      <4> QED BY <3>1, <4>1, NoRows
    <3> QED BY <3>2
  <2> QED BY <2>2, <2>3 DEF HoldersByLog, Blank
<1> QED BY <1>1, <1>2, <1>4, <1>5 DEF GovernanceInv

\* What a change of one role, with or without a change of the members, does to the
\* objects.
LEMMA ChangeOfRole ==
    ASSUME GovernanceTypeOK, NEW o \in Object, NEW t \in Node,
           NEW r \in ChannelRole \cup {None},
           \/ data' = [data EXCEPT ![o].roles[t] = r]
           \/ data' = [data EXCEPT ![o].members = @ \ {t}, ![o].roles[t] = r]
    PROVE  /\ data' \in [Object -> Data]
           /\ \A p \in Object : data'[p].owner = data[p].owner
           /\ \A p \in Object : p # o => data'[p] = data[p]
           /\ \A n \in Node : data'[o].roles[n] = IF n = t THEN r ELSE data[o].roles[n]
<1>1. data[o] \in Data /\ data \in [Object -> Data]
  BY DEF GovernanceTypeOK
<1>2. /\ data[o].roles \in [Node -> ChannelRole \cup {None}]
      /\ data[o].members \in SUBSET Node
  BY <1>1 DEF Data
<1>3. \/ data'[o] = [data[o] EXCEPT !.roles[t] = r]
      \/ data'[o] = [data[o] EXCEPT !.members = @ \ {t}, !.roles[t] = r]
  BY <1>1
<1>4. /\ data'[o].owner = data[o].owner /\ data'[o].avatar = data[o].avatar
      /\ data'[o].members \in SUBSET Node
      /\ data'[o].roles = [data[o].roles EXCEPT ![t] = r]
  BY <1>1, <1>2, <1>3 DEF Data
<1>5. \A p \in Object : p # o => data'[p] = data[p]
  BY <1>1
<1>6. data'[o] \in Data
  <2>1. [data[o].roles EXCEPT ![t] = r] \in [Node -> ChannelRole \cup {None}]
    BY <1>2
  <2>2. CASE data'[o] = [data[o] EXCEPT !.roles[t] = r]
    BY <1>1, <1>2, <2>1, <2>2 DEF Data
  <2>3. CASE data'[o] = [data[o] EXCEPT !.members = @ \ {t}, !.roles[t] = r]
    BY <1>1, <1>2, <2>1, <2>3 DEF Data
  <2> QED BY <1>3, <2>2, <2>3
<1>7. data' \in [Object -> Data]
  BY <1>1, <1>5, <1>6
<1> QED BY <1>1, <1>2, <1>4, <1>5, <1>7

\* What a handler that has loaded its channel works on.
LEMMA LoadedType ==
    ASSUME GovernanceTypeOK, CallInv, NEW h \in Handler, NEW op \in {"promote", "demote", "kick", "avatar"},
           HasLoaded(call[h], op)
    PROVE  /\ call[h] \in Call /\ call[h] # None /\ call[h].op = op
           /\ call[h].object \in Object /\ call[h].by \in Node
           /\ call[h].target \in Node /\ call[h].channel \in AnyChannel
           /\ op = "promote" => call[h].role \in ChannelRole
           /\ op # "avatar" => [action |-> call[h].op, target |-> call[h].target,
                               channel |-> call[h].channel] \in Row
<1>1. call[h] \in Call /\ call[h] # None /\ call[h].op = op /\ call[h].object # None
  BY DEF HasLoaded, GovernanceTypeOK
<1> QED BY <1>1 DEF Call, CallInv, Row, AnyChannel

\* A change of a role that is in force, with the audit row written or not.
RoleChange(h, r) ==
    LET x == call[h]
    IN  /\ \/ data' = [data EXCEPT ![x.object].roles[x.target] = r]
           \/ data' = [data EXCEPT ![x.object].members = @ \ {x.target},
                                   ![x.object].roles[x.target] = r]
        /\ Audit(x)
        /\ Return(h)
        /\ Same

\* The handlers that change roles either deny or make a change of this kind.
LEMMA GovernedSteps ==
    ASSUME GovernanceTypeOK, CallInv, NEW h \in Handler,
           PromoteUser(h) \/ DemoteUser(h) \/ KickUser(h)
    PROVE  \/ Deny(h) /\ Same
           \/ \E r \in ChannelRole \cup {None}, op \in {"promote", "demote", "kick"} :
                 /\ HasLoaded(call[h], op)
                 /\ r # None <=> op = "promote"
                 /\ op = "promote" => RoleIn(call[h]) = "ADMIN"
                 /\ RoleChange(h, r)
<1> USE NoneIsNone
<1>1. CASE PromoteUser(h)
  BY <1>1, LoadedType DEF PromoteUser, RoleChange
<1>2. CASE DemoteUser(h)
  BY <1>2 DEF DemoteUser, RoleChange
<1>3. CASE KickUser(h)
  BY <1>3 DEF KickUser, RoleChange
<1> QED BY <1>1, <1>2, <1>3

-----------------------------------------------------------------------------
LEMMA OlderType ==
    ASSUME NEW x \in -Oldest..Oldest
    PROVE  Older(x) \in -Oldest..Oldest
BY GovernanceAssumption DEF Older, Oldest

\* A handler that ends leaves the others as they are.
LEMMA ReturnType ==
    ASSUME GovernanceTypeOK, NEW h \in Handler, Return(h)
    PROVE  /\ call' \in [Handler -> Call \cup {None}] /\ raced' \in SUBSET Handler
           /\ call'[h] = None
           /\ \A g \in Handler : g # h => call'[g] = call[g]
           /\ \A g \in Handler : g # h => (g \in raced' <=> g \in raced)
BY DEF Return, GovernanceTypeOK

LEMMA WorkingType ==
    ASSUME NEW op \in Op \cup {"create"}, NEW n \in Node, NEW t \in Node \cup {None},
           NEW r \in ChannelRole \cup {None}, NEW c \in AnyChannel
    PROVE  /\ Working(op, n, t, r, c) \in Call
           /\ Working(op, n, t, r, c).op = op /\ Working(op, n, t, r, c).target = t
           /\ Working(op, n, t, r, c).role = r /\ Working(op, n, t, r, c).channel = c
           /\ Working(op, n, t, r, c).object = None
BY DEF Working, Call, AnyChannel

\* The audit row is of the right type, for one of the channels.
LEMMA AuditType ==
    ASSUME GovernanceTypeOK, NEW x, Audit(x), x.channel \in AnyChannel,
           [action |-> x.op, target |-> x.target, channel |-> x.channel] \in Row
    PROVE  log' \in Seq(Row) /\ unlogged' \in SUBSET AnyChannel
<1>1. log \in Seq(Row) /\ unlogged \in SUBSET AnyChannel
  BY DEF GovernanceTypeOK, AnyChannel
<1>2. log' \in Seq(Row)
  BY <1>1, LogAppend DEF Audit
<1>3. unlogged' \in SUBSET AnyChannel
  BY <1>1 DEF Audit
<1> QED BY <1>2, <1>3

\* Every step keeps the types.
LEMMA GovernanceStepType ==
    ASSUME GovernanceTypeOK, CallInv, ObjectInv, [GovernanceNext]_channelVars
    PROVE  GovernanceTypeOK'
<1> USE GovernanceAssumption, NoneIsNone
<1>1. ASSUME NEW h \in Handler, NEW n \in Node, NEW c \in AnyChannel, NEW r \in CallerRole,
             CreateChannel(h, n, c, r)
      PROVE  GovernanceTypeOK'
  <2>1. Working("create", n, None, None, c) \in Call
    BY WorkingType
  <2> QED BY <1>1, <2>1 DEF CreateChannel, GovernanceTypeOK, budget, history
<1>2. ASSUME NEW h \in Handler, StoreChannel(h) PROVE GovernanceTypeOK'
  <2>1. /\ call[h] \in Call /\ call[h].by \in Node /\ call[h].channel \in Channel
        /\ creates \in Nat /\ creates + 1 \in Object
    BY <1>2 DEF StoreChannel, GovernanceTypeOK, CallInv, Call, Object
  <2>2. [owner |-> call[h].by, members |-> {call[h].by}, avatar |-> "none",
         roles |-> [x \in Node |-> IF x = call[h].by THEN "ADMIN" ELSE None]] \in Data
    BY <2>1 DEF Data, ChannelRole
  <2>3. data' \in [Object -> Data]
    BY <1>2, <2>1, <2>2 DEF StoreChannel, GovernanceTypeOK
  <2>4. channels' \in [Channel \cup {Inicio} -> Object \cup {None}]
    BY <1>2, <2>1 DEF StoreChannel, GovernanceTypeOK
  <2>5. call' \in [Handler -> Call \cup {None}] /\ raced' \in SUBSET Handler
        /\ recreated' \in SUBSET Channel
    BY <1>2, <2>1 DEF StoreChannel, GovernanceTypeOK, Creators
  <2> QED BY <1>2, <2>1, <2>3, <2>4, <2>5 DEF StoreChannel, GovernanceTypeOK
<1>3. ASSUME NEW h \in Handler, NEW q \in signed, NEW op \in Op, Verify(h, q, op)
      PROVE  GovernanceTypeOK'
  <2>1. Working(op, q.by, q.target, q.role, q.channel) \in Call
    BY <1>3, WorkingType DEF GovernanceTypeOK, Request, AnyChannel
  <2> QED BY <1>3, <2>1 DEF Verify, GovernanceTypeOK, history
<1>4. ASSUME NEW h \in Handler, LoadChannel(h) PROVE GovernanceTypeOK'
  <2>1. CASE Return(h)
    BY <1>4, <2>1, ReturnType DEF LoadChannel, GovernanceTypeOK, budget
  <2>2. CASE /\ channels[call[h].channel] # None /\ raced' = raced
             /\ call' = [call EXCEPT ![h].object = channels[call[h].channel]]
    <3>1. call[h] \in Call /\ channels[call[h].channel] \in Object
      BY <1>4, <2>2 DEF LoadChannel, GovernanceTypeOK, Call
    <3>2. call' \in [Handler -> Call \cup {None}]
      BY <2>2, <3>1 DEF GovernanceTypeOK, Call
    <3> QED BY <1>4, <2>2, <3>2 DEF LoadChannel, GovernanceTypeOK, budget
  <2> QED BY <1>4, <2>1, <2>2 DEF LoadChannel
<1>5. ASSUME NEW h \in Handler, PromoteUser(h) \/ DemoteUser(h) \/ KickUser(h)
      PROVE  GovernanceTypeOK'
  <2>1. CASE Deny(h) /\ Same
    BY <2>1, ReturnType DEF Deny, Same, GovernanceTypeOK, budget
  <2>2. ASSUME NEW r \in ChannelRole \cup {None}, NEW op \in {"promote", "demote", "kick"},
               HasLoaded(call[h], op), RoleChange(h, r)
        PROVE  GovernanceTypeOK'
    <3>0. call[h].object \in Object /\ call[h].target \in Node
      BY <2>2, LoadedType
    <3>1. data' \in [Object -> Data]
      BY <2>2, <3>0, ChangeOfRole DEF RoleChange
    <3>2. log' \in Seq(Row) /\ unlogged' \in SUBSET (Channel \cup {Inicio})
      BY <2>2, LoadedType, AuditType DEF RoleChange, AnyChannel
    <3>3. UNCHANGED signed
      BY <2>2 DEF RoleChange, Same
    <3>4. call' \in [Handler -> Call \cup {None}] /\ raced' \in SUBSET Handler
      BY <2>2, ReturnType DEF RoleChange
    <3> QED BY <2>2, <3>1, <3>2, <3>3, <3>4 DEF RoleChange, Same, GovernanceTypeOK, budget
  <2> QED BY <1>5, <2>1, <2>2, GovernedSteps
<1>6. ASSUME NEW h \in Handler, UpdateChannelAvatar(h) PROVE GovernanceTypeOK'
  <2>1. call[h].object \in Object /\ call[h].by \in Node
    BY <1>6, LoadedType DEF UpdateChannelAvatar
  <2>2. [data[call[h].object] EXCEPT !.avatar = call[h].by] \in Data
    <3>1. data[call[h].object] \in Data
      BY <2>1 DEF GovernanceTypeOK
    <3> QED BY <2>1, <3>1 DEF Data
  <2>3. data' \in [Object -> Data]
    BY <1>6, <2>1, <2>2 DEF UpdateChannelAvatar, GovernanceTypeOK
  <2> QED BY <1>6, <2>3, ReturnType DEF UpdateChannelAvatar, Same, GovernanceTypeOK, budget
<1>7. ASSUME NEW n \in Node, NEW t \in Node, NEW r \in ChannelRole \cup {None},
             NEW c \in Channel, Sign(n, t, r, c)
      PROVE  GovernanceTypeOK'
  <2>1. PICK k \in Skew : signed' = signed \cup {[by |-> n, target |-> t, role |-> r,
                                                 channel |-> c, age |-> k]}
    BY <1>7 DEF Sign
  <2>2. [by |-> n, target |-> t, role |-> r, channel |-> c, age |-> k] \in Request
    <3>1. k \in -Oldest..Oldest
      BY DEF Oldest
    <3> QED BY <3>1 DEF Request
  <2> QED BY <1>7, <2>1, <2>2 DEF Sign, GovernanceTypeOK, history
<1>8. CASE GovernanceTick
  <2>1. \A q \in signed : [q EXCEPT !.age = Older(@)] \in Request
    <3> SUFFICES ASSUME NEW q \in signed
                 PROVE  [q EXCEPT !.age = Older(@)] \in Request
      OBVIOUS
    <3>1. q \in Request /\ q.age \in -Oldest..Oldest
      BY DEF GovernanceTypeOK, Request
    <3>2. Older(q.age) \in -Oldest..Oldest
      BY <3>1, OlderType
    <3> QED BY <3>1, <3>2 DEF Request
  <2> QED BY <1>8, <2>1 DEF GovernanceTick, GovernanceTypeOK, budget, history
<1>9. CASE RestartCore
  <2>1. Blank \in Data
    BY DEF Blank, Data
  <2>2. Bootstrap \in [Channel \cup {Inicio} -> Object \cup {None}]
    BY DEF Bootstrap, Object
  <2> QED BY <1>9, <2>1, <2>2 DEF RestartCore, GovernanceTypeOK
<1>10. CASE UNCHANGED channelVars
  BY <1>10 DEF channelVars, GovernanceTypeOK
<1> QED
  BY <1>1, <1>2, <1>3, <1>4, <1>5, <1>6, <1>7, <1>8, <1>9, <1>10
  DEF GovernanceNext, Serve, AnyChannel

-----------------------------------------------------------------------------
\* A handler that ends, or goes on with its channel loaded, leaves CallInv true as
\* long as no name is stored.
LEMMA CallsReturn ==
    ASSUME GovernanceTypeOK, CallInv, NEW h \in Handler, Return(h), UNCHANGED channels
    PROVE  CallInv'
<1>1. /\ call'[h] = None
      /\ \A g \in Handler : g # h => call'[g] = call[g] /\ (g \in raced' <=> g \in raced)
  BY ReturnType
<1> QED BY <1>1 DEF CallInv

\* Every step keeps what is known of the handlers: StoreChannel marks every handler that
\* has found the name free.
LEMMA StepCall ==
    ASSUME GovernanceTypeOK, CallInv, ObjectInv, [GovernanceNext]_channelVars
    PROVE  CallInv'
<1> USE GovernanceAssumption, NoneIsNone
<1>1. ASSUME NEW h \in Handler, NEW n \in Node, NEW c \in AnyChannel, NEW r \in CallerRole,
             CreateChannel(h, n, c, r)
      PROVE  CallInv'
  <2>1. c \in Channel
    BY <1>1 DEF CreateChannel, ObjectInv, AnyChannel, Object
  <2>2. /\ call'[h] = Working("create", n, None, None, c)
        /\ \A g \in Handler : g # h => call'[g] = call[g]
        /\ channels' = channels /\ raced' = raced /\ channels[c] = None
    BY <1>1 DEF CreateChannel, GovernanceTypeOK, history
  <2> QED BY <2>1, <2>2, WorkingType DEF CallInv
<1>2. ASSUME NEW h \in Handler, StoreChannel(h) PROVE CallInv'
  <2>1. /\ call'[h] = None
        /\ \A g \in Handler : g # h => call'[g] = call[g]
    BY <1>2 DEF StoreChannel, GovernanceTypeOK
  <2>2. \A g \in Handler : g # h /\ g \in raced => g \in raced'
    BY <1>2 DEF StoreChannel
  <2>3. \A g \in Handler :
            g # h /\ call[g] # None /\ call[g].op = "create"
              /\ call[g].channel = call[h].channel => g \in raced'
    BY <1>2 DEF StoreChannel, Creators
  <2>4. \A c \in Channel : c # call[h].channel => channels'[c] = channels[c]
    BY <1>2 DEF StoreChannel, GovernanceTypeOK
  <2> QED BY <2>1, <2>2, <2>3, <2>4 DEF CallInv
<1>3. ASSUME NEW h \in Handler, NEW q \in signed, NEW op \in Op, Verify(h, q, op)
      PROVE  CallInv'
  <2>1. /\ q.by \in Node /\ q.target \in Node
        /\ q.role \in ChannelRole \cup {None} /\ q.channel \in AnyChannel
    BY DEF GovernanceTypeOK, Request, AnyChannel
  <2>2. /\ call'[h] = Working(op, q.by, q.target, q.role, q.channel)
        /\ \A g \in Handler : g # h => call'[g] = call[g]
        /\ channels' = channels /\ raced' = raced
        /\ op = "promote" => q.role # None
    BY <1>3 DEF Verify, Fits, GovernanceTypeOK, history
  <2>3. /\ call'[h].op = op /\ call'[h].target = q.target /\ call'[h].role = q.role
        /\ op # "create"
    BY <2>1, <2>2 DEF Op, Working
  <2> QED BY <2>1, <2>2, <2>3 DEF CallInv
<1>4. ASSUME NEW h \in Handler, LoadChannel(h) PROVE CallInv'
  <2>1. CASE Return(h)
    BY <1>4, <2>1, CallsReturn DEF LoadChannel
  <2>2. CASE /\ raced' = raced
             /\ call' = [call EXCEPT ![h].object = channels[call[h].channel]]
    <3>1. call[h] \in Call /\ call[h] # None /\ call[h].op # "create" /\ channels' = channels
      BY <1>4 DEF LoadChannel, GovernanceTypeOK
    <3>2. /\ call'[h].op = call[h].op /\ call'[h].target = call[h].target
          /\ call'[h].role = call[h].role
          /\ \A g \in Handler : g # h => call'[g] = call[g]
      BY <2>2, <3>1 DEF GovernanceTypeOK, Call
    <3> QED BY <2>2, <3>1, <3>2 DEF CallInv
  <2> QED BY <1>4, <2>1, <2>2 DEF LoadChannel
<1>5. ASSUME NEW h \in Handler, PromoteUser(h) \/ DemoteUser(h) \/ KickUser(h)
      PROVE  CallInv'
  BY <1>5, GovernedSteps, CallsReturn DEF Deny, RoleChange, Same
<1>6. ASSUME NEW h \in Handler, UpdateChannelAvatar(h) PROVE CallInv'
  BY <1>6, CallsReturn DEF UpdateChannelAvatar, Same
<1>7. CASE \/ \E n \in Node, t \in Node, r \in ChannelRole \cup {None}, c \in Channel :
                 Sign(n, t, r, c)
           \/ GovernanceTick \/ UNCHANGED channelVars
  BY <1>7 DEF Sign, GovernanceTick, channelVars, history, CallInv
<1>8. CASE RestartCore
  BY <1>8 DEF RestartCore, CallInv
<1> QED BY <1>1, <1>2, <1>3, <1>4, <1>5, <1>6, <1>7, <1>8
        DEF GovernanceNext, Serve, AnyChannel

-----------------------------------------------------------------------------
\* As long as no channel is stored, a step whose handlers only drop what they had
\* loaded, or load what the map has, keeps the objects apart.
LEMMA ObjectsStay ==
    ASSUME GovernanceTypeOK, ObjectInv, UNCHANGED <<channels, creates, recreated>>,
           \A g \in Handler : call'[g] # None /\ call'[g].object # None =>
               \/ call'[g] = call[g]
               \/ /\ call'[g].channel \in AnyChannel
                  /\ channels[call'[g].channel] # None
                  /\ call'[g].object = channels[call'[g].channel]
    PROVE  ObjectInv'
BY DEF ObjectInv

\* Every step keeps the objects of the channels apart.
LEMMA StepObject ==
    ASSUME GovernanceTypeOK, CallInv, ObjectInv, [GovernanceNext]_channelVars
    PROVE  ObjectInv'
<1> USE GovernanceAssumption, NoneIsNone
<1>1. ASSUME NEW h \in Handler, NEW n \in Node, NEW c \in AnyChannel, NEW r \in CallerRole,
             CreateChannel(h, n, c, r)
      PROVE  ObjectInv'
  <2>1. /\ call'[h].object = None
        /\ \A g \in Handler : g # h => call'[g] = call[g]
    BY <1>1 DEF CreateChannel, GovernanceTypeOK, Working
  <2> QED BY <1>1, <2>1, ObjectsStay DEF CreateChannel, budget, history
<1>2. ASSUME NEW h \in Handler, StoreChannel(h) PROVE ObjectInv'
  <2>1. /\ call[h].channel \in Channel /\ creates \in Nat /\ creates' = creates + 1
        /\ channels' = [channels EXCEPT ![call[h].channel] = creates + 1]
        /\ creates + 1 \in Object
    BY <1>2 DEF StoreChannel, GovernanceTypeOK, CallInv, Object
  <2>2. /\ channels'[call[h].channel] = creates + 1
        /\ \A d \in AnyChannel : d # call[h].channel => channels'[d] = channels[d]
    BY <2>1 DEF GovernanceTypeOK, AnyChannel
  <2>3. \A g \in Handler : call'[g] # None => call'[g] = call[g]
    BY <1>2 DEF StoreChannel, GovernanceTypeOK
  <2>4. \A d \in AnyChannel : channels[d] # None => channels[d] \in Nat
    BY DEF GovernanceTypeOK, AnyChannel, Object
  <2>5. channels'[Inicio] = 0
    BY <2>1, <2>2 DEF ObjectInv, AnyChannel
  <2>6. \A d \in AnyChannel : channels'[d] # None => channels'[d] <= creates'
    BY <2>1, <2>2, <2>4 DEF ObjectInv
  <2>7. \A d, e \in AnyChannel : channels'[d] # None /\ channels'[d] = channels'[e] => d = e
    BY <2>1, <2>2, <2>4 DEF ObjectInv
  <2>8. ASSUME NEW g \in Handler, call'[g] # None, call'[g].object # None
        PROVE  /\ call'[g].object <= creates'
               /\ channels'[call'[g].channel] # None
               /\ call'[g].channel \notin recreated' =>
                     call'[g].object = channels'[call'[g].channel]
               /\ \A d \in AnyChannel : channels'[d] = call'[g].object => d = call'[g].channel
    <3>1. call'[g] = call[g] /\ call[g].object \in Nat /\ call[g].channel \in AnyChannel
      BY <2>3, <2>8 DEF GovernanceTypeOK, Call, Object, AnyChannel
    <3>2. call[g].object <= creates /\ channels[call[g].channel] # None
      BY <2>8, <3>1 DEF ObjectInv
    <3>3. channels[call[h].channel] # None =>
             recreated' = recreated \cup {call[h].channel}
      BY <1>2 DEF StoreChannel, CallInv
    <3>4. recreated \subseteq recreated'
      BY <1>2 DEF StoreChannel
    <3>5. call'[g].object <= creates' /\ channels'[call'[g].channel] # None
      BY <2>1, <2>2, <3>1, <3>2
    <3>6. call'[g].channel \notin recreated' => call'[g].object = channels'[call'[g].channel]
      BY <2>2, <2>8, <3>1, <3>2, <3>3, <3>4 DEF ObjectInv
    <3>7. \A d \in AnyChannel : channels'[d] = call'[g].object => d = call'[g].channel
      BY <2>1, <2>2, <2>8, <3>1, <3>2 DEF ObjectInv
    <3> QED BY <3>5, <3>6, <3>7
  <2> QED BY <2>5, <2>6, <2>7, <2>8 DEF ObjectInv
<1>3. ASSUME NEW h \in Handler, NEW q \in signed, NEW op \in Op, Verify(h, q, op)
      PROVE  ObjectInv'
  <2>1. /\ call'[h].object = None
        /\ \A g \in Handler : g # h => call'[g] = call[g]
    BY <1>3 DEF Verify, GovernanceTypeOK, Working
  <2> QED BY <1>3, <2>1, ObjectsStay DEF Verify, history
<1>4. ASSUME NEW h \in Handler, LoadChannel(h) PROVE ObjectInv'
  <2>1. CASE Return(h)
    BY <1>4, <2>1, ReturnType, ObjectsStay DEF LoadChannel, budget
  <2>2. CASE /\ channels[call[h].channel] # None
             /\ call' = [call EXCEPT ![h].object = channels[call[h].channel]]
    <3>1. call[h] \in Call /\ call[h].channel \in AnyChannel
      BY <1>4 DEF LoadChannel, GovernanceTypeOK, Call, AnyChannel
    <3>2. /\ call'[h].object = channels[call[h].channel]
          /\ call'[h].channel = call[h].channel
          /\ \A g \in Handler : g # h => call'[g] = call[g]
      BY <2>2, <3>1 DEF GovernanceTypeOK, Call
    <3> QED BY <1>4, <2>2, <3>1, <3>2, ObjectsStay DEF LoadChannel, budget
  <2> QED BY <1>4, <2>1, <2>2 DEF LoadChannel
<1>5. ASSUME NEW h \in Handler, PromoteUser(h) \/ DemoteUser(h) \/ KickUser(h)
      PROVE  ObjectInv'
  <2>1. Return(h) /\ UNCHANGED <<channels, creates, recreated>>
    BY <1>5, GovernedSteps DEF Deny, RoleChange, Same, budget
  <2> QED BY <2>1, ReturnType, ObjectsStay
<1>6. ASSUME NEW h \in Handler, UpdateChannelAvatar(h) PROVE ObjectInv'
  <2>1. Return(h) /\ UNCHANGED <<channels, creates, recreated>>
    BY <1>6 DEF UpdateChannelAvatar, Same, budget
  <2> QED BY <2>1, ReturnType, ObjectsStay
<1>7. CASE \/ \E n \in Node, t \in Node, r \in ChannelRole \cup {None}, c \in Channel :
                 Sign(n, t, r, c)
           \/ GovernanceTick \/ UNCHANGED channelVars
  <2>1. UNCHANGED <<channels, creates, recreated, call>>
    BY <1>7 DEF Sign, GovernanceTick, channelVars, history, budget
  <2> QED BY <2>1, ObjectsStay
<1>8. CASE RestartCore
  <2>1. channels'[Inicio] = 0 /\ \A c \in Channel : channels'[c] = None
    BY <1>8 DEF RestartCore, Bootstrap
  <2>2. \A g \in Handler : call'[g] = None
    BY <1>8 DEF RestartCore
  <2>3. creates' \in Nat
    BY <1>8 DEF RestartCore, GovernanceTypeOK
  <2> QED BY <2>1, <2>2, <2>3 DEF ObjectInv, AnyChannel, Object
<1> QED BY <1>1, <1>2, <1>3, <1>4, <1>5, <1>6, <1>7, <1>8
        DEF GovernanceNext, Serve, AnyChannel

-----------------------------------------------------------------------------
\* A step that changes no role, no log and no entry of the map.
LEMMA AuditStays ==
    ASSUME GovernanceTypeOK, LogInv, AuditExplainsRoles,
           UNCHANGED <<channels, log, recreated, unlogged>>,
           \A o \in Object : data'[o].roles = data[o].roles /\ data'[o].owner = data[o].owner
    PROVE  LogInv' /\ AuditExplainsRoles'
<1>1. LogInv'
  BY DEF LogInv
<1>2. \A c \in AnyChannel : channels[c] # None => channels[c] \in Object
  BY DEF GovernanceTypeOK, AnyChannel
<1>3. AuditExplainsRoles'
  BY <1>2 DEF AuditExplainsRoles, HoldersByLog, AnyChannel
<1> QED BY <1>1, <1>3

\* A new channel: its creator has the only role, and the log has no row about it.
LEMMA StoreAudited ==
    ASSUME GovernanceInv, NEW h \in Handler, StoreChannel(h)
    PROVE  LogInv' /\ AuditExplainsRoles'
<1> USE GovernanceAssumption, NoneIsNone
<1> DEFINE c == call[h].channel
           n == call[h].by
<1>1. /\ c \in Channel /\ n \in Node /\ creates \in Nat /\ creates + 1 \in Object
      /\ log' = log /\ log \in Seq(Row) /\ unlogged' = unlogged
  BY DEF StoreChannel, GovernanceInv, GovernanceTypeOK, CallInv, Call, Object
<1>2. /\ channels'[c] = creates + 1
      /\ \A d \in AnyChannel : d # c => channels'[d] = channels[d]
  BY <1>1 DEF StoreChannel, GovernanceInv, GovernanceTypeOK, AnyChannel
<1>3. /\ data'[creates + 1].owner = n
      /\ data'[creates + 1].roles = [x \in Node |-> IF x = n THEN "ADMIN" ELSE None]
      /\ \A o \in Object : o # creates + 1 => data'[o] = data[o]
  BY <1>1 DEF StoreChannel, GovernanceInv, GovernanceTypeOK
<1>4. \A d \in AnyChannel : channels[d] # None => channels[d] \in Object /\ channels[d] <= creates
  BY DEF GovernanceInv, GovernanceTypeOK, ObjectInv, AnyChannel
<1>5. \A i \in 1..Len(log) : log[i].channel \in AnyChannel
  <2>1. \A i \in 1..Len(log) : log[i] \in Row
    BY <1>1
  <2> QED BY <2>1 DEF Row, AnyChannel
<1>6. LogInv'
  BY <1>1, <1>2, <1>5 DEF LogInv, GovernanceInv
<1>7. ASSUME NEW d \in AnyChannel, channels'[d] # None, d \notin recreated' \cup unlogged'
      PROVE  \A x \in Node : data'[channels'[d]].roles[x] # None
                               <=> HasRoleBy(log', data'[channels'[d]].owner, x, d)
  <2>1. CASE d = c
    <3>1. h \notin raced
      BY <1>7, <2>1 DEF StoreChannel
    <3>0. channels[c] = None
      BY <3>1 DEF StoreChannel, GovernanceInv, CallInv
    <3>2. \A i \in 1..Len(log) : log[i].channel # c
      BY <3>0 DEF GovernanceInv, LogInv
    <3>3. ASSUME NEW x \in Node PROVE HasRoleBy(log, n, x, c) <=> x = n
      BY <1>1, <3>2, NoRows
    <3>4. \A x \in Node : data'[channels'[d]].roles[x] # None <=> x = n
      <4>1. "ADMIN" # None
        BY DEF ChannelRole
      <4>2. data'[channels'[d]].roles = [x \in Node |-> IF x = n THEN "ADMIN" ELSE None]
        BY <1>2, <1>3, <2>1
      <4> QED BY <4>1, <4>2
    <3> QED BY <1>1, <1>2, <1>3, <2>1, <3>3, <3>4
  <2>2. CASE d # c
    <3>1. channels'[d] = channels[d] /\ channels[d] # None /\ channels[d] # creates + 1
      BY <1>1, <1>2, <1>4, <1>7, <2>2 DEF Object
    <3>2. data'[channels'[d]] = data[channels[d]]
      BY <1>3, <1>4, <3>1
    <3>3. d \notin recreated \cup unlogged
      BY <1>7, <1>1 DEF StoreChannel
    <3>4. {x \in Node : data[channels[d]].roles[x] # None} = HoldersByLog(d)
      BY <3>1, <3>3 DEF GovernanceInv, AuditExplainsRoles, AnyChannel
    <3> QED BY <1>1, <3>2, <3>4 DEF HoldersByLog
  <2> QED BY <2>1, <2>2
<1>8. AuditExplainsRoles'
  BY <1>7 DEF AuditExplainsRoles, HoldersByLog, AnyChannel
<1> QED BY <1>6, <1>8

\* A change of a role: the row that is written says what was done, and concerns the
\* object the handler had loaded only if the channel was stored once.
LEMMA ChangeAudited ==
    ASSUME GovernanceInv, NEW h \in Handler, NEW r \in ChannelRole \cup {None},
           NEW op \in {"promote", "demote", "kick"},
           HasLoaded(call[h], op), r # None <=> op = "promote", RoleChange(h, r)
    PROVE  LogInv' /\ AuditExplainsRoles'
<1> USE NoneIsNone
<1> DEFINE x == call[h]
           row == [action |-> x.op, target |-> x.target, channel |-> x.channel]
<1>1. /\ x # None /\ x.object # None /\ x.object \in Object /\ x.target \in Node
      /\ x.channel \in AnyChannel /\ row \in Row /\ x.op = op
  BY LoadedType DEF GovernanceInv
<1>2. /\ \A p \in Object : data'[p].owner = data[p].owner
      /\ \A p \in Object : p # x.object => data'[p] = data[p]
      /\ \A n \in Node : data'[x.object].roles[n] =
                            IF n = x.target THEN r ELSE data[x.object].roles[n]
  BY <1>1, ChangeOfRole DEF RoleChange, GovernanceInv
<1>3. channels' = channels /\ recreated' = recreated /\ log \in Seq(Row)
  BY DEF RoleChange, Same, GovernanceInv, GovernanceTypeOK
<1>4. /\ channels[x.channel] # None
      /\ x.channel \notin recreated => x.object = channels[x.channel]
      /\ \A c \in AnyChannel : channels[c] = x.object => c = x.channel
  BY <1>1 DEF GovernanceInv, ObjectInv
<1>5. \/ log' = Append(log, row) /\ unlogged' = unlogged
      \/ log' = log /\ unlogged' = unlogged \cup {x.channel}
  BY DEF RoleChange, Audit
<1>6. LogInv'
  <2>1. CASE log' = log
    BY <1>3, <2>1 DEF LogInv, GovernanceInv
  <2>2. CASE log' = Append(log, row)
    BY <1>1, <1>3, <1>4, <2>2, LogAppend DEF LogInv, GovernanceInv
  <2> QED BY <1>5, <2>1, <2>2
<1>7. ASSUME NEW d \in AnyChannel, channels'[d] # None, d \notin recreated' \cup unlogged',
             NEW n \in Node
      PROVE  data'[channels'[d]].roles[n] # None
                <=> HasRoleBy(log', data'[channels'[d]].owner, n, d)
  <2> DEFINE o == channels[d]
  <2>1. /\ o \in Object /\ channels'[d] = o /\ data'[o].owner = data[o].owner
        /\ d \notin recreated \cup unlogged
    BY <1>2, <1>3, <1>5, <1>7 DEF GovernanceInv, GovernanceTypeOK, AnyChannel
  <2>2. data[o].roles[n] # None <=> HasRoleBy(log, data[o].owner, n, d)
    BY <1>3, <1>7, <2>1 DEF GovernanceInv, AuditExplainsRoles, HoldersByLog, AnyChannel
  <2>3. CASE d = x.channel
    <3>1. log' = Append(log, row) /\ x.object = o
      BY <1>3, <1>4, <1>5, <1>7, <2>1, <2>3
    <3>2. CASE n = x.target
      <4>1. HasRoleBy(log', data[o].owner, n, d) <=> row.action = "promote"
        BY <1>1, <1>3, <2>3, <3>1, <3>2, RowDecides
      <4>2. data'[o].roles[n] # None <=> op = "promote"
        BY <1>2, <3>1, <3>2
      <4> QED BY <1>1, <2>1, <4>1, <4>2
    <3>3. CASE n # x.target
      <4>1. HasRoleBy(log', data[o].owner, n, d) <=> HasRoleBy(log, data[o].owner, n, d)
        BY <1>1, <1>3, <3>1, <3>3, RowLeavesOthers
      <4>2. data'[o].roles[n] = data[o].roles[n]
        BY <1>2, <3>1, <3>3
      <4> QED BY <2>1, <2>2, <4>1, <4>2
    <3> QED BY <3>2, <3>3
  <2>4. CASE d # x.channel
    <3>1. data'[o] = data[o]
      BY <1>2, <1>4, <2>1, <2>4
    <3>2. HasRoleBy(log', data[o].owner, n, d) <=> HasRoleBy(log, data[o].owner, n, d)
      <4>1. CASE log' = Append(log, row)
        <5>1. row.channel # d
          BY <2>4
        <5> QED BY <1>1, <1>3, <4>1, <5>1, RowLeavesOthers
      <4>2. CASE log' = log
        BY <4>2
      <4> QED BY <1>5, <4>1, <4>2
    <3> QED BY <2>1, <2>2, <3>1, <3>2
  <2> QED BY <2>3, <2>4
<1>8. AuditExplainsRoles'
  BY <1>7 DEF AuditExplainsRoles, HoldersByLog, AnyChannel
<1> QED BY <1>6, <1>8

\* Every step keeps the log in line with the roles.
LEMMA StepAudit ==
    ASSUME GovernanceInv, [GovernanceNext]_channelVars
    PROVE  LogInv' /\ AuditExplainsRoles'
<1> USE GovernanceAssumption, NoneIsNone
<1>0. GovernanceTypeOK /\ CallInv /\ LogInv /\ AuditExplainsRoles
  BY DEF GovernanceInv
<1>1. ASSUME UNCHANGED <<channels, data, log, recreated, unlogged>>
      PROVE  LogInv' /\ AuditExplainsRoles'
  BY <1>0, <1>1, AuditStays
<1>2. ASSUME NEW h \in Handler, PromoteUser(h) \/ DemoteUser(h) \/ KickUser(h)
      PROVE  LogInv' /\ AuditExplainsRoles'
  BY <1>0, <1>1, <1>2, GovernedSteps, ChangeAudited DEF Deny, Same
<1>3. ASSUME NEW h \in Handler, UpdateChannelAvatar(h)
      PROVE  LogInv' /\ AuditExplainsRoles'
  <2>1. call[h].object \in Object
    BY <1>0, <1>3, LoadedType DEF UpdateChannelAvatar
  <2>2. \A o \in Object : data[o] \in Data
    BY <1>0 DEF GovernanceTypeOK
  <2>3. \A o \in Object : data'[o].roles = data[o].roles /\ data'[o].owner = data[o].owner
    BY <1>0, <1>3, <2>1, <2>2 DEF UpdateChannelAvatar, GovernanceTypeOK, Data
  <2> QED BY <1>0, <1>3, <2>3, AuditStays DEF UpdateChannelAvatar, Same
<1>4. CASE \/ \E h \in Handler, n \in Node, c \in AnyChannel, r \in CallerRole :
                 CreateChannel(h, n, c, r)
           \/ \E h \in Handler, q \in signed, op \in Op : Verify(h, q, op)
           \/ \E h \in Handler : LoadChannel(h)
           \/ \E n \in Node, t \in Node, r \in ChannelRole \cup {None}, c \in Channel :
                 Sign(n, t, r, c)
           \/ GovernanceTick \/ UNCHANGED channelVars
  BY <1>1, <1>4 DEF CreateChannel, Verify, LoadChannel, Sign, GovernanceTick, channelVars,
                    history
<1>5. CASE RestartCore
  <2>1. log' = <<>> /\ log' \in Seq(Row) /\ Len(log') = 0
    BY <1>5 DEF RestartCore
  <2>2. channels'[Inicio] = 0 /\ \A c \in Channel : channels'[c] = None
    BY <1>5 DEF RestartCore, Bootstrap
  <2>3. data'[0] = Blank
    BY <1>5 DEF RestartCore, Object
  <2>4. ASSUME NEW n \in Node PROVE ~HasRoleBy(log', System, n, Inicio)
    <3>1. n # System /\ \A i \in 1..Len(log') : log'[i].channel # Inicio
      BY <2>1
    <3> QED BY <2>1, <3>1, NoRows
  <2>5. LogInv'
    BY <2>1 DEF LogInv
  <2>6. AuditExplainsRoles'
    BY <2>2, <2>3, <2>4 DEF AuditExplainsRoles, HoldersByLog, Blank
  <2> QED BY <2>5, <2>6
<1>6. ASSUME NEW h \in Handler, StoreChannel(h) PROVE LogInv' /\ AuditExplainsRoles'
  BY <1>6, StoreAudited
<1> QED BY <1>2, <1>3, <1>4, <1>5, <1>6 DEF GovernanceNext, Serve, AnyChannel

-----------------------------------------------------------------------------
\* The invariant holds in every state of the channel service.
THEOREM GovernanceInvariance == GovernanceSpec => []GovernanceInv
<1>1. GovernanceInv /\ [GovernanceNext]_channelVars => GovernanceInv'
  BY GovernanceStepType, StepCall, StepObject, StepAudit DEF GovernanceInv
<1> QED BY <1>1, GovernanceInvInit, PTL DEF GovernanceSpec

\* Every variable of the channel service keeps its type.
THEOREM GovernanceTypeCorrect == GovernanceSpec => []GovernanceTypeOK
<1>1. GovernanceInv => GovernanceTypeOK
  BY DEF GovernanceInv
<1> QED BY <1>1, GovernanceInvariance, PTL

\* The rows of LogGovernanceAction tell who has a role in a channel, unless a row could
\* not be written or the channel was stored twice.
THEOREM LogExplainsRoles == GovernanceSpec => []AuditExplainsRoles
<1>1. GovernanceInv => AuditExplainsRoles
  BY DEF GovernanceInv
<1> QED BY <1>1, GovernanceInvariance, PTL

\* CreateChannel replaces a channel only if it had looked the name up before the
\* channel was stored.
THEOREM ReplacedByRace == GovernanceSpec => ReplacedByRaceOnly
<1>1. ASSUME GovernanceInv, [GovernanceNext]_channelVars, NEW c \in Channel,
             channels[c] # None, channels'[c] \notin {channels[c], None}
      PROVE  \E h \in raced : call[h].channel = c /\ h \notin raced'
  <2>1. ~UNCHANGED channels
    BY <1>1
  <2>2. CASE RestartCore
    BY <1>1, <2>2, GovernanceAssumption DEF RestartCore, Bootstrap
  <2>3. ASSUME NEW h \in Handler, StoreChannel(h)
        PROVE  \E g \in raced : call[g].channel = c /\ g \notin raced'
    <3>1. call[h].channel = c
      BY <1>1, <2>3 DEF StoreChannel, GovernanceInv, GovernanceTypeOK
    <3>2. h \in raced /\ h \notin raced'
      BY <1>1, <2>3, <3>1 DEF StoreChannel, GovernanceInv, CallInv
    <3> QED BY <3>1, <3>2
  <2>4. ASSUME NEW h \in Handler, PromoteUser(h) \/ DemoteUser(h) \/ KickUser(h)
        PROVE  UNCHANGED channels
    BY <1>1, <2>4, GovernedSteps DEF Same, RoleChange, GovernanceInv
  <2> QED BY <1>1, <2>1, <2>2, <2>3, <2>4
          DEF GovernanceNext, Serve, CreateChannel, Verify, LoadChannel,
              UpdateChannelAvatar, Same, Sign, GovernanceTick, channelVars
<1>2. GovernanceInv /\ [GovernanceNext]_channelVars
      => [\A c \in Channel : channels[c] # None /\ channels'[c] \notin {channels[c], None}
            => \E h \in raced : call[h].channel = c /\ h \notin raced']_channelVars
  BY <1>1
<1> QED BY <1>2, GovernanceInvariance, PTL DEF GovernanceSpec, ReplacedByRaceOnly

\* A handler changes the object its channel has, unless two CreateChannel calls of the
\* same name have overlapped.
THEOREM LoadedStaysCurrent == GovernanceSpec => []LoadedIsCurrent
<1>1. GovernanceInv => LoadedIsCurrent
  BY DEF GovernanceInv, ObjectInv, LoadedIsCurrent
<1> QED BY <1>1, GovernanceInvariance, PTL
=============================================================================
