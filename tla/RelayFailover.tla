---------------------------- MODULE RelayFailover ----------------------------
(***************************************************************************)
(* Relay processes that report to a core server, and a client that gets    *)
(* its list of relays from there and connects to one after the other.      *)
(*                                                                         *)
(* The registry is reduced to the time a relay's key has left; NodeRegistry*)
(* has the commands behind it.  A tick is the unit of Interval and TTL.    *)
(***************************************************************************)
EXTENDS Basics

CONSTANTS Host,       \* relay processes
          Room,       \* channels
          TTL,        \* lifetime of a presence key
          Interval,   \* time between two heartbeats
          MaxFaults   \* bound: stops of processes, connections lost or refused

ASSUME FailoverAssumption ==
    /\ Interval \in Nat \ {0} /\ TTL \in Nat /\ Interval < TTL
    /\ MaxFaults \in Nat
    /\ IsFiniteSet(Host) /\ None \notin Room

VARIABLES
    coreUp,    \* the core server runs
    present,   \* ticks the key of a relay has left
    mode,      \* a relay: down, serving (not registered), beating
    due,       \* ticks until its next heartbeat
    faults,    \* number of faults
    relays,    \* relaysList
    at,        \* index of connectToBestRelay
    refused,   \* history: indexes that gave no connection
    link,      \* off, dial, fresh (connected, not subscribed), open, pause, over
    subs,      \* channels the relay has for the client's session
    currentChannel,   \* currentChannel
    joining,   \* the channel JoinChannel has yet to send a subscription for
    missed     \* history: relays with a heartbeat that failed since they registered

failoverVars == <<coreUp, present, mode, due, faults, relays, at, refused,
                  link, subs, currentChannel, joining, missed>>
registry == <<coreUp, present, mode, due, missed>>
sdk == <<relays, at, refused, link, subs, currentChannel, joining>>

FailoverInit ==
    /\ coreUp = TRUE
    /\ present = [r \in Host |-> 0]
    /\ mode = [r \in Host |-> "down"]
    /\ due = [r \in Host |-> 0]
    /\ faults = 0
    /\ relays = <<>> /\ at = 0 /\ refused = {} /\ link = "off"
    /\ subs = {} /\ currentChannel = None /\ joining = None
    /\ missed = {}

(***************************************************************************)
(* The relay process.                                                      *)
(***************************************************************************)
\* main: one attempt to register.  When it fails the relay serves, but neither
\* heartbeats nor another attempt follow.
RegisterRelay(r) ==
    /\ mode[r] = "down"
    /\ \/ /\ coreUp
          /\ mode' = [mode EXCEPT ![r] = "beating"]
          /\ present' = [present EXCEPT ![r] = TTL]
          /\ due' = [due EXCEPT ![r] = Interval]
          /\ missed' = missed \ {r}
       \/ /\ ~coreUp
          /\ mode' = [mode EXCEPT ![r] = "serving"]
          /\ UNCHANGED <<present, due, missed>>
    /\ UNCHANGED <<coreUp, faults, sdk>>

\* Faulty variant: the heartbeat does not renew the key.
SendHeartbeatNoRenewal(r) ==
    /\ mode[r] = "beating" /\ due[r] = 0
    /\ due' = [due EXCEPT ![r] = Interval]
    /\ missed' = IF coreUp THEN missed ELSE missed \cup {r}
    /\ UNCHANGED <<coreUp, present, mode, faults, sdk>>

\* The core refuses the heartbeat of a node whose key has expired; an error is logged.
SendHeartbeat(r) ==
    /\ mode[r] = "beating" /\ due[r] = 0
    /\ due' = [due EXCEPT ![r] = Interval]
    /\ IF coreUp /\ present[r] > 0
       THEN present' = [present EXCEPT ![r] = TTL] /\ UNCHANGED missed
       ELSE missed' = missed \cup {r} /\ UNCHANGED present
    /\ UNCHANGED <<coreUp, mode, faults, sdk>>

\* Time passes once the heartbeats that are due have been sent.
FailoverTick ==
    /\ \A r \in Host : mode[r] = "beating" => due[r] > 0
    /\ present' = [r \in Host |-> IF present[r] = 0 THEN 0 ELSE present[r] - 1]
    /\ due' = [r \in Host |-> IF mode[r] = "beating" THEN due[r] - 1 ELSE 0]
    /\ UNCHANGED <<coreUp, mode, faults, missed, sdk>>

StopHost(r) ==
    /\ mode[r] # "down" /\ faults < MaxFaults
    /\ faults' = faults + 1
    /\ mode' = [mode EXCEPT ![r] = "down"]
    /\ due' = [due EXCEPT ![r] = 0]
    /\ UNCHANGED <<coreUp, present, missed, sdk>>

StopCoreServer ==
    /\ coreUp /\ faults < MaxFaults
    /\ faults' = faults + 1 /\ coreUp' = FALSE
    /\ UNCHANGED <<present, mode, due, missed, sdk>>

StartCoreServer ==
    /\ ~coreUp
    /\ coreUp' = TRUE
    /\ UNCHANGED <<present, mode, due, faults, missed, sdk>>

(***************************************************************************)
(* The client.                                                             *)
(***************************************************************************)
Listed == {r \in Host : present[r] > 0}

\* updateRelaysAndConnect: the relays the core knows, in any order.
UpdateRelays ==
    /\ link = "off" /\ coreUp
    /\ \E l \in [1..Cardinality(Listed) -> Listed] :
          Range(l) = Listed /\ relays' = l
    /\ at' = 1 /\ refused' = {} /\ link' = "dial"
    /\ UNCHANGED <<registry, faults, subs, currentChannel, joining>>

Current == relays[at]

\* One pass of the loop: RelayClient.Connect, the handshake included.  A relay that is
\* down gives an error; one that runs may give one too, or be listed without endpoints.
ConnectRelay ==
    /\ link = "dial" /\ at <= Len(relays)
    /\ \/ /\ mode[Current] # "down"
          /\ link' = "fresh"
          /\ UNCHANGED <<at, refused, faults>>
       \/ /\ \/ mode[Current] = "down" /\ UNCHANGED faults
             \/ mode[Current] # "down" /\ faults < MaxFaults /\ faults' = faults + 1
          /\ at' = at + 1 /\ refused' = refused \cup {at}
          /\ UNCHANGED link
    /\ UNCHANGED <<registry, relays, subs, currentChannel, joining>>

\* Faulty variant: the channel is not subscribed again.
ResubscribeNot ==
    /\ link = "fresh"
    /\ link' = "open"
    /\ UNCHANGED <<registry, faults, relays, at, refused, subs, currentChannel, joining>>

\* Only the current channel is subscribed again.
Resubscribe ==
    /\ link = "fresh"
    /\ link' = "open"
    /\ subs' = subs \cup ({currentChannel} \ {None})
    /\ UNCHANGED <<registry, faults, relays, at, refused, currentChannel, joining>>

\* ReceiveLoop ends: the relay is gone, or its connection.
LinkLost ==
    /\ link \in {"fresh", "open"}
    /\ \/ mode[Current] = "down" /\ UNCHANGED faults
       \/ mode[Current] # "down" /\ faults < MaxFaults /\ faults' = faults + 1
    /\ link' = "pause" /\ subs' = {}
    /\ UNCHANGED <<registry, relays, at, refused, currentChannel, joining>>

\* Faulty variant: the index moves on twice.
NextRelaySkips ==
    /\ link = "pause"
    /\ link' = "dial" /\ at' = at + 2
    /\ UNCHANGED <<registry, faults, relays, refused, subs, currentChannel, joining>>

\* A second later the loop goes on with the next relay of the list.
NextRelay ==
    /\ link = "pause"
    /\ link' = "dial" /\ at' = at + 1
    /\ UNCHANGED <<registry, faults, relays, refused, subs, currentChannel, joining>>

\* The goroutine of connectToBestRelay ends, and nothing starts it again.
NoRelayLeft ==
    /\ link = "dial" /\ at > Len(relays)
    /\ link' = "over"
    /\ UNCHANGED <<registry, faults, relays, at, refused, subs, currentChannel, joining>>

\* JoinChannel sets currentChannel and then sends the subscription, which is dropped
\* when there is no connection.
JoinChannel(c) ==
    /\ link # "off" /\ joining = None
    /\ currentChannel' = c /\ joining' = c
    /\ UNCHANGED <<registry, faults, relays, at, refused, link, subs>>

SendSubscription(c) ==
    subs' = IF link \in {"fresh", "open"} THEN subs \cup {c} ELSE subs

SubscribeToRelayChannel ==
    /\ joining # None
    /\ joining' = None
    /\ SendSubscription(joining)
    /\ UNCHANGED <<registry, faults, relays, at, refused, link, currentChannel>>

\* The last step of CreateChannel, which leaves currentChannel alone.
SubscribeToCreated(c) ==
    /\ link # "off"
    /\ SendSubscription(c)
    /\ UNCHANGED <<registry, faults, relays, at, refused, link, currentChannel, joining>>

\* Close, and the next start of the program.
CloseSdk ==
    /\ link # "off"
    /\ relays' = <<>> /\ at' = 0 /\ refused' = {} /\ link' = "off"
    /\ subs' = {} /\ currentChannel' = None /\ joining' = None
    /\ UNCHANGED <<registry, faults>>

FailoverNext ==
    \/ \E r \in Host : RegisterRelay(r) \/ SendHeartbeat(r) \/ StopHost(r)
    \/ StopCoreServer \/ StartCoreServer \/ FailoverTick
    \/ UpdateRelays \/ ConnectRelay \/ Resubscribe \/ LinkLost \/ NextRelay
    \/ NoRelayLeft \/ SubscribeToRelayChannel \/ CloseSdk
    \/ \E c \in Room : JoinChannel(c) \/ SubscribeToCreated(c)

\* The client's goroutine goes on by itself; so does a ReceiveLoop without a relay.
FailoverFairness ==
    /\ WF_failoverVars(ConnectRelay) /\ WF_failoverVars(Resubscribe)
    /\ WF_failoverVars(NextRelay) /\ WF_failoverVars(NoRelayLeft)
    /\ WF_failoverVars(LinkLost /\ mode[Current] = "down")

FailoverSpec == FailoverInit /\ [][FailoverNext]_failoverVars /\ FailoverFairness

(***************************************************************************)
(* Properties.                                                             *)
(***************************************************************************)
\* Every variable has its type.
FailoverTypeOK ==
    /\ coreUp \in BOOLEAN
    /\ present \in [Host -> 0..TTL]
    /\ mode \in [Host -> {"down", "serving", "beating"}]
    /\ due \in [Host -> 0..Interval]
    /\ faults \in 0..MaxFaults
    /\ relays \in Seq(Host) /\ Len(relays) <= Cardinality(Host)
    /\ at \in 0..Len(relays) + 1 /\ refused \in SUBSET (1..Len(relays))
    /\ link \in {"off", "dial", "fresh", "open", "pause", "over"}
    /\ (link \in {"fresh", "open", "pause"} => at \in 1..Len(relays))
    /\ subs \in SUBSET Room
    /\ currentChannel \in Room \cup {None} /\ joining \in Room \cup {None}
    /\ missed \in SUBSET Host

\* A relay that reports is in the registry unless a heartbeat of it has failed since it
\* registered: Interval and TTL leave no gap between two renewals.
ListedUnlessMissed ==
    \A r \in Host : mode[r] = "beating" /\ r \notin missed => present[r] > 0

\* Whatever order connections, losses and JoinChannel come in, the relay of an open
\* connection has the subscription of the current channel, but for a moment within
\* JoinChannel.
CurrentIsSubscribed ==
    link = "open" /\ joining = None /\ currentChannel # None => currentChannel \in subs

\* When a connection is lost the next relay of the list is connected to, unless the
\* attempt fails or the client is closed: no loss, and no relay that fails before it,
\* makes the loop pass over a relay.
NextRelayIsTried ==
    \A i \in 1..Cardinality(Host) :
        (link = "pause" /\ at = i /\ i < Len(relays))
            ~> (i + 1 \in refused \/ link = "off" \/ (link = "fresh" /\ at = i + 1))
=============================================================================
