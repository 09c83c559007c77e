--------------------------- MODULE LossyBroadcast ---------------------------
(***************************************************************************)
(* What the event streams promise: events are numbered as they are         *)
(* published, a relay hears an event at most once, and never one that was  *)
(* given up for it.  Nothing is said of the order.                         *)
(***************************************************************************)
EXTENDS Integers

CONSTANTS Listener,  \* who listens
          MaxSent    \* bound: events published

VARIABLES sent,   \* number of events published
          heardOf,  \* how often a listener has heard an event
          lost    \* events given up, with the listener

broadcastVars == <<sent, heardOf, lost>>

BroadcastInit ==
    /\ sent = 0
    /\ heardOf = [l \in Listener |-> [e \in 1..MaxSent |-> 0]]
    /\ lost = {}

Open(e, l) == heardOf[l][e] = 0 /\ <<e, l>> \notin lost

\* An event is published, and may be lost for some listeners at once.
Publish(L) ==
    /\ sent < MaxSent
    /\ sent' = sent + 1
    /\ lost' = lost \cup ({sent + 1} \X L)
    /\ UNCHANGED heardOf

Hear(e, l) ==
    /\ e <= sent /\ Open(e, l)
    /\ heardOf' = [heardOf EXCEPT ![l][e] = 1]
    /\ UNCHANGED <<sent, lost>>

Lose(e, L) ==
    /\ e <= sent /\ \A l \in L : Open(e, l)
    /\ lost' = lost \cup ({e} \X L)
    /\ UNCHANGED <<sent, heardOf>>

BroadcastNext ==
    \/ \E L \in SUBSET Listener : Publish(L)
    \/ \E e \in 1..MaxSent : \/ \E l \in Listener : Hear(e, l)
                             \/ \E L \in (SUBSET Listener) \ {{}} : Lose(e, L)

BroadcastSpec == BroadcastInit /\ [][BroadcastNext]_broadcastVars
=============================================================================
