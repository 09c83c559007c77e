----------------------------- MODULE RelayMail -----------------------------
(***************************************************************************)
(* What a relay promises to the nodes that use it: a stream has one        *)
(* envelope in hand at a time and puts it into the mail of sessions it is  *)
(* meant for.  A direct envelope is delivered once at most; a broadcast    *)
(* reaches one session of a node at most, and none of the sender's.        *)
(* Whatever is not delivered is given up.  Nothing is said of a session    *)
(* table, of buffers or of who is connected.                               *)
(***************************************************************************)
EXTENDS Integers, Sequences

CONSTANTS Node, Channel,
          Source,    \* where envelopes come from
          Session,   \* who has mail; every source is one
          None       \* nothing in hand, no owner

VARIABLES owner,   \* the node of a session, once it has one
          hand,    \* the envelope a source is handing out
          mail,    \* what a session got, in order
          last     \* envelopes numbered so far

mailVars == <<owner, hand, mail, last>>

MailInit ==
    /\ owner = [h \in Session |-> None]
    /\ hand = [s \in Source |-> None]
    /\ mail = [h \in Session |-> <<>>]
    /\ last = 0

Open(h, n) ==
    /\ owner[h] = None
    /\ owner' = [owner EXCEPT ![h] = n]

\* The next envelope is numbered; it carries the node of its source.
Take(s, n, t) ==
    /\ hand' = [hand EXCEPT ![s] = [id |-> last + 1, via |-> s, sender |-> n,
                                    target |-> t]]
    /\ last' = last + 1

OpenOnly(h, n) == Open(h, n) /\ UNCHANGED <<hand, mail, last>>

OpenAndTake(s, n, t) == Open(s, n) /\ Take(s, n, t) /\ UNCHANGED mail

TakeNext(s, t) ==
    /\ owner[s] # None
    /\ Take(s, owner[s], t)
    /\ UNCHANGED <<owner, mail>>

Has(h, e) == \E i \in 1..Len(mail[h]) : mail[h][i] = e

\* The direct envelope leaves the hand.
DeliverDirect(s, h) ==
    /\ hand[s] # None /\ hand[s].target = owner[h]
    /\ mail' = [mail EXCEPT ![h] = Append(@, hand[s])]
    /\ hand' = [hand EXCEPT ![s] = None]
    /\ UNCHANGED <<owner, last>>

\* No session of the same node has it.
DeliverBroadcast(s, h) ==
    /\ hand[s] # None /\ hand[s].target \in Channel
    /\ owner[h] \notin {hand[s].sender, None}
    /\ \A g \in Session : owner[g] = owner[h] => ~Has(g, hand[s])
    /\ mail' = [mail EXCEPT ![h] = Append(@, hand[s])]
    /\ UNCHANGED <<owner, hand, last>>

GiveUp(s) ==
    /\ hand[s] # None
    /\ hand' = [hand EXCEPT ![s] = None]
    /\ UNCHANGED <<owner, mail, last>>

MailNext ==
    \/ \E h \in Session, n \in Node : OpenOnly(h, n)
    \/ \E s \in Source, n \in Node, t \in Node \cup Channel : OpenAndTake(s, n, t)
    \/ \E s \in Source, t \in Node \cup Channel : TakeNext(s, t)
    \/ \E s \in Source, h \in Session : DeliverDirect(s, h)
    \/ \E s \in Source, h \in Session : DeliverBroadcast(s, h)
    \/ \E s \in Source : GiveUp(s)

MailSpec == MailInit /\ [][MailNext]_mailVars
=============================================================================
