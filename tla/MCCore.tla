------------------------------- MODULE MCCore -------------------------------
(***************************************************************************)
(* The accounts, the channels and the cluster table of the core server.    *)
(* They share no state: every behaviour belongs to one of the three parts, *)
(* which Init picks, so that their state spaces add up and do not multiply.*)
(***************************************************************************)
EXTENDS Accounts, ChannelGovernance, Cluster, TLC

CONSTANTS u1, u2, c1, w1, w2, n1, n2, h1, h2, k1, k2, here, there, nowhere

VARIABLE part

Nodes == {n1, n2}
Handlers == {h1, h2}
Cores == {k1, k2}
Symmetry == Permutations(Nodes) \cup Permutations(Handlers)

\* A signer's clock agrees with the server's or is a tick ahead.
Skews == {-1, 0}

\* The client runs beside core k1; k2 is elsewhere, and one address is out of use.
Addresses == {here, there, nowhere}
LoopbackAddress == [k \in Cores |-> here]
DialFromClient == (here :> k1) @@ (there :> k2) @@ (nowhere :> None)

vars == <<part, accountVars, channelVars, clusterVars>>

Init ==
    /\ part \in {"accounts", "channels", "cluster"}
    /\ AccountsInit /\ GovernanceInit /\ ClusterInit

Next ==
    /\ \/ part = "accounts" /\ AccountsNext /\ UNCHANGED <<channelVars, clusterVars>>
       \/ part = "channels" /\ GovernanceNext /\ UNCHANGED <<accountVars, clusterVars>>
       \/ part = "cluster" /\ ClusterNext /\ UNCHANGED <<accountVars, channelVars>>
    /\ UNCHANGED part

Spec == Init /\ [][Next]_vars

\* Every variable of the part at work has its type.
TypeOK ==
    CASE part = "accounts" -> AccountsTypeOK
      [] part = "channels" -> GovernanceTypeOK
      [] part = "cluster" -> ClusterTypeOK
=============================================================================
