------------------------------ MODULE MCNetwork ------------------------------
(***************************************************************************)
(* The event streams, the relays with a client that moves between them,    *)
(* the grid jobs, and the sessions, channel keys, files, updates and the   *)
(* identity of a client.  The parts share no state: every behaviour        *)
(* belongs to one of them, which Init picks, so that their state spaces    *)
(* add up and do not multiply.                                             *)
(***************************************************************************)
EXTENDS EventStreams, RelayFailover, GridJobs, ClientSessions, ChannelKeys, ClientFiles,
        SelfUpdate, IdentityFile

CONSTANTS r1, r2, s1, s2, x1, x2, c1, c2, p1, p2,
          Parts   \* the parts that a run is about

ASSUME PartsAssumption ==
    Parts \subseteq {"events", "failover", "grid", "sessions", "keys", "files", "update",
                 "identity"}

VARIABLE part

coreVars == <<eventVars, failoverVars, gridVars>>
clientVars == <<sessionVars, keyVars, fileVars, updateVars, identityVars>>
vars == <<part, coreVars, clientVars>>

Init ==
    /\ part \in Parts
    /\ EventsInit /\ FailoverInit /\ GridInit
    /\ SessionsInit /\ KeysInit /\ FilesInit /\ UpdateInit
    /\ IdentityInit

Next ==
    /\ \/ /\ part = "events" /\ EventsNext
          /\ UNCHANGED <<failoverVars, gridVars, clientVars>>
       \/ /\ part = "failover" /\ FailoverNext
          /\ UNCHANGED <<eventVars, gridVars, clientVars>>
       \/ /\ part = "grid" /\ GridNext
          /\ UNCHANGED <<eventVars, failoverVars, clientVars>>
       \/ /\ part = "sessions" /\ SessionsNext
          /\ UNCHANGED <<coreVars, keyVars, fileVars, updateVars, identityVars>>
       \/ /\ part = "keys" /\ KeysNext
          /\ UNCHANGED <<coreVars, sessionVars, fileVars, updateVars, identityVars>>
       \/ /\ part = "files" /\ FilesNext
          /\ UNCHANGED <<coreVars, sessionVars, keyVars, updateVars, identityVars>>
       \/ /\ part = "update" /\ UpdateNext
          /\ UNCHANGED <<coreVars, sessionVars, keyVars, fileVars, identityVars>>
       \/ /\ part = "identity" /\ IdentityNext
          /\ UNCHANGED <<coreVars, sessionVars, keyVars, fileVars, updateVars>>
    /\ UNCHANGED part

\* In the initial state of a part nothing that its fairness is about is enabled, so it
\* binds only the behaviours of that part.
Fairness == EventsFairness /\ FailoverFairness /\ GridFairness

Spec == Init /\ [][Next]_vars
FairSpec == Spec /\ Fairness

\* Every variable of the part at work has its type.
TypeOK ==
    CASE part = "events" -> EventsTypeOK
      [] part = "failover" -> FailoverTypeOK
      [] part = "grid" -> GridTypeOK
      [] part = "sessions" -> SessionsTypeOK
      [] part = "keys" -> KeysTypeOK
      [] part = "files" -> FilesTypeOK
      [] part = "update" -> UpdateTypeOK
      [] part = "identity" -> IdentityTypeOK
=============================================================================
