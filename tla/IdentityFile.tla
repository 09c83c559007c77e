---------------------------- MODULE IdentityFile ----------------------------
(***************************************************************************)
(* The identity of a node: an Ed25519 key pair that is read from a file    *)
(* when the program starts, or made and written to it.  A client           *)
(* (loadOrGenerateIdentity) and a relay (LoadOrGenerateKeyPair) do the     *)
(* same.  The programs are those that share one file: two clients of one   *)
(* profile, or two relays started with the same key path.                  *)
(*                                                                         *)
(* An identity is the number of its key; the node id is a hash of it.      *)
(* os.WriteFile empties the file and then writes it, so a program that     *)
(* ends in between leaves a file whose length is wrong, which the next     *)
(* start takes for a missing one: both are NoKey.                          *)
(***************************************************************************)
EXTENDS Integers

CONSTANTS Program,        \* the programs that use the file
          MaxIdentities   \* bound: identities made

ASSUME IdentityAssumption == MaxIdentities \in Nat

NoKey == 0
Identity == 1..MaxIdentities

VARIABLES
    keyFile,    \* the key in the file
    stage,      \* where a program is: off, made, writing, on
    identity,   \* the identity a program has read or made
    made,       \* number of identities made
    registered, \* the core: identities that have registered
    backups,    \* what the exports that reported success have copied
    overlapped  \* history: two programs made an identity at the same time, or one
                \* made an identity because it could not read the file

identityVars == <<keyFile, stage, identity, made, registered, backups, overlapped>>

IdentityInit ==
    /\ keyFile = NoKey
    /\ stage = [p \in Program |-> "off"]
    /\ identity = [p \in Program |-> NoKey]
    /\ made = 0 /\ registered = {} /\ backups = {} /\ overlapped = FALSE

\* The file holds a whole key: the program runs with it.
LoadIdentity(p) ==
    /\ stage[p] = "off" /\ keyFile # NoKey
    /\ stage' = [stage EXCEPT ![p] = "on"]
    /\ identity' = [identity EXCEPT ![p] = keyFile]
    /\ UNCHANGED <<keyFile, made, registered, backups, overlapped>>

MakingOne(q) == stage[q] \in {"made", "writing"}

\* There is no whole key, or ReadFile fails, whatever the error: a new identity.
GenerateIdentity(p) ==
    /\ stage[p] = "off" /\ made < MaxIdentities
    /\ made' = made + 1
    /\ stage' = [stage EXCEPT ![p] = "made"]
    /\ identity' = [identity EXCEPT ![p] = made + 1]
    /\ overlapped' = (overlapped \/ keyFile # NoKey \/ \E q \in Program : MakingOne(q))
    /\ UNCHANGED <<keyFile, registered, backups>>

\* os.WriteFile opens the file and empties it.
EmptyFile(p) ==
    /\ stage[p] = "made"
    /\ stage' = [stage EXCEPT ![p] = "writing"]
    /\ keyFile' = NoKey
    /\ UNCHANGED <<identity, made, registered, backups, overlapped>>

WriteIdentity(p) ==
    /\ stage[p] = "writing"
    /\ stage' = [stage EXCEPT ![p] = "on"]
    /\ keyFile' = identity[p]
    /\ UNCHANGED <<identity, made, registered, backups, overlapped>>

\* Faulty variant: the error of os.WriteFile is dropped, as most errors of the client are.
WriteFailsUnseen(p) ==
    /\ MakingOne(p)
    /\ stage' = [stage EXCEPT ![p] = "on"]
    /\ UNCHANGED <<keyFile, identity, made, registered, backups, overlapped>>

\* The file cannot be opened or written: the program does not start.
WriteFails(p) ==
    /\ MakingOne(p)
    /\ stage' = [stage EXCEPT ![p] = "off"]
    /\ identity' = [identity EXCEPT ![p] = NoKey]
    /\ UNCHANGED <<keyFile, made, registered, backups, overlapped>>

\* The program registers with the core.  Its node id, its public key and the signature of
\* the id come from one key pair, which is what the core verifies.
RegisterIdentity(p) ==
    /\ stage[p] = "on"
    /\ registered' = registered \cup {identity[p]}
    /\ UNCHANGED <<keyFile, stage, identity, made, backups, overlapped>>

\* The user's backup is a copy of the file, not of the key in use; io.Copy also
\* succeeds on a file that has just been emptied.
ExportIdentity(p) ==
    /\ stage[p] = "on"
    /\ backups' = backups \cup {keyFile}
    /\ UNCHANGED <<keyFile, stage, identity, made, registered, overlapped>>

\* The process ends, wherever it is.
EndProgram(p) ==
    /\ stage[p] # "off"
    /\ stage' = [stage EXCEPT ![p] = "off"]
    /\ identity' = [identity EXCEPT ![p] = NoKey]
    /\ UNCHANGED <<keyFile, made, registered, backups, overlapped>>

IdentityNext ==
    \E p \in Program :
        \/ LoadIdentity(p) \/ GenerateIdentity(p) \/ EmptyFile(p) \/ WriteIdentity(p)
        \/ WriteFails(p) \/ RegisterIdentity(p) \/ ExportIdentity(p) \/ EndProgram(p)

IdentitySpec == IdentityInit /\ [][IdentityNext]_identityVars

(***************************************************************************)
(* Properties.                                                             *)
(***************************************************************************)
\* Every variable has its type; a program has an identity from the moment it made one.
IdentityTypeOK ==
    /\ keyFile \in Identity \cup {NoKey}
    /\ stage \in [Program -> {"off", "made", "writing", "on"}]
    /\ identity \in [Program -> Identity \cup {NoKey}]
    /\ \A p \in Program : stage[p] # "off" => identity[p] # NoKey
    /\ made \in 0..MaxIdentities
    /\ registered \in SUBSET Identity /\ backups \in SUBSET (Identity \cup {NoKey})
    /\ overlapped \in BOOLEAN

\* A node keeps its identity, wherever its programs end: the identity under which the core
\* has registered any of them, and the one in every backup, is the one in the file, which
\* the next start will read; unless two programs made one at the same time, or a file
\* that holds a key could not be read.
IdentityIsKept == ~overlapped => registered \cup backups \subseteq {keyFile}
=============================================================================
