------------------------------ MODULE Accounts ------------------------------
(***************************************************************************)
(* Accounts of the core server and the tokens its clients hold: AuthServer *)
(* over the users table, the bearer and vault tokens, the role checks of   *)
(* AuthInterceptor, and the SDK calls that fetch and keep the tokens.      *)
(*                                                                         *)
(* A registration is two steps, the COUNT of its transaction and the       *)
(* INSERT with the COMMIT; every other call reads or writes once.          *)
(***************************************************************************)
EXTENDS Basics

CONSTANTS User,            \* accounts, by e-mail
          Client,          \* SDK instances
          Worker,          \* goroutines that serve Register
          TokenLife,       \* lifetime of a bearer token, in ticks
          VaultLife,       \* lifetime of a vault token and of the SDK's timer
          MaxRoleChanges,  \* bound: calls of UpdateUserRole
          MaxUnlocks       \* bound: calls of VerifyMasterKey

ASSUME AccountsAssumption ==
    /\ TokenLife \in Nat \ {0} /\ VaultLife \in Nat \ {0}
    /\ MaxRoleChanges \in Nat /\ MaxUnlocks \in Nat

Role == {"owner", "admin", "member"}
Token == [user : User, role : Role, left : 0..TokenLife]
Vault == [id : 1..MaxUnlocks, left : 0..VaultLife]
Pending == [user : User, role : Role, client : Client]

ASSUME AccountsNoneAssumption == None \notin User \cup Role \cup Token \cup Vault \cup Pending

VARIABLES
    users,     \* the users table: the role of every account
    pending,   \* registrations between their COUNT and their INSERT
    token,     \* authToken of every client
    saved,     \* auth_token in the config table of every client
    vault,     \* vaultToken of every client
    timers,    \* sleeping goroutines that will clear vaultToken
    changes,   \* role changes so far
    unlocks,   \* unlocks so far
    lastHeld,  \* history: ticks since an account last had a role, up to TokenLife
    genesis,   \* history: accounts created with the owner role
    racing     \* history: accounts whose registration was past its COUNT when
               \* the first account was committed

accountVars == <<users, pending, token, saved, vault, timers, changes, unlocks,
                 lastHeld, genesis, racing>>
tokens == <<token, saved, vault, timers, unlocks>>

AccountsInit ==
    /\ users = [u \in User |-> None]
    /\ pending = [w \in Worker |-> None]
    /\ token = [c \in Client |-> None]
    /\ saved = [c \in Client |-> None]
    /\ vault = [c \in Client |-> None]
    /\ timers = [c \in Client |-> {}]
    /\ changes = 0
    /\ unlocks = 0
    /\ lastHeld = [u \in User |-> [r \in Role |-> TokenLife]]
    /\ genesis = {}
    /\ racing = {}

(***************************************************************************)
(* Tokens.                                                                 *)
(***************************************************************************)
GenerateJWT(u, r) == [user |-> u, role |-> r, left |-> TokenLife]

\* Faulty variant: the expiry of a token is not looked at.
ValidateJWTNoExpiry(t) == t # None

ValidateJWT(t) == t # None /\ t.left > 0

\* authenticateUser: the role of a request that carries token t in its header.
RoleOf(t) == IF ValidateJWT(t) THEN t.role ELSE "guest"

\* authorize.  Of the services that are registered only CreateChannel matches a
\* rule: "/AdminService/" does not occur in "/network.v1.AdminService/..." and no
\* service has a SendMessage.
Authorize(role, method) == method = "CreateChannel" => role \in {"admin", "owner"}

\* Unary: the interceptor lets the request of client c through to its handler.
Unary(c, method) == Authorize(RoleOf(token[c]), method)

\* What a client does with a token it is given: memory, then SetConfig, whose error
\* is dropped.
KeepToken(c, t) ==
    /\ token' = [token EXCEPT ![c] = t]
    /\ \/ saved' = [saved EXCEPT ![c] = t]
       \/ UNCHANGED saved

(***************************************************************************)
(* Register: CreateUser counts the accounts and inserts the new one in a   *)
(* READ COMMITTED transaction.                                             *)
(***************************************************************************)
Accounts == {u \in User : users[u] # None}

\* Faulty variant: the second account is an owner too.
GenesisRoleLate == IF Cardinality(Accounts) <= 1 THEN "owner" ELSE "member"

GenesisRole == IF Accounts = {} THEN "owner" ELSE "member"

CountUsers(w, c, u) ==
    /\ pending[w] = None
    /\ pending' = [pending EXCEPT ![w] = [user |-> u, role |-> GenesisRole, client |-> c]]
    /\ UNCHANGED <<users, tokens, changes, lastHeld, genesis, racing>>

\* INSERT and COMMIT, then the answer with the token, which may get lost.
InsertUser(w) ==
    LET p == pending[w]
    IN  /\ p # None /\ users[p.user] = None
        /\ users' = [users EXCEPT ![p.user] = p.role]
        /\ pending' = [pending EXCEPT ![w] = None]
        /\ lastHeld' = [lastHeld EXCEPT ![p.user][p.role] = 0]
        /\ genesis' = IF p.role = "owner" THEN genesis \cup {p.user} ELSE genesis
        /\ racing' = IF Accounts # {} THEN racing
                     ELSE {pending[x].user : x \in {y \in Worker : pending[y] # None}}
        /\ \/ KeepToken(p.client, GenerateJWT(p.user, p.role))
           \/ UNCHANGED <<token, saved>>
        /\ UNCHANGED <<vault, timers, changes, unlocks>>

\* The e-mail or the nickname is taken, or the database fails: rollback.
RegisterFails(w) ==
    /\ pending[w] # None
    /\ pending' = [pending EXCEPT ![w] = None]
    /\ UNCHANGED <<users, tokens, changes, lastHeld, genesis, racing>>

(***************************************************************************)
(* Login with the right password; Logout; a client that starts again.      *)
(***************************************************************************)
GetUserByEmail(u) == users[u]

Login(c, u) ==
    /\ GetUserByEmail(u) # None
    /\ KeepToken(c, GenerateJWT(u, GetUserByEmail(u)))
    /\ UNCHANGED <<users, pending, vault, timers, changes, unlocks, lastHeld, genesis,
                   racing>>

Logout(c) ==
    /\ KeepToken(c, None)
    /\ UNCHANGED <<users, pending, vault, timers, changes, unlocks, lastHeld, genesis,
                   racing>>

\* The process ends and NewEnxameClient loads auth_token.
RestartClient(c) ==
    /\ token' = [token EXCEPT ![c] = saved[c]]
    /\ vault' = [vault EXCEPT ![c] = None]
    /\ timers' = [timers EXCEPT ![c] = {}]
    /\ UNCHANGED <<users, pending, saved, changes, unlocks, lastHeld, genesis, racing>>

(***************************************************************************)
(* AdminService: the role of an account, and the vault.                    *)
(***************************************************************************)
UpdateUserRole(c, u, r) ==
    /\ changes < MaxRoleChanges
    /\ Unary(c, "UpdateUserRole")
    /\ users[u] # None
    /\ users' = [users EXCEPT ![u] = r]
    /\ lastHeld' = [lastHeld EXCEPT ![u][r] = 0]
    /\ changes' = changes + 1
    /\ UNCHANGED <<pending, tokens, genesis, racing>>

\* Faulty variant: a client whose vault is open does not start another timer.
VerifyMasterKeyOneTimer(c) ==
    /\ unlocks < MaxUnlocks
    /\ Unary(c, "VerifyMasterKey")
    /\ unlocks' = unlocks + 1
    /\ LET v == [id |-> unlocks + 1, left |-> VaultLife]
       IN  /\ vault' = [vault EXCEPT ![c] = v]
           /\ timers' = IF vault[c] # None THEN timers
                        ELSE [timers EXCEPT ![c] = @ \cup {v}]
    /\ UNCHANGED <<users, pending, token, saved, changes, lastHeld, genesis, racing>>

\* The master key was right: a vault token, and a goroutine that sleeps as long as
\* the token lives and clears whatever token the client has then.
VerifyMasterKey(c) ==
    /\ unlocks < MaxUnlocks
    /\ Unary(c, "VerifyMasterKey")
    /\ unlocks' = unlocks + 1
    /\ LET v == [id |-> unlocks + 1, left |-> VaultLife]
       IN  /\ vault' = [vault EXCEPT ![c] = v]
           /\ timers' = [timers EXCEPT ![c] = @ \cup {v}]
    /\ UNCHANGED <<users, pending, token, saved, changes, lastHeld, genesis, racing>>

ClearVault(c, t) ==
    /\ t \in timers[c] /\ t.left = 0
    /\ vault' = [vault EXCEPT ![c] = None]
    /\ timers' = [timers EXCEPT ![c] = @ \ {t}]
    /\ UNCHANGED <<users, pending, token, saved, changes, unlocks, lastHeld, genesis,
                   racing>>

(***************************************************************************)
(* The clock.                                                              *)
(***************************************************************************)
Down(x) == IF x = None \/ x.left = 0 THEN x ELSE [x EXCEPT !.left = @ - 1]

AccountsTick ==
    /\ token' = [c \in Client |-> Down(token[c])]
    /\ saved' = [c \in Client |-> Down(saved[c])]
    /\ vault' = [c \in Client |-> Down(vault[c])]
    /\ timers' = [c \in Client |-> {Down(t) : t \in timers[c]}]
    /\ lastHeld' = [u \in User |-> [r \in Role |->
           IF users[u] = r THEN 0
           ELSE IF lastHeld[u][r] < TokenLife THEN lastHeld[u][r] + 1 ELSE TokenLife]]
    /\ UNCHANGED <<users, pending, changes, unlocks, genesis, racing>>

AccountsNext ==
    \/ \E w \in Worker : \/ \E c \in Client, u \in User : CountUsers(w, c, u)
                         \/ InsertUser(w)
                         \/ RegisterFails(w)
    \/ \E c \in Client : \/ \E u \in User : Login(c, u)
                         \/ \E u \in User, r \in Role : UpdateUserRole(c, u, r)
                         \/ Logout(c)
                         \/ RestartClient(c)
                         \/ VerifyMasterKey(c)
                         \/ \E t \in timers[c] : ClearVault(c, t)
    \/ AccountsTick

AccountsSpec == AccountsInit /\ [][AccountsNext]_accountVars

(***************************************************************************)
(* Properties.                                                             *)
(***************************************************************************)
\* Every variable has its type.
AccountsTypeOK ==
    /\ users \in [User -> Role \cup {None}]
    /\ pending \in [Worker -> Pending \cup {None}]
    /\ token \in [Client -> Token \cup {None}]
    /\ saved \in [Client -> Token \cup {None}]
    /\ vault \in [Client -> Vault \cup {None}]
    /\ timers \in [Client -> SUBSET Vault]
    /\ changes \in 0..MaxRoleChanges
    /\ unlocks \in 0..MaxUnlocks
    /\ lastHeld \in [User -> [Role -> 0..TokenLife]]
    /\ genesis \in SUBSET User
    /\ racing \in SUBSET User

\* CreateUser makes the first account an owner; another account is made an owner only
\* if its registration had counted the accounts before the first one was committed.
GenesisOwners ==
    Accounts # {} => genesis # {} /\ genesis \subseteq racing

\* A request that is served with a role comes from an account that had this role less
\* than a token's lifetime ago: a role that is taken away, or a logout that was not
\* saved, works on no longer than that.
RoleIsRecent ==
    \A c \in Client : RoleOf(token[c]) # "guest"
        => lastHeld[token[c].user][token[c].role] < TokenLife

\* The goroutine that VerifyMasterKey starts for a vault token is there as long as the
\* client has the token, so that the token never stays behind, although every such
\* goroutine clears whatever token it finds.
VaultIsTimed ==
    \A c \in Client : vault[c] # None => vault[c] \in timers[c]
=============================================================================
