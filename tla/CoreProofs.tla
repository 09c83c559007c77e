----------------------------- MODULE CoreProofs -----------------------------
(***************************************************************************)
(* Proofs about Accounts for every set of accounts, clients and workers,   *)
(* every lifetime of the tokens and every number of calls; and about the   *)
(* core server put together in MCCore, where every theorem about one of    *)
(* its parts carries over.                                                 *)
(***************************************************************************)
EXTENDS MCCore, ChannelGovernanceProofs, ClusterProofs, TLAPS

\* A registration that is going to create an owner counted before the first commit:
\* while there is no account that is every registration, later it is one of `racing'.
PendingInv ==
    /\ Accounts = {} => genesis = {}
    /\ \A w \in Worker : pending[w] # None =>
          /\ Accounts = {} => pending[w].role = "owner"
          /\ Accounts # {} /\ pending[w].role = "owner" => pending[w].user \in racing

\* An account has its role now, and what a token has left is no more than the time
\* its role would still count as recent.
Recent(t) == t # None => lastHeld[t.user][t.role] + t.left <= TokenLife

RecentInv ==
    /\ \A u \in User : users[u] # None => lastHeld[u][users[u]] = 0
    /\ \A c \in Client : Recent(token[c]) /\ Recent(saved[c])

AccountsInv == AccountsTypeOK /\ PendingInv /\ GenesisOwners /\ RecentInv /\ VaultIsTimed

-----------------------------------------------------------------------------
\* What GenerateJWT makes for an account with its present role.
LEMMA GenerateJWTType ==
    ASSUME NEW u \in User, NEW r \in Role
    PROVE  GenerateJWT(u, r) \in Token
BY AccountsAssumption DEF GenerateJWT, Token

\* A client that keeps a token, or drops it, has a token of the right type.
LEMMA KeepTokenType ==
    ASSUME AccountsTypeOK, NEW c \in Client, NEW t \in Token \cup {None},
           KeepToken(c, t)
    PROVE  /\ token' \in [Client -> Token \cup {None}]
           /\ saved' \in [Client -> Token \cup {None}]
           /\ \A d \in Client : /\ token'[d] \in {token[d], t}
                                /\ saved'[d] \in {saved[d], t}
BY DEF KeepToken, AccountsTypeOK

\* A tick leaves the type of a token alone and takes one from what is left.
LEMMA DownToken ==
    ASSUME NEW t \in Token
    PROVE  /\ Down(t) \in Token
           /\ Down(t).user = t.user /\ Down(t).role = t.role
           /\ t.left = 0 => Down(t).left = 0
           /\ t.left > 0 => Down(t).left = t.left - 1
BY AccountsAssumption, AccountsNoneAssumption DEF Down, Token

LEMMA DownVault ==
    ASSUME NEW t \in Vault
    PROVE  Down(t) \in Vault
BY AccountsAssumption, AccountsNoneAssumption DEF Down, Vault

LEMMA DownNone == Down(None) = None
BY DEF Down

\* Roles are not None.
LEMMA RoleNotNone == None \notin Role /\ None \notin Token /\ None \notin Vault
                     /\ None \notin Pending
BY AccountsNoneAssumption

-----------------------------------------------------------------------------
\* The initial states satisfy the invariant.
LEMMA AccountsInvInit == AccountsInit => AccountsInv
<1> SUFFICES ASSUME AccountsInit PROVE AccountsInv
  OBVIOUS
<1> USE AccountsAssumption, RoleNotNone DEF AccountsInit
<1>1. AccountsTypeOK
  BY DEF AccountsTypeOK
<1>2. Accounts = {}
  BY DEF Accounts
<1>3. PendingInv /\ GenesisOwners
  BY <1>2 DEF PendingInv, GenesisOwners
<1>4. RecentInv /\ VaultIsTimed
  BY DEF RecentInv, Recent, VaultIsTimed
<1> QED BY <1>1, <1>3, <1>4 DEF AccountsInv

\* Every step keeps the types.
LEMMA AccountsStepType ==
    ASSUME AccountsTypeOK, [AccountsNext]_accountVars
    PROVE  AccountsTypeOK'
<1> USE AccountsAssumption, RoleNotNone DEF AccountsTypeOK
<1>1. ASSUME NEW w \in Worker, NEW c \in Client, NEW u \in User, CountUsers(w, c, u)
      PROVE  AccountsTypeOK'
  <2>1. GenesisRole \in Role
    BY DEF GenesisRole, Role
  <2> QED BY <1>1, <2>1 DEF CountUsers, tokens, Pending
<1>2. ASSUME NEW w \in Worker, InsertUser(w) PROVE AccountsTypeOK'
  <2> DEFINE p == pending[w]
  <2>1. p \in Pending /\ p.user \in User /\ p.role \in Role /\ p.client \in Client
    BY <1>2 DEF InsertUser, Pending
  <2>2. GenerateJWT(p.user, p.role) \in Token
    BY <2>1, GenerateJWTType
  <2>3. token' \in [Client -> Token \cup {None}] /\ saved' \in [Client -> Token \cup {None}]
    BY <1>2, <2>1, <2>2, KeepTokenType DEF InsertUser
  <2>4. racing' \in SUBSET User
    BY <1>2 DEF InsertUser, Pending
  <2>5. users' \in [User -> Role \cup {None}] /\ pending' \in [Worker -> Pending \cup {None}]
    BY <1>2, <2>1 DEF InsertUser
  <2>6. lastHeld' \in [User -> [Role -> 0..TokenLife]] /\ genesis' \in SUBSET User
    BY <1>2, <2>1 DEF InsertUser
  <2> QED BY <1>2, <2>3, <2>4, <2>5, <2>6 DEF InsertUser
<1>3. ASSUME NEW w \in Worker, RegisterFails(w) PROVE AccountsTypeOK'
  BY <1>3 DEF RegisterFails, tokens
<1>4. ASSUME NEW c \in Client, NEW u \in User, Login(c, u) PROVE AccountsTypeOK'
  <2>1. GenerateJWT(u, GetUserByEmail(u)) \in Token
    BY <1>4, GenerateJWTType DEF Login, GetUserByEmail
  <2> QED BY <1>4, <2>1, KeepTokenType DEF Login
<1>5. ASSUME NEW c \in Client, Logout(c) PROVE AccountsTypeOK'
  BY <1>5, KeepTokenType DEF Logout
<1>6. ASSUME NEW c \in Client, RestartClient(c) PROVE AccountsTypeOK'
  BY <1>6 DEF RestartClient
<1>7. ASSUME NEW c \in Client, NEW u \in User, NEW r \in Role, UpdateUserRole(c, u, r)
      PROVE  AccountsTypeOK'
  BY <1>7 DEF UpdateUserRole, tokens
<1>8. ASSUME NEW c \in Client, VerifyMasterKey(c) PROVE AccountsTypeOK'
  <2>1. [id |-> unlocks + 1, left |-> VaultLife] \in Vault
    BY <1>8 DEF VerifyMasterKey, Vault
  <2> QED BY <1>8, <2>1 DEF VerifyMasterKey
<1>9. ASSUME NEW c \in Client, NEW t \in timers[c], ClearVault(c, t) PROVE AccountsTypeOK'
  BY <1>9 DEF ClearVault
<1>10. ASSUME AccountsTick PROVE AccountsTypeOK'
  <2>1. token' \in [Client -> Token \cup {None}] /\ saved' \in [Client -> Token \cup {None}]
    BY <1>10, DownToken, DownNone DEF AccountsTick
  <2>2. vault' \in [Client -> Vault \cup {None}] /\ timers' \in [Client -> SUBSET Vault]
    BY <1>10, DownVault, DownNone DEF AccountsTick
  <2>3. lastHeld' \in [User -> [Role -> 0..TokenLife]]
    BY <1>10 DEF AccountsTick
  <2> QED BY <1>10, <2>1, <2>2, <2>3 DEF AccountsTick
<1>11. CASE UNCHANGED accountVars
  BY <1>11 DEF accountVars
<1> QED
  BY <1>1, <1>2, <1>3, <1>4, <1>5, <1>6, <1>7, <1>8, <1>9, <1>10, <1>11
  DEF AccountsNext

\* A step that leaves accounts, registrations and their history alone.
LEMMA PendingUnchanged ==
    ASSUME PendingInv, GenesisOwners, UNCHANGED <<users, pending, genesis, racing>>
    PROVE  PendingInv' /\ GenesisOwners'
BY DEF PendingInv, GenesisOwners, Accounts

\* Every step keeps what is known of the registrations: the heart is InsertUser, whose
\* first execution puts every registration that has counted into `racing'.
LEMMA StepPending ==
    ASSUME AccountsTypeOK, PendingInv, GenesisOwners, [AccountsNext]_accountVars
    PROVE  PendingInv' /\ GenesisOwners'
<1> USE RoleNotNone
<1>1. ASSUME NEW w \in Worker, NEW c \in Client, NEW u \in User, CountUsers(w, c, u)
      PROVE  PendingInv' /\ GenesisOwners'
  <2>1. Accounts' = Accounts /\ genesis' = genesis /\ racing' = racing
    BY <1>1 DEF CountUsers, Accounts
  <2>2. \A x \in Worker : pending'[x] # pending[x] => pending'[x].role = GenesisRole
    BY <1>1 DEF CountUsers, AccountsTypeOK
  <2> QED BY <2>1, <2>2 DEF PendingInv, GenesisOwners, GenesisRole
<1>2. ASSUME NEW w \in Worker, InsertUser(w) PROVE PendingInv' /\ GenesisOwners'
  <2> DEFINE p == pending[w]
  <2>1. p \in Pending /\ p # None /\ p.user \in User /\ p.role \in Role
    BY <1>2 DEF InsertUser, Pending, AccountsTypeOK
  <2>2. Accounts' # {}
    <3>1. users'[p.user] = p.role
      BY <1>2, <2>1 DEF InsertUser, AccountsTypeOK
    <3> QED BY <2>1, <3>1 DEF Accounts
  <2>3. \A x \in Worker : pending'[x] # None => pending'[x] = pending[x]
    BY <1>2 DEF InsertUser, AccountsTypeOK
  <2>4. CASE Accounts = {}
    <3>1. p.role = "owner" /\ genesis = {}
      BY <2>1, <2>4 DEF PendingInv
    <3>2. \A x \in Worker : pending[x] # None => pending[x].user \in racing'
      BY <1>2, <2>4 DEF InsertUser
    <3>3. genesis' = {p.user}
      BY <1>2, <3>1 DEF InsertUser
    <3> QED BY <2>1, <2>2, <2>3, <3>2, <3>3 DEF PendingInv, GenesisOwners
  <2>5. CASE Accounts # {}
    <3>1. racing' = racing
      BY <1>2, <2>5 DEF InsertUser
    <3>2. genesis' \subseteq racing /\ genesis' # {}
      BY <1>2, <2>1, <2>5 DEF InsertUser, PendingInv, GenesisOwners
    <3> QED BY <2>2, <2>3, <2>5, <3>1, <3>2 DEF PendingInv, GenesisOwners
  <2> QED BY <2>4, <2>5
<1>3. ASSUME NEW w \in Worker, RegisterFails(w) PROVE PendingInv' /\ GenesisOwners'
  <2>1. \A x \in Worker : pending'[x] # None => pending'[x] = pending[x]
    BY <1>3 DEF RegisterFails, AccountsTypeOK
  <2>2. Accounts' = Accounts /\ genesis' = genesis /\ racing' = racing
    BY <1>3 DEF RegisterFails, Accounts
  <2> QED BY <2>1, <2>2 DEF PendingInv, GenesisOwners
<1>4. ASSUME NEW c \in Client, NEW u \in User, NEW r \in Role, UpdateUserRole(c, u, r)
      PROVE  PendingInv' /\ GenesisOwners'
  <2>1. Accounts' = Accounts
    BY <1>4 DEF UpdateUserRole, Accounts, AccountsTypeOK
  <2> QED BY <1>4, <2>1 DEF UpdateUserRole, PendingInv, GenesisOwners
<1>5. ASSUME NEW c \in Client,
             \/ \E u \in User : Login(c, u)
             \/ Logout(c) \/ RestartClient(c) \/ VerifyMasterKey(c)
             \/ \E t \in timers[c] : ClearVault(c, t)
      PROVE  PendingInv' /\ GenesisOwners'
  BY <1>5, PendingUnchanged
  DEF Login, Logout, RestartClient, VerifyMasterKey, ClearVault
<1>6. CASE AccountsTick \/ UNCHANGED accountVars
  BY <1>6, PendingUnchanged DEF AccountsTick, accountVars
<1> QED BY <1>1, <1>2, <1>3, <1>4, <1>5, <1>6 DEF AccountsNext

-----------------------------------------------------------------------------
\* A token that is made now for the present role of an account is recent.
LEMMA NewIsRecent ==
    ASSUME NEW u \in User, NEW r \in Role, lastHeld'[u][r] = 0
    PROVE  Recent(GenerateJWT(u, r))'
BY AccountsAssumption DEF Recent, GenerateJWT

\* A step that makes no role older leaves the tokens as recent as they were.
LEMMA RecentStays ==
    ASSUME AccountsTypeOK, NEW t \in Token \cup {None}, Recent(t),
           AccountsTypeOK',
           \A u \in User, r \in Role : lastHeld'[u][r] <= lastHeld[u][r]
    PROVE  Recent(t)'
<1>1. CASE t = None
  BY <1>1 DEF Recent
<1>2. CASE t \in Token
  <2>1. t.user \in User /\ t.role \in Role /\ t.left \in Nat
    BY <1>2, AccountsAssumption DEF Token
  <2>2. lastHeld[t.user][t.role] \in Nat /\ lastHeld'[t.user][t.role] \in Nat
    BY <2>1 DEF AccountsTypeOK
  <2> QED BY <1>2, <2>1, <2>2, AccountsAssumption, RoleNotNone DEF Recent
<1> QED BY <1>1, <1>2

\* Every step keeps tokens no older than the roles they name.
LEMMA StepRecent ==
    ASSUME AccountsTypeOK, AccountsTypeOK', RecentInv, [AccountsNext]_accountVars
    PROVE  RecentInv'
<1> USE RoleNotNone
<1>a. \A c \in Client : token[c] \in Token \cup {None} /\ saved[c] \in Token \cup {None}
  BY DEF AccountsTypeOK
<1>b. \A u \in User, r \in Role : lastHeld[u][r] \in 0..TokenLife
  BY DEF AccountsTypeOK
<1>1. ASSUME UNCHANGED <<users, lastHeld>>,
             \A c \in Client : /\ token'[c] \in {token[c], saved[c], None}
                               /\ saved'[c] \in {saved[c], None}
      PROVE  RecentInv'
  <2>1. Recent(None)'
    BY DEF Recent
  <2> QED BY <1>1, <1>a, <1>b, <2>1, RecentStays DEF RecentInv, Recent
<1>2. ASSUME NEW w \in Worker, InsertUser(w) PROVE RecentInv'
  <2>1. PICK u \in User, r \in Role, d \in Client :
            u = pending[w].user /\ r = pending[w].role /\ d = pending[w].client
    BY <1>2 DEF InsertUser, Pending, AccountsTypeOK
  <2> DEFINE t == GenerateJWT(u, r)
  <2>2. lastHeld'[u][r] = 0
    BY <1>2, <2>1 DEF InsertUser, AccountsTypeOK
  <2>3. \A v \in User, q \in Role : lastHeld'[v][q] <= lastHeld[v][q]
    BY <1>2, <1>b, <2>1 DEF InsertUser, AccountsTypeOK
  <2>4. Recent(t)' /\ t \in Token
    BY <2>2, NewIsRecent, GenerateJWTType
  <2>5. \A c \in Client : token'[c] \in {token[c], t} /\ saved'[c] \in {saved[c], t}
    BY <1>2, <2>1, <2>4, KeepTokenType DEF InsertUser
  <2>6. \A v \in User : users'[v] # None => lastHeld'[v][users'[v]] = 0
    BY <1>2, <2>1, <2>2 DEF InsertUser, AccountsTypeOK, RecentInv
  <2>7. \A c \in Client : Recent(token[c])' /\ Recent(saved[c])'
    BY <1>a, <2>3, <2>4, <2>5, RecentStays DEF RecentInv, Recent
  <2> QED BY <2>6, <2>7 DEF RecentInv
<1>3. ASSUME NEW c \in Client, NEW u \in User, Login(c, u) PROVE RecentInv'
  <2> DEFINE t == GenerateJWT(u, users[u])
  <2>1. users[u] \in Role /\ lastHeld[u][users[u]] = 0
    BY <1>3 DEF Login, GetUserByEmail, AccountsTypeOK, RecentInv
  <2>2. Recent(t) /\ t \in Token /\ UNCHANGED <<users, lastHeld>>
    BY <1>3, <2>1, AccountsAssumption, GenerateJWTType DEF Login, Recent, GenerateJWT
  <2>3. \A d \in Client : token'[d] \in {token[d], t} /\ saved'[d] \in {saved[d], t}
    BY <1>3, <2>2, KeepTokenType DEF Login, GetUserByEmail
  <2> QED BY <1>a, <2>2, <2>3 DEF RecentInv, Recent
<1>4. ASSUME NEW c \in Client, NEW u \in User, NEW r \in Role, UpdateUserRole(c, u, r)
      PROVE  RecentInv'
  <2>1. \A v \in User, q \in Role : lastHeld'[v][q] <= lastHeld[v][q]
    BY <1>4, <1>b DEF UpdateUserRole, AccountsTypeOK
  <2>2. \A v \in User : users'[v] # None => lastHeld'[v][users'[v]] = 0
    BY <1>4 DEF UpdateUserRole, AccountsTypeOK, RecentInv
  <2>3. token' = token /\ saved' = saved
    BY <1>4 DEF UpdateUserRole, tokens
  <2> QED BY <1>a, <2>1, <2>2, <2>3, RecentStays DEF RecentInv, Recent
<1>5. ASSUME AccountsTick PROVE RecentInv'
  <2>1. \A u \in User : users'[u] # None => lastHeld'[u][users'[u]] = 0
    BY <1>5 DEF AccountsTick, AccountsTypeOK
  <2>2. ASSUME NEW t \in Token, Recent(t) PROVE Recent(Down(t))'
    <3>1. t.user \in User /\ t.role \in Role /\ t.left \in Nat
      BY AccountsAssumption DEF Token
    <3>2. \/ lastHeld'[t.user][t.role] <= lastHeld[t.user][t.role]
          \/ lastHeld'[t.user][t.role] = lastHeld[t.user][t.role] + 1
      BY <1>5, <1>b, <3>1, AccountsAssumption DEF AccountsTick
    <3>3. lastHeld[t.user][t.role] \in 0..TokenLife /\ lastHeld'[t.user][t.role] \in 0..TokenLife
      BY <3>1 DEF AccountsTypeOK
    <3>4. lastHeld[t.user][t.role] + t.left <= TokenLife
      BY <2>2 DEF Recent
    <3>5. lastHeld'[t.user][t.role] + Down(t).left <= TokenLife
      BY <3>1, <3>2, <3>3, <3>4, DownToken, AccountsAssumption
    <3> QED BY <3>5, DownToken DEF Recent
  <2>3. \A t \in Token \cup {None} : Recent(t) => Recent(Down(t))'
    BY <2>2, DownNone DEF Recent
  <2>4. \A c \in Client : token'[c] = Down(token[c]) /\ saved'[c] = Down(saved[c])
    BY <1>5 DEF AccountsTick
  <2> QED BY <1>a, <2>1, <2>3, <2>4 DEF RecentInv, Recent
<1>6. ASSUME NEW c \in Client, Logout(c) \/ RestartClient(c) PROVE RecentInv'
  BY <1>1, <1>6, KeepTokenType DEF Logout, RestartClient, AccountsTypeOK
<1>7. ASSUME \/ \E w \in Worker, c \in Client, u \in User : CountUsers(w, c, u)
             \/ \E w \in Worker : RegisterFails(w)
             \/ \E c \in Client : \/ VerifyMasterKey(c)
                                  \/ \E t \in timers[c] : ClearVault(c, t)
             \/ UNCHANGED accountVars
      PROVE  RecentInv'
  BY <1>7, <1>1 DEF CountUsers, RegisterFails, VerifyMasterKey, ClearVault, tokens,
                    accountVars
<1> QED BY <1>2, <1>3, <1>4, <1>5, <1>6, <1>7 DEF AccountsNext

-----------------------------------------------------------------------------
\* Every step keeps the timer of a vault token with the token.
LEMMA StepVault ==
    ASSUME AccountsTypeOK, VaultIsTimed, [AccountsNext]_accountVars
    PROVE  VaultIsTimed'
<1> USE DEF AccountsTypeOK, VaultIsTimed
<1>1. ASSUME NEW c \in Client, VerifyMasterKey(c) PROVE VaultIsTimed'
  BY <1>1 DEF VerifyMasterKey
<1>2. ASSUME NEW c \in Client, NEW t \in timers[c], ClearVault(c, t) PROVE VaultIsTimed'
  BY <1>2 DEF ClearVault
<1>3. ASSUME NEW c \in Client, RestartClient(c) PROVE VaultIsTimed'
  BY <1>3 DEF RestartClient
<1>4. CASE AccountsTick
  <2>1. \A c \in Client : vault'[c] # None => vault[c] # None
    BY <1>4, DownNone DEF AccountsTick
  <2> QED BY <1>4, <2>1 DEF AccountsTick
<1>5. CASE UNCHANGED <<vault, timers>>
  BY <1>5
<1>6. ASSUME \/ \E w \in Worker : \/ \E c \in Client, u \in User : CountUsers(w, c, u)
                                  \/ InsertUser(w) \/ RegisterFails(w)
             \/ \E c \in Client : \/ \E u \in User : Login(c, u)
                                  \/ \E u \in User, r \in Role : UpdateUserRole(c, u, r)
                                  \/ Logout(c)
             \/ UNCHANGED accountVars
      PROVE  UNCHANGED <<vault, timers>>
  BY <1>6 DEF CountUsers, InsertUser, RegisterFails, Login, UpdateUserRole, Logout,
              tokens, accountVars
<1> QED BY <1>1, <1>2, <1>3, <1>4, <1>5, <1>6 DEF AccountsNext

-----------------------------------------------------------------------------
\* The invariant holds in every state of AuthServer, the interceptor and the clients.
THEOREM AccountsInvariance == AccountsSpec => []AccountsInv
<1>1. AccountsInv /\ [AccountsNext]_accountVars => AccountsInv'
  BY AccountsStepType, StepPending, StepRecent, StepVault DEF AccountsInv
<1> QED BY <1>1, AccountsInvInit, PTL DEF AccountsSpec

\* Every variable of Accounts keeps its type, whatever registrations, logins, role
\* changes, unlocks and restarts come.
THEOREM AccountsTypeCorrect == AccountsSpec => []AccountsTypeOK
<1>1. AccountsInv => AccountsTypeOK
  BY DEF AccountsInv
<1> QED BY <1>1, AccountsInvariance, PTL

\* CreateUser makes an owner besides the first one only of an account whose
\* registration had counted before the first commit, and there is always a first one.
THEOREM OwnersAreFirst == AccountsSpec => []GenesisOwners
<1>1. AccountsInv => GenesisOwners
  BY DEF AccountsInv
<1> QED BY <1>1, AccountsInvariance, PTL

\* The interceptor serves a request with a role only if the account of the token had
\* this role less than a token's lifetime ago.
THEOREM RolesAreRecent == AccountsSpec => []RoleIsRecent
<1>1. AccountsInv => RoleIsRecent
  <2> SUFFICES ASSUME AccountsInv, NEW c \in Client, RoleOf(token[c]) # "guest"
               PROVE  lastHeld[token[c].user][token[c].role] < TokenLife
    BY DEF RoleIsRecent
  <2>1. token[c] # None /\ token[c].left > 0
    BY DEF RoleOf, ValidateJWT
  <2>2. token[c] \in Token
    BY <2>1 DEF AccountsInv, AccountsTypeOK
  <2>3. /\ token[c].left \in Nat
        /\ lastHeld[token[c].user][token[c].role] \in 0..TokenLife
    BY <2>2, AccountsAssumption DEF AccountsInv, AccountsTypeOK, Token
  <2>4. lastHeld[token[c].user][token[c].role] + token[c].left <= TokenLife
    BY <2>1 DEF AccountsInv, RecentInv, Recent
  <2> QED BY <2>1, <2>3, <2>4, AccountsAssumption
<1> QED BY <1>1, AccountsInvariance, PTL

\* A vault token of the SDK never outlives the goroutines that are to clear it.
THEOREM VaultTokensAreTimed == AccountsSpec => []VaultIsTimed
<1>1. AccountsInv => VaultIsTimed
  BY DEF AccountsInv
<1> QED BY <1>1, AccountsInvariance, PTL

-----------------------------------------------------------------------------
\* In the core server, as MCCore puts it together, the accounts, the channels and the
\* cluster table behave as each does by itself: a step of one leaves the others alone.
THEOREM CoreImplementsParts == Spec => AccountsSpec /\ GovernanceSpec /\ ClusterSpec
<1>1. Init => AccountsInit /\ GovernanceInit /\ ClusterInit
  BY DEF Init
<1>2. [Next]_vars => /\ [AccountsNext]_accountVars
                     /\ [GovernanceNext]_channelVars
                     /\ [ClusterNext]_clusterVars
  BY DEF Next, vars
<1> QED
  BY <1>1, <1>2, PTL DEF Spec, AccountsSpec, GovernanceSpec, ClusterSpec

\* Type correctness of the core server, whichever of its parts is at work.
THEOREM CoreTypeCorrect == Spec => []TypeOK
<1> DEFINE PartOK == part \in {"accounts", "channels", "cluster"}
<1>1. Init => PartOK
  BY DEF Init
<1>2. PartOK /\ [Next]_vars => PartOK'
  BY DEF Next, vars
<1>3. PartOK /\ AccountsTypeOK /\ GovernanceTypeOK /\ ClusterTypeOK => TypeOK
  BY DEF TypeOK
<1>4. Spec => []PartOK
  BY <1>1, <1>2, PTL DEF Spec
<1> QED
  BY <1>3, <1>4, CoreImplementsParts, AccountsTypeCorrect, GovernanceTypeCorrect,
     ClusterTypeCorrect, PTL
=============================================================================
