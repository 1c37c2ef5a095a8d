---------------------------- MODULE AdminApiProofs ----------------------------
(***************************************************************************)
(* Theorems about AdminApi, for any number of overlapping requests, users, *)
(* keys and models.                                                        *)
(***************************************************************************)
EXTENDS AdminApi, FiniteSetTheorems, TLAPS

(* How much of what lets a request in has been true since it was sent, by  *)
(* how far its authentication has come.                                    *)
HeldBy(r) ==
    LET at == auth[r].at
    IN  /\ at = "key_read" => held[r].key
        /\ at \in {"user_read", "authenticated"} =>
              /\ held[r].key /\ held[r].enabled
              /\ auth[r].admin => held[r].admin
        /\ at \in {"patching", "handling"} =>
              held[r].key /\ held[r].enabled /\ held[r].admin

(* A revocation is never taken back, and the account that a patch changes  *)
(* has a row.                                                              *)
AccountsInv ==
    /\ A!TypeOK
    /\ was_revoked = revoked
    /\ \A r \in Requests :
          HeldBy(r) /\ (auth[r].at = "patching" => auth[r].user \in users)

(* Where each transaction may be, by its body.  Only one that is to set    *)
(* the default clears others.                                              *)
Transaction(c) ==
    /\ call[c].at \in {"clearing", "locking"} => call[c].body.is_default
    /\ call[c].at = "seeding" =>
          /\ call[c].body \in M!SeedBodies /\ call[c].alias = SeededAlias
          /\ call[c].cleared = {}
    /\ call[c].cleared # {} => call[c].body.is_default
    /\ call[c].creates => call[c].body.enabled # "keep"

RegistryInv ==
    /\ M!TypeOK
    /\ \A a, b \in is_default : a = b
    /\ \A c \in Requests : Transaction(c)

AdminInv == AccountsInv /\ RegistryInv

-----------------------------------------------------------------------------
(* The steps of Accounts, each with its history, and of ModelRegistry.     *)
AccountsStep ==
    /\ \/ \E r \in Requests :
             \/ \E k \in Keys : A!Send(r, k) \/ A!Issue(r, k) \/ A!Revoke(r, k)
             \/ A!ReadKey(r) \/ A!ReadUser(r) \/ A!Touch(r) \/ A!Finish(r)
             \/ \E u \in Users :
                   \/ A!CreateUser(r, u)
                   \/ \E change \in A!Changes : A!PatchReads(r, u, change)
             \/ A!PatchCommits(r) \/ A!Handles(r)
       \/ \E k \in Keys : A!Bootstrap(k)
    /\ A!History

RegistryStep(c) ==
    \/ \E a \in Aliases, body \in Bodies :
          M!PatchSelects(c, a, body) \/ M!CreateSelects(c, a, body)
    \/ M!ClearStarts(c) \/ M!Clears(c)
    \/ M!SeedSelects(c) \/ M!SeedChecks(c)
    \/ M!Commits(c) \/ M!Fails(c) \/ M!Aborts(c)

(* Every step is one of each, or leaves the other's tables alone.          *)
LEMMA StepsOfBoth ==
    ASSUME [Next]_vars
    PROVE  /\ AccountsStep \/ UNCHANGED accountVars
           /\ (\E c \in Requests : RegistryStep(c)) \/ UNCHANGED registryVars
<1>1. CASE UNCHANGED vars
  BY <1>1 DEF vars
<1>2. ASSUME NEW r \in Requests, NEW k \in Keys,
             Send(r, k) \/ Issue(r, k) \/ Revoke(r, k) \/ Bootstrap(k)
      PROVE  AccountsStep /\ UNCHANGED registryVars
  BY <1>2 DEF Send, Issue, Revoke, Bootstrap, AccountsStep
<1>3. ASSUME NEW r \in Requests,
             ReadKey(r) \/ ReadUser(r) \/ Touch(r) \/ PatchCommits(r)
      PROVE  AccountsStep /\ UNCHANGED registryVars
  BY <1>3 DEF ReadKey, ReadUser, Touch, PatchCommits, AccountsStep
<1>4. ASSUME NEW r \in Requests, NEW u \in Users, CreateUser(r, u)
      PROVE  AccountsStep /\ UNCHANGED registryVars
  BY <1>4 DEF CreateUser, AccountsStep
<1>5. ASSUME NEW r \in Requests, NEW u \in Users, NEW change \in A!Changes,
             PatchReads(r, u, change)
      PROVE  AccountsStep /\ UNCHANGED registryVars
  BY <1>5 DEF PatchReads, AccountsStep
<1>6. ASSUME NEW r \in Requests, Finish(r)
      PROVE  AccountsStep /\ (RegistryStep(r) \/ UNCHANGED registryVars)
  BY <1>6 DEF Finish, AccountsStep, RegistryStep
<1>7. ASSUME NEW r \in Requests, NEW a \in Aliases, NEW body \in Bodies,
             ModelSelects(r, a, body)
      PROVE  AccountsStep /\ RegistryStep(r)
  BY <1>7 DEF ModelSelects, AccountsStep, RegistryStep
<1>8. ASSUME NEW r \in Requests, ModelRuns(r) \/ Seed(r)
      PROVE  UNCHANGED accountVars /\ RegistryStep(r)
  BY <1>8 DEF ModelRuns, Seed, RegistryStep
<1>9. ASSUME NEW r \in Requests, ModelEnds(r)
      PROVE  AccountsStep /\ RegistryStep(r)
  BY <1>9 DEF ModelEnds, AccountsStep, RegistryStep
<1>. QED
  BY <1>1, <1>2, <1>3, <1>4, <1>5, <1>6, <1>7, <1>8, <1>9 DEF Next

-----------------------------------------------------------------------------
(* Of the accounts.                                                        *)
LEMMA FirstTyped == FirstKey \in Keys /\ FirstUser \in Users
BY AdminAssumption DEF A!AccountsAssumption

LEMMA AccountsInit == Init => AccountsInv
BY FirstTyped, AdminAssumption
DEF Init, A!Init, AccountsInv, A!TypeOK, HeldBy, A!NoRequest, A!NothingHeld,
    A!AccountsAssumption, A!Changes

(* Where a request may be, and what it may have loaded.                    *)
AuthType ==
    [at : {"idle", "sent", "key_read", "user_read",
           "authenticated", "patching", "handling"},
     key : Keys, admin : BOOLEAN,
     user : Users, change : A!Changes \cup {"none"}]

LEMMA NoRequestTyped == A!NoRequest \in AuthType /\ A!NoRequest.at = "idle"
BY FirstTyped DEF A!NoRequest, AuthType

(* What the steps have in common: rows and keys only come, revocations     *)
(* stay, and each request stays where it is, ends, or goes on by one place.*)
Moves(r) ==
    \/ auth'[r] = auth[r]
    \/ auth'[r].at \in {"idle", "sent"}
    \/ /\ auth[r].at = "sent" /\ auth'[r].at = "key_read"
       /\ auth'[r].key = auth[r].key
       /\ auth[r].key \in issued' \ revoked'
    \/ /\ auth[r].at = "key_read" /\ auth'[r].at = "user_read"
       /\ auth'[r].key = auth[r].key
       /\ OwnerOf[auth[r].key] \in enabled_users'
       /\ auth'[r].admin => OwnerOf[auth[r].key] \in admins'
    \/ /\ auth[r].at = "user_read" /\ auth'[r].at = "authenticated"
       /\ auth'[r].key = auth[r].key /\ auth'[r].admin = auth[r].admin
    \/ /\ auth[r].at = "authenticated" /\ auth[r].admin
       /\ auth'[r].at \in {"patching", "handling"}
       /\ auth'[r].at = "patching" => auth'[r].user \in users

TablesGrow ==
    /\ users \subseteq users' /\ users' \subseteq Users
    /\ enabled_users' \subseteq users' /\ admins' \subseteq users'
    /\ issued \subseteq issued' /\ issued' \subseteq Keys
    /\ \A k \in issued' : OwnerOf[k] \in users'
    /\ revoked \subseteq revoked' /\ revoked' \subseteq issued'

(* Steps that move a request and leave the tables alone.                   *)
LEMMA RequestMoves ==
    ASSUME A!TypeOK, NEW r \in Requests, NEW k \in Keys, NEW u \in Users,
           NEW change \in A!Changes,
           \/ A!Send(r, k) \/ A!ReadKey(r) \/ A!ReadUser(r) \/ A!Touch(r)
           \/ A!Finish(r) \/ A!PatchReads(r, u, change) \/ A!Handles(r)
    PROVE  /\ UNCHANGED A!tables
           /\ auth' \in [Requests -> AuthType]
           /\ \A q \in Requests : Moves(q)
<1>. USE FirstTyped, NoRequestTyped
<1>. auth \in [Requests -> AuthType]
  BY DEF A!TypeOK, AuthType
<1>. UNCHANGED A!tables
  BY DEF A!Send, A!ReadKey, A!ReadUser, A!Touch, A!Finish, A!PatchReads, A!Handles
<1>1. CASE A!Send(r, k)
  BY <1>1 DEF A!Send, AuthType, Moves
<1>2. CASE A!ReadKey(r)
  BY <1>2 DEF A!ReadKey, A!Over, A!Good, AuthType, Moves, A!tables
<1>3. CASE A!ReadUser(r)
  <2>1. (OwnerOf[auth[r].key] \in admins) \in BOOLEAN
    OBVIOUS
  <2>. QED  BY <1>3, <2>1 DEF A!ReadUser, A!Over, AuthType, Moves, A!tables
<1>4. CASE A!Touch(r)
  BY <1>4 DEF A!Touch, AuthType, Moves
<1>5. CASE A!Finish(r)
  BY <1>5 DEF A!Finish, A!Over, AuthType, Moves
<1>6. CASE A!PatchReads(r, u, change)
  <2>1. PICK c \in A!Changes \cup {"none"} :
           /\ auth[r].at = "authenticated" /\ auth[r].admin /\ u \in users
           /\ auth' = [auth EXCEPT ![r].at = "patching", ![r].key = FirstKey,
                                   ![r].user = u, ![r].change = c]
    BY <1>6, Zenon DEF A!PatchReads, A!IsAdminRequest
  <2>. QED  BY <2>1 DEF AuthType, Moves
<1>7. CASE A!Handles(r)
  BY <1>7 DEF A!Handles, A!IsAdminRequest, AuthType, Moves
<1>. QED  BY <1>1, <1>2, <1>3, <1>4, <1>5, <1>6, <1>7

(* Steps that change a table and end their request, if any.                *)
LEMMA TablesChange ==
    ASSUME AccountsInv, NEW r \in Requests, NEW k \in Keys, NEW u \in Users,
           \/ A!CreateUser(r, u) \/ A!PatchCommits(r)
           \/ A!Issue(r, k) \/ A!Revoke(r, k) \/ A!Bootstrap(k)
    PROVE  /\ TablesGrow
           /\ auth' \in [Requests -> AuthType]
           /\ \A q \in Requests : Moves(q)
<1>. USE FirstTyped, NoRequestTyped, AdminAssumption DEF A!AccountsAssumption
<1>0. auth \in [Requests -> AuthType]
  BY DEF AccountsInv, A!TypeOK, AuthType
<1>1. A!Over(r) \/ UNCHANGED auth
  BY DEF A!CreateUser, A!PatchCommits, A!Issue, A!Revoke, A!Bootstrap
<1>2. auth' \in [Requests -> AuthType] /\ \A q \in Requests : Moves(q)
  BY <1>0, <1>1 DEF A!Over, Moves
<1>. SUFFICES TablesGrow
  BY <1>2
<1>3. CASE A!CreateUser(r, u)
  BY <1>3 DEF A!CreateUser, AccountsInv, A!TypeOK, TablesGrow
<1>4. CASE A!PatchCommits(r)
  <2>1. auth[r].user \in users
    BY <1>4 DEF A!PatchCommits, AccountsInv
  <2>2. /\ enabled_users' \subseteq enabled_users \cup {auth[r].user}
        /\ admins' \subseteq admins \cup {auth[r].user}
    BY <1>4 DEF A!PatchCommits
  <2>. QED  BY <1>4, <2>1, <2>2 DEF A!PatchCommits, AccountsInv, A!TypeOK, TablesGrow
<1>5. CASE A!Issue(r, k)
  BY <1>5 DEF A!Issue, AccountsInv, A!TypeOK, TablesGrow
<1>6. CASE A!Revoke(r, k)
  BY <1>6 DEF A!Revoke, AccountsInv, A!TypeOK, TablesGrow
<1>7. CASE A!Bootstrap(k)
  BY <1>7 DEF A!Bootstrap, AccountsInv, A!TypeOK, TablesGrow
<1>. QED  BY <1>3, <1>4, <1>5, <1>6, <1>7

(* The history keeps up with every such step.                              *)
LEMMA HistoryKept ==
    ASSUME AccountsInv, TablesGrow, A!History,
           auth' \in [Requests -> AuthType],
           \A q \in Requests : Moves(q)
    PROVE  AccountsInv'
<1>1. was_revoked' = revoked'
  BY DEF AccountsInv, TablesGrow, A!History
<1>2. held' \in [Requests -> [key : BOOLEAN, enabled : BOOLEAN, admin : BOOLEAN]]
  <2>1. /\ A!NothingHeld \in [key : BOOLEAN, enabled : BOOLEAN, admin : BOOLEAN]
        /\ held \in [Requests -> [key : BOOLEAN, enabled : BOOLEAN, admin : BOOLEAN]]
    BY DEF A!NothingHeld, AccountsInv, A!TypeOK
  <2>. QED  BY <2>1 DEF A!History
<1>3. A!TypeOK'
  BY <1>1, <1>2 DEF A!TypeOK, TablesGrow, AuthType
<1>4. ASSUME NEW r \in Requests
      PROVE  HeldBy(r)' /\ (auth'[r].at = "patching" => auth'[r].user \in users')
  <2>1. auth'[r].at = "patching" => auth'[r].user \in users'
    BY DEF AccountsInv, Moves, TablesGrow
  <2>2. CASE auth'[r].at \in {"idle", "sent"}
    BY <2>2 DEF HeldBy
  <2>3. CASE auth'[r].at \in {"patching", "handling"}
    <3>1. held'[r] = held[r]
      BY <2>3 DEF Moves, A!History
    <3>2. \/ auth[r].at \in {"patching", "handling"}
          \/ auth[r].at = "authenticated" /\ auth[r].admin
      BY <2>3 DEF Moves
    <3>3. held[r].key /\ held[r].enabled /\ held[r].admin
      BY <3>2 DEF AccountsInv, HeldBy
    <3>. QED  BY <2>1, <2>3, <3>1, <3>3 DEF HeldBy
  <2>4. CASE auth'[r].at \in {"key_read", "user_read", "authenticated"}
    <3>1. auth'[r].key = auth[r].key /\ auth[r].at # "idle"
      BY <2>4 DEF Moves
    <3>2. /\ held'[r].key =
                (held[r].key \/ auth[r].key \in issued' \ was_revoked')
          /\ held'[r].enabled =
                (held[r].enabled \/ OwnerOf[auth[r].key] \in enabled_users')
          /\ held'[r].admin =
                (held[r].admin
                   \/ OwnerOf[auth[r].key] \in enabled_users' \cap admins')
      BY <2>4, <3>1 DEF A!History
    <3>. QED  BY <1>1, <2>4, <3>2 DEF Moves, AccountsInv, HeldBy
  <2>5. auth'[r].at \in {"idle", "sent", "key_read", "user_read",
                         "authenticated", "patching", "handling"}
    BY DEF AuthType
  <2>. QED  BY <2>1, <2>2, <2>3, <2>4, <2>5
<1>. QED  BY <1>1, <1>3, <1>4 DEF AccountsInv

LEMMA AccountsNext ==
    ASSUME AccountsInv, AccountsStep \/ UNCHANGED accountVars
    PROVE  AccountsInv'
<1>1. CASE UNCHANGED accountVars
  BY <1>1 DEF accountVars, AccountsInv, A!TypeOK, HeldBy
<1>2. CASE AccountsStep
  <2>1. A!History
    BY <1>2 DEF AccountsStep
  <2>2. ASSUME UNCHANGED A!tables
        PROVE  TablesGrow
    BY <2>2 DEF A!tables, AccountsInv, A!TypeOK, TablesGrow
  <2>3. /\ TablesGrow
        /\ auth' \in [Requests -> AuthType]
        /\ \A q \in Requests : Moves(q)
    <3>0. A!TypeOK /\ FirstKey \in Keys /\ FirstUser \in Users
          /\ "enable" \in A!Changes
      BY FirstTyped DEF AccountsInv, A!Changes
    <3>1. ASSUME NEW r \in Requests, NEW k \in Keys, NEW u \in Users,
                 NEW change \in A!Changes,
                 \/ A!Send(r, k) \/ A!ReadKey(r) \/ A!ReadUser(r) \/ A!Touch(r)
                 \/ A!Finish(r) \/ A!PatchReads(r, u, change) \/ A!Handles(r)
          PROVE  /\ TablesGrow
                 /\ auth' \in [Requests -> AuthType]
                 /\ \A q \in Requests : Moves(q)
      BY <2>2, <3>0, <3>1, RequestMoves
    <3>2. CASE Requests = {}
      <4>1. PICK k \in Keys : A!Bootstrap(k)
        BY <1>2, <3>2 DEF AccountsStep
      <4>. QED
        BY <4>1, <3>2, AdminAssumption
        DEF A!Bootstrap, AccountsInv, A!TypeOK, TablesGrow, A!AccountsAssumption
    <3>3. CASE Requests # {}
      <4>1. CASE \E r \in Requests :
                    \/ \E k \in Keys : A!Send(r, k)
                    \/ A!ReadKey(r) \/ A!ReadUser(r) \/ A!Touch(r)
                    \/ A!Finish(r) \/ A!Handles(r)
                    \/ \E u \in Users, change \in A!Changes :
                          A!PatchReads(r, u, change)
        BY <4>1, <3>0, <3>1
      <4>2. CASE \/ \E r \in Requests :
                       \/ \E k \in Keys : A!Issue(r, k) \/ A!Revoke(r, k)
                       \/ \E u \in Users : A!CreateUser(r, u)
                       \/ A!PatchCommits(r)
                 \/ \E k \in Keys : A!Bootstrap(k)
        BY <4>2, <3>0, <3>3, TablesChange
      <4>. QED  BY <1>2, <4>1, <4>2 DEF AccountsStep
    <3>. QED  BY <3>2, <3>3
  <2>. QED  BY <2>1, <2>3, HistoryKept
<1>. QED  BY <1>1, <1>2

-----------------------------------------------------------------------------
(* Of the model registry.                                                  *)
LEMMA RegistryInit == Init => RegistryInv
BY AdminAssumption
DEF Init, M!Init, RegistryInv, M!TypeOK, M!NoCall, Transaction,
    M!RegistryAssumption

(* What an open transaction may hold.                                      *)
CallType ==
    [at : {"idle", "clearing", "locking", "seeding", "writing"},
     alias : Aliases,
     body : Bodies \cup M!SeedBodies \cup {M!NoCall.body},
     creates : BOOLEAN,
     loaded_enabled : BOOLEAN, loaded_default : BOOLEAN,
     found : SUBSET Aliases, cleared : SUBSET Aliases,
     flushed : SUBSET Aliases]

LEMMA NoCallTyped ==
    /\ M!NoCall \in CallType /\ M!NoCall.at = "idle"
    /\ M!NoCall.cleared = {} /\ M!NoCall.creates = FALSE
BY AdminAssumption DEF M!NoCall, CallType, M!RegistryAssumption

(* A step that leaves the table alone and one transaction in order.        *)
LEMMA OneCall ==
    ASSUME RegistryInv, NEW c \in Requests, NEW x \in CallType,
           call' = [call EXCEPT ![c] = x], Transaction(c)',
           x.at = "idle" => x = M!NoCall,
           registered' \subseteq Aliases, enabled' \subseteq registered',
           is_default' \subseteq registered', \A a, b \in is_default' : a = b
    PROVE  RegistryInv'
<1>1. call \in [Requests -> CallType]
  BY DEF RegistryInv, M!TypeOK, CallType
<1>2. call' \in [Requests -> CallType]
  BY <1>1
<1>3. \A d \in Requests : Transaction(d)'
  BY <1>1 DEF Transaction, RegistryInv
<1>4. \A d \in Requests : call'[d].at = "idle" => call'[d] = M!NoCall
  BY <1>1 DEF RegistryInv, M!TypeOK
<1>5. M!TypeOK'
  BY <1>2, <1>4 DEF M!TypeOK, CallType
<1>. QED  BY <1>3, <1>5 DEF RegistryInv

LEMMA BodyTyped ==
    /\ \A body \in Bodies \cup M!SeedBodies \cup {M!NoCall.body} :
          body.is_default \in BOOLEAN /\ body.enabled \in {"keep", "on", "off"}
    /\ M!NoCall.body = [is_default |-> FALSE, enabled |-> "keep"]
    /\ SeededAlias \in Aliases
<1>1. /\ Bodies \subseteq [is_default : BOOLEAN, enabled : {"keep", "on", "off"}]
      /\ SeededAlias \in Aliases
  BY AdminAssumption DEF M!RegistryAssumption
<1>2. M!NoCall.body = [is_default |-> FALSE, enabled |-> "keep"]
  BY DEF M!NoCall
<1>3. M!SeedBodies \subseteq [is_default : BOOLEAN, enabled : {"keep", "on", "off"}]
  BY DEF M!SeedBodies
<1>4. M!NoCall.body \in [is_default : BOOLEAN, enabled : {"keep", "on", "off"}]
  BY <1>2
<1>5. \A body \in [is_default : BOOLEAN, enabled : {"keep", "on", "off"}] :
         body.is_default \in BOOLEAN /\ body.enabled \in {"keep", "on", "off"}
  OBVIOUS
<1>. QED  BY <1>1, <1>2, <1>3, <1>4, <1>5

(* A call that starts.                                                     *)
LEMMA Selecting ==
    ASSUME RegistryInv, NEW c \in Requests, NEW a \in Aliases,
           NEW body \in Bodies,
           M!PatchSelects(c, a, body) \/ M!CreateSelects(c, a, body)
    PROVE  RegistryInv'
<1>1. PICK creates \in BOOLEAN :
         /\ M!Starts(c, a, body, creates)
         /\ creates => body.enabled # "keep"
         /\ UNCHANGED <<registered, enabled, is_default>>
  BY DEF M!PatchSelects, M!CreateSelects
<1>2. (a \in enabled) \in BOOLEAN /\ (a \in is_default) \in BOOLEAN
  OBVIOUS
<1>3. PICK x \in CallType :
         /\ call' = [call EXCEPT ![c] = x]
         /\ x.at = IF body.is_default THEN "clearing" ELSE "writing"
         /\ x.body = body /\ x.creates = creates /\ x.cleared = {}
  <2>. DEFINE x == [M!NoCall EXCEPT
                       !.at = IF body.is_default THEN "clearing" ELSE "writing",
                       !.alias = a, !.body = body, !.creates = creates,
                       !.loaded_enabled = a \in enabled,
                       !.loaded_default = a \in is_default]
  <2>1. call' = [call EXCEPT ![c] = x]
    BY <1>1 DEF M!Starts
  <2>2. x \in CallType
    BY <1>2, NoCallTyped DEF CallType
  <2>3. /\ x.at = IF body.is_default THEN "clearing" ELSE "writing"
        /\ x.body = body /\ x.creates = creates /\ x.cleared = {}
    BY NoCallTyped DEF M!NoCall
  <2>. HIDE DEF x
  <2>. QED  BY <2>1, <2>2, <2>3
<1>4. call'[c] = x
  BY <1>3 DEF RegistryInv, M!TypeOK
<1>5. Transaction(c)'
  BY <1>1, <1>3, <1>4 DEF Transaction
<1>. QED  BY <1>1, <1>3, <1>5, OneCall DEF RegistryInv, M!TypeOK

(* The seed script's run starts, and checks for a default.                 *)
LEMMA Seeding ==
    ASSUME RegistryInv, NEW c \in Requests,
           M!SeedSelects(c) \/ M!SeedChecks(c)
    PROVE  RegistryInv'
<1>0. call \in [Requests -> CallType]
  BY DEF RegistryInv, M!TypeOK, CallType
<1>1. CASE M!SeedSelects(c)
  <2>1. /\ (SeededAlias \in enabled) \in BOOLEAN
        /\ (SeededAlias \in is_default) \in BOOLEAN
    OBVIOUS
  <2>2. PICK x \in CallType :
           /\ call' = [call EXCEPT ![c] = x]
           /\ x.at = "seeding" /\ x.alias = SeededAlias
           /\ x.body \in M!SeedBodies /\ x.creates = FALSE /\ x.cleared = {}
    <3>. DEFINE x == [M!NoCall EXCEPT
                         !.at = "seeding", !.body.enabled = "on",
                         !.loaded_enabled = SeededAlias \in enabled,
                         !.loaded_default = SeededAlias \in is_default]
    <3>1. call' = [call EXCEPT ![c] = x]
      BY <1>1 DEF M!SeedSelects
    <3>2. [M!NoCall.body EXCEPT !.enabled = "on"] \in M!SeedBodies
      BY BodyTyped DEF M!SeedBodies
    <3>3. /\ x.at = "seeding" /\ x.alias = SeededAlias
          /\ x.body = [M!NoCall.body EXCEPT !.enabled = "on"]
          /\ x.creates = FALSE /\ x.cleared = {}
      BY DEF M!NoCall
    <3>4. x \in CallType
      BY <2>1, <3>2, NoCallTyped DEF CallType
    <3>. HIDE DEF x
    <3>. QED  BY <3>1, <3>2, <3>3, <3>4
  <2>3. Transaction(c)'
    BY <1>0, <2>2 DEF Transaction
  <2>. QED  BY <1>1, <2>2, <2>3, OneCall DEF M!SeedSelects, RegistryInv, M!TypeOK
<1>2. CASE M!SeedChecks(c)
  <2>1. PICK F \in SUBSET Aliases, d \in BOOLEAN :
           call' = [call EXCEPT ![c].at = "writing", ![c].flushed = F,
                                ![c].body.is_default = d]
    <3>1. (is_default = {}) \in BOOLEAN
      OBVIOUS
    <3>. QED  BY <1>2, <3>1, BodyTyped, Zenon DEF M!SeedChecks
  <2>2. /\ call[c] \in CallType /\ call[c].at = "seeding"
        /\ call[c].body \in M!SeedBodies /\ call[c].cleared = {}
    BY <1>0, <1>2 DEF M!SeedChecks, RegistryInv, Transaction
  <2>3. PICK x \in CallType :
           /\ call' = [call EXCEPT ![c] = x]
           /\ x.at = "writing" /\ x.body \in M!SeedBodies /\ x.cleared = {}
           /\ x.creates = call[c].creates
    <3>. DEFINE x == [call[c] EXCEPT !.at = "writing", !.flushed = F,
                                     !.body.is_default = d]
    <3>1. call' = [call EXCEPT ![c] = x]
      BY <1>0, <2>1
    <3>2. [call[c].body EXCEPT !.is_default = d] \in M!SeedBodies
      BY <2>2 DEF M!SeedBodies
    <3>3. /\ x.at = "writing" /\ x.cleared = {}
          /\ x.body = [call[c].body EXCEPT !.is_default = d]
          /\ x.creates = call[c].creates
      BY <2>2 DEF CallType
    <3>4. x \in CallType
      BY <2>2, <3>2 DEF CallType
    <3>. HIDE DEF x
    <3>. QED  BY <3>1, <3>2, <3>3, <3>4
  <2>4. Transaction(c)'
    BY <1>0, <2>3, BodyTyped DEF Transaction, M!SeedBodies
  <2>5. UNCHANGED <<registered, enabled, is_default>>
    BY <1>2 DEF M!SeedChecks
  <2>. QED  BY <2>3, <2>4, <2>5, OneCall DEF RegistryInv, M!TypeOK
<1>. QED  BY <1>1, <1>2

(* The UPDATE that clears the default.                                     *)
LEMMA Clearing ==
    ASSUME RegistryInv, NEW c \in Requests, M!ClearStarts(c) \/ M!Clears(c)
    PROVE  RegistryInv'
<1>0. call \in [Requests -> CallType] /\ is_default \subseteq Aliases
  BY DEF RegistryInv, M!TypeOK, CallType
<1>1. call[c] \in CallType /\ Transaction(c)
  BY <1>0 DEF RegistryInv
<1>2. PICK x \in CallType :
         /\ call' = [call EXCEPT ![c] = x]
         /\ x.at \in {"locking", "writing"} /\ x.body = call[c].body
         /\ x.creates = call[c].creates /\ x.body.is_default
  <2>1. CASE M!ClearStarts(c)
    <3>1. call' = [call EXCEPT ![c] =
                     [call[c] EXCEPT !.at = "locking", !.found = is_default]]
      BY <1>0, <2>1 DEF M!ClearStarts
    <3>2. [call[c] EXCEPT !.at = "locking", !.found = is_default] \in CallType
      BY <1>0, <1>1 DEF CallType
    <3>. QED  BY <1>1, <2>1, <3>1, <3>2 DEF M!ClearStarts, CallType, Transaction
  <2>2. CASE M!Clears(c)
    <3>1. call' = [call EXCEPT ![c] =
                     [call[c] EXCEPT !.at = "writing",
                        !.cleared = call[c].cleared \cup (call[c].found \cap is_default)]]
      BY <1>0, <2>2 DEF M!Clears
    <3>2. [call[c] EXCEPT !.at = "writing",
             !.cleared = call[c].cleared \cup (call[c].found \cap is_default)]
            \in CallType
      BY <1>0, <1>1 DEF CallType
    <3>. QED  BY <1>1, <2>2, <3>1, <3>2 DEF M!Clears, CallType, Transaction
  <2>. QED  BY <2>1, <2>2
<1>3. Transaction(c)'
  BY <1>0, <1>1, <1>2 DEF Transaction
<1>4. UNCHANGED <<registered, enabled, is_default>>
  BY DEF M!ClearStarts, M!Clears
<1>. QED  BY <1>2, <1>3, <1>4, OneCall DEF RegistryInv, M!TypeOK

(* A call that returns.  The unique index leaves one default.              *)
LEMMA Returning ==
    ASSUME RegistryInv, NEW c \in Requests,
           M!Commits(c) \/ M!Fails(c) \/ M!Aborts(c)
    PROVE  RegistryInv'
<1>0. call \in [Requests -> CallType]
  BY DEF RegistryInv, M!TypeOK, CallType
<1>1. call' = [call EXCEPT ![c] = M!NoCall]
  BY DEF M!Commits, M!Fails, M!Aborts, M!Returned
<1>2. Transaction(c)'
  BY <1>0, <1>1, NoCallTyped DEF Transaction
<1>3. CASE UNCHANGED <<registered, enabled, is_default>>
  BY <1>1, <1>2, <1>3, OneCall, NoCallTyped DEF RegistryInv, M!TypeOK
<1>4. CASE M!Commits(c)
  <2>1. call[c].alias \in Aliases
    BY <1>0 DEF CallType
  <2>2. registered' = registered \cup {call[c].alias}
    BY <1>4 DEF M!Commits
  <2>3. enabled' \subseteq enabled \cup {call[c].alias}
    BY <1>4 DEF M!Commits
  <2>4. is_default' \subseteq is_default \/ is_default' \subseteq {call[c].alias}
    BY <1>4 DEF M!Commits, M!Violates, M!OtherDefaults
  <2>. QED
    BY <1>1, <1>2, <2>1, <2>2, <2>3, <2>4, OneCall, NoCallTyped
    DEF RegistryInv, M!TypeOK
<1>. QED  BY <1>3, <1>4 DEF M!Fails, M!Aborts

LEMMA RegistryNext ==
    ASSUME RegistryInv,
           (\E c \in Requests : RegistryStep(c)) \/ UNCHANGED registryVars
    PROVE  RegistryInv'
<1>1. CASE UNCHANGED registryVars
  BY <1>1 DEF registryVars, RegistryInv, M!TypeOK, Transaction
<1>2. ASSUME NEW c \in Requests, RegistryStep(c)
      PROVE  RegistryInv'
  BY <1>2, Selecting, Seeding, Clearing, Returning DEF RegistryStep
<1>. QED  BY <1>1, <1>2

-----------------------------------------------------------------------------
(* What every step of the accounts and of the model transactions keeps.    *)
THEOREM AdminInvariance == Spec => []AdminInv
<1>1. Init => AdminInv
  BY AccountsInit, RegistryInit DEF AdminInv
<1>2. AdminInv /\ [Next]_vars => AdminInv'
  BY StepsOfBoth, AccountsNext, RegistryNext DEF AdminInv
<1>. QED  BY <1>1, <1>2, PTL DEF Spec

(* Accounts, keys, models and open transactions are well typed: a key has  *)
(* a user with a row, only keys with a row are revoked, only models with a *)
(* row are enabled or the default.                                         *)
THEOREM AdminTypeCorrect == Spec => []TypeOK
<1>1. AdminInv => TypeOK
  BY DEF AdminInv, AccountsInv, RegistryInv, TypeOK
<1>. QED  BY AdminInvariance, <1>1, PTL

(* Nobody is let in by a key, an account or a role that was bad all the    *)
(* time since he sent the request, whatever overlaps with it.              *)
THEOREM AuthorityAlwaysHeld == Spec => []AuthorityHeld
<1>1. AdminInv => AuthorityHeld
  BY DEF AdminInv, AccountsInv, HeldBy, AuthorityHeld, A!AuthorityHeld
<1>. QED  BY AdminInvariance, <1>1, PTL

(* However many calls and seed runs overlap, one model at most is the      *)
(* default.                                                                *)
THEOREM OneDefault == Spec => []AtMostOneDefault
<1>1. AdminInv => AtMostOneDefault
  <2>. SUFFICES ASSUME AdminInv
                PROVE  Cardinality(is_default) <= 1
    BY DEF AtMostOneDefault, M!AtMostOneDefault, M!Cardinality, Cardinality
  <2>1. CASE is_default = {}
    BY <2>1, FS_EmptySet
  <2>2. CASE is_default # {}
    <3>1. PICK a \in is_default : TRUE
      BY <2>2
    <3>2. is_default = {a}
      BY <3>1 DEF AdminInv, RegistryInv
    <3>. QED  BY <3>2, FS_Singleton
  <2>. QED  BY <2>1, <2>2
<1>. QED  BY AdminInvariance, <1>1, PTL

-----------------------------------------------------------------------------
(* Only a commit writes the table, and what it writes.                     *)
LEMMA OnlyCommits ==
    ASSUME RegistryInv, [Next]_vars, <<registered, enabled, is_default>>' #
                                     <<registered, enabled, is_default>>
    PROVE  \E c \in Requests : M!Commits(c)
BY StepsOfBoth
DEF RegistryStep, registryVars, M!PatchSelects, M!CreateSelects, M!ClearStarts,
    M!Clears, M!SeedSelects, M!SeedChecks, M!Fails, M!Aborts

(* A commit changes enabled and is_default only as its body names them.    *)
THEOREM NamedColumnsOnly == Spec => OnlyNamedColumns
<1>1. ASSUME AdminInv, [Next]_vars
      PROVE  [/\ \A a \in enabled \ enabled' : \E c \in Requests : M!Names(c, a, "off")
              /\ \A a \in registered \cap (enabled' \ enabled) :
                    \E c \in Requests : M!Names(c, a, "on")
              /\ \A a \in is_default' \ is_default :
                    \E c \in Requests : call[c].alias = a /\ call[c].body.is_default
             ]_(M!registryVars)
  <2>1. CASE UNCHANGED <<registered, enabled, is_default>>
    BY <2>1
  <2>2. ASSUME NEW c \in Requests, M!Commits(c)
        PROVE  /\ \A a \in enabled \ enabled' : M!Names(c, a, "off")
               /\ \A a \in registered \cap (enabled' \ enabled) : M!Names(c, a, "on")
               /\ \A a \in is_default' \ is_default :
                     call[c].alias = a /\ call[c].body.is_default
    <3>1. /\ call[c].at = "writing" /\ Transaction(c)
          /\ call[c].body.enabled \in {"keep", "on", "off"}
      BY <1>1, <2>2, BodyTyped DEF M!Commits, AdminInv, RegistryInv, M!TypeOK
    <3>2. M!WritesEnabled(c) => call[c].body.enabled # "keep"
      BY <3>1 DEF M!WritesEnabled, Transaction
    <3>3. \A a \in enabled \ enabled' : M!Names(c, a, "off")
      BY <2>2, <3>1, <3>2 DEF M!Commits, M!Names
    <3>4. \A a \in registered \cap (enabled' \ enabled) : M!Names(c, a, "on")
      BY <2>2, <3>1 DEF M!Commits, M!Names
    <3>5. \A a \in is_default' \ is_default :
             call[c].alias = a /\ call[c].body.is_default
      BY <2>2 DEF M!Commits, M!WritesDefault
    <3>. QED  BY <3>3, <3>4, <3>5
  <2>. QED  BY <1>1, <2>1, <2>2, OnlyCommits DEF AdminInv
<1>. QED
  BY AdminInvariance, <1>1, PTL
  DEF Spec, OnlyNamedColumns, M!OnlyNamedColumns

(* There is one way only to be left without a default: setting the one     *)
(* that there is again.                                                    *)
THEOREM LossIsRepeat == Spec => LostOnlyByRepeat
<1>1. ASSUME AdminInv, [Next]_vars
      PROVE  [is_default # {} /\ is_default' = {} =>
                \E c \in Requests :
                   /\ call[c].at = "writing" /\ call'[c].at = "idle"
                   /\ call[c].body.is_default /\ call[c].loaded_default
             ]_(M!registryVars)
  <2>. SUFFICES ASSUME is_default # {}, is_default' = {}
                PROVE  \E c \in Requests :
                          /\ call[c].at = "writing" /\ call'[c].at = "idle"
                          /\ call[c].body.is_default /\ call[c].loaded_default
    OBVIOUS
  <2>1. PICK c \in Requests : M!Commits(c)
    BY <1>1, OnlyCommits DEF AdminInv
  <2>2. ~ M!WritesDefault(c) /\ call[c].cleared # {}
    BY <2>1 DEF M!Commits
  <2>3. call'[c].at = "idle"
    BY <1>1, <2>1, NoCallTyped
    DEF M!Commits, M!Returned, AdminInv, RegistryInv, M!TypeOK
  <2>4. call[c].body.is_default /\ call[c].loaded_default
    BY <1>1, <2>2 DEF M!WritesDefault, AdminInv, RegistryInv, Transaction
  <2>. QED  BY <2>1, <2>3, <2>4 DEF M!Commits
<1>. QED
  BY AdminInvariance, <1>1, PTL
  DEF Spec, LostOnlyByRepeat, M!LostOnlyByRepeat
==============================================================================
