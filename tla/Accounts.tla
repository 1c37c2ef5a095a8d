------------------------------ MODULE Accounts -------------------------------
(***************************************************************************)
(* Users, roles and API keys: the authentication dependency of every       *)
(* endpoint (gateway/app/auth/dependencies.py) and the administration of   *)
(* accounts (gateway/app/api/admin/users.py), both as requests that read   *)
(* and write the same tables in several round trips to the database.       *)
(*                                                                         *)
(* A key with a wrong secret is a key that was never issued.  Of a user,   *)
(* the model keeps enabled and whether the role is an admin's; users and   *)
(* keys are never deleted.  The audit events are only ever inserted, and   *)
(* left out.                                                               *)
(***************************************************************************)
CONSTANTS
    Requests,       \* the requests in flight at one time
    Users, Keys, OwnerOf,
    FirstUser, FirstKey     \* from the bootstrap script, role "owner"

(* Of the constants.                                                       *)
AccountsAssumption ==
    /\ OwnerOf \in [Keys -> Users]
    /\ FirstKey \in Keys /\ OwnerOf[FirstKey] = FirstUser

VARIABLES
    users,          \* those with a row
    enabled_users,  \* those with enabled
    admins,         \* those whose role has is_admin
    issued,         \* the keys with a row
    revoked,        \* those with revoked_at
    auth,           \* where each request is, and what it has loaded
    was_revoked,    \* history: the keys ever revoked
    held            \* history: what has been true at some time between the
                    \* sending of a request and its work: its key good, its
                    \* user enabled, its user an enabled admin

tables == <<users, enabled_users, admins, issued, revoked>>
accountVars == <<tables, auth, was_revoked, held>>

Changes == {"enable", "disable", "promote", "demote"}

NoRequest ==
    [at |-> "idle", key |-> FirstKey, admin |-> FALSE,
     user |-> FirstUser, change |-> "none"]

NothingHeld == [key |-> FALSE, enabled |-> FALSE, admin |-> FALSE]

TypeOK ==
    /\ users \subseteq Users
    /\ enabled_users \subseteq users /\ admins \subseteq users
    /\ issued \subseteq Keys /\ \A k \in issued : OwnerOf[k] \in users
    /\ revoked \subseteq issued
    /\ auth \in [Requests ->
                   [at : {"idle", "sent", "key_read", "user_read",
                          "authenticated", "patching", "handling"},
                    key : Keys, admin : BOOLEAN,
                    user : Users, change : Changes \cup {"none"}]]
    /\ was_revoked \subseteq issued
    /\ held \in [Requests -> [key : BOOLEAN, enabled : BOOLEAN, admin : BOOLEAN]]

Init ==
    /\ users = {FirstUser} /\ enabled_users = {FirstUser} /\ admins = {FirstUser}
    /\ issued = {FirstKey} /\ revoked = {}
    /\ auth = [r \in Requests |-> NoRequest]
    /\ was_revoked = {}
    /\ held = [r \in Requests |-> NothingHeld]

-----------------------------------------------------------------------------
Good(k) == k \in issued \ revoked

Over(r) == auth' = [auth EXCEPT ![r] = NoRequest]

(* A client sends a request with some key.                                 *)
Send(r, k) ==
    /\ auth[r].at = "idle"
    /\ auth' = [auth EXCEPT ![r].at = "sent", ![r].key = k]
    /\ UNCHANGED tables

(* get_auth_context: the key.                                              *)
ReadKey(r) ==
    /\ auth[r].at = "sent"
    /\ IF Good(auth[r].key)
         THEN auth' = [auth EXCEPT ![r].at = "key_read"]
         ELSE Over(r)                                       \* 401
    /\ UNCHANGED tables

(* A faulty ReadUser, for AuthorityHeld: the account may be disabled.      *)
ReadUser_Unchecked(r) ==
    /\ auth[r].at = "key_read"
    /\ auth' = [auth EXCEPT ![r].at = "user_read",
                            ![r].admin = OwnerOf[auth[r].key] \in admins]
    /\ UNCHANGED tables

(* The user.  The role is read in a further round trip, from a table that  *)
(* does not change.                                                        *)
ReadUser(r) ==
    LET u == OwnerOf[auth[r].key]
    IN  /\ auth[r].at = "key_read"
        /\ IF u \in enabled_users
             THEN auth' = [auth EXCEPT ![r].at = "user_read",
                                       ![r].admin = u \in admins]
             ELSE Over(r)                                   \* 403
        /\ UNCHANGED tables

(* A faulty Touch, for AuthorityHeld: the key's whole row is written back, *)
(* as it was when it was loaded.                                           *)
Touch_WholeRow(r) ==
    /\ auth[r].at = "user_read"
    /\ auth' = [auth EXCEPT ![r].at = "authenticated"]
    /\ revoked' = revoked \ {auth[r].key}
    /\ UNCHANGED <<users, enabled_users, admins, issued>>

(* last_used_at, that column only, if it is old enough; then the limiter.  *)
Touch(r) ==
    /\ auth[r].at = "user_read"
    /\ auth' = [auth EXCEPT ![r].at = "authenticated"]
    /\ UNCHANGED tables

(* The request ends: refused by the limiter or by require_admin, answered, *)
(* or failed at the database.                                              *)
Finish(r) ==
    /\ auth[r].at # "idle"
    /\ Over(r)
    /\ UNCHANGED tables

-----------------------------------------------------------------------------
IsAdminRequest(r) == auth[r].at = "authenticated" /\ auth[r].admin

(* create_user, with any role and enabled.  An existing username is 409,   *)
(* from the query or from the constraint.                                  *)
CreateUser(r, u) ==
    /\ IsAdminRequest(r)
    /\ u \notin users
    /\ users' = users \cup {u}
    /\ enabled_users' \in {enabled_users, enabled_users \cup {u}}
    /\ admins' \in {admins, admins \cup {u}}
    /\ Over(r)
    /\ UNCHANGED <<issued, revoked>>

(* patch_user: the row is loaded, but the session gives the admin's own row *)
(* as it was when he was authenticated.  A value equal to the one loaded is *)
(* no change.  A body that changes the role and enabled is one PATCH of     *)
(* each kind.  The key is not looked at again.                              *)
PatchReads(r, u, change) ==
    LET own == u = OwnerOf[auth[r].key]
        is_enabled == own \/ u \in enabled_users
        is_admin == own \/ u \in admins
        differs == CASE change = "enable"  -> ~ is_enabled
                     [] change = "disable" -> is_enabled
                     [] change = "promote" -> ~ is_admin
                     [] change = "demote"  -> is_admin
    IN  /\ IsAdminRequest(r)
        /\ u \in users
        /\ auth' = [auth EXCEPT
                       ![r].at = "patching", ![r].key = FirstKey, ![r].user = u,
                       ![r].change = IF differs THEN change ELSE "none"]
        /\ UNCHANGED tables

(* patch_user: the commit writes the column that was changed.              *)
PatchCommits(r) ==
    LET u == auth[r].user
        changed(S, in, out) == CASE auth[r].change = in  -> S \cup {u}
                                 [] auth[r].change = out -> S \ {u}
                                 [] OTHER -> S
    IN  /\ auth[r].at = "patching"
        /\ enabled_users' = changed(enabled_users, "enable", "disable")
        /\ admins' = changed(admins, "promote", "demote")
        /\ Over(r)
        /\ UNCHANGED <<users, issued, revoked>>

(* A faulty Issue, for TypeOK: the user is not looked up.                  *)
Issue_AnyUser(r, k) ==
    /\ IsAdminRequest(r)
    /\ k \notin issued
    /\ issued' = issued \cup {k}
    /\ Over(r)
    /\ UNCHANGED <<users, enabled_users, admins, revoked>>

(* issue_api_key, 404 for a user that does not exist.                      *)
Issue(r, k) ==
    /\ IsAdminRequest(r)
    /\ OwnerOf[k] \in users
    /\ k \notin issued
    /\ issued' = issued \cup {k}
    /\ Over(r)
    /\ UNCHANGED <<users, enabled_users, admins, revoked>>

(* revoke_api_key, also of a key already revoked.                          *)
Revoke(r, k) ==
    /\ IsAdminRequest(r)
    /\ k \in issued
    /\ revoked' = revoked \cup {k}
    /\ Over(r)
    /\ UNCHANGED <<users, enabled_users, admins, issued>>

(* bootstrap_owner.py, run again: a new key, not bound to who asks for it, *)
(* and an owner with it if there is no such user.                          *)
Bootstrap(k) ==
    LET u == OwnerOf[k]
        missing == {u} \ users
    IN  /\ k \notin issued
        /\ issued' = issued \cup {k}
        /\ users' = users \cup missing
        /\ enabled_users' = enabled_users \cup missing
        /\ admins' = admins \cup missing
        /\ UNCHANGED <<revoked, auth>>

(* A handler that works on other tables and not on the key.                *)
Handles(r) ==
    /\ IsAdminRequest(r)
    /\ auth' = [auth EXCEPT ![r].at = "handling", ![r].key = FirstKey]
    /\ UNCHANGED tables

-----------------------------------------------------------------------------
(* The history variables after any step.                                   *)
History ==
    /\ was_revoked' = was_revoked \cup revoked'
    /\ held' =
         [r \in Requests |->
            LET k == auth'[r].key
                u == OwnerOf[k]
                old == IF auth[r].at = "idle" THEN NothingHeld ELSE held[r]
            IN  IF auth'[r].at = "idle" THEN NothingHeld
                ELSE IF auth'[r].at \in {"patching", "handling"} THEN old
                ELSE [key |-> old.key \/ k \in issued' \ was_revoked',
                      enabled |-> old.enabled \/ u \in enabled_users',
                      admin |-> old.admin \/ u \in enabled_users' \cap admins']]

(* "Revocation takes effect immediately", and so do disabling a user and   *)
(* taking the admin role away: whoever is let in has held what he is let   *)
(* in by at some time since he sent the request, the key being one that    *)
(* was never revoked before.                                               *)
AuthorityHeld ==
    \A r \in Requests :
        /\ auth[r].at \in {"authenticated", "patching", "handling"} =>
               held[r].key /\ held[r].enabled
        /\ auth[r].at \in {"patching", "handling"} => held[r].admin
==============================================================================
