------------------------------ MODULE AdminApi -------------------------------
(***************************************************************************)
(* The administrative endpoints together: requests that authenticate       *)
(* (Accounts) and, if an admin's, change accounts or the model registry    *)
(* (ModelRegistry), and runs of the bootstrap and seed scripts, any of     *)
(* them overlapping.                                                       *)
(***************************************************************************)
CONSTANTS
    Requests, Users, Keys, OwnerOf, FirstUser, FirstKey,    \* as in Accounts
    Aliases, SeededAlias, Bodies                                \* as in ModelRegistry

VARIABLES
    users, enabled_users, admins, issued, revoked, auth, was_revoked, held,
    registered, enabled, is_default, call

A == INSTANCE Accounts
M == INSTANCE ModelRegistry WITH Calls <- Requests

ASSUME AdminAssumption == A!AccountsAssumption /\ M!RegistryAssumption

accountVars == <<users, enabled_users, admins, issued, revoked, auth,
                 was_revoked, held>>
registryVars == <<registered, enabled, is_default, call>>
vars == <<accountVars, registryVars>>

TypeOK == A!TypeOK /\ M!TypeOK

Init == A!Init /\ M!Init

-----------------------------------------------------------------------------
(* A slot between two requests is free for a run of the seed script.       *)
Send(r, k) ==
    call[r].at = "idle" /\ A!Send(r, k) /\ A!History /\ UNCHANGED registryVars
ReadKey(r) == A!ReadKey(r) /\ A!History /\ UNCHANGED registryVars
ReadUser(r) == A!ReadUser(r) /\ A!History /\ UNCHANGED registryVars
Touch(r) == A!Touch(r) /\ A!History /\ UNCHANGED registryVars

(* The end of a request rolls back what it has not committed.              *)
Finish(r) ==
    /\ A!Finish(r)
    /\ A!History
    /\ IF auth[r].at = "handling" THEN M!Aborts(r) ELSE UNCHANGED registryVars

CreateUser(r, u) == A!CreateUser(r, u) /\ A!History /\ UNCHANGED registryVars
PatchReads(r, u, change) ==
    A!PatchReads(r, u, change) /\ A!History /\ UNCHANGED registryVars
PatchCommits(r) == A!PatchCommits(r) /\ A!History /\ UNCHANGED registryVars
Issue(r, k) == A!Issue(r, k) /\ A!History /\ UNCHANGED registryVars
Revoke(r, k) == A!Revoke(r, k) /\ A!History /\ UNCHANGED registryVars

(* PATCH /admin/models/{alias} and POST /admin/models.                     *)
ModelSelects(r, a, body) ==
    /\ A!Handles(r)
    /\ A!History
    /\ M!PatchSelects(r, a, body) \/ M!CreateSelects(r, a, body)

ModelRuns(r) ==
    /\ auth[r].at = "handling"
    /\ M!ClearStarts(r) \/ M!Clears(r)
    /\ UNCHANGED accountVars

ModelEnds(r) ==
    /\ auth[r].at = "handling"
    /\ M!Commits(r) \/ M!Fails(r)
    /\ A!Finish(r)
    /\ A!History

(* The two scripts.                                                        *)
Bootstrap(k) == A!Bootstrap(k) /\ A!History /\ UNCHANGED registryVars

Seed(r) ==
    /\ auth[r].at = "idle"
    /\ \/ M!SeedSelects(r) \/ M!SeedChecks(r)
       \/ M!Commits(r) \/ M!Fails(r) \/ M!Aborts(r)
    /\ UNCHANGED accountVars

Next ==
    \E r \in Requests :
        \/ \E k \in Keys : Send(r, k)
        \/ ReadKey(r)
        \/ ReadUser(r)
        \/ Touch(r)
        \/ Finish(r)
        \/ \E u \in Users : CreateUser(r, u)
        \/ \E u \in Users, change \in A!Changes : PatchReads(r, u, change)
        \/ PatchCommits(r)
        \/ \E k \in Keys : Issue(r, k) \/ Revoke(r, k)
        \/ \E a \in Aliases, body \in Bodies : ModelSelects(r, a, body)
        \/ ModelRuns(r)
        \/ ModelEnds(r)
        \/ Seed(r)
        \/ \E k \in Keys : Bootstrap(k)

Spec == Init /\ [][Next]_vars

-----------------------------------------------------------------------------
(* Whoever is let in has held his key and his role since he sent the       *)
(* request (get_auth_context, require_admin; Accounts).                    *)
AuthorityHeld == A!AuthorityHeld

(* Overlapping create_model and patch_model calls leave one default at     *)
(* most (ix_models_single_default; ModelRegistry).                         *)
AtMostOneDefault == M!AtMostOneDefault

(* patch_model writes the columns its body names and no others             *)
(* (ModelRegistry).                                                        *)
OnlyNamedColumns == M!OnlyNamedColumns

(* The default is lost only by setting it again (ModelRegistry).           *)
LostOnlyByRepeat == M!LostOnlyByRepeat

(* "Exactly one true": the default is never lost (ModelRegistry).          *)
DefaultKept == M!DefaultKept
==============================================================================
