---------------------------- MODULE ModelRegistry ----------------------------
(***************************************************************************)
(* The table of models behind POST /admin/models and                       *)
(* PATCH /admin/models/{alias} (gateway/app/api/admin/models.py) and the   *)
(* seed script (database/seed/seed.py), with overlapping calls and runs in *)
(* transactions of their own.                                              *)
(*                                                                         *)
(* PostgreSQL runs them at READ COMMITTED: a statement sees what was       *)
(* committed when it started, an UPDATE waits for the rows another open    *)
(* transaction has changed and then looks at them again.  The session      *)
(* flushes at commit, and writes only the columns whose new value differs  *)
(* from the one it has loaded.  Of a row, the model keeps enabled and      *)
(* is_default; the other columns behave like enabled.                      *)
(***************************************************************************)
EXTENDS Naturals, FiniteSets

CONSTANTS
    Calls,          \* the requests to the two endpoints and runs of the script
    Aliases,
    SeededAlias,    \* the row that the seed script creates
    Bodies          \* the bodies that come up: is_default or not, and
                    \* enabled left out, true or false

(* Of the constants.                                                       *)
RegistryAssumption ==
    /\ SeededAlias \in Aliases
    /\ Bodies \subseteq [is_default : BOOLEAN, enabled : {"keep", "on", "off"}]

VARIABLES
    registered,     \* the aliases with a row
    enabled,        \* those with enabled
    is_default,     \* those with is_default
    call            \* the open transaction of each call

registryVars == <<registered, enabled, is_default, call>>

NoCall ==
    [at |-> "idle", alias |-> SeededAlias,
     body |-> [is_default |-> FALSE, enabled |-> "keep"],
     creates |-> FALSE, loaded_enabled |-> FALSE, loaded_default |-> FALSE,
     found |-> {}, cleared |-> {}, flushed |-> {}]

SeedBodies == [is_default : BOOLEAN, enabled : {"on"}]

TypeOK ==
    /\ registered \subseteq Aliases
    /\ enabled \subseteq registered
    /\ is_default \subseteq registered
    /\ call \in [Calls -> [at : {"idle", "clearing", "locking", "seeding", "writing"},
                           alias : Aliases,
                           body : Bodies \cup SeedBodies \cup {NoCall.body},
                           creates : BOOLEAN,
                           loaded_enabled : BOOLEAN, loaded_default : BOOLEAN,
                           found : SUBSET Aliases, cleared : SUBSET Aliases,
                           flushed : SUBSET Aliases]]
    /\ \A c \in Calls : call[c].at = "idle" => call[c] = NoCall

Init ==
    /\ registered = {SeededAlias}
    /\ enabled = {SeededAlias}
    /\ is_default = {SeededAlias}
    /\ call = [c \in Calls |-> NoCall]

-----------------------------------------------------------------------------
(* The rows another open transaction has changed.                          *)
LockedByOthers(c) ==
    UNION {call[d].cleared \cup call[d].flushed : d \in Calls \ {c}}

Starts(c, a, body, creates) ==
    call' = [call EXCEPT ![c] =
                [NoCall EXCEPT
                    !.at = IF body.is_default THEN "clearing" ELSE "writing",
                    !.alias = a, !.body = body, !.creates = creates,
                    !.loaded_enabled = a \in enabled,
                    !.loaded_default = a \in is_default]]

(* patch_model: the row is loaded, or the answer is 404 and nothing        *)
(* happens.  is_default: false is the same as leaving it out.              *)
PatchSelects(c, a, body) ==
    /\ call[c].at = "idle"
    /\ a \in registered
    /\ Starts(c, a, body, FALSE)
    /\ UNCHANGED <<registered, enabled, is_default>>

(* create_model: the alias is free, or the answer is 409.                  *)
CreateSelects(c, a, body) ==
    /\ call[c].at = "idle"
    /\ a \notin registered
    /\ body.enabled # "keep"
    /\ Starts(c, a, body, TRUE)
    /\ UNCHANGED <<registered, enabled, is_default>>

(* UPDATE models SET is_default = false WHERE is_default: the statement    *)
(* finds its rows, and locks and changes them when nobody else holds them. *)
ClearStarts(c) ==
    /\ call[c].at = "clearing"
    /\ call' = [call EXCEPT ![c].at = "locking", ![c].found = is_default]
    /\ UNCHANGED <<registered, enabled, is_default>>

(* A faulty Clears, for LostOnlyByRepeat: the statement commits by itself. *)
Clears_Commits(c) ==
    /\ call[c].at = "locking"
    /\ call[c].found \cap LockedByOthers(c) = {}
    /\ call' = [call EXCEPT ![c].at = "writing"]
    /\ is_default' = is_default \ call[c].found
    /\ UNCHANGED <<registered, enabled>>

Clears(c) ==
    /\ call[c].at = "locking"
    /\ call[c].found \cap LockedByOthers(c) = {}
    /\ call' = [call EXCEPT ![c].at = "writing",
                            ![c].cleared = @ \cup (call[c].found \cap is_default)]
    /\ UNCHANGED <<registered, enabled, is_default>>

(* What the flush writes: is_default if it was not set when the row was    *)
(* loaded, enabled if it differs from what was loaded.                     *)
WritesDefault(c) == call[c].body.is_default /\ ~ call[c].loaded_default

WritesEnabled(c) ==
    \/ call[c].creates
    \/ /\ call[c].body.enabled # "keep"
       /\ (call[c].body.enabled = "on") # call[c].loaded_enabled

(* The default rows the transaction leaves beside its own.                 *)
OtherDefaults(c) == (is_default \ call[c].cleared) \ {call[c].alias}

(* A faulty Violates, for AtMostOneDefault: ix_models_single_default is    *)
(* not unique.                                                             *)
Violates_NoIndex(c) == call[c].creates /\ call[c].alias \in registered

(* The unique alias, and ix_models_single_default.                         *)
Violates(c) ==
    \/ call[c].creates /\ call[c].alias \in registered
    \/ WritesDefault(c) /\ OtherDefaults(c) # {}

(* The flush waits for the row it changes, and for a default row that      *)
(* another transaction is about to clear.                                  *)
Blocked(c) ==
    \/ /\ WritesDefault(c) \/ WritesEnabled(c)
       /\ call[c].alias \in LockedByOthers(c)
    \/ WritesDefault(c) /\ OtherDefaults(c) \cap LockedByOthers(c) # {}

Returned(c) == call' = [call EXCEPT ![c] = NoCall]

(* A faulty Commits, for OnlyNamedColumns: it writes the whole row.        *)
Commits_WholeRow(c) ==
    LET a == call[c].alias
        on == \/ call[c].body.enabled = "on"
              \/ call[c].body.enabled = "keep" /\ call[c].loaded_enabled
    IN  /\ call[c].at = "writing"
        /\ ~ Blocked(c)
        /\ ~ Violates(c)
        /\ registered' = registered \cup {a}
        /\ enabled' = IF on THEN enabled \cup {a} ELSE enabled \ {a}
        /\ is_default' = (is_default \ call[c].cleared)
                             \cup (IF WritesDefault(c) THEN {a} ELSE {})
        /\ Returned(c)

(* seed_models, run again: the seeded row is loaded.                       *)
SeedSelects(c) ==
    /\ call[c].at = "idle"
    /\ SeededAlias \in registered
    /\ call' = [call EXCEPT ![c] =
                   [NoCall EXCEPT
                       !.at = "seeding", !.body.enabled = "on",
                       !.loaded_enabled = SeededAlias \in enabled,
                       !.loaded_default = SeededAlias \in is_default]]
    /\ UNCHANGED <<registered, enabled, is_default>>

(* The query for a default flushes the repaired columns, and locks the row *)
(* if there are any; where it finds none, the seeded row is to be the      *)
(* default.                                                                *)
SeedChecks(c) ==
    /\ call[c].at = "seeding"
    /\ ~ Blocked(c)
    /\ call' = [call EXCEPT
                   ![c].at = "writing",
                   ![c].flushed = IF WritesEnabled(c) THEN {SeededAlias} ELSE {},
                   ![c].body.is_default = is_default = {}]
    /\ UNCHANGED <<registered, enabled, is_default>>

(* Flush and commit, with the audit event.                                 *)
Commits(c) ==
    LET a == call[c].alias
    IN  /\ call[c].at = "writing"
        /\ ~ Blocked(c)
        /\ ~ Violates(c)
        /\ registered' = registered \cup {a}
        /\ enabled' = IF ~ WritesEnabled(c) THEN enabled
                      ELSE IF call[c].body.enabled = "on" THEN enabled \cup {a}
                      ELSE enabled \ {a}
        /\ is_default' = (is_default \ call[c].cleared)
                             \cup (IF WritesDefault(c) THEN {a} ELSE {})
        /\ Returned(c)

(* IntegrityError: the session rolls back, the answer is 503.              *)
Fails(c) ==
    /\ call[c].at = "writing"
    /\ ~ Blocked(c)
    /\ Violates(c)
    /\ Returned(c)
    /\ UNCHANGED <<registered, enabled, is_default>>

(* The connection to the database or to the client is lost: rolled back.   *)
Aborts(c) ==
    /\ call[c].at # "idle"
    /\ Returned(c)
    /\ UNCHANGED <<registered, enabled, is_default>>

-----------------------------------------------------------------------------
(* "unique partial on is_default where true", also while calls overlap     *)
(* that each have cleared the default of before.                           *)
AtMostOneDefault == Cardinality(is_default) <= 1

(* The call c commits a body with an explicit value for enabled of a.      *)
Names(c, a, value) ==
    call[c].at = "writing" /\ call[c].alias = a /\ call[c].body.enabled = value

(* No call undoes what another has committed since it loaded the row: the  *)
(* enabled of an existing row changes only to what a committing call names,*)
(* and only the row that a call names becomes the default.                 *)
OnlyNamedColumns ==
    [][/\ \A a \in enabled \ enabled' : \E c \in Calls : Names(c, a, "off")
       /\ \A a \in registered \cap (enabled' \ enabled) :
             \E c \in Calls : Names(c, a, "on")
       /\ \A a \in is_default' \ is_default :
             \E c \in Calls : call[c].alias = a /\ call[c].body.is_default
      ]_registryVars

(* There stops being a default in one way only: a call sets is_default of  *)
(* a row that it has loaded as the default.                                *)
LostOnlyByRepeat ==
    [][is_default # {} /\ is_default' = {} =>
          \E c \in Calls : /\ call[c].at = "writing" /\ call'[c].at = "idle"
                           /\ call[c].body.is_default /\ call[c].loaded_default
      ]_registryVars

(* "Used when the client omits `model`. Exactly one true": where there was *)
(* a default there is one after every call.                                *)
DefaultKept == [][is_default # {} => is_default' # {}]_registryVars
==============================================================================
