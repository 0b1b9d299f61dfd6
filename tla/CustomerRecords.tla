-------------------------- MODULE CustomerRecords --------------------------
(***************************************************************************)
(* Rows that are made when they are first asked for: the profile of each   *)
(* user with its KYC status (app/routes/profile_routes.py), and the one    *)
(* branding row of the bank (app/models/branding.py, app/routes/           *)
(* config_routes.py).  Administrators are known by the claim of a token.   *)
(***************************************************************************)
EXTENDS Customers

VARIABLES
    profiles,  \* user_profiles table: the committed row of each user
    config,    \* bank_config table: the committed rows by config_id
    lastId,    \* the AUTO_INCREMENT counter of bank_config, which no rollback turns back
    draft      \* the row each job has loaded or inserted, and the config_id if it is one

recordVars == <<profiles, config, lastId, draft>>

RecordsInit ==
    /\ profiles = OpeningProfiles
    /\ config = [i \in ConfigIds |-> IF i = 1 THEN OpeningBranding ELSE NoRow]
    /\ lastId = IF OpeningBranding = NoRow THEN 0 ELSE 1
    /\ draft = [j \in Jobs |-> [row |-> NoRow, id |-> 0, new |-> FALSE]]

Load(j, row, id, new) == draft' = [draft EXCEPT ![j] = [row |-> row, id |-> id, new |-> new]]

\* A token of the actor of job j, with the claim of an administrator or without.
Shows(j, admin) == \E t \in tokens : t[1] = jobs[j].actor /\ admin = (t[2] = "ADMIN")

\* Mutant of Patched: the UPDATE writes every column from the loaded object.
PatchedWhole(row, j) ==
    [f \in DOMAIN row |-> IF f \in jobs[j].fields THEN jobs[j].value ELSE draft[j].row[f]]

\* The UPDATE names only the fields that the request supplies and that differ from the
\* row the session has loaded.
Patched(row, j) ==
    [f \in DOMAIN row |->
        IF f \in jobs[j].fields /\ draft[j].row[f] # jobs[j].value THEN jobs[j].value
        ELSE row[f]]
-----------------------------------------------------------------------------
\* _get_or_create_profile: the lookup of GET and PATCH /profile ...
LoadProfile(j) ==
    /\ step[j] = "idle"
    /\ jobs[j].kind = "profile"
    /\ \E t \in tokens : t[1] = Email(j)
    /\ Goto(j, IF profiles[Email(j)] = NoRow THEN "insert profile" ELSE "save", NoUser)
    /\ Load(j, profiles[Email(j)], 0, FALSE)
    /\ UNCHANGED <<tables, jobs, local, profiles, config, lastId>>

\* ... and the flush of a blank one.  It waits for another session's uncommitted profile
\* of the user, fails on a committed one, and needs the users row for the foreign key.
InsertProfile(j) ==
    /\ step[j] = "insert profile"
    /\ \/ /\ profiles[Email(j)] = NoRow
          /\ Writers(Email(j), j) = {}
          /\ \A i \in Jobs : ~(step[i] = "save" /\ draft[i].new /\ Email(i) = Email(j))
          /\ Goto(j, "save", NoUser)
          /\ Load(j, BlankProfile, 0, TRUE)
       \/ profiles[Email(j)] # NoRow /\ Return(j, "Failed") /\ UNCHANGED draft
    /\ UNCHANGED <<tables, jobs, local, profiles, config, lastId>>

\* Mutant of CheckKyc: the claim of the token is not looked at.
CheckKycToken(j) ==
    /\ step[j] = "idle"
    /\ jobs[j].kind = "kyc"
    /\ profiles[Email(j)] # NoRow
    /\ \E t \in tokens : t[1] = jobs[j].actor
    /\ Goto(j, "save", NoUser)
    /\ Load(j, profiles[Email(j)], 0, FALSE)
    /\ UNCHANGED <<tables, jobs, local, profiles, config, lastId>>

\* update_user_kyc_status up to its lookup: a user who never opened the profile page has
\* none to be verified.
CheckKyc(j) ==
    /\ step[j] = "idle"
    /\ jobs[j].kind = "kyc"
    /\ \/ Shows(j, FALSE) /\ Return(j, "Forbidden") /\ UNCHANGED draft
       \/ /\ Shows(j, TRUE)
          /\ IF profiles[Email(j)] = NoRow THEN Return(j, "NotFound") ELSE Goto(j, "save", NoUser)
          /\ Load(j, profiles[Email(j)], 0, FALSE)
    /\ UNCHANGED <<tables, jobs, local, profiles, config, lastId>>

\* The commit of all three profile routes.
SaveProfile(j) ==
    /\ step[j] = "save"
    /\ LET row == IF draft[j].new THEN draft[j].row ELSE profiles[Email(j)]
       IN  profiles' = [profiles EXCEPT ![Email(j)] = Patched(row, j)]
    /\ \E o \in {"Saved", "Failed"} : Return(j, o)
    /\ UNCHANGED <<tables, jobs, local, config, lastId, draft>>
-----------------------------------------------------------------------------
ConfigRows == {i \in ConfigIds : config[i] # NoRow}

\* query.first(): the committed row of the smallest config_id.
FirstRow == CHOOSE i \in ConfigRows : \A k \in ConfigRows : i <= k

\* effective_config without the environment and the defaults behind it.
EffectiveConfig == IF ConfigRows = {} THEN BlankBranding ELSE config[FirstRow]

\* update_branding up to the query of get_or_create_singleton.  A request that names no
\* field is refused.
CheckBranding(j) ==
    /\ step[j] = "idle"
    /\ jobs[j].kind = "branding"
    /\ \/ Shows(j, FALSE) /\ Return(j, "Forbidden") /\ UNCHANGED draft
       \/ Shows(j, TRUE) /\ jobs[j].fields = {} /\ Return(j, "Invalid") /\ UNCHANGED draft
       \/ /\ Shows(j, TRUE) /\ jobs[j].fields # {}
          /\ \/ ConfigRows = {} /\ Goto(j, "insert row", NoUser) /\ UNCHANGED draft
             \/ /\ ConfigRows # {}
                /\ Goto(j, "brand", NoUser)
                /\ Load(j, config[FirstRow], FirstRow, FALSE)
    /\ UNCHANGED <<tables, jobs, local, profiles, config, lastId>>

\* The flush of a new row: nothing but the next number of the counter sets it apart
\* from the row of another first request.
InsertBranding(j) ==
    /\ step[j] = "insert row"
    /\ lastId' = lastId + 1
    /\ Load(j, BlankBranding, lastId + 1, TRUE)
    /\ Goto(j, "brand", NoUser)
    /\ UNCHANGED <<tables, jobs, local, profiles, config>>

\* Mutant of CommitBranding: record_audit_event is forgotten.
CommitBrandingUnaudited(j) ==
    /\ step[j] = "brand"
    /\ config' = [config EXCEPT ![draft[j].id] =
                     Patched(IF draft[j].new THEN draft[j].row ELSE @, j)]
    /\ Return(j, "Branded")
    /\ UNCHANGED <<tables, jobs, local, profiles, lastId, draft>>

\* The supplied fields, updated_by_user_id and the audit row, both of which refer to the
\* users row of the actor, in one commit.
CommitBranding(j) ==
    /\ step[j] = "brand"
    /\ Writers(jobs[j].actor, j) = {}
    /\ config' = [config EXCEPT ![draft[j].id] =
                     Patched(IF draft[j].new THEN draft[j].row ELSE @, j)]
    /\ Record("BRANDING_UPDATED", j)
    /\ \E o \in {"Branded", "Failed"} : Return(j, o)
    /\ UNCHANGED <<users, numbers, tokens, jobs, local, profiles, lastId, draft>>

RecordArrival(j) == LoadProfile(j) \/ CheckKyc(j) \/ CheckBranding(j)

RecordWork(j) ==
    InsertProfile(j) \/ SaveProfile(j) \/ InsertBranding(j) \/ CommitBranding(j)
-----------------------------------------------------------------------------
\* Type correctness.
RecordsTypeOK ==
    /\ JobsTypeOK
    /\ profiles \in [Emails -> Profile \cup {NoRow}]
    /\ config \in [ConfigIds -> Branding \cup {NoRow}]
    /\ lastId \in ConfigIds \cup {0}
    /\ draft \in [Jobs -> [row : Profile \cup Branding \cup {NoRow},
                           id : ConfigIds \cup {0}, new : BOOLEAN]]

\* The row a PATCH is about, as it is read now.
Target(j) == IF jobs[j].kind = "branding" THEN EffectiveConfig ELSE profiles[Email(j)]

\* Another job that may have set field f of the same row.
Rivals(j, f) ==
    {i \in Jobs \ {j} :
        /\ answer[i] \in {"Saved", "Branded", "Failed"}
        /\ f \in jobs[i].fields
        /\ jobs[j].kind # "branding" => Email(i) = Email(j)}

\* What a caller was told is saved is there until somebody else sets the same field, also
\* when a customer's PATCH and an administrator's verdict, or two changes of the
\* branding, overlap; two first requests that each made a branding row are the exception.
EditsSurvive ==
    \A j \in Jobs : \A f \in jobs[j].fields :
        answer[j] \in {"Saved", "Branded"} =>
            \/ Target(j)[f] = jobs[j].value
            \/ Rivals(j, f) # {}
            \/ jobs[j].kind = "branding" /\ Cardinality(ConfigRows) > 1

\* A profile belongs to a user, and a verdict on it was given by somebody who held the
\* token of an administrator ("set by admin, not customer", UserProfile).
KycVouched ==
    \A e \in Emails :
        profiles[e] # NoRow =>
            /\ IsUser(e)
            /\ \/ profiles[e]["kyc_status"] = "PENDING"
               \/ /\ OpeningProfiles[e] # NoRow
                  /\ OpeningProfiles[e]["kyc_status"] = profiles[e]["kyc_status"]
               \/ \E j \in Jobs :
                     /\ jobs[j].kind = "kyc" /\ Email(j) = e
                     /\ jobs[j].value = profiles[e]["kyc_status"]
                     /\ <<jobs[j].actor, "ADMIN">> \in tokens

\* Whatever branding the bank shows, each field was there at the start, or is a default,
\* or was set by an audited update of an administrator, whichever rows compete.
BrandingExplained ==
    \A f \in BrandingFields :
        \/ EffectiveConfig[f] = NoText
        \/ OpeningBranding # NoRow /\ OpeningBranding[f] = EffectiveConfig[f]
        \/ \E t \in audit :
              /\ t[1] = "BRANDING_UPDATED"
              /\ f \in jobs[t[2]].fields /\ jobs[t[2]].value = EffectiveConfig[f]
              /\ <<t[3], "ADMIN">> \in tokens
=============================================================================
