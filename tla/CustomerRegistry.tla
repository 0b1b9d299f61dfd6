-------------------------- MODULE CustomerRegistry --------------------------
(***************************************************************************)
(* What everybody can rely on of the records about customers although each *)
(* operation is several statements over rows read earlier: whatever it     *)
(* changes it changes in one step, the role and the branding together with *)
(* their audit row, on the word of somebody who was made an administrator; *)
(* and it changes nothing else.  Without locks, snapshots and drafts.      *)
(***************************************************************************)
EXTENDS CustomerTables

VARIABLES
    users,     \* the role of each user
    numbers,   \* the account numbers of each user
    tokens,    \* <<holder, role claim>> of the tokens issued
    audit,     \* <<event, job, address>>
    profiles,  \* the profile of each user
    config,    \* the branding rows
    calls      \* what each job is asked for

registryVars == <<users, numbers, tokens, audit, profiles, config, calls>>

RegistryInit ==
    /\ users = OpeningRoles
    /\ numbers = OpeningNumbers
    /\ tokens = OpeningTokens
    /\ audit = {}
    /\ profiles = OpeningProfiles
    /\ config = [i \in ConfigIds |-> IF i = 1 THEN OpeningBranding ELSE NoRow]
    /\ calls \in Workloads

IsUser(e) == users[e] # NoUser

\* The addresses job j may work on.
Concerns(j) ==
    IF calls[j].kind = "start" THEN {DemoUsers[i] : i \in 1..Len(DemoUsers)} ELSE {calls[j].email}

OnWordOf(e) == <<e, "ADMIN">> \in tokens

\* The only thing job j records, or, for a start, the only thing about e.
Records(event, j, e) ==
    /\ \A t \in audit : t[2] = j => calls[j].kind = "start" /\ t[3] # e
    /\ audit' = audit \cup {<<event, j, e>>}

\* Some of the fields a request supplies are set, others left because they had the value
\* when the row was read.
Edited(row, j) ==
    {[f \in DOMAIN row |-> IF f \in F THEN calls[j].value ELSE row[f]] : F \in SUBSET calls[j].fields}

\* Somebody who is not a user becomes a customer with an account that is nobody's.
Register(j, e) ==
    /\ calls[j].kind \in {"register", "start"}
    /\ ~IsUser(e)
    /\ users' = [users EXCEPT ![e] = "CUSTOMER"]
    /\ \E n \in Numbers :
          /\ \A f \in Emails : n \notin numbers[f]
          /\ numbers' = [numbers EXCEPT ![e] = {n}]
    /\ UNCHANGED <<tokens, audit, profiles, config, calls>>

\* The registration is recorded afterwards, by nobody else.
RecordRegistration(j, e) ==
    /\ calls[j].kind \in {"register", "start"}
    /\ IsUser(e) /\ OpeningRoles[e] = NoUser
    /\ \A t \in audit : ~(t[1] = "USER_REGISTERED" /\ t[3] = e)
    /\ Records("USER_REGISTERED", j, e)
    /\ UNCHANGED <<users, numbers, tokens, profiles, config, calls>>

Login(j, e) ==
    /\ calls[j].kind = "login"
    /\ \E event \in {"LOGIN_SUCCESS", "LOGIN_FAILED"} :
          /\ event = "LOGIN_SUCCESS" => IsUser(e)
          /\ Records(event, j, e)
    /\ UNCHANGED <<users, numbers, tokens, profiles, config, calls>>

\* A recorded login or registration is followed by a token with the role of the moment.
IssueToken(j, e) ==
    /\ calls[j].kind # "start"
    /\ \E event \in {"LOGIN_SUCCESS", "USER_REGISTERED"} : <<event, j, e>> \in audit
    /\ tokens' = tokens \cup {<<e, users[e]>>}
    /\ UNCHANGED <<users, numbers, audit, profiles, config, calls>>

\* A role that was the new one already when it was read is left alone.
ChangeRole(j, e) ==
    /\ calls[j].kind = "role"
    /\ IsUser(e) /\ OnWordOf(calls[j].actor)
    /\ users' \in {users, [users EXCEPT ![e] = calls[j].role]}
    /\ Records("ROLE_UPDATED", j, e)
    /\ UNCHANGED <<numbers, tokens, profiles, config, calls>>

\* A user's own PATCH makes the profile if there is none; a verdict needs one.
SaveProfile(j, e) ==
    /\ IsUser(e)
    /\ \/ calls[j].kind = "profile" /\ \E t \in tokens : t[1] = e
       \/ calls[j].kind = "kyc" /\ OnWordOf(calls[j].actor) /\ profiles[e] # NoRow
    /\ \E row \in Edited(IF profiles[e] = NoRow THEN BlankProfile ELSE profiles[e], j) :
          profiles' = [profiles EXCEPT ![e] = row]
    /\ UNCHANGED <<users, numbers, tokens, audit, config, calls>>

\* Each change of the branding is of a row that is there or makes one.
Brand(j) ==
    /\ calls[j].kind = "branding"
    /\ OnWordOf(calls[j].actor)
    /\ \E i \in ConfigIds :
          \E row \in Edited(IF config[i] = NoRow THEN BlankBranding ELSE config[i], j) :
              config' = [config EXCEPT ![i] = row]
    /\ Records("BRANDING_UPDATED", j, calls[j].actor)
    /\ UNCHANGED <<users, numbers, tokens, profiles, calls>>

RegistryNext ==
    \E j \in Jobs :
        \/ Brand(j)
        \/ \E e \in Concerns(j) :
              \/ Register(j, e) \/ RecordRegistration(j, e) \/ Login(j, e) \/ IssueToken(j, e)
              \/ ChangeRole(j, e) \/ SaveProfile(j, e)

RegistrySpec == RegistryInit /\ [][RegistryNext]_registryVars
=============================================================================
