---------------------------- MODULE AuthService ----------------------------
(***************************************************************************)
(* Users, their first account and their role: register_user,               *)
(* authenticate_user and ensure_demo_accounts of app/services/             *)
(* auth_service.py, and update_user_role of app/routes/account_routes.py,  *)
(* which acts on the role claim of a token.                                *)
(***************************************************************************)
EXTENDS Customers

\* The users before the first job have been registered like all others, the first
\* administrator by seed.py: each has one account, whose number nobody else has.
ASSUME OpeningAccountsAssumption ==
    /\ \A e \in Emails : IF OpeningRoles[e] = NoUser THEN OpeningNumbers[e] = {}
                         ELSE \E n \in Numbers : OpeningNumbers[e] = {n}
    /\ \A e, f \in Emails : OpeningNumbers[e] \cap OpeningNumbers[f] # {} => e = f

\* The lookup of the address, first query of the transaction: register_user refuses a
\* known one, ensure_demo_accounts brings it up to date instead.
LookUpEmail(j) ==
    /\ step[j] = "idle"
    /\ jobs[j].kind \in {"register", "start"}
    /\ \/ ~IsUser(Email(j)) /\ Goto(j, "insert", NoUser)
       \/ IsUser(Email(j)) /\ IsStart(j) /\ Goto(j, "sync", NoUser)
       \/ IsUser(Email(j)) /\ ~IsStart(j) /\ Return(j, "Exists")
    /\ local' = [local EXCEPT ![j].seen = Taken]
    /\ UNCHANGED <<tables, jobs>>

\* Mutant of InsertUser: the email column has no unique index.
InsertUserAnyway(j) ==
    /\ step[j] = "insert"
    /\ Goto(j, "number", Email(j))
    /\ UNCHANGED <<tables, jobs, local>>

\* The flush of the new user waits for an uncommitted row with the same address, and
\* fails on a committed one.
InsertUser(j) ==
    /\ step[j] = "insert"
    /\ \/ ~IsUser(Email(j)) /\ Writers(Email(j), j) = {} /\ Goto(j, "number", Email(j))
       \/ IsUser(Email(j)) /\ Return(j, "Failed")
    /\ UNCHANGED <<tables, jobs, local>>

\* Mutant of DrawNumber: without a free draw the function returns nothing and goes on.
DrawNumberOrNothing(j) ==
    /\ step[j] = "number"
    /\ \E n \in (Numbers \ local[j].seen) \cup {NoUser} : local' = [local EXCEPT ![j].number = {n}]
    /\ Goto(j, "provision", Email(j))
    /\ UNCHANGED <<tables, jobs>>

\* generate_account_number asks the snapshot, not the table, whether a draw is free, and
\* gives up after five that were not.
DrawNumber(j) ==
    /\ step[j] = "number"
    /\ \/ /\ \E n \in Numbers \ local[j].seen : local' = [local EXCEPT ![j].number = {n}]
          /\ Goto(j, "provision", Email(j))
       \/ local[j].seen # {} /\ Return(j, "Failed") /\ UNCHANGED local
    /\ UNCHANGED <<tables, jobs>>

\* Mutant of ProvisionAccount: the account_number column has no unique index.
ProvisionAnyNumber(j) ==
    /\ step[j] = "provision"
    /\ users' = [users EXCEPT ![Email(j)] = "CUSTOMER"]
    /\ numbers' = [numbers EXCEPT ![Email(j)] = @ \cup local[j].number]
    /\ Goto(j, "audit", NoUser)
    /\ UNCHANGED <<audit, tokens, jobs, local>>

\* The commit of user and primary account together; a number taken in the meantime
\* fails the whole registration.
ProvisionAccount(j) ==
    /\ step[j] = "provision"
    /\ \/ /\ local[j].number \cap Taken = {}
          /\ users' = [users EXCEPT ![Email(j)] = "CUSTOMER"]
          /\ numbers' = [numbers EXCEPT ![Email(j)] = @ \cup local[j].number]
          /\ Goto(j, "audit", NoUser)
       \/ /\ local[j].number \cap Taken # {}
          /\ Return(j, "Failed")
          /\ UNCHANGED <<users, numbers>>
    /\ UNCHANGED <<audit, tokens, jobs, local>>

\* The audit row has a transaction of its own.  Its foreign key waits for a role update
\* of the new user.  Nobody gets the token of a registration at a start.
AuditRegistration(j) ==
    /\ step[j] = "audit"
    /\ Writers(Email(j), j) = {}
    /\ Record("USER_REGISTERED", j)
    /\ IF IsStart(j) THEN Return(j, "Registered") ELSE Goto(j, "token", NoUser)
    /\ UNCHANGED <<users, numbers, tokens, jobs, local>>

\* ensure_demo_accounts rewrites the password of a known demo customer, and gives an
\* account to one without any.
SyncDemoUser(j) ==
    /\ step[j] = "sync"
    /\ Writers(Email(j), j) = {}
    /\ \E owned \in IF numbers[Email(j)] = {} THEN {{n} : n \in Numbers \ Taken}
                   ELSE {numbers[Email(j)]} :
          numbers' = [numbers EXCEPT ![Email(j)] = owned]
    /\ Return(j, "Started")
    /\ UNCHANGED <<users, audit, tokens, jobs, local>>
-----------------------------------------------------------------------------
\* A wrong address or password is audited before the caller is refused.
RefuseLogin(j) ==
    /\ step[j] = "idle"
    /\ jobs[j].kind = "login"
    /\ IsUser(Email(j)) => Writers(Email(j), j) = {}
    /\ Record("LOGIN_FAILED", j)
    /\ \E o \in {"Unauthorized", "Failed"} : Return(j, o)
    /\ UNCHANGED <<users, numbers, tokens, jobs, local>>

AcceptLogin(j) ==
    /\ step[j] = "idle"
    /\ jobs[j].kind = "login"
    /\ IsUser(Email(j)) /\ Writers(Email(j), j) = {}
    /\ Record("LOGIN_SUCCESS", j)
    /\ Goto(j, "token", NoUser)
    /\ UNCHANGED <<users, numbers, tokens, jobs, local>>

\* The commit of the audit row has expired the user object, so the claim is the role of
\* this moment, for a login as for a registration.
IssueToken(j) ==
    /\ step[j] = "token"
    /\ tokens' = tokens \cup {<<Email(j), users[Email(j)]>>}
    /\ Return(j, IF jobs[j].kind = "login" THEN "Token" ELSE "Registered")
    /\ UNCHANGED <<users, numbers, audit, jobs, local>>
-----------------------------------------------------------------------------
\* Mutant of CheckRole: the claim of the token is not looked at.
CheckToken(j) ==
    /\ step[j] = "idle"
    /\ jobs[j].kind = "role"
    /\ \E t \in tokens : t[1] = jobs[j].actor
    /\ IF IsUser(Email(j)) THEN Goto(j, "update", NoUser) ELSE Return(j, "NotFound")
    /\ local' = [local EXCEPT ![j].oldRole = users[Email(j)]]
    /\ UNCHANGED <<tables, jobs>>

\* update_user_role trusts the role claim of the token, then reads the user.
CheckRole(j) ==
    /\ step[j] = "idle"
    /\ jobs[j].kind = "role"
    /\ \E t \in tokens :
          /\ t[1] = jobs[j].actor
          /\ \/ t[2] # "ADMIN" /\ Return(j, "Forbidden")
             \/ t[2] = "ADMIN" /\ ~IsUser(Email(j)) /\ Return(j, "NotFound")
             \/ t[2] = "ADMIN" /\ IsUser(Email(j)) /\ Goto(j, "update", NoUser)
    /\ local' = [local EXCEPT ![j].oldRole = users[Email(j)]]
    /\ UNCHANGED <<tables, jobs>>

\* The UPDATE takes the row; the session sends none when the role it read is the new one.
UpdateRole(j) ==
    /\ step[j] = "update"
    /\ \/ /\ local[j].oldRole # jobs[j].role
          /\ Writers(Email(j), j) = {}
          /\ Goto(j, "grant", Email(j))
       \/ local[j].oldRole = jobs[j].role /\ Goto(j, "grant", NoUser)
    /\ UNCHANGED <<tables, jobs, local>>

\* Mutant of CommitRole: record_audit_event is forgotten.
CommitRoleUnaudited(j) ==
    /\ step[j] = "grant"
    /\ users' = IF locked[j] = NoUser THEN users ELSE [users EXCEPT ![Email(j)] = jobs[j].role]
    /\ Return(j, "Updated")
    /\ UNCHANGED <<numbers, audit, tokens, jobs, local>>

\* The audit row needs a shared lock on the row of the actor for its foreign key; then
\* both are committed.
CommitRole(j) ==
    /\ step[j] = "grant"
    /\ Writers(jobs[j].actor, j) = {}
    /\ users' = IF locked[j] = NoUser THEN users ELSE [users EXCEPT ![Email(j)] = jobs[j].role]
    /\ Record("ROLE_UPDATED", j)
    /\ \E o \in {"Updated", "Failed"} : Return(j, o)
    /\ UNCHANGED <<numbers, tokens, jobs, local>>
-----------------------------------------------------------------------------
\* The jobs whose open transaction job j waits for.
WaitsFor(j) ==
    CASE step[j] = "insert" /\ ~IsUser(Email(j)) -> Writers(Email(j), j)
      [] step[j] \in {"audit", "sync"} -> Writers(Email(j), j)
      [] step[j] = "update" /\ local[j].oldRole # jobs[j].role -> Writers(Email(j), j)
      [] step[j] = "grant" -> Writers(jobs[j].actor, j)
      [] OTHER -> {}

\* InnoDB finds a cycle of waits and rolls one of its transactions back.
DeadlockVictim(j) ==
    /\ \E S \in SUBSET Jobs :
          /\ j \in S
          /\ \A i \in S : WaitsFor(i) \cap S # {} /\ \E k \in S : i \in WaitsFor(k)
    /\ Return(j, "Failed")
    /\ UNCHANGED <<tables, jobs, local>>

AuthArrival(j) == LookUpEmail(j) \/ RefuseLogin(j) \/ AcceptLogin(j) \/ CheckRole(j)

AuthWork(j) ==
    \/ InsertUser(j) \/ DrawNumber(j) \/ ProvisionAccount(j) \/ AuditRegistration(j)
    \/ SyncDemoUser(j) \/ IssueToken(j) \/ UpdateRole(j) \/ CommitRole(j)
    \/ DeadlockVictim(j)
-----------------------------------------------------------------------------
\* Every committed user has exactly one primary account, nobody else has any, and no two
\* accounts share a number ("automatically provisions their primary checking account",
\* register_user), whichever registrations and starts overlap or fail halfway.
PrimaryAccount ==
    /\ \A e \in Emails : Cardinality(numbers[e]) = IF IsUser(e) THEN 1 ELSE 0
    /\ \A e, f \in Emails : numbers[e] \cap numbers[f] # {} => e = f

\* An address is registered at most once, by one job, and never one that was a user
\* before; the caller who is told so is the one (User.email is unique).
RegisteredOnce ==
    LET registered(e) == {j \in Jobs : <<"USER_REGISTERED", j, e>> \in audit}
    IN  \A e \in Emails :
            /\ Cardinality(registered(e)) <= 1
            /\ registered(e) # {} => IsUser(e) /\ OpeningRoles[e] = NoUser

\* <<actor, promoted>> of the audited promotions.
Promotions ==
    {<<jobs[t[2]].actor, t[3]>> :
        t \in {u \in audit : u[1] = "ROLE_UPDATED" /\ jobs[u[2]].role = "ADMIN"}}

\* Every administrator, in the table or by the claim of a token, was one before the
\* first job or was promoted by an administrator, through an unbroken chain of audited
\* promotions ("Admin status can only be granted by an authenticated administrator",
\* register_user); role claims outlive demotions, the chain does not break for it.
AdminsVouched ==
    LET openingAdmins == {e \in Emails : OpeningRoles[e] = "ADMIN"}
        closed(S) == \A p \in Promotions : p[1] \in S => p[2] \in S
    IN  \A T \in SUBSET (Emails \ openingAdmins) :
            LET S == openingAdmins \cup T
            IN  closed(S) =>
                    \A e \in Emails : users[e] = "ADMIN" \/ <<e, "ADMIN">> \in tokens => e \in S

\* A role that is not the one a user began with was given by an audited update.
AuditExplainsRole ==
    \A e \in Emails :
        IsUser(e) =>
            \/ users[e] = IF OpeningRoles[e] = NoUser THEN "CUSTOMER" ELSE OpeningRoles[e]
            \/ \E t \in audit :
                  t[1] = "ROLE_UPDATED" /\ t[3] = e /\ jobs[t[2]].role = users[e]
=============================================================================
