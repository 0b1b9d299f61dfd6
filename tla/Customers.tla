----------------------------- MODULE Customers -----------------------------
(***************************************************************************)
(* The tables about customers that several services share, and the jobs    *)
(* that work on them.  Every execution of an operation (a job) is a        *)
(* sequence of steps, one per statement that may wait for, or fail because *)
(* of, another job.                                                        *)
(***************************************************************************)
EXTENDS CustomerTables

\* What a job has read or drawn: the account numbers in the snapshot of its transaction,
\* the number for the new account (at most one), the role of the user to change.
Local == [seen : SUBSET Numbers, number : SUBSET Numbers, oldRole : UserRole \cup {NoUser}]

VARIABLES
    users,    \* users table: the committed role of each address
    numbers,  \* accounts table: the account numbers of each user
    audit,    \* audit_logs table: <<event, job, address>>
    tokens,   \* the tokens issued so far, as <<holder, role claim>>
    jobs,     \* the call of each job, fixed when it arrives
    local,    \* what each job has read
    step,     \* where each job is
    at,       \* position in DemoUsers of the address a start is working on
    locked,   \* the users row the job's transaction has inserted or updated
    answer    \* what the caller got

tables == <<users, numbers, audit, tokens>>
jobVars == <<tables, jobs, local, step, at, locked, answer>>

JobsInit ==
    /\ users = OpeningRoles
    /\ numbers = OpeningNumbers
    /\ audit = {}
    /\ tokens = OpeningTokens
    /\ jobs \in Workloads
    /\ local = [j \in Jobs |-> [seen |-> {}, number |-> {}, oldRole |-> NoUser]]
    /\ step = [j \in Jobs |-> "idle"]
    /\ at = [j \in Jobs |-> 1]
    /\ locked = [j \in Jobs |-> NoUser]
    /\ answer = [j \in Jobs |-> "none"]

IsUser(e) == users[e] # NoUser
Taken == UNION {numbers[e] : e \in Emails}
IsStart(j) == jobs[j].kind = "start"

\* The address the job is working on.
Email(j) == IF IsStart(j) THEN DemoUsers[at[j]] ELSE jobs[j].email

\* The other jobs whose open transaction has written the users row of address e.
Writers(e, j) == {i \in Jobs \ {j} : locked[i] = e}

\* The job goes on to step s, holding the users row e or none.
Goto(j, s, e) ==
    /\ step' = [step EXCEPT ![j] = s]
    /\ locked' = [locked EXCEPT ![j] = e]
    /\ UNCHANGED <<at, answer>>

\* The job is over; a start tells nobody how it went.
Answer(j, o) ==
    /\ step' = [step EXCEPT ![j] = "done"]
    /\ answer' = [answer EXCEPT ![j] = IF IsStart(j) THEN "Started" ELSE o]
    /\ locked' = [locked EXCEPT ![j] = NoUser]
    /\ UNCHANGED at

\* Mutant of Return: the session is not rolled back.
ReturnKeepsLock(j, o) ==
    /\ step' = [step EXCEPT ![j] = "done"]
    /\ answer' = [answer EXCEPT ![j] = o]
    /\ UNCHANGED <<at, locked>>

\* The transaction is over: a start goes on to the next demo customer, everything else
\* answers its caller.
Return(j, o) ==
    IF IsStart(j) /\ at[j] < Len(DemoUsers)
    THEN /\ at' = [at EXCEPT ![j] = @ + 1]
         /\ step' = [step EXCEPT ![j] = "idle"]
         /\ locked' = [locked EXCEPT ![j] = NoUser]
         /\ UNCHANGED answer
    ELSE Answer(j, o)

Record(event, j) == audit' = audit \cup {<<event, j, Email(j)>>}

\* A statement fails.  A start goes on after a failed registration, and ends when it
\* fails while it looks up a demo customer or brings one up to date.
Abort(j) ==
    /\ step[j] # "done"
    /\ step[j] = "idle" => at[j] > 1
    /\ IF step[j] \in {"idle", "sync"} THEN Answer(j, "Started") ELSE Return(j, "Failed")
    /\ UNCHANGED <<tables, jobs, local>>
-----------------------------------------------------------------------------
\* Type correctness.
JobsTypeOK ==
    /\ users \in [Emails -> UserRole \cup {NoUser}]
    /\ numbers \in [Emails -> SUBSET Numbers]
    /\ audit \subseteq AuditEventType \X Jobs \X Emails
    /\ tokens \subseteq Emails \X UserRole
    /\ jobs \in [Jobs -> JobCall]
    /\ local \in [Jobs -> Local]
    /\ step \in [Jobs -> {"idle", "insert", "number", "provision", "audit", "sync", "token",
                          "update", "grant", "insert profile", "save",
                          "insert row", "brand", "done"}]
    /\ at \in [Jobs -> 1..Len(DemoUsers)]
    /\ locked \in [Jobs -> Emails \cup {NoUser}]
    /\ answer \in [Jobs -> {"none", "Registered", "Exists", "Token", "Unauthorized", "Updated",
                            "Forbidden", "Invalid", "NotFound", "Failed", "Started", "Saved", "Branded"}]
=============================================================================
