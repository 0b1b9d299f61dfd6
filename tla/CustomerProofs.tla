--------------------------- MODULE CustomerProofs ---------------------------
(***************************************************************************)
(* Proofs about everything that happens to customers: registrations,       *)
(* starts of workers, logins, role changes, profiles, verdicts and         *)
(* branding, interleaved step by step and aborted anywhere.                *)
(***************************************************************************)
EXTENDS CustomerSystem, FiniteSetTheorems, TLAPS

(* The inductive invariant, first part: how far each job is, and what it may rely on. *)

\* The steps of each kind of job.
StepsFit ==
    \A j \in Jobs :
        LET kind == jobs[j].kind
        IN  /\ step[j] \in {"insert", "number", "provision", "audit"} => kind \in {"register", "start"}
            /\ step[j] = "sync" => kind = "start"
            /\ step[j] = "token" => kind \in {"login", "register"}
            /\ step[j] \in {"update", "grant"} => kind = "role"
            /\ step[j] = "insert profile" => kind = "profile"
            /\ step[j] = "save" => kind \in {"profile", "kyc"}
            /\ step[j] \in {"insert row", "brand"} => kind = "branding"

\* A registration holds the row it has inserted until the account is committed with it; a
\* role change holds the row it has updated; and no row is held twice.
LocksHeld ==
    /\ \A j \in Jobs :
          /\ step[j] \in {"number", "provision"} => locked[j] = Email(j) /\ ~IsUser(Email(j))
          /\ step[j] = "grant" => locked[j] \in {Email(j), NoUser}
          /\ step[j] \notin {"number", "provision", "grant"} => locked[j] = NoUser
    /\ \A i, j \in Jobs : locked[i] = locked[j] => i = j \/ locked[j] = NoUser

\* Users stay: whoever has been found, holds a token or has a profile is one.
UsersKnown ==
    /\ \A j \in Jobs :
          step[j] \in {"audit", "sync", "token", "update", "grant", "insert profile", "save"}
              => IsUser(Email(j))
    /\ \A t \in tokens : IsUser(t[1])
    /\ \A e \in Emails : OpeningRoles[e] # NoUser \/ profiles[e] # NoRow => IsUser(e)

\* What only an administrator may ask for is done for somebody who showed such a token.
Authorised ==
    \A j \in Jobs :
        \/ step[j] \in {"update", "grant", "insert row", "brand"}
        \/ step[j] = "save" /\ jobs[j].kind = "kyc"
        => <<jobs[j].actor, "ADMIN">> \in tokens

JobInv ==
    /\ JobsTypeOK
    /\ DOMAIN profiles = Emails
    /\ StepsFit
    /\ LocksHeld
    /\ UsersKnown
    /\ Authorised

(* Second part: account numbers. *)

\* A registration commits one number, which it has drawn.
NumberDrawn ==
    \A j \in Jobs : step[j] = "provision" => \E n \in Numbers : local[j].number = {n}

\* Each user has one account, nobody else has any, and no number is given twice.
OneNumberEach ==
    /\ \A e \in Emails : IF IsUser(e) THEN \E n \in Numbers : numbers[e] = {n} ELSE numbers[e] = {}
    /\ \A e, f \in Emails : numbers[e] \cap numbers[f] # {} => e = f

(* Third part: who registered whom. *)

Registered(j, e) == <<"USER_REGISTERED", j, e>> \in audit

\* A job that is about to record a registration is the only one for its address, and has
\* not recorded it yet.
RegisteredByOne ==
    /\ \A j \in Jobs : step[j] = "audit" =>
          /\ OpeningRoles[Email(j)] = NoUser
          /\ \A i \in Jobs : ~Registered(i, Email(j))
          /\ \A i \in Jobs : step[i] = "audit" /\ Email(i) = Email(j) => i = j
    /\ \A j \in Jobs, e \in Emails : Registered(j, e) =>
          /\ IsUser(e) /\ OpeningRoles[e] = NoUser
          /\ \A i \in Jobs : Registered(i, e) => i = j

(* Fourth part: what the audit log says of each job. *)

Recorded(j) == {t[1] : t \in {u \in audit : u[2] = j}}

\* What has been recorded when a token is about to be issued.
TokenEvent(j) == IF jobs[j].kind = "login" THEN "LOGIN_SUCCESS" ELSE "USER_REGISTERED"

\* What a job has recorded before it answers.
RecordedSoFar ==
    \A j \in Jobs :
        /\ IsStart(j) => Recorded(j) \subseteq {"USER_REGISTERED"} /\ answer[j] \in {"none", "Started"}
        /\ ~IsStart(j) /\ step[j] \notin {"token", "done"} => Recorded(j) = {}
        /\ step[j] = "token" => Recorded(j) = {TokenEvent(j)}
        /\ step[j] # "done" => answer[j] = "none"
        /\ \E event \in AuditEventType : Recorded(j) \subseteq {event}

\* A job records events about the address it works on.
RecordedOwn == \A t \in audit : IsStart(t[2]) \/ t[3] = jobs[t[2]].email

\* A profile is opened and edited by somebody with a token of its user.
OwnersKnown ==
    \A j \in Jobs :
        jobs[j].kind = "profile" /\ step[j] \in {"insert profile", "save"} =>
            \E t \in tokens : t[1] = jobs[j].email

(* Fifth part: the rows that jobs have loaded or inserted and not yet committed. *)

\* A job saves a profile that is there, or the blank one it has inserted, which nobody
\* else can insert meanwhile.
ProfileDrafts ==
    /\ \A j \in Jobs : step[j] = "save" =>
          IF draft[j].new
          THEN jobs[j].kind = "profile" /\ draft[j].row = BlankProfile /\ profiles[Email(j)] = NoRow
          ELSE draft[j].row \in Profile /\ profiles[Email(j)] # NoRow
    /\ \A i, j \in Jobs :
          step[i] = "save" /\ step[j] = "save" /\ draft[i].new /\ draft[j].new /\ Email(i) = Email(j)
              => i = j

\* The same for the branding; a new row is told apart by its number.
BrandingDrafts ==
    /\ \A j \in Jobs : step[j] = "brand" =>
          /\ draft[j].id \in ConfigIds /\ draft[j].id <= lastId
          /\ IF draft[j].new THEN draft[j].row = BlankBranding /\ config[draft[j].id] = NoRow
             ELSE draft[j].row \in Branding /\ config[draft[j].id] # NoRow
    /\ \A i, j \in Jobs :
          step[i] = "brand" /\ step[j] = "brand" /\ draft[i].new /\ draft[i].id = draft[j].id => i = j
    /\ \A i \in ConfigIds : config[i] # NoRow => i <= lastId

\* No branding job inserts twice, so that the counter stays in its bound.
Inserted == {j \in Jobs : jobs[j].kind = "branding" /\ draft[j].new}
CounterBounded ==
    /\ lastId \in Nat /\ lastId <= Cardinality(Inserted) + 1
    /\ \A j \in Jobs : step[j] \in {"idle", "insert row"} => j \notin Inserted

(* Sixth part: what was saved and what is shown. *)

\* Each field of each committed row was set by somebody who may.
RowsExplained ==
    \A i \in ConfigIds, f \in BrandingFields : config[i] # NoRow =>
        \/ config[i][f] = NoText
        \/ OpeningBranding # NoRow /\ OpeningBranding[f] = config[i][f]
        \/ \E t \in audit :
              /\ t[1] = "BRANDING_UPDATED"
              /\ f \in jobs[t[2]].fields /\ jobs[t[2]].value = config[i][f]
              /\ <<t[3], "ADMIN">> \in tokens

\* A field that a job is about to leave alone, because the row it has loaded has the value
\* already, still has it unless somebody else set it; and what it has saved stays.
ProfileEdits ==
    \A j \in Jobs : \A f \in jobs[j].fields :
        /\ step[j] = "save" /\ ~draft[j].new =>
               profiles[Email(j)][f] = draft[j].row[f] \/ Rivals(j, f) # {}
        /\ answer[j] = "Saved" =>
               /\ jobs[j].kind \in {"profile", "kyc"} /\ profiles[Email(j)] # NoRow
               /\ profiles[Email(j)][f] = jobs[j].value \/ Rivals(j, f) # {}

BrandingEdits ==
    \A j \in Jobs : \A f \in jobs[j].fields :
        /\ step[j] = "brand" /\ ~draft[j].new =>
               config[draft[j].id][f] = draft[j].row[f] \/ Rivals(j, f) # {}
        /\ answer[j] = "Branded" =>
               /\ jobs[j].kind = "branding"
               /\ draft[j].id \in ConfigIds /\ config[draft[j].id] # NoRow
               /\ config[draft[j].id][f] = jobs[j].value \/ Rivals(j, f) # {}

--------------------------------------------------------------------------
(* How a job moves. *)

Acts(j) == Arrival(j) \/ Work(j) \/ (Abort(j) /\ UNCHANGED recordVars)

Steps == {"idle", "insert", "number", "provision", "audit", "sync", "token", "update", "grant",
          "insert profile", "save", "insert row", "brand", "done"}
Answers == {"none", "Registered", "Exists", "Token", "Unauthorized", "Updated", "Forbidden",
            "Invalid", "NotFound", "Failed", "Started", "Saved", "Branded"}

\* Job j is at step s with the users row e, and has not answered meanwhile.
Went(j, s, e) == step'[j] = s /\ locked'[j] = e /\ at'[j] = at[j] /\ answer'[j] = answer[j]

\* Its transaction is over; o is the answer, if it gives one.
Ended(j, o) ==
    /\ locked'[j] = NoUser
    /\ \/ IsStart(j) /\ step'[j] = "idle" /\ at'[j] = at[j] + 1 /\ answer'[j] = answer[j]
       \/ /\ step'[j] = "done" /\ at'[j] = at[j]
          /\ answer'[j] = IF IsStart(j) THEN "Started" ELSE o

\* The other jobs are where they were.
OthersWait(j) ==
    \A i \in Jobs \ {j} :
        step'[i] = step[i] /\ at'[i] = at[i] /\ locked'[i] = locked[i] /\ answer'[i] = answer[i]

PlacesOK ==
    /\ step \in [Jobs -> Steps]
    /\ at \in [Jobs -> 1..Len(DemoUsers)]
    /\ locked \in [Jobs -> Emails \cup {NoUser}]
    /\ answer \in [Jobs -> Answers]

\* The fields of a call.
LEMMA CallTyped ==
    ASSUME JobsTypeOK, NEW j \in Jobs
    PROVE  /\ jobs[j] \in JobCall
           /\ jobs[j].email \in Emails /\ jobs[j].actor \in Emails /\ jobs[j].role \in UserRole
           /\ jobs[j].kind \in {"register", "login", "role", "start", "profile", "kyc", "branding"}
           /\ jobs[j].kind = "branding" => jobs[j].email = jobs[j].actor
BY DEF JobsTypeOK, JobCall

\* A job always works on some address.
LEMMA EmailTyped ==
    ASSUME JobsTypeOK, NEW j \in Jobs
    PROVE  Email(j) \in Emails /\ Email(j) # NoUser
<1>1. at[j] \in 1..Len(DemoUsers) /\ DemoUsers \in Seq(Emails)
  BY DemoUsersAssumption DEF JobsTypeOK
<1>2. DemoUsers[at[j]] \in Emails
  BY <1>1
<1>3. jobs[j].email \in Emails
  BY CallTyped
<1> QED BY <1>2, <1>3, NoUserAssumption DEF Email

\* What Goto does to each job.
LEMMA GotoMoves ==
    ASSUME PlacesOK, NEW j \in Jobs, NEW s \in Steps, NEW e \in Emails \cup {NoUser}, Goto(j, s, e)
    PROVE  PlacesOK' /\ Went(j, s, e) /\ OthersWait(j)
BY DEF PlacesOK, Goto, Went, OthersWait

\* What Answer does to each job.
LEMMA AnswerMoves ==
    ASSUME PlacesOK, NEW j \in Jobs, NEW o \in Answers, Answer(j, o)
    PROVE  PlacesOK' /\ Ended(j, o) /\ OthersWait(j)
BY DEF PlacesOK, Steps, Answers, Answer, Ended, OthersWait

\* What Return does to each job.
LEMMA ReturnMoves ==
    ASSUME PlacesOK, NEW j \in Jobs, NEW o \in Answers, Return(j, o)
    PROVE  PlacesOK' /\ Ended(j, o) /\ OthersWait(j)
<1>1. CASE Answer(j, o)
  BY <1>1, AnswerMoves
<1>2. CASE IsStart(j) /\ at[j] < Len(DemoUsers) /\ ~Answer(j, o)
  <2>1. at[j] + 1 \in 1..Len(DemoUsers)
    BY <1>2, DemoUsersAssumption DEF PlacesOK
  <2> QED BY <1>2, <2>1 DEF PlacesOK, Steps, Return, Ended, OthersWait
<1> QED BY <1>1, <1>2 DEF Return

\* The place of job j agrees with the first part of the invariant.
Placed(j) ==
    LET kind == jobs[j].kind
    IN  /\ step[j] \in {"insert", "number", "provision", "audit"} => kind \in {"register", "start"}
        /\ step[j] = "sync" => kind = "start"
        /\ step[j] = "token" => kind \in {"login", "register"}
        /\ step[j] \in {"update", "grant"} => kind = "role"
        /\ step[j] = "insert profile" => kind = "profile"
        /\ step[j] = "save" => kind \in {"profile", "kyc"}
        /\ step[j] \in {"insert row", "brand"} => kind = "branding"
        /\ step[j] \in {"number", "provision"} => locked[j] = Email(j) /\ ~IsUser(Email(j))
        /\ step[j] = "grant" => locked[j] \in {Email(j), NoUser}
        /\ step[j] \notin {"number", "provision", "grant"} => locked[j] = NoUser
        /\ \A i \in Jobs \ {j} : locked[i] # locked[j] \/ locked[j] = NoUser
        /\ step[j] \in {"audit", "sync", "token", "update", "grant", "insert profile", "save"}
              => IsUser(Email(j))
        /\ \/ step[j] \in {"update", "grant", "insert row", "brand"}
           \/ step[j] = "save" /\ jobs[j].kind = "kyc"
           => <<jobs[j].actor, "ADMIN">> \in tokens

\* The first part of the invariant, job by job.
LEMMA JobInvPlaced ==
    JobInv <=> /\ JobsTypeOK
               /\ DOMAIN profiles = Emails
               /\ \A j \in Jobs : Placed(j)
               /\ \A t \in tokens : IsUser(t[1])
               /\ \A e \in Emails : OpeningRoles[e] # NoUser \/ profiles[e] # NoRow => IsUser(e)
BY DEF JobInv, StepsFit, LocksHeld, UsersKnown, Authorised, Placed

\* Whose turn it is not keeps its address.
LEMMA OthersKeepEmail ==
    ASSUME NEW j \in Jobs, OthersWait(j), jobs' = jobs, NEW i \in Jobs \ {j}
    PROVE  Email(i)' = Email(i) /\ IsStart(i)' = IsStart(i)
BY DEF OthersWait, Email, IsStart

\* No step takes a user or a token away; users are added by who holds their row.
Growing(j) ==
    /\ audit \subseteq audit' /\ tokens \subseteq tokens'
    /\ \A e \in Emails : IsUser(e) => IsUser(e)'
    /\ \A e \in Emails : IsUser(e)' => IsUser(e) \/ (step[j] = "provision" /\ e = Email(j))
    /\ \A t \in tokens' : t \in tokens \/ (t[1] \in Emails /\ IsUser(t[1])')
    /\ \A e \in Emails : profiles'[e] # NoRow => profiles[e] # NoRow \/ IsUser(e)'

\* The other jobs rely on nothing that a step changes.
LEMMA OthersPlaced ==
    ASSUME JobInv, NEW j \in Jobs, OthersWait(j), jobs' = jobs, Growing(j), Placed(j)',
           NEW i \in Jobs \ {j}
    PROVE  Placed(i)'
<1>1. Placed(i) /\ Placed(j)
  BY JobInvPlaced
<1>2. Email(i) \in Emails /\ Email(i) # NoUser /\ Email(j) \in Emails
  BY EmailTyped DEF JobInv
<1>3. Email(i)' = Email(i)
  BY OthersKeepEmail
<1>4. step'[i] = step[i] /\ locked'[i] = locked[i]
  BY DEF OthersWait
<1>5. step[i] \in {"number", "provision"} => ~IsUser(Email(i))'
  <2> SUFFICES ASSUME step[i] \in {"number", "provision"}, IsUser(Email(i))' PROVE FALSE
    OBVIOUS
  <2>1. ~IsUser(Email(i)) /\ locked[i] = Email(i)
    BY <1>1 DEF Placed
  <2>2. step[j] = "provision" /\ Email(i) = Email(j)
    BY <1>2, <1>3, <2>1 DEF Growing, IsUser
  <2>3. locked[j] = Email(j)
    BY <1>1, <2>2 DEF Placed
  <2> QED BY <1>1, <1>2, <2>1, <2>2, <2>3 DEF Placed
<1>6. IsUser(Email(i)) => IsUser(Email(i))'
  BY <1>2, <1>3 DEF Growing, IsUser
<1>7. \A k \in Jobs \ {i} : locked'[k] # locked'[i] \/ locked'[i] = NoUser
  <2> TAKE k \in Jobs \ {i}
  <2>1. CASE k = j
    BY <2>1 DEF Placed
  <2>2. CASE k # j
    BY <1>1, <1>4, <2>2 DEF Placed, OthersWait
  <2> QED BY <2>1, <2>2
<1>8. <<jobs[i].actor, "ADMIN">> \in tokens => <<jobs[i].actor, "ADMIN">> \in tokens'
  BY DEF Growing
<1> QED BY <1>1, <1>3, <1>4, <1>5, <1>6, <1>7, <1>8 DEF Placed

\* What a step has to do to keep the first part.
LEMMA JobInvKept ==
    ASSUME JobInv, NEW j \in Jobs, OthersWait(j), jobs' = jobs, Growing(j), Placed(j)',
           JobsTypeOK', (DOMAIN profiles = Emails)'
    PROVE  JobInv'
<1>1. \A i \in Jobs : Placed(i)'
  BY OthersPlaced
<1>2. \A t \in tokens' : IsUser(t[1])'
  <2> TAKE t \in tokens'
  <2>1. CASE t \in tokens
    <3>1. t[1] \in Emails /\ IsUser(t[1])
      BY <2>1 DEF JobInv, JobsTypeOK, UsersKnown
    <3> QED BY <3>1 DEF Growing
  <2> QED BY <2>1 DEF Growing
<1>3. \A e \in Emails : OpeningRoles[e] # NoUser \/ profiles'[e] # NoRow => IsUser(e)'
  BY DEF Growing, JobInv, UsersKnown
<1>4. JobsTypeOK' /\ (DOMAIN profiles = Emails)'
  OBVIOUS
<1> QED BY <1>1, <1>2, <1>3, <1>4 DEF JobInv, StepsFit, LocksHeld, UsersKnown, Authorised, Placed

\* A job whose transaction is over relies on nothing.
LEMMA EndedPlaced ==
    ASSUME NEW j \in Jobs, NEW o, Ended(j, o)
    PROVE  Placed(j)'
BY DEF Ended, Placed

--------------------------------------------------------------------------
(* The first part of the invariant is inductive: a lemma for each group of steps. *)

Kept(j) == JobInv' /\ jobs' = jobs /\ OthersWait(j) /\ Growing(j)

\* Where the jobs are has the right type.
LEMMA PlacesTyped == JobsTypeOK => PlacesOK
BY DEF JobsTypeOK, PlacesOK, Steps, Answers

\* The type invariant after a step, from what the step did to each variable.
LEMMA TypesKept ==
    ASSUME JobInv, PlacesOK', jobs' = jobs, (local \in [Jobs -> Local])',
           (users \in [Emails -> UserRole \cup {NoUser}])', (numbers \in [Emails -> SUBSET Numbers])',
           (audit \subseteq AuditEventType \X Jobs \X Emails)',
           (tokens \subseteq Emails \X UserRole)'
    PROVE  JobsTypeOK'
BY DEF JobInv, JobsTypeOK, PlacesOK, Steps, Answers

\* What a job reads or draws.
LEMMA LocalTyped ==
    ASSUME JobInv, NEW j \in Jobs, NEW S \in SUBSET Numbers, NEW r \in UserRole \cup {NoUser}
    PROVE  /\ [local EXCEPT ![j].seen = S] \in [Jobs -> Local]
           /\ [local EXCEPT ![j].number = S] \in [Jobs -> Local]
           /\ [local EXCEPT ![j].oldRole = r] \in [Jobs -> Local]
<1>1. local \in [Jobs -> Local] /\ local[j] \in Local
  BY DEF JobInv, JobsTypeOK
<1>2. [local[j] EXCEPT !.seen = S] \in Local
  BY <1>1 DEF Local
<1>3. [local[j] EXCEPT !.number = S] \in Local
  BY <1>1 DEF Local
<1>4. [local[j] EXCEPT !.oldRole = r] \in Local
  BY <1>1 DEF Local
<1> HIDE DEF Local
<1> QED BY <1>1, <1>2, <1>3, <1>4

\* A step that changes no table.
LEMMA QuietKept ==
    ASSUME JobInv, NEW j \in Jobs, UNCHANGED <<tables, jobs>>, profiles' = profiles,
           (local \in [Jobs -> Local])', PlacesOK', OthersWait(j), Placed(j)'
    PROVE  Kept(j)
<1>1. JobsTypeOK' /\ (DOMAIN profiles = Emails)'
  BY TypesKept DEF JobInv, JobsTypeOK, tables
<1>2. Growing(j)
  BY DEF Growing, tables, IsUser
<1> QED BY <1>1, <1>2, JobInvKept DEF Kept, tables

\* A step that ends a transaction and changes no table.
LEMMA QuietEnd ==
    ASSUME JobInv, NEW j \in Jobs, NEW o \in Answers, Return(j, o) \/ Answer(j, o),
           UNCHANGED <<tables, jobs>>, profiles' = profiles, (local \in [Jobs -> Local])'
    PROVE  Kept(j)
<1>1. PlacesOK' /\ OthersWait(j) /\ Ended(j, o)
  BY ReturnMoves, AnswerMoves, PlacesTyped DEF JobInv
<1>2. Placed(j)'
  BY <1>1, EndedPlaced
<1> QED BY <1>1, <1>2, QuietKept

\* A step that goes on and changes no table.
LEMMA QuietGoto ==
    ASSUME JobInv, NEW j \in Jobs, NEW s \in Steps, NEW e \in Emails \cup {NoUser}, Goto(j, s, e),
           UNCHANGED <<tables, jobs>>, profiles' = profiles, (local \in [Jobs -> Local])',
           Went(j, s, e) => Placed(j)'
    PROVE  Kept(j)
<1>1. PlacesOK' /\ OthersWait(j) /\ Went(j, s, e)
  BY GotoMoves, PlacesTyped DEF JobInv
<1> QED BY <1>1, QuietKept

\* The address stays while the job goes on.
LEMMA WentEmail ==
    ASSUME NEW j \in Jobs, NEW s, NEW e, Went(j, s, e), UNCHANGED jobs
    PROVE  Email(j)' = Email(j)
BY DEF Went, Email, IsStart

\* A registration is sent to insert only for an unknown address, a start to sync only for a
\* known one.
LEMMA LookUpEmailKept ==
    ASSUME JobInv, NEW j \in Jobs, LookUpEmail(j), UNCHANGED recordVars
    PROVE  Kept(j)
<1>1. (local \in [Jobs -> Local])'
  <2>1. Taken \in SUBSET Numbers
    <3>1. \A e \in Emails : numbers[e] \subseteq Numbers
      BY DEF JobInv, JobsTypeOK
    <3> QED BY <3>1 DEF Taken
  <2>2. NoUser \in UserRole \cup {NoUser}
    OBVIOUS
  <2> QED BY <2>1, <2>2, LocalTyped DEF LookUpEmail
<1>2. UNCHANGED <<tables, jobs>> /\ profiles' = profiles
  BY DEF LookUpEmail, recordVars
<1>3. IsUser(Email(j))' = IsUser(Email(j)) \/ Email(j)' # Email(j)
  BY <1>2 DEF IsUser, tables
<1>4. CASE ~IsUser(Email(j)) /\ Goto(j, "insert", NoUser)
  <2>1. Went(j, "insert", NoUser) => Placed(j)'
    BY <1>2 DEF Went, Placed, LookUpEmail
  <2> QED BY <1>1, <1>2, <1>4, <2>1, QuietGoto DEF Steps
<1>5. CASE IsUser(Email(j)) /\ IsStart(j) /\ Goto(j, "sync", NoUser)
  <2>1. Went(j, "sync", NoUser) => Placed(j)'
    BY <1>2, <1>3, <1>5, WentEmail DEF Went, Placed, IsStart
  <2> QED BY <1>1, <1>2, <1>5, <2>1, QuietGoto DEF Steps
<1>6. CASE Return(j, "Exists")
  BY <1>1, <1>2, <1>6, QuietEnd DEF Answers
<1> QED BY <1>4, <1>5, <1>6 DEF LookUpEmail

\* The flush of a new user takes a row that nobody else holds: InnoDB made it wait for them.
LEMMA InsertUserKept ==
    ASSUME JobInv, NEW j \in Jobs, InsertUser(j), UNCHANGED recordVars
    PROVE  Kept(j)
<1>2. UNCHANGED <<tables, jobs>> /\ profiles' = profiles /\ (local \in [Jobs -> Local])'
  BY DEF InsertUser, recordVars, JobInv, JobsTypeOK
<1>3. IsUser(Email(j))' = IsUser(Email(j)) \/ Email(j)' # Email(j)
  BY <1>2 DEF IsUser, tables
<1>4. CASE ~IsUser(Email(j)) /\ Writers(Email(j), j) = {} /\ Goto(j, "number", Email(j))
  <2>1. Email(j) \in Emails
    BY EmailTyped DEF JobInv
  <2>2. OthersWait(j)
    BY <1>4, <2>1, GotoMoves, PlacesTyped DEF JobInv, Steps
  <2>3. \A i \in Jobs \ {j} : locked'[i] # Email(j)
    BY <1>4, <2>2 DEF OthersWait, Writers
  <2>4. Placed(j)
    BY JobInvPlaced
  <2>5. Went(j, "number", Email(j)) => Placed(j)'
    BY <1>2, <1>3, <1>4, <2>3, <2>4, WentEmail DEF Went, Placed, InsertUser
  <2> QED BY <1>2, <1>4, <2>1, <2>5, QuietGoto DEF Steps
<1>5. CASE Return(j, "Failed")
  BY <1>2, <1>5, QuietEnd DEF Answers
<1> QED BY <1>4, <1>5 DEF InsertUser

\* While a number is drawn the row stays held.
LEMMA DrawNumberKept ==
    ASSUME JobInv, NEW j \in Jobs, DrawNumber(j), UNCHANGED recordVars
    PROVE  Kept(j)
<1>1. (local \in [Jobs -> Local])'
  <2>1. \A n \in Numbers : {n} \in SUBSET Numbers
    OBVIOUS
  <2>2. NoUser \in UserRole \cup {NoUser}
    OBVIOUS
  <2>3. local \in [Jobs -> Local]
    BY DEF JobInv, JobsTypeOK
  <2>4. CASE \E n \in Numbers \ local[j].seen : local' = [local EXCEPT ![j].number = {n}]
    <3>1. PICK n \in Numbers : local' = [local EXCEPT ![j].number = {n}]
      BY <2>4
    <3> QED BY <2>1, <2>2, <3>1, LocalTyped
  <2>5. CASE UNCHANGED local
    BY <2>3, <2>5
  <2> QED BY <2>4, <2>5 DEF DrawNumber
<1>2. UNCHANGED <<tables, jobs>> /\ profiles' = profiles
  BY DEF DrawNumber, recordVars
<1>3. IsUser(Email(j))' = IsUser(Email(j)) \/ Email(j)' # Email(j)
  BY <1>2 DEF IsUser, tables
<1>4. CASE Goto(j, "provision", Email(j))
  <2>1. Email(j) \in Emails
    BY EmailTyped DEF JobInv
  <2>2. OthersWait(j)
    BY <1>4, <2>1, GotoMoves, PlacesTyped DEF JobInv, Steps
  <2>3. Placed(j) /\ step[j] = "number"
    BY JobInvPlaced DEF DrawNumber
  <2>4. \A i \in Jobs \ {j} : locked'[i] # Email(j)
    BY <2>1, <2>2, <2>3, NoUserAssumption DEF OthersWait, Placed
  <2>5. Went(j, "provision", Email(j)) => Placed(j)'
    BY <1>2, <1>3, <2>3, <2>4, WentEmail DEF Went, Placed
  <2> QED BY <1>1, <1>2, <1>4, <2>1, <2>5, QuietGoto DEF Steps
<1>5. CASE Return(j, "Failed")
  BY <1>1, <1>2, <1>5, QuietEnd DEF Answers
<1> QED BY <1>4, <1>5 DEF DrawNumber

\* A step that writes to the tables.
LEMMA WritingKept ==
    ASSUME JobInv, NEW j \in Jobs, jobs' = jobs, PlacesOK', OthersWait(j), Growing(j), Placed(j)',
           (local \in [Jobs -> Local])', (users \in [Emails -> UserRole \cup {NoUser}])',
           (numbers \in [Emails -> SUBSET Numbers])',
           (audit \subseteq AuditEventType \X Jobs \X Emails)',
           (tokens \subseteq Emails \X UserRole)',
           (DOMAIN profiles = Emails)'
    PROVE  Kept(j)
BY TypesKept, JobInvKept DEF Kept

\* An audit row is added and nothing else about the log changes.
LEMMA RecordTyped ==
    ASSUME JobInv, NEW j \in Jobs, NEW event \in AuditEventType, Record(event, j)
    PROVE  (audit \subseteq AuditEventType \X Jobs \X Emails)' /\ audit \subseteq audit'
<1>1. Email(j) \in Emails
  BY EmailTyped DEF JobInv
<1>2. audit \subseteq AuditEventType \X Jobs \X Emails
  BY DEF JobInv, JobsTypeOK
<1>3. <<event, j, Email(j)>> \in AuditEventType \X Jobs \X Emails
  BY <1>1
<1>4. audit' = audit \cup {<<event, j, Email(j)>>}
  BY DEF Record
<1> QED BY <1>2, <1>3, <1>4

\* The claim of a new token is the role of a user.
LEMMA IssueTyped ==
    ASSUME JobInv, NEW j \in Jobs, users' = users, IsUser(Email(j)),
           tokens' = tokens \cup {<<Email(j), users[Email(j)]>>}
    PROVE  /\ (tokens \subseteq Emails \X UserRole)' /\ tokens \subseteq tokens'
           /\ \A t \in tokens' : t \in tokens \/ (t[1] \in Emails /\ IsUser(t[1])')
<1>1. Email(j) \in Emails
  BY EmailTyped DEF JobInv
<1>2. users[Email(j)] \in UserRole
  BY <1>1 DEF JobInv, JobsTypeOK, IsUser
<1>3. tokens \subseteq Emails \X UserRole
  BY DEF JobInv, JobsTypeOK
<1>4. (tokens \subseteq Emails \X UserRole)' /\ tokens \subseteq tokens'
  BY <1>1, <1>2, <1>3
<1>5. \A t \in tokens' : t \in tokens \/ (t[1] \in Emails /\ IsUser(t[1])')
  <2> TAKE t \in tokens'
  <2>1. CASE t = <<Email(j), users[Email(j)]>>
    <3>1. t[1] = Email(j)
      BY <2>1
    <3> QED BY <1>1, <3>1 DEF IsUser
  <2> QED BY <2>1
<1> QED BY <1>4, <1>5

\* The commit of user and account is the only step that adds a user, the one whose row the job
\* holds.
LEMMA ProvisionAccountKept ==
    ASSUME JobInv, NEW j \in Jobs, ProvisionAccount(j), UNCHANGED recordVars
    PROVE  Kept(j)
<1>1. UNCHANGED <<audit, tokens, jobs, local>> /\ profiles' = profiles
  BY DEF ProvisionAccount, recordVars
<1>2. (local \in [Jobs -> Local])'
  BY <1>1 DEF JobInv, JobsTypeOK
<1>3. CASE UNCHANGED <<users, numbers>> /\ Return(j, "Failed")
  BY <1>1, <1>2, <1>3, QuietEnd DEF tables, Answers
<1>4. CASE /\ users' = [users EXCEPT ![Email(j)] = "CUSTOMER"]
           /\ numbers' = [numbers EXCEPT ![Email(j)] = @ \cup local[j].number]
           /\ Goto(j, "audit", NoUser)
  <2>1. Email(j) \in Emails
    BY EmailTyped DEF JobInv
  <2>2. PlacesOK' /\ OthersWait(j) /\ Went(j, "audit", NoUser)
    BY <1>4, GotoMoves, PlacesTyped DEF JobInv, Steps
  <2>3. "CUSTOMER" \in UserRole /\ "CUSTOMER" # NoUser
    BY NoUserAssumption DEF UserRole
  <2>4. (users \in [Emails -> UserRole \cup {NoUser}])'
    BY <1>4, <2>3 DEF JobInv, JobsTypeOK
  <2>5. local[j].number \subseteq Numbers
    BY DEF JobInv, JobsTypeOK, Local
  <2>6. (numbers \in [Emails -> SUBSET Numbers])'
    BY <1>4, <2>5 DEF JobInv, JobsTypeOK
  <2>7. \A e \in Emails : users'[e] = IF e = Email(j) THEN "CUSTOMER" ELSE users[e]
    BY <1>4 DEF JobInv, JobsTypeOK
  <2>8. step[j] = "provision"
    BY DEF ProvisionAccount
  <2>9. Growing(j)
    BY <1>1, <2>3, <2>7, <2>8 DEF Growing, IsUser
  <2>10. Placed(j)
    BY JobInvPlaced
  <2>11. Placed(j)'
    BY <1>1, <2>1, <2>2, <2>3, <2>7, <2>8, <2>10, WentEmail DEF Went, Placed, IsUser
  <2> QED BY <1>1, <1>2, <2>2, <2>4, <2>6, <2>9, <2>11, WritingKept DEF JobInv, JobsTypeOK
<1> QED BY <1>3, <1>4 DEF ProvisionAccount

\* The audit row of a registration is about a user, who is still one when the token is
\* issued.
LEMMA AuditRegistrationKept ==
    ASSUME JobInv, NEW j \in Jobs, AuditRegistration(j), UNCHANGED recordVars
    PROVE  Kept(j)
<1>1. UNCHANGED <<users, numbers, tokens, jobs, local>> /\ profiles' = profiles
  BY DEF AuditRegistration, recordVars
<1>2. PlacesOK' /\ OthersWait(j) /\ Placed(j)'
  <2>1. CASE IsStart(j)
    BY <2>1, ReturnMoves, EndedPlaced, PlacesTyped DEF AuditRegistration, JobInv, Answers
  <2>2. CASE ~IsStart(j)
    <3>1. PlacesOK' /\ OthersWait(j) /\ Went(j, "token", NoUser)
      BY <2>2, GotoMoves, PlacesTyped DEF AuditRegistration, JobInv, Steps
    <3>2. Placed(j) /\ step[j] = "audit"
      BY JobInvPlaced DEF AuditRegistration
    <3>3. Placed(j)'
      BY <1>1, <2>2, <3>1, <3>2, WentEmail DEF Went, Placed, IsUser, IsStart
    <3> QED BY <3>1, <3>3
  <2> QED BY <2>1, <2>2
<1>3. (audit \subseteq AuditEventType \X Jobs \X Emails)' /\ audit \subseteq audit'
  BY RecordTyped DEF AuditRegistration, AuditEventType
<1>4. Growing(j)
  BY <1>1, <1>3 DEF Growing, IsUser
<1> QED BY <1>1, <1>2, <1>3, <1>4, WritingKept DEF JobInv, JobsTypeOK

\* Bringing a demo customer up to date leaves all users users.
LEMMA SyncDemoUserKept ==
    ASSUME JobInv, NEW j \in Jobs, SyncDemoUser(j), UNCHANGED recordVars
    PROVE  Kept(j)
<1>1. UNCHANGED <<users, audit, tokens, jobs, local>> /\ profiles' = profiles
  BY DEF SyncDemoUser, recordVars
<1>2. PlacesOK' /\ OthersWait(j) /\ Placed(j)'
  BY ReturnMoves, EndedPlaced, PlacesTyped DEF SyncDemoUser, JobInv, Answers
<1>3. \E owned \in SUBSET Numbers : numbers' = [numbers EXCEPT ![Email(j)] = owned]
  <2>1. Email(j) \in Emails /\ numbers[Email(j)] \subseteq Numbers
    BY EmailTyped DEF JobInv, JobsTypeOK
  <2> QED BY <2>1 DEF SyncDemoUser
<1>4. (numbers \in [Emails -> SUBSET Numbers])'
  BY <1>3 DEF JobInv, JobsTypeOK
<1>5. Growing(j)
  BY <1>1 DEF Growing, IsUser
<1> QED BY <1>1, <1>2, <1>4, <1>5, WritingKept DEF JobInv, JobsTypeOK

\* A refused login adds an audit row only.
LEMMA RefuseLoginKept ==
    ASSUME JobInv, NEW j \in Jobs, RefuseLogin(j), UNCHANGED recordVars
    PROVE  Kept(j)
<1>1. UNCHANGED <<users, numbers, tokens, jobs, local>> /\ profiles' = profiles
  BY DEF RefuseLogin, recordVars
<1>2. PlacesOK' /\ OthersWait(j) /\ Placed(j)'
  BY ReturnMoves, EndedPlaced, PlacesTyped DEF RefuseLogin, JobInv, Answers
<1>3. (audit \subseteq AuditEventType \X Jobs \X Emails)' /\ audit \subseteq audit'
  BY RecordTyped DEF RefuseLogin, AuditEventType
<1>4. Growing(j)
  BY <1>1, <1>3 DEF Growing, IsUser
<1> QED BY <1>1, <1>2, <1>3, <1>4, WritingKept DEF JobInv, JobsTypeOK

\* An accepted login is the login of a user, who is still one when the token is issued.
LEMMA AcceptLoginKept ==
    ASSUME JobInv, NEW j \in Jobs, AcceptLogin(j), UNCHANGED recordVars
    PROVE  Kept(j)
<1>1. UNCHANGED <<users, numbers, tokens, jobs, local>> /\ profiles' = profiles
  BY DEF AcceptLogin, recordVars
<1>2. PlacesOK' /\ OthersWait(j) /\ Went(j, "token", NoUser)
  BY GotoMoves, PlacesTyped DEF AcceptLogin, JobInv, Steps
<1>3. (audit \subseteq AuditEventType \X Jobs \X Emails)' /\ audit \subseteq audit'
  BY RecordTyped DEF AcceptLogin, AuditEventType
<1>4. Growing(j)
  BY <1>1, <1>3 DEF Growing, IsUser
<1>5. Placed(j)'
  BY <1>1, <1>2, WentEmail DEF Went, Placed, IsUser, AcceptLogin
<1> QED BY <1>1, <1>2, <1>3, <1>4, <1>5, WritingKept DEF JobInv, JobsTypeOK

\* So the claim of the token is a role.
LEMMA IssueTokenKept ==
    ASSUME JobInv, NEW j \in Jobs, IssueToken(j), UNCHANGED recordVars
    PROVE  Kept(j)
<1>1. UNCHANGED <<users, numbers, audit, jobs, local>> /\ profiles' = profiles
  BY DEF IssueToken, recordVars
<1>2. PlacesOK' /\ OthersWait(j) /\ Placed(j)'
  BY ReturnMoves, EndedPlaced, PlacesTyped DEF IssueToken, JobInv, Answers
<1>3. IsUser(Email(j))
  BY JobInvPlaced DEF IssueToken, Placed
<1>4. /\ (tokens \subseteq Emails \X UserRole)' /\ tokens \subseteq tokens'
      /\ \A t \in tokens' : t \in tokens \/ (t[1] \in Emails /\ IsUser(t[1])')
  BY <1>1, <1>3, IssueTyped DEF IssueToken
<1>5. Growing(j)
  BY <1>1, <1>4 DEF Growing, IsUser
<1> QED BY <1>1, <1>2, <1>4, <1>5, WritingKept DEF JobInv, JobsTypeOK

\* A token is a holder and a claim; an audit row is an event, a job and an address.
LEMMA TokenPair ==
    ASSUME JobInv, NEW t \in tokens
    PROVE  t = <<t[1], t[2]>> /\ t[1] \in Emails /\ t[2] \in UserRole
<1>1. tokens \subseteq Emails \X UserRole
  BY DEF JobInv, JobsTypeOK
<1> QED BY <1>1

\* The columns of an audit row.
LEMMA AuditTriple ==
    ASSUME JobInv, NEW t \in audit
    PROVE  t = <<t[1], t[2], t[3]>> /\ t[1] \in AuditEventType /\ t[2] \in Jobs /\ t[3] \in Emails
<1>1. audit \subseteq AuditEventType \X Jobs \X Emails
  BY DEF JobInv, JobsTypeOK
<1> QED BY <1>1

\* A role change goes on only for a user and on the token of an administrator.
LEMMA CheckRoleKept ==
    ASSUME JobInv, NEW j \in Jobs, CheckRole(j), UNCHANGED recordVars
    PROVE  Kept(j)
<1>1. UNCHANGED <<tables, jobs>> /\ profiles' = profiles
  BY DEF CheckRole, recordVars
<1>2. Email(j) \in Emails /\ jobs[j].actor \in Emails
  BY EmailTyped, CallTyped DEF JobInv
<1>3. (local \in [Jobs -> Local])'
  <2>1. users[Email(j)] \in UserRole \cup {NoUser}
    BY <1>2 DEF JobInv, JobsTypeOK
  <2> QED BY <2>1, LocalTyped DEF CheckRole
<1>4. CASE \E o \in {"Forbidden", "NotFound"} : Return(j, o)
  BY <1>1, <1>3, <1>4, QuietEnd DEF Answers
<1>5. ASSUME NEW t \in tokens, t[1] = jobs[j].actor, t[2] = "ADMIN", IsUser(Email(j)),
             Goto(j, "update", NoUser)
      PROVE  Kept(j)
  <2>1. t = <<jobs[j].actor, "ADMIN">>
    BY <1>5, TokenPair
  <2>2. Went(j, "update", NoUser) => Placed(j)'
    BY <1>1, <1>5, <2>1, WentEmail DEF Went, Placed, IsUser, CheckRole, tables
  <2> QED BY <1>1, <1>3, <1>5, <2>2, QuietGoto DEF Steps
<1> QED BY <1>4, <1>5 DEF CheckRole

\* The UPDATE takes a row that nobody else holds, or none when the role is the same.
LEMMA UpdateRoleKept ==
    ASSUME JobInv, NEW j \in Jobs, UpdateRole(j), UNCHANGED recordVars
    PROVE  Kept(j)
<1>1. UNCHANGED <<tables, jobs, local>> /\ profiles' = profiles
  BY DEF UpdateRole, recordVars
<1>2. Email(j) \in Emails
  BY EmailTyped DEF JobInv
<1>3. (local \in [Jobs -> Local])'
  BY <1>1 DEF JobInv, JobsTypeOK
<1>4. Placed(j) /\ step[j] = "update"
  BY JobInvPlaced DEF UpdateRole
<1>5. CASE Writers(Email(j), j) = {} /\ Goto(j, "grant", Email(j))
  <2>1. OthersWait(j)
    BY <1>2, <1>5, GotoMoves, PlacesTyped DEF JobInv, Steps
  <2>2. \A i \in Jobs \ {j} : locked'[i] # Email(j)
    BY <1>5, <2>1 DEF OthersWait, Writers
  <2>3. Went(j, "grant", Email(j)) => Placed(j)'
    BY <1>1, <1>4, <2>2, WentEmail DEF Went, Placed, IsUser, tables
  <2> QED BY <1>1, <1>2, <1>3, <1>5, <2>3, QuietGoto DEF Steps
<1>6. CASE Goto(j, "grant", NoUser)
  <2>1. Went(j, "grant", NoUser) => Placed(j)'
    BY <1>1, <1>4, WentEmail DEF Went, Placed, IsUser, tables
  <2> QED BY <1>1, <1>3, <1>6, <2>1, QuietGoto DEF Steps
<1> QED BY <1>5, <1>6 DEF UpdateRole

\* The commit of a role makes nobody a user and nobody a stranger.
LEMMA CommitRoleKept ==
    ASSUME JobInv, NEW j \in Jobs, CommitRole(j), UNCHANGED recordVars
    PROVE  Kept(j)
<1>1. UNCHANGED <<numbers, tokens, jobs, local>> /\ profiles' = profiles
  BY DEF CommitRole, recordVars
<1>2. PlacesOK' /\ OthersWait(j) /\ Placed(j)'
  BY ReturnMoves, EndedPlaced, PlacesTyped DEF CommitRole, JobInv, Answers
<1>3. (audit \subseteq AuditEventType \X Jobs \X Emails)' /\ audit \subseteq audit'
  BY RecordTyped DEF CommitRole, AuditEventType
<1>4. IsUser(Email(j)) /\ Email(j) \in Emails /\ jobs[j].role \in UserRole
  BY JobInvPlaced, EmailTyped, CallTyped DEF CommitRole, Placed, JobInv
<1>5. jobs[j].role # NoUser
  BY <1>4, NoUserAssumption
<1>6. /\ (users \in [Emails -> UserRole \cup {NoUser}])'
      /\ \A e \in Emails : users'[e] = users[e] \/ (e = Email(j) /\ users'[e] = jobs[j].role)
  BY <1>4 DEF CommitRole, JobInv, JobsTypeOK
<1>7. Growing(j)
  BY <1>1, <1>3, <1>4, <1>5, <1>6 DEF Growing, IsUser
<1> QED BY <1>1, <1>2, <1>3, <1>6, <1>7, WritingKept DEF JobInv, JobsTypeOK

\* The victim of a deadlock lets go of its row and changes nothing.
LEMMA DeadlockVictimKept ==
    ASSUME JobInv, NEW j \in Jobs, DeadlockVictim(j), UNCHANGED recordVars
    PROVE  Kept(j)
<1>1. UNCHANGED <<tables, jobs>> /\ profiles' = profiles /\ (local \in [Jobs -> Local])'
  BY DEF DeadlockVictim, recordVars, JobInv, JobsTypeOK
<1> QED BY <1>1, QuietEnd DEF DeadlockVictim, Answers

\* So does a job whose statement failed.
LEMMA AbortKept ==
    ASSUME JobInv, NEW j \in Jobs, Abort(j), UNCHANGED recordVars
    PROVE  Kept(j)
<1>1. UNCHANGED <<tables, jobs>> /\ profiles' = profiles /\ (local \in [Jobs -> Local])'
  BY DEF Abort, recordVars, JobInv, JobsTypeOK
<1> QED BY <1>1, QuietEnd DEF Abort, Answers

\* Whoever shows the token of an administrator is one by its claim.
LEMMA ShowsToken ==
    ASSUME JobInv, NEW j \in Jobs, Shows(j, TRUE)
    PROVE  <<jobs[j].actor, "ADMIN">> \in tokens
<1>1. PICK t \in tokens : t[1] = jobs[j].actor /\ t[2] = "ADMIN"
  BY DEF Shows
<1> QED BY <1>1, TokenPair

\* Only users open a profile page.
LEMMA LoadProfileKept ==
    ASSUME JobInv, NEW j \in Jobs, LoadProfile(j)
    PROVE  Kept(j)
<1>1. UNCHANGED <<tables, jobs, local>> /\ profiles' = profiles
  BY DEF LoadProfile
<1>2. (local \in [Jobs -> Local])'
  BY <1>1 DEF JobInv, JobsTypeOK
<1>3. IsUser(Email(j))
  BY DEF LoadProfile, JobInv, UsersKnown
<1>4. ASSUME NEW s \in {"insert profile", "save"}, Goto(j, s, NoUser)
      PROVE  Kept(j)
  <2>1. Went(j, s, NoUser) => Placed(j)'
    BY <1>1, <1>3, WentEmail DEF Went, Placed, IsUser, tables, LoadProfile
  <2> QED BY <1>1, <1>2, <1>4, <2>1, QuietGoto DEF Steps
<1> QED BY <1>4 DEF LoadProfile

\* The blank profile is the profile of a user.
LEMMA InsertProfileKept ==
    ASSUME JobInv, NEW j \in Jobs, InsertProfile(j)
    PROVE  Kept(j)
<1>1. UNCHANGED <<tables, jobs, local>> /\ profiles' = profiles
  BY DEF InsertProfile
<1>2. (local \in [Jobs -> Local])'
  BY <1>1 DEF JobInv, JobsTypeOK
<1>3. Placed(j) /\ step[j] = "insert profile"
  BY JobInvPlaced DEF InsertProfile
<1>4. CASE Goto(j, "save", NoUser)
  <2>1. Went(j, "save", NoUser) => Placed(j)'
    BY <1>1, <1>3, WentEmail DEF Went, Placed, IsUser, tables
  <2> QED BY <1>1, <1>2, <1>4, <2>1, QuietGoto DEF Steps
<1>5. CASE Return(j, "Failed")
  BY <1>1, <1>2, <1>5, QuietEnd DEF Answers
<1> QED BY <1>4, <1>5 DEF InsertProfile

\* A verdict goes on only for a profile that is there and on the token of an administrator.
LEMMA CheckKycKept ==
    ASSUME JobInv, NEW j \in Jobs, CheckKyc(j)
    PROVE  Kept(j)
<1>1. UNCHANGED <<tables, jobs, local>> /\ profiles' = profiles
  BY DEF CheckKyc
<1>2. (local \in [Jobs -> Local])'
  BY <1>1 DEF JobInv, JobsTypeOK
<1>3. CASE \E o \in {"Forbidden", "NotFound"} : Return(j, o)
  BY <1>1, <1>2, <1>3, QuietEnd DEF Answers
<1>4. CASE Shows(j, TRUE) /\ profiles[Email(j)] # NoRow /\ Goto(j, "save", NoUser)
  <2>1. IsUser(Email(j)) /\ <<jobs[j].actor, "ADMIN">> \in tokens
    BY <1>4, ShowsToken, EmailTyped DEF JobInv, UsersKnown
  <2>2. Went(j, "save", NoUser) => Placed(j)'
    BY <1>1, <2>1, WentEmail DEF Went, Placed, IsUser, tables, CheckKyc
  <2> QED BY <1>1, <1>2, <1>4, <2>2, QuietGoto DEF Steps
<1> QED BY <1>3, <1>4 DEF CheckKyc

\* The commit of a profile touches the profile of a user only.
LEMMA SaveProfileKept ==
    ASSUME JobInv, NEW j \in Jobs, SaveProfile(j)
    PROVE  Kept(j)
<1>1. UNCHANGED <<users, numbers, audit, tokens, jobs, local>>
  BY DEF SaveProfile, tables
<1>2. PlacesOK' /\ OthersWait(j) /\ Placed(j)'
  BY ReturnMoves, EndedPlaced, PlacesTyped DEF SaveProfile, JobInv, Answers
<1>3. IsUser(Email(j)) /\ Email(j) \in Emails
  BY JobInvPlaced, EmailTyped DEF SaveProfile, Placed, JobInv
<1>4. (DOMAIN profiles = Emails)' /\ \A e \in Emails \ {Email(j)} : profiles'[e] = profiles[e]
  BY DEF SaveProfile, JobInv
<1>5. Growing(j)
  BY <1>1, <1>3, <1>4 DEF Growing, IsUser
<1> QED BY <1>1, <1>2, <1>4, <1>5, WritingKept DEF JobInv, JobsTypeOK

\* A change of the branding goes on only on the token of an administrator.
LEMMA CheckBrandingKept ==
    ASSUME JobInv, NEW j \in Jobs, CheckBranding(j)
    PROVE  Kept(j)
<1>1. UNCHANGED <<tables, jobs, local>> /\ profiles' = profiles
  BY DEF CheckBranding
<1>2. (local \in [Jobs -> Local])'
  BY <1>1 DEF JobInv, JobsTypeOK
<1>3. CASE Return(j, "Forbidden") \/ Return(j, "Invalid")
  BY <1>1, <1>2, <1>3, QuietEnd DEF Answers
<1>4. ASSUME NEW s \in {"insert row", "brand"}, Shows(j, TRUE), Goto(j, s, NoUser)
      PROVE  Kept(j)
  <2>1. <<jobs[j].actor, "ADMIN">> \in tokens
    BY <1>4, ShowsToken
  <2>2. Went(j, s, NoUser) => Placed(j)'
    BY <1>1, <2>1 DEF Went, Placed, tables, CheckBranding
  <2> QED BY <1>1, <1>2, <1>4, <2>2, QuietGoto DEF Steps
<1> QED BY <1>3, <1>4 DEF CheckBranding

\* The flush of a new branding row changes no committed row.
LEMMA InsertBrandingKept ==
    ASSUME JobInv, NEW j \in Jobs, InsertBranding(j)
    PROVE  Kept(j)
<1>1. UNCHANGED <<tables, jobs, local>> /\ profiles' = profiles
  BY DEF InsertBranding
<1>2. (local \in [Jobs -> Local])'
  BY <1>1 DEF JobInv, JobsTypeOK
<1>3. Placed(j) /\ step[j] = "insert row"
  BY JobInvPlaced DEF InsertBranding
<1>4. Went(j, "brand", NoUser) => Placed(j)'
  BY <1>1, <1>3 DEF Went, Placed, tables
<1> QED BY <1>1, <1>2, <1>4, QuietGoto DEF InsertBranding, Steps

\* The commit of the branding adds an audit row and touches no user.
LEMMA CommitBrandingKept ==
    ASSUME JobInv, NEW j \in Jobs, CommitBranding(j)
    PROVE  Kept(j)
<1>1. UNCHANGED <<users, numbers, tokens, jobs, local>> /\ profiles' = profiles
  BY DEF CommitBranding
<1>2. PlacesOK' /\ OthersWait(j) /\ Placed(j)'
  BY ReturnMoves, EndedPlaced, PlacesTyped DEF CommitBranding, JobInv, Answers
<1>3. (audit \subseteq AuditEventType \X Jobs \X Emails)' /\ audit \subseteq audit'
  BY RecordTyped DEF CommitBranding, AuditEventType
<1>4. Growing(j)
  BY <1>1, <1>3 DEF Growing, IsUser
<1> QED BY <1>1, <1>2, <1>3, <1>4, WritingKept DEF JobInv, JobsTypeOK

\* Every step keeps the first part.
LEMMA ActsKept ==
    ASSUME JobInv, NEW j \in Jobs, Acts(j)
    PROVE  Kept(j)
<1>1. ASSUME AuthArrival(j), UNCHANGED recordVars
      PROVE  Kept(j)
  BY <1>1, LookUpEmailKept, RefuseLoginKept, AcceptLoginKept, CheckRoleKept DEF AuthArrival
<1>2. ASSUME AuthWork(j), UNCHANGED recordVars
      PROVE  Kept(j)
  BY <1>2, InsertUserKept, DrawNumberKept, ProvisionAccountKept, AuditRegistrationKept,
     SyncDemoUserKept, IssueTokenKept, UpdateRoleKept, CommitRoleKept, DeadlockVictimKept
     DEF AuthWork
<1>3. ASSUME RecordArrival(j)
      PROVE  Kept(j)
  BY <1>3, LoadProfileKept, CheckKycKept, CheckBrandingKept DEF RecordArrival
<1>4. ASSUME RecordWork(j)
      PROVE  Kept(j)
  BY <1>4, InsertProfileKept, SaveProfileKept, InsertBrandingKept, CommitBrandingKept DEF RecordWork
<1>5. ASSUME Abort(j), UNCHANGED recordVars
      PROVE  Kept(j)
  BY <1>5, AbortKept
<1> QED BY <1>1, <1>2, <1>3, <1>4, <1>5 DEF Acts, Arrival, Work

\* The first part holds before the first job.
LEMMA JobInvInit == CustomerInit => JobInv
<1> SUFFICES ASSUME CustomerInit PROVE JobInv
  OBVIOUS
<1>1. Len(DemoUsers) \in Nat /\ Len(DemoUsers) >= 1
  BY DemoUsersAssumption
<1>2. PlacesOK
  BY <1>1 DEF CustomerInit, JobsInit, PlacesOK, Steps, Answers
<1>3. local \in [Jobs -> Local]
  BY DEF CustomerInit, JobsInit, Local
<1>4. tokens \subseteq Emails \X UserRole /\ \A t \in tokens : IsUser(t[1])
  <2>1. OpeningRoles \in [Emails -> UserRole \cup {NoUser}]
    BY OpeningUsersAssumption
  <2>2. tokens \subseteq {<<e, OpeningRoles[e]>> : e \in {f \in Emails : OpeningRoles[f] # NoUser}}
    BY OpeningUsersAssumption DEF CustomerInit, JobsInit
  <2>3. users = OpeningRoles
    BY DEF CustomerInit, JobsInit
  <2> QED BY <2>1, <2>2, <2>3 DEF IsUser
<1>5. JobsTypeOK
  <2>1. users \in [Emails -> UserRole \cup {NoUser}] /\ numbers \in [Emails -> SUBSET Numbers]
    BY OpeningUsersAssumption DEF CustomerInit, JobsInit
  <2>2. audit = {} /\ jobs \in [Jobs -> JobCall]
    BY WorkloadsAssumption DEF CustomerInit, JobsInit
  <2> QED BY <1>2, <1>3, <1>4, <2>1, <2>2 DEF JobsTypeOK, PlacesOK, Steps, Answers
<1>6. /\ DOMAIN profiles = Emails
      /\ \A e \in Emails : OpeningRoles[e] # NoUser \/ profiles[e] # NoRow => IsUser(e)
  BY OpeningProfilesAssumption DEF CustomerInit, JobsInit, RecordsInit, IsUser
<1>7. \A j \in Jobs : Placed(j)
  BY DEF CustomerInit, JobsInit, Placed
<1> QED BY <1>4, <1>5, <1>6, <1>7, JobInvPlaced

--------------------------------------------------------------------------
(* Which step leads where, and which one changes which table. *)

\* The place a job enters and the answer it gives tell which step it has taken.
Entered(j) ==
    /\ step[j] # "done"
    /\ step'[j] = "idle" => IsStart(j)
    /\ step[j] = "token" => step'[j] \in {"idle", "done"}
    /\ step'[j] = "provision" => DrawNumber(j)
    /\ step'[j] = "audit" => ProvisionAccount(j)
    /\ step'[j] = "token" => AcceptLogin(j) \/ AuditRegistration(j)
    /\ step'[j] = "insert profile" => LoadProfile(j)
    /\ step'[j] = "save" => LoadProfile(j) \/ InsertProfile(j) \/ CheckKyc(j)
    /\ step'[j] = "insert row" => CheckBranding(j)
    /\ step'[j] = "brand" => CheckBranding(j) \/ InsertBranding(j)
    /\ step'[j] # "done" => answer'[j] = answer[j]
    /\ IsStart(j) => answer'[j] \in {answer[j], "Started"}
    /\ answer'[j] \in {answer[j], "Started", "Failed", "Exists", "Forbidden", "Invalid", "NotFound"}
       \/ (answer'[j] = "Registered" /\ IssueToken(j) /\ jobs[j].kind # "login")
       \/ (answer'[j] = "Token" /\ IssueToken(j) /\ jobs[j].kind = "login")
       \/ (answer'[j] = "Unauthorized" /\ RefuseLogin(j))
       \/ (answer'[j] = "Updated" /\ CommitRole(j))
       \/ (answer'[j] = "Saved" /\ SaveProfile(j))
       \/ (answer'[j] = "Branded" /\ CommitBranding(j))
    /\ answer'[j] \in {"Exists", "Forbidden", "Invalid", "NotFound"} =>
          answer'[j] = answer[j] \/ (step[j] = "idle" /\ audit' = audit)

\* A step either goes on or is over, and says so.
LEMMA OverEntered ==
    ASSUME JobInv, NEW j \in Jobs, NEW o \in Answers, Return(j, o) \/ Answer(j, o)
    PROVE  /\ step'[j] = "done" \/ (step'[j] = "idle" /\ IsStart(j) /\ answer'[j] = answer[j])
           /\ answer'[j] \in {answer[j], o, "Started"}
           /\ IsStart(j) => answer'[j] \in {answer[j], "Started"}
<1>1. Ended(j, o)
  BY ReturnMoves, AnswerMoves, PlacesTyped DEF JobInv
<1> QED BY <1>1 DEF Ended

\* A job that goes on has not answered.
LEMMA GoesEntered ==
    ASSUME JobInv, NEW j \in Jobs, NEW s \in Steps, NEW e \in Emails \cup {NoUser}, Goto(j, s, e)
    PROVE  step'[j] = s /\ answer'[j] = answer[j]
BY GotoMoves, PlacesTyped DEF JobInv, Went

\* Every step enters the next place by the rules of Entered.
LEMMA ActsEntered ==
    ASSUME JobInv, NEW j \in Jobs, Acts(j)
    PROVE  Entered(j)
<1>e. Email(j) \in Emails
  BY EmailTyped DEF JobInv
<1>1. CASE LookUpEmail(j)
  BY <1>1, OverEntered, GoesEntered DEF LookUpEmail, Entered, Steps, Answers, tables
<1>2. CASE RefuseLogin(j)
  BY <1>2, OverEntered DEF RefuseLogin, Entered, Answers
<1>3. CASE AcceptLogin(j)
  BY <1>3, GoesEntered DEF AcceptLogin, Entered, Steps
<1>4. CASE CheckRole(j)
  BY <1>4, OverEntered, GoesEntered DEF CheckRole, Entered, Steps, Answers, tables
<1>5. CASE InsertUser(j)
  BY <1>5, <1>e, OverEntered, GoesEntered DEF InsertUser, Entered, Steps, Answers
<1>6. CASE DrawNumber(j)
  BY <1>6, <1>e, OverEntered, GoesEntered DEF DrawNumber, Entered, Steps, Answers
<1>7. CASE ProvisionAccount(j)
  BY <1>7, OverEntered, GoesEntered DEF ProvisionAccount, Entered, Steps, Answers
<1>8. CASE AuditRegistration(j)
  BY <1>8, OverEntered, GoesEntered DEF AuditRegistration, Entered, Steps, Answers
<1>9. CASE SyncDemoUser(j)
  BY <1>9, OverEntered DEF SyncDemoUser, Entered, Answers
<1>10. CASE IssueToken(j)
  BY <1>10, OverEntered DEF IssueToken, Entered, Answers
<1>11. CASE UpdateRole(j)
  BY <1>11, <1>e, GoesEntered DEF UpdateRole, Entered, Steps
<1>12. CASE CommitRole(j)
  BY <1>12, OverEntered DEF CommitRole, Entered, Answers
<1>13. CASE DeadlockVictim(j)
  <2>1. step[j] # "done"
    BY <1>13 DEF DeadlockVictim, WaitsFor
  <2> QED BY <1>13, <2>1, OverEntered DEF DeadlockVictim, Entered, Answers
<1>14. CASE Abort(j)
  BY <1>14, OverEntered DEF Abort, Entered, Answers
<1>15. CASE LoadProfile(j)
  BY <1>15, GoesEntered DEF LoadProfile, Entered, Steps
<1>16. CASE InsertProfile(j)
  BY <1>16, OverEntered, GoesEntered DEF InsertProfile, Entered, Steps, Answers
<1>17. CASE CheckKyc(j)
  BY <1>17, OverEntered, GoesEntered DEF CheckKyc, Entered, Steps, Answers, tables
<1>18. CASE SaveProfile(j)
  BY <1>18, OverEntered DEF SaveProfile, Entered, Answers
<1>19. CASE CheckBranding(j)
  BY <1>19, OverEntered, GoesEntered DEF CheckBranding, Entered, Steps, Answers, tables
<1>20. CASE InsertBranding(j)
  BY <1>20, GoesEntered DEF InsertBranding, Entered, Steps
<1>21. CASE CommitBranding(j)
  BY <1>21, OverEntered DEF CommitBranding, Entered, Answers
<1> QED BY <1>1, <1>2, <1>3, <1>4, <1>5, <1>6, <1>7, <1>8, <1>9, <1>10, <1>11, <1>12, <1>13,
           <1>14, <1>15, <1>16, <1>17, <1>18, <1>19, <1>20, <1>21
        DEF Acts, Arrival, Work, AuthArrival, AuthWork, RecordArrival, RecordWork

\* Who writes to which table.
Changes(j) ==
    /\ \/ ProvisionAccount(j) \/ CommitRole(j)
       \/ users' = users
    /\ \/ ProvisionAccount(j) \/ SyncDemoUser(j)
       \/ numbers' = numbers
    /\ \/ AuditRegistration(j) \/ RefuseLogin(j) \/ AcceptLogin(j) \/ CommitRole(j) \/ CommitBranding(j)
       \/ audit' = audit
    /\ IssueToken(j) \/ tokens' = tokens
    /\ SaveProfile(j) \/ profiles' = profiles
    /\ CommitBranding(j) \/ config' = config
    /\ InsertBranding(j) \/ lastId' = lastId
    /\ LookUpEmail(j) \/ DrawNumber(j) \/ CheckRole(j) \/ local' = local
    /\ \/ LoadProfile(j) \/ InsertProfile(j) \/ CheckKyc(j) \/ CheckBranding(j) \/ InsertBranding(j)
       \/ draft' = draft

\* Every step writes to the tables by the rules of Changes.
LEMMA ActsChange ==
    ASSUME NEW j \in Jobs, Acts(j)
    PROVE  Changes(j)
<1>1. ASSUME AuthArrival(j) \/ AuthWork(j), UNCHANGED recordVars
      PROVE  Changes(j)
  BY <1>1 DEF AuthArrival, AuthWork, recordVars, Changes, tables, LookUpEmail, RefuseLogin, AcceptLogin,
     CheckRole, InsertUser, DrawNumber, ProvisionAccount, AuditRegistration, SyncDemoUser, IssueToken,
     UpdateRole, CommitRole, DeadlockVictim
<1>2. ASSUME RecordArrival(j) \/ RecordWork(j)
      PROVE  Changes(j)
  BY <1>2 DEF RecordArrival, RecordWork, Changes, tables, LoadProfile, InsertProfile, CheckKyc,
     SaveProfile, CheckBranding, InsertBranding, CommitBranding
<1>3. ASSUME Abort(j), UNCHANGED recordVars
      PROVE  Changes(j)
  BY <1>3 DEF Abort, recordVars, Changes, tables
<1> QED BY <1>1, <1>2, <1>3 DEF Acts, Arrival, Work

--------------------------------------------------------------------------
(* Account numbers. *)

\* What a job draws is what it holds, and nobody else's.
LEMMA LocalDrawn ==
    ASSUME JobInv, NEW j \in Jobs, NEW S, local' = [local EXCEPT ![j].number = S]
    PROVE  local'[j].number = S
<1>1. local \in [Jobs -> Local] /\ local[j] \in Local
  BY DEF JobInv, JobsTypeOK
<1>2. local'[j] = [local[j] EXCEPT !.number = S]
  BY <1>1
<1> QED BY <1>1, <1>2 DEF Local

\* What the other jobs have read is theirs.
LEMMA OthersLocal ==
    ASSUME JobInv, NEW j \in Jobs, Acts(j), NEW i \in Jobs \ {j}
    PROVE  local'[i] = local[i]
<1>1. local \in [Jobs -> Local]
  BY DEF JobInv, JobsTypeOK
<1> QED BY <1>1, ActsChange DEF Changes, LookUpEmail, DrawNumber, CheckRole

\* Provisioning is reached only with a drawn number.
LEMMA NumberDrawnKept ==
    ASSUME JobInv, NumberDrawn, NEW j \in Jobs, Acts(j)
    PROVE  NumberDrawn'
<1> SUFFICES ASSUME NEW i \in Jobs, step'[i] = "provision"
             PROVE  \E n \in Numbers : local'[i].number = {n}
  BY DEF NumberDrawn
<1>1. CASE i = j
  <2>1. DrawNumber(j)
    BY <1>1, ActsEntered DEF Entered
  <2>2. ~Return(j, "Failed")
    BY <1>1, OverEntered DEF Answers
  <2>3. PICK n \in Numbers : local' = [local EXCEPT ![j].number = {n}]
    BY <2>1, <2>2 DEF DrawNumber
  <2> QED BY <1>1, <2>3, LocalDrawn
<1>2. CASE i # j
  BY <1>2, ActsKept, OthersLocal DEF Kept, OthersWait, NumberDrawn
<1> QED BY <1>1, <1>2

\* The unique index on account_number and the row lock on the user together keep one account each.
LEMMA OneNumberEachKept ==
    ASSUME JobInv, NumberDrawn, OneNumberEach, NEW j \in Jobs, Acts(j)
    PROVE  OneNumberEach'
<1>1. Email(j) \in Emails /\ Placed(j)
  BY EmailTyped, JobInvPlaced DEF JobInv
<1>2. users \in [Emails -> UserRole \cup {NoUser}] /\ numbers \in [Emails -> SUBSET Numbers]
  BY DEF JobInv, JobsTypeOK
<1>3. CASE ProvisionAccount(j) /\ ~UNCHANGED <<users, numbers>>
  <2>1. PICK n \in Numbers : local[j].number = {n}
    BY <1>3 DEF ProvisionAccount, NumberDrawn
  <2>2. /\ {n} \cap Taken = {}
        /\ users' = [users EXCEPT ![Email(j)] = "CUSTOMER"]
        /\ numbers' = [numbers EXCEPT ![Email(j)] = @ \cup {n}]
    BY <1>3, <2>1 DEF ProvisionAccount
  <2>3. numbers[Email(j)] = {}
    BY <1>1, <1>3 DEF Placed, ProvisionAccount, OneNumberEach
  <2>4. "CUSTOMER" # NoUser
    BY NoUserAssumption DEF UserRole
  <2>5. \A e \in Emails : numbers'[e] = IF e = Email(j) THEN {n} ELSE numbers[e]
    BY <1>2, <2>2, <2>3
  <2>6. \A e \in Emails : users'[e] = IF e = Email(j) THEN "CUSTOMER" ELSE users[e]
    BY <1>2, <2>2
  <2>7. \A e \in Emails : n \notin numbers[e]
    BY <2>2 DEF Taken
  <2>8. \A e \in Emails : IF IsUser(e)' THEN \E m \in Numbers : numbers'[e] = {m} ELSE numbers'[e] = {}
    BY <1>1, <2>4, <2>5, <2>6 DEF OneNumberEach, IsUser
  <2>9. \A e, f \in Emails : numbers'[e] \cap numbers'[f] # {} => e = f
    BY <2>5, <2>7 DEF OneNumberEach
  <2> QED BY <2>8, <2>9 DEF OneNumberEach
<1>4. CASE SyncDemoUser(j)
  <2>1. numbers[Email(j)] # {}
    BY <1>1, <1>4 DEF Placed, SyncDemoUser, OneNumberEach
  <2>2. numbers' = numbers /\ users' = users
    BY <1>1, <1>2, <1>4, <2>1 DEF SyncDemoUser
  <2> QED BY <2>2 DEF OneNumberEach, IsUser
<1>5. CASE CommitRole(j)
  <2>1. jobs[j].role # NoUser
    BY CallTyped, NoUserAssumption DEF JobInv
  <2>2. IsUser(Email(j)) /\ numbers' = numbers
    BY <1>1, <1>5 DEF Placed, CommitRole
  <2>3. \A e \in Emails : users'[e] = users[e] \/ (e = Email(j) /\ users'[e] = jobs[j].role)
    BY <1>2, <1>5 DEF CommitRole
  <2> QED BY <2>1, <2>2, <2>3 DEF OneNumberEach, IsUser
<1>6. CASE UNCHANGED <<users, numbers>>
  BY <1>6 DEF OneNumberEach, IsUser
<1> QED BY <1>3, <1>4, <1>5, <1>6, ActsChange DEF Changes, ProvisionAccount, SyncDemoUser, CommitRole

\* The opening users have one account each.
LEMMA NumbersInit == CustomerInit => NumberDrawn /\ OneNumberEach
BY OpeningAccountsAssumption DEF CustomerInit, JobsInit, NumberDrawn, OneNumberEach, IsUser

\* One number each is a cardinality of one.
LEMMA NumbersCount ==
    ASSUME OneNumberEach
    PROVE  PrimaryAccount
<1>1. ASSUME NEW e \in Emails
      PROVE  Cardinality(numbers[e]) = IF IsUser(e) THEN 1 ELSE 0
  <2>1. CASE IsUser(e)
    <3>1. PICK n \in Numbers : numbers[e] = {n}
      BY <2>1 DEF OneNumberEach
    <3> QED BY <2>1, <3>1, FS_Singleton
  <2>2. CASE ~IsUser(e)
    BY <2>2, FS_EmptySet DEF OneNumberEach
  <2> QED BY <2>1, <2>2
<1> QED BY <1>1 DEF PrimaryAccount, OneNumberEach

--------------------------------------------------------------------------
(* Who registered whom. *)

\* Between the commit of a user and its audit row nobody else can register the address, for it is
\* known by then.
LEMMA RegisteredByOneKept ==
    ASSUME JobInv, RegisteredByOne, NEW j \in Jobs, Acts(j)
    PROVE  RegisteredByOne'
<1>1. Kept(j) /\ Entered(j) /\ Changes(j) /\ Placed(j)
  BY ActsKept, ActsEntered, ActsChange, JobInvPlaced
<1>2. \A i \in Jobs : Email(i) \in Emails
  BY EmailTyped DEF JobInv
<1>3. \A i \in Jobs, e \in Emails :
          Registered(i, e)' => Registered(i, e) \/ (i = j /\ e = Email(j) /\ AuditRegistration(j))
  BY <1>1 DEF Changes, Registered, Record, AuditRegistration, RefuseLogin, AcceptLogin, CommitRole,
     CommitBranding
<1>4. ASSUME NEW k \in Jobs, step'[k] = "audit"
      PROVE  \/ step[k] = "audit" /\ k # j /\ Email(k)' = Email(k)
             \/ k = j /\ ProvisionAccount(j) /\ Email(j)' = Email(j)
  <2>1. CASE k = j
    <3>1. ProvisionAccount(j) /\ ~Return(j, "Failed")
      BY <1>1, <1>4, <2>1, OverEntered DEF Entered, Answers
    <3>2. Goto(j, "audit", NoUser) /\ jobs' = jobs
      BY <3>1 DEF ProvisionAccount
    <3>3. Email(j)' = Email(j)
      BY <3>2, GotoMoves, WentEmail, PlacesTyped DEF JobInv, Steps
    <3> QED BY <2>1, <3>1, <3>3
  <2>2. CASE k # j
    BY <1>1, <1>4, <2>2, OthersKeepEmail DEF Kept, OthersWait
  <2> QED BY <2>1, <2>2
<1>5. \A e \in Emails : IsUser(e) => IsUser(e)'
  BY <1>1 DEF Kept, Growing
<1>6. ASSUME NEW i \in Jobs, NEW e \in Emails, Registered(i, e)'
      PROVE  /\ IsUser(e)' /\ OpeningRoles[e] = NoUser
             /\ \A k \in Jobs : Registered(k, e)' => k = i
  <2>1. CASE Registered(i, e)
    <3>1. ASSUME NEW k \in Jobs, Registered(k, e)', ~Registered(k, e) PROVE FALSE
      BY <1>2, <1>3, <2>1, <3>1 DEF RegisteredByOne, AuditRegistration
    <3> QED BY <1>5, <2>1, <3>1 DEF RegisteredByOne
  <2>2. CASE ~Registered(i, e)
    <3>1. i = j /\ e = Email(j) /\ step[j] = "audit"
      BY <1>3, <1>6, <2>2 DEF AuditRegistration
    <3>2. IsUser(e) /\ OpeningRoles[e] = NoUser /\ \A k \in Jobs : ~Registered(k, e)
      BY <1>1, <3>1 DEF RegisteredByOne, Placed
    <3> QED BY <1>3, <1>5, <3>1, <3>2
  <2> QED BY <2>1, <2>2
<1>7. ASSUME NEW i \in Jobs, step'[i] = "audit"
      PROVE  /\ OpeningRoles[Email(i)'] = NoUser
             /\ \A k \in Jobs : ~Registered(k, Email(i))'
             /\ \A k \in Jobs : step'[k] = "audit" /\ Email(k)' = Email(i)' => k = i
  <2>1. CASE step[i] = "audit" /\ i # j /\ Email(i)' = Email(i)
    <3>1. OpeningRoles[Email(i)] = NoUser /\ IsUser(Email(i))
      BY <2>1, JobInvPlaced DEF RegisteredByOne, Placed
    <3>2. ASSUME NEW k \in Jobs, Registered(k, Email(i))' PROVE FALSE
      <4>1. ~Registered(k, Email(i))
        BY <2>1 DEF RegisteredByOne
      <4>2. Email(i) = Email(j) /\ step[j] = "audit"
        BY <1>2, <1>3, <2>1, <3>2, <4>1 DEF Registered, AuditRegistration
      <4> QED BY <2>1, <4>2 DEF RegisteredByOne
    <3>3. ASSUME NEW k \in Jobs, step'[k] = "audit", Email(k)' = Email(i)' PROVE k = i
      <4>1. CASE step[k] = "audit" /\ Email(k)' = Email(k)
        BY <2>1, <3>3, <4>1 DEF RegisteredByOne
      <4>2. CASE k = j /\ ProvisionAccount(j) /\ Email(j)' = Email(j)
        <5>1. ~IsUser(Email(j))
          BY <1>1, <4>2 DEF Placed, ProvisionAccount
        <5> QED BY <2>1, <3>1, <3>3, <4>2, <5>1
      <4> QED BY <1>4, <3>3, <4>1, <4>2
    <3> QED BY <2>1, <3>1, <3>2, <3>3
  <2>2. CASE i = j /\ ProvisionAccount(j) /\ Email(j)' = Email(j)
    <3>1. ~IsUser(Email(j)) /\ step[j] = "provision"
      BY <1>1, <2>2 DEF Placed, ProvisionAccount
    <3>2. OpeningRoles[Email(j)] = NoUser
      BY <1>2, <3>1 DEF JobInv, UsersKnown
    <3>3. ASSUME NEW k \in Jobs, Registered(k, Email(j))' PROVE FALSE
      <4>1. audit' = audit
        BY <2>2 DEF ProvisionAccount
      <4> QED BY <1>2, <2>2, <3>1, <3>3, <4>1 DEF RegisteredByOne, Registered
    <3>4. ASSUME NEW k \in Jobs, step'[k] = "audit", Email(k)' = Email(j) PROVE k = j
      <4>1. CASE step[k] = "audit" /\ Email(k)' = Email(k)
        BY <3>1, <3>4, <4>1, JobInvPlaced DEF Placed
      <4> QED BY <1>4, <3>4, <4>1
    <3> QED BY <2>2, <3>2, <3>3, <3>4 DEF Registered
  <2> QED BY <1>4, <1>7, <2>1, <2>2
<1> QED BY <1>6, <1>7 DEF RegisteredByOne

\* Nobody has been registered before the first job.
LEMMA RegisteredInit == CustomerInit => RegisteredByOne
BY DEF CustomerInit, JobsInit, RegisteredByOne, Registered

\* One registrant is a cardinality of one.
LEMMA RegisteredCount ==
    ASSUME JobInv, RegisteredByOne
    PROVE  RegisteredOnce
<1> DEFINE registered(e) == {j \in Jobs : <<"USER_REGISTERED", j, e>> \in audit}
<1>1. ASSUME NEW e \in Emails
      PROVE  /\ Cardinality(registered(e)) <= 1
             /\ registered(e) # {} => IsUser(e) /\ OpeningRoles[e] = NoUser
  <2>1. CASE registered(e) = {}
    <3>1. Cardinality(registered(e)) = 0
      BY <2>1, FS_EmptySet
    <3> HIDE DEF registered
    <3> QED BY <2>1, <3>1
  <2>2. CASE registered(e) # {}
    <3>1. PICK j \in Jobs : Registered(j, e)
      BY <2>2 DEF Registered
    <3>2. registered(e) = {j}
      BY <3>1 DEF RegisteredByOne, Registered
    <3>3. Cardinality(registered(e)) = 1
      BY <3>2, FS_Singleton
    <3> QED BY <3>1, <3>3 DEF RegisteredByOne
  <2> QED BY <2>1, <2>2
<1> QED BY <1>1 DEF RegisteredOnce

--------------------------------------------------------------------------
(* What the audit log says of each job. *)

\* One row says one more thing about one job.
LEMMA RecordSays ==
    ASSUME JobInv, NEW j \in Jobs, NEW event, Record(event, j), NEW i \in Jobs
    PROVE  Recorded(i)' = IF i = j THEN Recorded(i) \cup {event} ELSE Recorded(i)
<1> DEFINE row == <<event, j, Email(j)>>
<1>1. audit' = audit \cup {row}
  BY DEF Record
<1>2. row[1] = event /\ row[2] = j
  OBVIOUS
<1> HIDE DEF row
<1>3. \A x : x \in Recorded(i)' <=> \E t \in audit' : t[2] = i /\ x = t[1]
  BY DEF Recorded
<1>4. \A x : x \in Recorded(i) <=> \E t \in audit : t[2] = i /\ x = t[1]
  BY DEF Recorded
<1>5. CASE i = j
  <2>1. \A x : x \in Recorded(i)' <=> x \in Recorded(i) \/ x = event
    BY <1>1, <1>2, <1>3, <1>4, <1>5
  <2>2. Recorded(i)' = Recorded(i) \cup {event}
    <3> HIDE DEF Recorded
    <3> QED BY <2>1
  <2> QED BY <1>5, <2>2
<1>6. CASE i # j
  <2>1. \A x : x \in Recorded(i)' <=> x \in Recorded(i)
    BY <1>1, <1>2, <1>3, <1>4, <1>6
  <2>2. Recorded(i)' = Recorded(i)
    <3> HIDE DEF Recorded
    <3> QED BY <2>1
  <2> QED BY <1>6, <2>2
<1> QED BY <1>5, <1>6

\* The audit row of each answer, one by one.
AnswerRecorded(j) ==
    /\ answer[j] = "Registered" => Recorded(j) = {"USER_REGISTERED"}
    /\ answer[j] = "Token" => Recorded(j) = {"LOGIN_SUCCESS"}
    /\ answer[j] = "Unauthorized" => Recorded(j) = {"LOGIN_FAILED"}
    /\ answer[j] = "Updated" => Recorded(j) = {"ROLE_UPDATED"}
    /\ answer[j] = "Branded" => Recorded(j) = {"BRANDING_UPDATED"}
    /\ answer[j] \in {"Exists", "Forbidden", "Invalid", "NotFound", "Saved"} => Recorded(j) = {}

AllRecorded == \A j \in Jobs : AnswerRecorded(j)

\* What a job may have recorded, by how far it is.
RecordedByNow(j) ==
    /\ IsStart(j) => Recorded(j) \subseteq {"USER_REGISTERED"} /\ answer[j] \in {"none", "Started"}
    /\ ~IsStart(j) /\ step[j] \notin {"token", "done"} => Recorded(j) = {}
    /\ step[j] = "token" => Recorded(j) = {TokenEvent(j)}
    /\ step[j] # "done" => answer[j] = "none"
    /\ \E event \in AuditEventType : Recorded(j) \subseteq {event}

\* The five steps that record something.
Records(j) ==
    \/ AuditRegistration(j) /\ Record("USER_REGISTERED", j) /\ step[j] = "audit"
    \/ RefuseLogin(j) /\ Record("LOGIN_FAILED", j) /\ step[j] = "idle" /\ ~IsStart(j)
    \/ AcceptLogin(j) /\ Record("LOGIN_SUCCESS", j) /\ step[j] = "idle" /\ ~IsStart(j)
    \/ CommitRole(j) /\ Record("ROLE_UPDATED", j) /\ step[j] = "grant" /\ ~IsStart(j)
    \/ CommitBranding(j) /\ Record("BRANDING_UPDATED", j) /\ step[j] = "brand" /\ ~IsStart(j)

\* No other step records anything.
LEMMA ActsRecord ==
    ASSUME JobInv, NEW j \in Jobs, Acts(j)
    PROVE  \/ Records(j)
           \/ /\ audit' = audit
              /\ ~AuditRegistration(j) /\ ~RefuseLogin(j) /\ ~AcceptLogin(j) /\ ~CommitRole(j)
              /\ ~CommitBranding(j)
<1>1. Placed(j) /\ Changes(j)
  BY JobInvPlaced, ActsChange
<1> QED BY <1>1 DEF Changes, Placed, Records, IsStart, AuditRegistration, RefuseLogin, AcceptLogin,
           CommitRole, CommitBranding

\* Each path through a job records at most one event, and the answer that fits it.
LEMMA RecordedSoFarKept ==
    ASSUME JobInv, RecordedSoFar, AllRecorded, NEW j \in Jobs, Acts(j)
    PROVE  RecordedSoFar' /\ AllRecorded'
<1>1. Kept(j) /\ Entered(j) /\ Placed(j)
  BY ActsKept, ActsEntered, JobInvPlaced
<1>2. \A i \in Jobs : RecordedByNow(i) /\ AnswerRecorded(i)
  BY DEF RecordedSoFar, RecordedByNow, AllRecorded
<1>3. \A i \in Jobs : audit' = audit => Recorded(i)' = Recorded(i)
  BY DEF Recorded
<1>4. \A i \in Jobs : IsStart(i)' = IsStart(i)
  BY <1>1 DEF Kept, IsStart
<1>5. ASSUME NEW i \in Jobs \ {j}
      PROVE  RecordedByNow(i)' /\ AnswerRecorded(i)'
  <2>1. Recorded(i)' = Recorded(i)
    BY <1>3, ActsRecord, RecordSays DEF Records
  <2>2. step'[i] = step[i] /\ answer'[i] = answer[i]
    BY <1>1 DEF Kept, OthersWait
  <2>3. TokenEvent(i)' = TokenEvent(i)
    BY <1>1 DEF Kept, TokenEvent
  <2> QED BY <1>2, <1>4, <2>1, <2>2, <2>3 DEF RecordedByNow, AnswerRecorded
<1>6. step[j] # "done" /\ answer[j] = "none"
  BY <1>1, <1>2 DEF Entered, RecordedByNow
<1>7. step'[j] # "done" => answer'[j] = "none"
  BY <1>1, <1>6 DEF Entered
<1>8. IsStart(j) => answer'[j] \in {"none", "Started"}
  BY <1>1, <1>6 DEF Entered
<1>9. ASSUME Records(j) PROVE RecordedByNow(j)' /\ AnswerRecorded(j)'
  <2>1. ASSUME NEW event \in AuditEventType, Recorded(j)' = {event},
               event # "USER_REGISTERED" => ~IsStart(j), step'[j] = "token" => event = TokenEvent(j),
               step'[j] \notin {"token", "done"} => IsStart(j), AnswerRecorded(j)'
        PROVE  RecordedByNow(j)' /\ AnswerRecorded(j)'
    <3>1. TokenEvent(j)' = TokenEvent(j)
      BY <1>1 DEF Kept, TokenEvent
    <3> QED BY <1>4, <1>7, <1>8, <2>1, <3>1 DEF RecordedByNow
  <2>2. CASE AuditRegistration(j) /\ Record("USER_REGISTERED", j) /\ step[j] = "audit"
    <3>1. Recorded(j)' = {"USER_REGISTERED"}
      BY <1>2, <2>2, RecordSays DEF RecordedByNow
    <3>2. \/ step'[j] = "done" \/ (step'[j] = "idle" /\ IsStart(j))
          \/ step'[j] = "token" /\ answer'[j] = "none"
      BY <1>6, <2>2, OverEntered, GoesEntered DEF AuditRegistration, Answers, Steps
    <3>3. answer'[j] \in {"none", "Registered", "Started"}
      BY <1>6, <2>2, OverEntered, GoesEntered DEF AuditRegistration, Answers, Steps
    <3>4. TokenEvent(j) = "USER_REGISTERED"
      BY <1>1, <2>2 DEF Placed, TokenEvent
    <3> QED BY <2>1, <3>1, <3>2, <3>3, <3>4 DEF AnswerRecorded, AuditEventType
  <2>3. CASE RefuseLogin(j) /\ Record("LOGIN_FAILED", j) /\ step[j] = "idle" /\ ~IsStart(j)
    <3>1. Recorded(j)' = {"LOGIN_FAILED"}
      BY <1>2, <2>3, RecordSays DEF RecordedByNow
    <3>2. step'[j] = "done" /\ answer'[j] \in {"none", "Unauthorized", "Failed", "Started"}
      BY <1>6, <2>3, OverEntered DEF RefuseLogin, Answers
    <3> QED BY <2>1, <2>3, <3>1, <3>2 DEF AnswerRecorded, AuditEventType
  <2>4. CASE AcceptLogin(j) /\ Record("LOGIN_SUCCESS", j) /\ step[j] = "idle" /\ ~IsStart(j)
    <3>1. Recorded(j)' = {"LOGIN_SUCCESS"}
      BY <1>2, <2>4, RecordSays DEF RecordedByNow
    <3>2. step'[j] = "token" /\ answer'[j] = "none"
      BY <1>6, <2>4, GoesEntered DEF AcceptLogin, Steps
    <3>3. TokenEvent(j) = "LOGIN_SUCCESS"
      BY <2>4 DEF AcceptLogin, TokenEvent
    <3> QED BY <2>1, <2>4, <3>1, <3>2, <3>3 DEF AnswerRecorded, AuditEventType
  <2>5. CASE CommitRole(j) /\ Record("ROLE_UPDATED", j) /\ step[j] = "grant" /\ ~IsStart(j)
    <3>1. Recorded(j)' = {"ROLE_UPDATED"}
      BY <1>2, <2>5, RecordSays DEF RecordedByNow
    <3>2. step'[j] = "done" /\ answer'[j] \in {"none", "Updated", "Failed", "Started"}
      BY <1>6, <2>5, OverEntered DEF CommitRole, Answers
    <3> QED BY <2>1, <2>5, <3>1, <3>2 DEF AnswerRecorded, AuditEventType
  <2>6. CASE CommitBranding(j) /\ Record("BRANDING_UPDATED", j) /\ step[j] = "brand" /\ ~IsStart(j)
    <3>1. Recorded(j)' = {"BRANDING_UPDATED"}
      BY <1>2, <2>6, RecordSays DEF RecordedByNow
    <3>2. step'[j] = "done" /\ answer'[j] \in {"none", "Branded", "Failed", "Started"}
      BY <1>6, <2>6, OverEntered DEF CommitBranding, Answers
    <3> QED BY <2>1, <2>6, <3>1, <3>2 DEF AnswerRecorded, AuditEventType
  <2> QED BY <1>9, <2>2, <2>3, <2>4, <2>5, <2>6 DEF Records
<1>10. ASSUME ~Records(j) PROVE RecordedByNow(j)' /\ AnswerRecorded(j)'
  <2>1. /\ ~AuditRegistration(j) /\ ~RefuseLogin(j) /\ ~AcceptLogin(j) /\ ~CommitRole(j)
        /\ ~CommitBranding(j)
        /\ Recorded(j)' = Recorded(j)
    BY <1>3, <1>10, ActsRecord
  <2>2. RecordedByNow(j)'
    BY <1>1, <1>2, <1>4, <1>6, <1>7, <1>8, <2>1 DEF Entered, RecordedByNow
  <2>3. SaveProfile(j) => Recorded(j) = {}
    BY <1>1, <1>2 DEF SaveProfile, RecordedByNow, Placed, IsStart
  <2>4. IssueToken(j) =>
           Recorded(j) = {IF jobs[j].kind = "login" THEN "LOGIN_SUCCESS" ELSE "USER_REGISTERED"}
    BY <1>2 DEF IssueToken, RecordedByNow, TokenEvent
  <2>5. step[j] = "idle" /\ ~IsStart(j) => Recorded(j) = {}
    BY <1>2 DEF RecordedByNow
  <2>6. AnswerRecorded(j)'
    BY <1>1, <1>6, <1>8, <2>1, <2>3, <2>4, <2>5 DEF Entered, AnswerRecorded
  <2> QED BY <2>2, <2>6
<1>11. \A i \in Jobs : RecordedByNow(i)' /\ AnswerRecorded(i)'
  BY <1>5, <1>9, <1>10
<1> QED BY <1>11 DEF RecordedSoFar, RecordedByNow, AllRecorded

\* Every row names the address of its job.
LEMMA RecordedOwnKept ==
    ASSUME JobInv, RecordedOwn, NEW j \in Jobs, Acts(j)
    PROVE  RecordedOwn'
<1>1. jobs' = jobs
  BY ActsKept DEF Kept
<1> DEFINE row(event) == <<event, j, Email(j)>>
<1>2. \A event : row(event)[2] = j /\ row(event)[3] = Email(j)
  OBVIOUS
<1>3. audit' = audit \/ \E event : audit' = audit \cup {row(event)}
  BY ActsRecord DEF Records, Record
<1>4. IsStart(j) \/ Email(j) = jobs[j].email
  BY DEF Email
<1> HIDE DEF row
<1> QED BY <1>1, <1>2, <1>3, <1>4 DEF RecordedOwn, IsStart

\* The token that a profile was opened with stays.
LEMMA OwnersKnownKept ==
    ASSUME JobInv, OwnersKnown, NEW j \in Jobs, Acts(j)
    PROVE  OwnersKnown'
<1>1. Kept(j) /\ Entered(j)
  BY ActsKept, ActsEntered
<1>2. jobs' = jobs /\ tokens \subseteq tokens'
  BY <1>1 DEF Kept, Growing
<1> SUFFICES ASSUME NEW i \in Jobs, jobs[i].kind = "profile", step'[i] \in {"insert profile", "save"}
             PROVE  \E t \in tokens : t[1] = jobs[i].email
  BY <1>2 DEF OwnersKnown
<1>3. CASE i # j
  BY <1>1, <1>3 DEF Kept, OthersWait, OwnersKnown
<1>4. CASE i = j
  <2>1. LoadProfile(j) \/ InsertProfile(j)
    BY <1>1, <1>4 DEF Entered, CheckKyc
  <2> QED BY <1>4, <2>1 DEF LoadProfile, InsertProfile, OwnersKnown, Email, IsStart
<1> QED BY <1>3, <1>4

\* The audit log begins empty.
LEMMA RecordedInit == CustomerInit => RecordedSoFar /\ AllRecorded
<1> SUFFICES ASSUME CustomerInit PROVE RecordedSoFar /\ AllRecorded
  OBVIOUS
<1>1. \A j \in Jobs : Recorded(j) = {} /\ answer[j] = "none" /\ step[j] = "idle"
  BY DEF CustomerInit, JobsInit, Recorded
<1> QED BY <1>1 DEF RecordedSoFar, AllRecorded, AnswerRecorded, AuditEventType

\* The case distinction of AnswersAudited, from the rows of each answer.
LEMMA RecordedAnswers ==
    ASSUME RecordedSoFar, AllRecorded
    PROVE  AnswersAudited
<1> SUFFICES ASSUME NEW j \in Jobs
             PROVE  LET recorded == Recorded(j)
                    IN  CASE answer[j] = "Registered"   -> recorded = {"USER_REGISTERED"}
                          [] answer[j] = "Token"        -> recorded = {"LOGIN_SUCCESS"}
                          [] answer[j] = "Unauthorized" -> recorded = {"LOGIN_FAILED"}
                          [] answer[j] = "Updated"      -> recorded = {"ROLE_UPDATED"}
                          [] answer[j] = "Branded"      -> recorded = {"BRANDING_UPDATED"}
                          [] answer[j] \in {"Exists", "Forbidden", "Invalid", "NotFound", "Saved"} -> recorded = {}
                          [] OTHER -> Cardinality(recorded) <= 1
  BY DEF AnswersAudited, Recorded
<1>1. AnswerRecorded(j)
  BY DEF AllRecorded
<1>2. Cardinality(Recorded(j)) <= 1
  <2>1. PICK event \in AuditEventType : Recorded(j) \subseteq {event}
    BY DEF RecordedSoFar
  <2>2. CASE Recorded(j) = {}
    <3>1. Cardinality(Recorded(j)) = 0
      BY <2>2, FS_EmptySet
    <3> QED BY <3>1
  <2>3. CASE Recorded(j) = {event}
    <3>1. Cardinality(Recorded(j)) = 1
      BY <2>3, FS_Singleton
    <3> QED BY <3>1
  <2> QED BY <2>1, <2>2, <2>3
<1> QED BY <1>1, <1>2 DEF AnswerRecorded

--------------------------------------------------------------------------
(* Roles. *)

\* Only CommitRole makes an administrator, and the promotion it records links the new one to the
\* chain its actor belongs to; only a user row or a claim taken from one makes a claim.
LEMMA AdminsVouchedKept ==
    ASSUME JobInv, AdminsVouched, NEW j \in Jobs, Acts(j)
    PROVE  AdminsVouched'
<1> DEFINE openingAdmins == {e \in Emails : OpeningRoles[e] = "ADMIN"}
<1>1. Kept(j) /\ Placed(j) /\ Changes(j) /\ Email(j) \in Emails /\ jobs[j].actor \in Emails
  BY ActsKept, ActsChange, JobInvPlaced, EmailTyped, CallTyped DEF JobInv
<1>2. Promotions \subseteq Promotions'
  BY <1>1 DEF Kept, Growing, Promotions
<1>3. CommitRole(j) /\ jobs[j].role = "ADMIN" => <<jobs[j].actor, Email(j)>> \in Promotions'
  <2> SUFFICES ASSUME CommitRole(j), jobs[j].role = "ADMIN"
               PROVE  <<jobs[j].actor, Email(j)>> \in Promotions'
    OBVIOUS
  <2> DEFINE row == <<"ROLE_UPDATED", j, Email(j)>>
  <2>1. row \in audit' /\ jobs' = jobs
    BY DEF CommitRole, Record
  <2>2. row[1] = "ROLE_UPDATED" /\ row[2] = j /\ row[3] = Email(j)
    OBVIOUS
  <2> HIDE DEF row
  <2> QED BY <2>1, <2>2 DEF Promotions
<1>4. users \in [Emails -> UserRole \cup {NoUser}]
  BY DEF JobInv, JobsTypeOK
<1>5. ASSUME NEW T \in SUBSET (Emails \ openingAdmins),
             \A p \in Promotions' : p[1] \in openingAdmins \cup T => p[2] \in openingAdmins \cup T,
             NEW e \in Emails, users'[e] = "ADMIN" \/ <<e, "ADMIN">> \in tokens'
      PROVE  e \in openingAdmins \cup T
  <2> DEFINE S == openingAdmins \cup T
  <2>1. \A f \in Emails : users[f] = "ADMIN" \/ <<f, "ADMIN">> \in tokens => f \in S
    BY <1>2, <1>5 DEF AdminsVouched
  <2>2. CASE users'[e] = "ADMIN" /\ users[e] # "ADMIN"
    <3>1. ~ProvisionAccount(j) \/ users'[e] \in {users[e], "CUSTOMER"}
      BY <1>1, <1>4 DEF ProvisionAccount
    <3>2. CommitRole(j)
      BY <1>1, <2>2, <3>1 DEF Changes
    <3>3. e = Email(j) /\ jobs[j].role = "ADMIN"
      BY <1>1, <1>4, <2>2, <3>2 DEF CommitRole
    <3>4. jobs[j].actor \in S
      BY <1>1, <2>1, <3>2 DEF CommitRole, Placed
    <3>5. <<jobs[j].actor, e>> \in Promotions'
      BY <1>3, <3>2, <3>3
    <3> HIDE DEF openingAdmins
    <3> QED BY <1>5, <3>4, <3>5
  <2>3. CASE <<e, "ADMIN">> \in tokens' /\ <<e, "ADMIN">> \notin tokens
    <3>1. tokens' = tokens \cup {<<Email(j), users[Email(j)]>>}
      BY <1>1, <2>3 DEF Changes, IssueToken
    <3>2. users[e] = "ADMIN"
      BY <2>3, <3>1
    <3> QED BY <2>1, <3>2
  <2> QED BY <1>5, <2>1, <2>2, <2>3
<1> QED BY <1>5 DEF AdminsVouched

\* The first administrators and their tokens vouch for themselves.
LEMMA AdminsVouchedInit == CustomerInit => AdminsVouched
<1> SUFFICES ASSUME CustomerInit, NEW e \in Emails, users[e] = "ADMIN" \/ <<e, "ADMIN">> \in tokens
             PROVE  OpeningRoles[e] = "ADMIN"
  BY DEF AdminsVouched
<1> QED BY OpeningUsersAssumption DEF CustomerInit, JobsInit

\* Only a commit with an audit row changes the role of a user.
LEMMA RolesExplainedKept ==
    ASSUME JobInv, AuditExplainsRole, NEW j \in Jobs, Acts(j)
    PROVE  AuditExplainsRole'
<1>1. Kept(j) /\ Placed(j) /\ Changes(j) /\ Email(j) \in Emails
  BY ActsKept, ActsChange, JobInvPlaced, EmailTyped DEF JobInv
<1>2. users \in [Emails -> UserRole \cup {NoUser}]
  BY DEF JobInv, JobsTypeOK
<1>3. jobs' = jobs /\ audit \subseteq audit'
  BY <1>1 DEF Kept, Growing
<1> SUFFICES ASSUME NEW e \in Emails, IsUser(e)'
             PROVE  \/ users'[e] = IF OpeningRoles[e] = NoUser THEN "CUSTOMER" ELSE OpeningRoles[e]
                    \/ \E t \in audit' :
                          t[1] = "ROLE_UPDATED" /\ t[3] = e /\ jobs[t[2]].role = users'[e]
  BY <1>3 DEF AuditExplainsRole
<1>4. CASE users'[e] = users[e]
  BY <1>3, <1>4 DEF AuditExplainsRole, IsUser
<1>5. CASE ProvisionAccount(j) /\ users'[e] # users[e]
  <2>1. e = Email(j) /\ users'[e] = "CUSTOMER" /\ step[j] = "provision"
    BY <1>1, <1>2, <1>5 DEF ProvisionAccount
  <2>2. OpeningRoles[e] = NoUser
    BY <1>1, <2>1 DEF Placed, JobInv, UsersKnown
  <2> QED BY <2>1, <2>2
<1>6. CASE CommitRole(j) /\ users'[e] # users[e]
  <2>1. e = Email(j) /\ users'[e] = jobs[j].role
    BY <1>1, <1>2, <1>6 DEF CommitRole
  <2> DEFINE row == <<"ROLE_UPDATED", j, Email(j)>>
  <2>2. row \in audit'
    BY <1>6 DEF CommitRole, Record
  <2>3. row[1] = "ROLE_UPDATED" /\ row[2] = j /\ row[3] = e
    BY <2>1
  <2> HIDE DEF row
  <2> QED BY <2>1, <2>2, <2>3
<1> QED BY <1>1, <1>4, <1>5, <1>6 DEF Changes

\* The first roles explain themselves.
LEMMA RolesExplainedInit == CustomerInit => AuditExplainsRole
BY DEF CustomerInit, JobsInit, AuditExplainsRole, IsUser

--------------------------------------------------------------------------
(* Profiles and the verdicts on them. *)

ProfilesTyped == profiles \in [Emails -> Profile \cup {NoRow}]
DraftsTyped ==
    draft \in [Jobs -> [row : Profile \cup Branding \cup {NoRow}, id : ConfigIds \cup {0}, new : BOOLEAN]]

\* The blank rows are rows, pending and empty.
LEMMA BlankTyped ==
    /\ BlankProfile \in Profile /\ BlankProfile # NoRow
    /\ BlankBranding \in Branding /\ BlankBranding # NoRow
    /\ BlankProfile["kyc_status"] = "PENDING"
    /\ \A f \in BrandingFields : BlankBranding[f] = NoText
<1>1. BlankProfile \in Profile /\ BlankProfile["kyc_status"] = "PENDING"
  BY DEF BlankProfile, Profile, KycStatus
<1>2. BlankBranding \in Branding /\ \A f \in BrandingFields : BlankBranding[f] = NoText
  BY DEF BlankBranding, Branding
<1> QED BY <1>1, <1>2, NoRowAssumption

\* What a PATCH may set.
LEMMA CallFields ==
    ASSUME JobInv, NEW j \in Jobs
    PROVE  /\ jobs[j].kind = "profile" =>
                 jobs[j].fields \subseteq ProfileFields /\ jobs[j].value \in Texts \cup {NoText}
           /\ jobs[j].kind = "kyc" => jobs[j].fields = {"kyc_status"} /\ jobs[j].value \in KycStatus
           /\ jobs[j].kind = "branding" =>
                 jobs[j].fields \subseteq BrandingFields /\ jobs[j].value \in Texts \cup {NoText}
BY CallTyped DEF JobInv, JobCall

\* Patching a row gives a row that differs in the supplied fields only.
LEMMA PatchedProfile ==
    ASSUME JobInv, NEW j \in Jobs, jobs[j].kind \in {"profile", "kyc"}, NEW row \in Profile
    PROVE  /\ Patched(row, j) \in Profile /\ Patched(row, j) # NoRow
           /\ jobs[j].fields \subseteq ProfileFields \cup {"kyc_status"}
           /\ \A f \in ProfileFields \cup {"kyc_status"} :
                 Patched(row, j)[f] = IF f \in jobs[j].fields /\ draft[j].row[f] # jobs[j].value
                                      THEN jobs[j].value ELSE row[f]
<1>1. /\ jobs[j].value \in Texts \cup {NoText} \cup KycStatus
      /\ jobs[j].fields \subseteq ProfileFields \cup {"kyc_status"}
  BY CallFields
<1>2. /\ DOMAIN row = ProfileFields \cup {"kyc_status"}
      /\ \A f \in DOMAIN row : row[f] \in Texts \cup {NoText} \cup KycStatus
  BY DEF Profile
<1>3. Patched(row, j) \in Profile
  <2>1. Patched(row, j) \in [DOMAIN row -> Texts \cup {NoText} \cup KycStatus]
    BY <1>1, <1>2 DEF Patched
  <2> QED BY <1>2, <2>1 DEF Profile
<1> QED BY <1>1, <1>2, <1>3, NoRowAssumption DEF Patched

\* The same for the branding.
LEMMA PatchedBranding ==
    ASSUME JobInv, NEW j \in Jobs, jobs[j].kind = "branding", NEW row \in Branding
    PROVE  /\ Patched(row, j) \in Branding /\ Patched(row, j) # NoRow
           /\ jobs[j].fields \subseteq BrandingFields
           /\ \A f \in BrandingFields :
                 Patched(row, j)[f] = IF f \in jobs[j].fields /\ draft[j].row[f] # jobs[j].value
                                      THEN jobs[j].value ELSE row[f]
<1>1. jobs[j].value \in Texts \cup {NoText} /\ jobs[j].fields \subseteq BrandingFields
  BY CallFields
<1>2. DOMAIN row = BrandingFields /\ \A f \in DOMAIN row : row[f] \in Texts \cup {NoText}
  BY DEF Branding
<1>3. Patched(row, j) \in Branding
  <2>1. Patched(row, j) \in [DOMAIN row -> Texts \cup {NoText}]
    BY <1>1, <1>2 DEF Patched
  <2> QED BY <1>2, <2>1 DEF Branding
<1> QED BY <1>1, <1>2, <1>3, NoRowAssumption DEF Patched

\* What a job loads is what it holds.
LEMMA Loaded ==
    ASSUME DraftsTyped, NEW j \in Jobs, NEW row, NEW id, NEW new, Load(j, row, id, new)
    PROVE  /\ draft'[j].row = row /\ draft'[j].id = id /\ draft'[j].new = new
           /\ \A i \in Jobs \ {j} : draft'[i] = draft[i]
<1>1. draft'[j] = [row |-> row, id |-> id, new |-> new]
  BY DEF DraftsTyped, Load
<1>2. \A i \in Jobs \ {j} : draft'[i] = draft[i]
  BY DEF DraftsTyped, Load
<1> QED BY <1>1, <1>2

\* What the other jobs have loaded is theirs.
LEMMA OthersDraft ==
    ASSUME DraftsTyped, NEW j \in Jobs, Acts(j), NEW i \in Jobs \ {j}
    PROVE  draft'[i] = draft[i]
BY Loaded, ActsChange DEF Changes, LoadProfile, InsertProfile, CheckKyc, CheckBranding, InsertBranding

\* A job enters "save" with the row it has found or with a blank one.
LEMMA SaveEntered ==
    ASSUME JobInv, DraftsTyped, NEW j \in Jobs, Acts(j), step'[j] = "save"
    PROVE  /\ Email(j)' = Email(j) /\ profiles' = profiles /\ answer'[j] = answer[j]
           /\ \/ /\ ~draft'[j].new /\ draft'[j].row = profiles[Email(j)]
                 /\ profiles[Email(j)] # NoRow
              \/ /\ InsertProfile(j) /\ draft'[j].new /\ draft'[j].row = BlankProfile
                 /\ jobs[j].kind = "profile" /\ profiles[Email(j)] = NoRow
                 /\ \A i \in Jobs : ~(step[i] = "save" /\ draft[i].new /\ Email(i) = Email(j))
<1>1. Entered(j) /\ Placed(j)
  BY ActsEntered, JobInvPlaced
<1>2. \A o \in Answers : ~Return(j, o)
  BY OverEntered
<1>3. PlacesOK
  BY PlacesTyped DEF JobInv
<1>4. Goto(j, "save", NoUser) => Email(j)' = Email(j) \/ jobs' # jobs
  BY <1>3, GotoMoves, WentEmail DEF Steps
<1>5. CASE LoadProfile(j)
  <2>1. profiles[Email(j)] # NoRow
    BY <1>5, GoesEntered DEF LoadProfile, Steps
  <2>2. Goto(j, "save", NoUser) /\ jobs' = jobs /\ profiles' = profiles
    BY <1>5, <2>1 DEF LoadProfile
  <2>3. Load(j, profiles[Email(j)], 0, FALSE)
    BY <1>5 DEF LoadProfile
  <2> QED BY <1>4, <2>1, <2>2, <2>3, Loaded DEF Goto
<1>6. CASE CheckKyc(j)
  <2>1. Goto(j, "save", NoUser) /\ profiles[Email(j)] # NoRow /\ Load(j, profiles[Email(j)], 0, FALSE)
    BY <1>2, <1>6 DEF CheckKyc, Answers
  <2>2. jobs' = jobs /\ profiles' = profiles
    BY <1>6 DEF CheckKyc
  <2> QED BY <1>4, <2>1, <2>2, Loaded DEF Goto
<1>7. CASE InsertProfile(j)
  <2>1. /\ Goto(j, "save", NoUser) /\ profiles[Email(j)] = NoRow /\ Load(j, BlankProfile, 0, TRUE)
        /\ \A i \in Jobs : ~(step[i] = "save" /\ draft[i].new /\ Email(i) = Email(j))
    BY <1>2, <1>7 DEF InsertProfile, Answers
  <2>2. jobs' = jobs /\ profiles' = profiles /\ jobs[j].kind = "profile"
    BY <1>1, <1>7 DEF InsertProfile, Placed
  <2> QED BY <1>4, <1>7, <2>1, <2>2, Loaded DEF Goto
<1> QED BY <1>1, <1>5, <1>6, <1>7 DEF Entered

\* What a save does to the profiles.
LEMMA ProfileSaved ==
    ASSUME JobInv, ProfilesTyped, ProfileDrafts, NEW j \in Jobs, SaveProfile(j)
    PROVE  /\ jobs[j].kind \in {"profile", "kyc"} /\ Email(j) \in Emails
           /\ \A e \in Emails \ {Email(j)} : profiles'[e] = profiles[e]
           /\ ProfilesTyped' /\ profiles'[Email(j)] \in Profile /\ profiles'[Email(j)] # NoRow
           /\ \E row \in Profile :
                 /\ row = IF draft[j].new THEN draft[j].row ELSE profiles[Email(j)]
                 /\ draft[j].new => row = BlankProfile
                 /\ profiles'[Email(j)] = Patched(row, j)
           /\ answer'[j] \in {"Saved", "Failed"} /\ step'[j] = "done"
<1> DEFINE row == IF draft[j].new THEN draft[j].row ELSE profiles[Email(j)]
<1>1. Placed(j) /\ step[j] = "save"
  BY JobInvPlaced DEF SaveProfile
<1>2. jobs[j].kind \in {"profile", "kyc"} /\ Email(j) \in Emails
  BY <1>1, EmailTyped DEF Placed, JobInv
<1>3. row \in Profile /\ (draft[j].new => row = BlankProfile)
  BY <1>1, <1>2, BlankTyped DEF ProfileDrafts, ProfilesTyped
<1>4. profiles' = [profiles EXCEPT ![Email(j)] = Patched(row, j)]
  BY DEF SaveProfile
<1>5. Patched(row, j) \in Profile /\ Patched(row, j) # NoRow
  BY <1>2, <1>3, PatchedProfile
<1>6. answer'[j] \in {"Saved", "Failed"} /\ step'[j] = "done"
  <2>1. PICK o \in {"Saved", "Failed"} : Return(j, o)
    BY DEF SaveProfile
  <2>2. Ended(j, o)
    BY <2>1, ReturnMoves, PlacesTyped DEF JobInv, Answers
  <2> QED BY <1>2, <2>2 DEF Ended, IsStart
<1>7. row = IF draft[j].new THEN draft[j].row ELSE profiles[Email(j)]
  OBVIOUS
<1> HIDE DEF row
<1> QED BY <1>2, <1>3, <1>4, <1>5, <1>6, <1>7 DEF ProfilesTyped

\* The unique index on the user of a profile lets one of several blank profiles be committed.
LEMMA ProfileDraftsKept ==
    ASSUME JobInv, ProfilesTyped, DraftsTyped, ProfileDrafts, NEW j \in Jobs, Acts(j)
    PROVE  ProfilesTyped' /\ ProfileDrafts'
<1>1. Kept(j) /\ Changes(j)
  BY ActsKept, ActsChange
<1>2. ProfilesTyped'
  BY <1>1, ProfileSaved DEF Changes, ProfilesTyped
<1>3. \A i \in Jobs : Email(i) \in Emails
  BY EmailTyped DEF JobInv
<1>4. ASSUME NEW i \in Jobs \ {j}
      PROVE  Email(i)' = Email(i) /\ draft'[i] = draft[i] /\ step'[i] = step[i]
  BY <1>1, OthersDraft, OthersKeepEmail DEF Kept, OthersWait
<1>5. ASSUME NEW i \in Jobs, step'[i] = "save"
      PROVE  IF draft'[i].new
             THEN jobs[i].kind = "profile" /\ draft'[i].row = BlankProfile /\ profiles'[Email(i)'] = NoRow
             ELSE draft'[i].row \in Profile /\ profiles'[Email(i)'] # NoRow
  <2>1. CASE i = j
    <3>1. profiles[Email(j)] \in Profile \cup {NoRow}
      BY <1>3 DEF ProfilesTyped
    <3> QED BY <1>5, <2>1, <3>1, SaveEntered
  <2>2. CASE i # j
    <3>1. step[i] = "save" /\ draft'[i] = draft[i] /\ Email(i)' = Email(i)
      BY <1>4, <1>5, <2>2
    <3>2. CASE SaveProfile(j) /\ Email(i) = Email(j)
      <4>1. step[j] = "save"
        BY <3>2 DEF SaveProfile
      <4>2. ~draft[i].new
        BY <2>2, <3>1, <3>2, <4>1 DEF ProfileDrafts
      <4>3. profiles'[Email(i)] # NoRow
        BY <3>2, ProfileSaved
      <4> QED BY <3>1, <4>2, <4>3 DEF ProfileDrafts
    <3>3. CASE profiles'[Email(i)] = profiles[Email(i)]
      BY <3>1, <3>3 DEF ProfileDrafts
    <3> QED BY <1>1, <1>3, <3>2, <3>3, ProfileSaved DEF Changes
  <2> QED BY <2>1, <2>2
<1>6. ASSUME NEW i \in Jobs, NEW k \in Jobs, step'[i] = "save", step'[k] = "save",
             draft'[i].new, draft'[k].new, Email(i)' = Email(k)'
      PROVE  i = k
  <2>1. ASSUME NEW m \in Jobs \ {j}, step'[m] = "save", draft'[m].new, step'[j] = "save", draft'[j].new,
               Email(m)' = Email(j)'
        PROVE  FALSE
    <3>1. step[m] = "save" /\ draft[m].new /\ Email(m)' = Email(m)
      BY <1>4, <2>1
    <3>2. Email(j)' = Email(j) /\ \A n \in Jobs : ~(step[n] = "save" /\ draft[n].new /\ Email(n) = Email(j))
      BY <2>1, SaveEntered
    <3>3. Email(m) = Email(j)
      BY <2>1, <3>1, <3>2
    <3> QED BY <3>1, <3>2, <3>3
  <2> QED BY <1>4, <1>6, <2>1 DEF ProfileDrafts
<1>7. jobs' = jobs
  BY <1>1 DEF Kept
<1> QED BY <1>2, <1>5, <1>6, <1>7 DEF ProfileDrafts

\* An administrator gave the profile of e this status.
Judged(e, status) ==
    \E j \in Jobs :
        /\ jobs[j].kind = "kyc" /\ Email(j) = e
        /\ jobs[j].value = status
        /\ <<jobs[j].actor, "ADMIN">> \in tokens

\* A verdict remains one, for jobs do not change and tokens are not taken away.
LEMMA JudgedStays ==
    ASSUME NEW j \in Jobs, Kept(j), NEW e, NEW status, Judged(e, status)
    PROVE  Judged(e, status)'
<1>1. jobs' = jobs /\ tokens \subseteq tokens'
  BY DEF Kept, Growing
<1>2. \A i \in Jobs : jobs[i].kind = "kyc" => Email(i)' = Email(i)
  BY <1>1 DEF Email, IsStart
<1> QED BY <1>1, <1>2 DEF Judged

\* A customer's PATCH cannot name the KYC status, and a verdict can be saved only on the token it
\* was checked with.
LEMMA KycVouchedKept ==
    ASSUME JobInv, ProfilesTyped, DraftsTyped, ProfileDrafts, KycVouched, NEW j \in Jobs, Acts(j)
    PROVE  KycVouched'
<1>1. Kept(j) /\ Changes(j) /\ Placed(j)
  BY ActsKept, ActsChange, JobInvPlaced
<1>2. jobs' = jobs /\ tokens \subseteq tokens' /\ JobInv'
  BY <1>1 DEF Kept, Growing
<1>3. ASSUME NEW e \in Emails, NEW status, profiles[e] # NoRow, status = profiles[e]["kyc_status"]
      PROVE  \/ status = "PENDING"
             \/ OpeningProfiles[e] # NoRow /\ OpeningProfiles[e]["kyc_status"] = status
             \/ Judged(e, status)'
  <2>1. \/ status = "PENDING"
        \/ OpeningProfiles[e] # NoRow /\ OpeningProfiles[e]["kyc_status"] = status
        \/ Judged(e, status)
    BY <1>3 DEF KycVouched, Judged
  <2> QED BY <1>1, <2>1, JudgedStays
<1>4. ASSUME NEW e \in Emails, NEW status, profiles'[e] # NoRow, status = profiles'[e]["kyc_status"]
      PROVE  \/ status = "PENDING"
             \/ OpeningProfiles[e] # NoRow /\ OpeningProfiles[e]["kyc_status"] = status
             \/ Judged(e, status)'
  <2>1. CASE profiles'[e] = profiles[e]
    BY <1>3, <1>4, <2>1
  <2>2. CASE SaveProfile(j) /\ e = Email(j)
    <3>1. PICK row \in Profile :
             /\ row = IF draft[j].new THEN draft[j].row ELSE profiles[e]
             /\ draft[j].new => row = BlankProfile
             /\ profiles'[e] = Patched(row, j)
      BY <2>2, ProfileSaved
    <3>2. jobs[j].kind \in {"profile", "kyc"} /\ step[j] = "save"
      BY <2>2, ProfileSaved DEF SaveProfile
    <3>3. status = IF "kyc_status" \in jobs[j].fields /\ draft[j].row["kyc_status"] # jobs[j].value
                   THEN jobs[j].value ELSE row["kyc_status"]
      BY <1>4, <3>1, <3>2, PatchedProfile
    <3>4. CASE "kyc_status" \in jobs[j].fields /\ status = jobs[j].value
      <4>1. jobs[j].kind = "kyc"
        BY <3>2, <3>4, CallFields DEF ProfileFields
      <4>2. <<jobs[j].actor, "ADMIN">> \in tokens'
        BY <1>1, <1>2, <3>2, <4>1 DEF Placed
      <4>3. Email(j)' = Email(j)
        BY <1>2, <4>1 DEF Email, IsStart
      <4>4. Judged(e, status)'
        BY <1>2, <2>2, <3>4, <4>1, <4>2, <4>3 DEF Judged
      <4> QED BY <4>4
    <3>5. CASE status = row["kyc_status"]
      <4>1. CASE draft[j].new
        BY <3>1, <3>5, <4>1, BlankTyped
      <4>2. CASE ~draft[j].new
        <5>1. row = profiles[e] /\ row # NoRow
          BY <3>1, <4>2, NoRowAssumption
        <5> QED BY <1>3, <3>5, <5>1
      <4> QED BY <4>1, <4>2
    <3> QED BY <3>3, <3>4, <3>5
  <2> QED BY <1>1, <2>1, <2>2, ProfileSaved DEF Changes
<1>5. \A e \in Emails : profiles'[e] # NoRow => IsUser(e)'
  BY <1>2 DEF JobInv, UsersKnown
<1> QED BY <1>4, <1>5 DEF KycVouched, Judged

\* The profiles before the first job.
LEMMA ProfilesInit ==
    CustomerInit => ProfilesTyped /\ DraftsTyped /\ ProfileDrafts /\ KycVouched
<1> SUFFICES ASSUME CustomerInit PROVE ProfilesTyped /\ DraftsTyped /\ ProfileDrafts /\ KycVouched
  OBVIOUS
<1>1. ProfilesTyped /\ DraftsTyped
  BY OpeningProfilesAssumption DEF CustomerInit, RecordsInit, ProfilesTyped, DraftsTyped
<1>2. ProfileDrafts
  BY DEF CustomerInit, JobsInit, ProfileDrafts
<1>3. KycVouched
  BY OpeningProfilesAssumption DEF CustomerInit, JobsInit, RecordsInit, KycVouched, IsUser
<1> QED BY <1>1, <1>2, <1>3

--------------------------------------------------------------------------
(* The branding. *)

ConfigTyped == config \in [ConfigIds -> Branding \cup {NoRow}]

\* The numbers of branding rows.
LEMMA ConfigIdsNatural ==
    /\ Cardinality(Jobs) \in Nat
    /\ \A n \in Nat : n \in ConfigIds <=> n >= 1 /\ n <= Cardinality(Jobs) + 1
    /\ ConfigIds \subseteq Nat
BY JobsAssumption, FS_CardinalityType DEF ConfigIds

\* query.first() finds a row when there is one.
LEMMA FirstRowFound ==
    ASSUME ConfigRows # {}
    PROVE  FirstRow \in ConfigRows /\ FirstRow \in ConfigIds /\ config[FirstRow] # NoRow
<1>1. ConfigRows \subseteq Nat
  BY ConfigIdsNatural DEF ConfigRows
<1> DEFINE Below == OpToRel(<, Nat)
<1>2. \E i \in ConfigRows : \A k \in ConfigRows : <<k, i>> \notin Below
  <2>1. IsWellFoundedOn(Below, Nat)
    BY NatLessThanWellFounded
  <2> HIDE DEF Below
  <2> QED BY <1>1, <2>1, WFMin
<1>3. \A i, k \in Nat : <<k, i>> \in Below <=> k < i
  BY DEF OpToRel
<1> HIDE DEF Below
<1>4. PICK i \in ConfigRows : \A k \in ConfigRows : <<k, i>> \notin Below
  BY <1>2
<1>5. \A k \in ConfigRows : i <= k
  <2> TAKE k \in ConfigRows
  <2>1. i \in Nat /\ k \in Nat
    BY <1>1
  <2>2. ~(k < i)
    BY <1>3, <1>4, <2>1
  <2> QED BY <2>1, <2>2
<1>6. FirstRow \in ConfigRows
  BY <1>5 DEF FirstRow
<1> QED BY <1>6 DEF ConfigRows

\* A job enters "brand" with the first row or with a new one.
LEMMA BrandEntered ==
    ASSUME JobInv, DraftsTyped, NEW j \in Jobs, Acts(j), step'[j] = "brand"
    PROVE  \/ /\ CheckBranding(j) /\ config' = config /\ lastId' = lastId /\ ConfigRows # {}
              /\ ~draft'[j].new /\ draft'[j].id = FirstRow /\ draft'[j].row = config[FirstRow]
           \/ /\ InsertBranding(j) /\ config' = config /\ lastId' = lastId + 1
              /\ draft'[j].new /\ draft'[j].id = lastId + 1 /\ draft'[j].row = BlankBranding
<1>1. Entered(j)
  BY ActsEntered
<1>2. \A o \in Answers : ~Return(j, o)
  BY OverEntered
<1>3. ~Goto(j, "insert row", NoUser)
  BY GoesEntered DEF Steps
<1>4. CASE CheckBranding(j)
  <2>1. ConfigRows # {} /\ Load(j, config[FirstRow], FirstRow, FALSE)
    BY <1>2, <1>3, <1>4 DEF CheckBranding, Answers
  <2>2. config' = config /\ lastId' = lastId
    BY <1>4 DEF CheckBranding
  <2> QED BY <1>4, <2>1, <2>2, Loaded
<1>5. CASE InsertBranding(j)
  <2>1. Load(j, BlankBranding, lastId + 1, TRUE) /\ config' = config /\ lastId' = lastId + 1
    BY <1>5 DEF InsertBranding
  <2> QED BY <1>5, <2>1, Loaded
<1> QED BY <1>1, <1>4, <1>5 DEF Entered

\* What a commit does to the branding.
LEMMA BrandingCommitted ==
    ASSUME JobInv, ConfigTyped, BrandingDrafts, NEW j \in Jobs, CommitBranding(j)
    PROVE  /\ jobs[j].kind = "branding" /\ draft[j].id \in ConfigIds /\ step[j] = "brand"
           /\ \A i \in ConfigIds \ {draft[j].id} : config'[i] = config[i]
           /\ ConfigTyped' /\ config'[draft[j].id] \in Branding /\ config'[draft[j].id] # NoRow
           /\ \E row \in Branding :
                 /\ row = IF draft[j].new THEN draft[j].row ELSE config[draft[j].id]
                 /\ draft[j].new => row = BlankBranding
                 /\ config'[draft[j].id] = Patched(row, j)
           /\ answer'[j] \in {"Branded", "Failed"} /\ step'[j] = "done"
           /\ lastId' = lastId /\ draft' = draft
<1> DEFINE row == IF draft[j].new THEN draft[j].row ELSE config[draft[j].id]
<1>1. Placed(j) /\ step[j] = "brand" /\ lastId' = lastId /\ draft' = draft
  BY JobInvPlaced DEF CommitBranding
<1>2. jobs[j].kind = "branding" /\ draft[j].id \in ConfigIds
  BY <1>1 DEF Placed, BrandingDrafts
<1>3. row \in Branding /\ (draft[j].new => row = BlankBranding)
  BY <1>1, <1>2, BlankTyped DEF BrandingDrafts, ConfigTyped
<1>4. config' = [config EXCEPT ![draft[j].id] = Patched(row, j)]
  BY DEF CommitBranding
<1>5. Patched(row, j) \in Branding /\ Patched(row, j) # NoRow
  BY <1>2, <1>3, PatchedBranding
<1>6. answer'[j] \in {"Branded", "Failed"} /\ step'[j] = "done"
  <2>1. PICK o \in {"Branded", "Failed"} : Return(j, o)
    BY DEF CommitBranding
  <2>2. Ended(j, o)
    BY <2>1, ReturnMoves, PlacesTyped DEF JobInv, Answers
  <2> QED BY <1>2, <2>2 DEF Ended, IsStart
<1>7. row = IF draft[j].new THEN draft[j].row ELSE config[draft[j].id]
  OBVIOUS
<1> HIDE DEF row
<1> QED BY <1>1, <1>2, <1>3, <1>4, <1>5, <1>6, <1>7 DEF ConfigTyped

\* There is a number left for the row of a job that has not inserted one yet.
LEMMA NumberLeft ==
    ASSUME JobInv, DraftsTyped, CounterBounded, NEW j \in Jobs, InsertBranding(j)
    PROVE  /\ lastId + 1 \in ConfigIds /\ j \notin Inserted
           /\ IsFiniteSet(Inserted) /\ Cardinality(Inserted) \in Nat
<1>1. j \notin Inserted /\ Inserted \in SUBSET (Jobs \ {j})
  BY DEF InsertBranding, CounterBounded, Inserted
<1>2. IsFiniteSet(Jobs \ {j}) /\ Cardinality(Jobs \ {j}) = Cardinality(Jobs) - 1
  BY JobsAssumption, FS_RemoveElement
<1>3. IsFiniteSet(Inserted) /\ Cardinality(Inserted) <= Cardinality(Jobs) - 1
  BY <1>1, <1>2, FS_Subset
<1>4. Cardinality(Inserted) \in Nat
  BY <1>3, FS_CardinalityType
<1>5. lastId \in Nat /\ lastId <= Cardinality(Inserted) + 1
  BY DEF CounterBounded
<1>6. lastId + 1 \in Nat /\ lastId + 1 >= 1 /\ lastId + 1 <= Cardinality(Jobs) + 1
  BY <1>3, <1>4, <1>5, ConfigIdsNatural
<1> QED BY <1>1, <1>3, <1>4, <1>6, ConfigIdsNatural

\* No job passes the flush of a branding row twice.
LEMMA CounterBoundedKept ==
    ASSUME JobInv, DraftsTyped, CounterBounded, NEW j \in Jobs, Acts(j)
    PROVE  CounterBounded'
<1>1. Kept(j) /\ Changes(j) /\ Placed(j) /\ Entered(j)
  BY ActsKept, ActsChange, JobInvPlaced, ActsEntered
<1>2. jobs' = jobs /\ \A i \in Jobs \ {j} : step'[i] = step[i] /\ draft'[i] = draft[i]
  BY <1>1, OthersDraft DEF Kept, OthersWait
<1>3. CASE InsertBranding(j)
  <2>1. j \notin Inserted /\ IsFiniteSet(Inserted) /\ Cardinality(Inserted) \in Nat
    BY <1>3, NumberLeft
  <2>2. step'[j] = "brand" /\ step[j] = "insert row"
    BY <1>3, GoesEntered DEF InsertBranding, Steps
  <2>3. draft'[j].new /\ lastId' = lastId + 1 /\ jobs[j].kind = "branding"
    BY <1>1, <1>3, <2>2, Loaded DEF InsertBranding, Placed
  <2>4. Inserted' = Inserted \cup {j}
    BY <1>2, <2>3 DEF Inserted
  <2>5. Cardinality(Inserted') = Cardinality(Inserted) + 1
    BY <2>1, <2>4, FS_AddElement
  <2>6. \A i \in Jobs : step'[i] \in {"idle", "insert row"} => i \notin Inserted'
    BY <1>2, <2>2, <2>4 DEF CounterBounded
  <2>7. lastId \in Nat /\ lastId <= Cardinality(Inserted) + 1
    BY DEF CounterBounded
  <2>8. lastId' \in Nat /\ lastId' <= Cardinality(Inserted') + 1
    BY <2>1, <2>3, <2>5, <2>7
  <2> QED BY <2>6, <2>8 DEF CounterBounded
<1>4. CASE ~InsertBranding(j)
  <2>1. jobs[j].kind = "branding" => draft'[j] = draft[j] \/ (CheckBranding(j) /\ ~draft'[j].new)
    BY <1>1, <1>4, Loaded DEF Changes, Placed, LoadProfile, InsertProfile, CheckKyc, CheckBranding
  <2>2. CheckBranding(j) => j \notin Inserted
    BY DEF CheckBranding, CounterBounded
  <2>3. j \in Inserted' <=> j \in Inserted
    BY <1>2, <2>1, <2>2 DEF Inserted
  <2>4. Inserted' = Inserted
    BY <1>2, <2>3 DEF Inserted
  <2>5. step'[j] \in {"idle", "insert row"} => j \notin Inserted
    BY <1>1, <2>2 DEF Entered, IsStart, Inserted
  <2>6. \A i \in Jobs : step'[i] \in {"idle", "insert row"} => i \notin Inserted'
    BY <1>2, <2>4, <2>5 DEF CounterBounded
  <2>7. lastId' = lastId
    BY <1>1, <1>4 DEF Changes
  <2> QED BY <2>4, <2>6, <2>7 DEF CounterBounded
<1> QED BY <1>3, <1>4

\* Every row a job loads or inserts is a row.
LEMMA DraftsTypedKept ==
    ASSUME JobInv, ProfilesTyped, ConfigTyped, DraftsTyped, CounterBounded, NEW j \in Jobs, Acts(j)
    PROVE  DraftsTyped'
<1> DEFINE Draft == [row : Profile \cup Branding \cup {NoRow}, id : ConfigIds \cup {0}, new : BOOLEAN]
<1>1. ASSUME NEW row \in Profile \cup Branding \cup {NoRow}, NEW id \in ConfigIds \cup {0},
             NEW new \in BOOLEAN, Load(j, row, id, new)
      PROVE  DraftsTyped'
  <2>1. [row |-> row, id |-> id, new |-> new] \in Draft
    OBVIOUS
  <2>2. draft \in [Jobs -> Draft]
    BY DEF DraftsTyped
  <2> HIDE DEF Draft
  <2>3. draft' \in [Jobs -> Draft]
    BY <1>1, <2>1, <2>2 DEF Load
  <2> USE DEF Draft
  <2> QED BY <2>3 DEF DraftsTyped
<1>2. profiles[Email(j)] \in Profile \cup {NoRow}
  BY EmailTyped DEF JobInv, ProfilesTyped
<1>3. ConfigRows # {} => FirstRow \in ConfigIds /\ config[FirstRow] \in Branding \cup {NoRow}
  BY FirstRowFound DEF ConfigTyped
<1>4. CASE LoadProfile(j)
  BY <1>1, <1>2, <1>4 DEF LoadProfile
<1>5. CASE InsertProfile(j)
  BY <1>1, <1>5, BlankTyped DEF InsertProfile, DraftsTyped
<1>6. CASE CheckKyc(j)
  BY <1>1, <1>2, <1>6 DEF CheckKyc, DraftsTyped
<1>7. CASE CheckBranding(j)
  BY <1>1, <1>3, <1>7 DEF CheckBranding, DraftsTyped
<1>8. CASE InsertBranding(j)
  BY <1>1, <1>8, NumberLeft, BlankTyped DEF InsertBranding
<1>9. CASE draft' = draft
  BY <1>9 DEF DraftsTyped
<1> QED BY <1>4, <1>5, <1>6, <1>7, <1>8, <1>9, ActsChange DEF Changes

\* Whatever two first requests insert beside each other, each commits its own row.
LEMMA BrandingDraftsKept ==
    ASSUME JobInv, ConfigTyped, DraftsTyped, CounterBounded, BrandingDrafts, NEW j \in Jobs, Acts(j)
    PROVE  ConfigTyped' /\ BrandingDrafts'
<1>1. Kept(j) /\ Changes(j)
  BY ActsKept, ActsChange
<1>2. ConfigTyped'
  BY <1>1, BrandingCommitted DEF Changes, ConfigTyped
<1>3. ASSUME NEW i \in Jobs \ {j}
      PROVE  draft'[i] = draft[i] /\ step'[i] = step[i]
  BY <1>1, OthersDraft DEF Kept, OthersWait
<1>4. lastId \in Nat /\ lastId' \in Nat /\ lastId' >= lastId
  <2>1. lastId \in Nat
    BY DEF CounterBounded
  <2>2. lastId' = lastId \/ lastId' = lastId + 1
    BY <1>1 DEF Changes, InsertBranding
  <2> QED BY <2>1, <2>2
<1>5. ASSUME NEW i \in Jobs, step'[i] = "brand"
      PROVE  /\ draft'[i].id \in ConfigIds /\ draft'[i].id <= lastId'
             /\ IF draft'[i].new THEN draft'[i].row = BlankBranding /\ config'[draft'[i].id] = NoRow
                ELSE draft'[i].row \in Branding /\ config'[draft'[i].id] # NoRow
  <2>1. CASE i = j
    <3>1. CASE /\ CheckBranding(j) /\ config' = config /\ lastId' = lastId /\ ConfigRows # {}
               /\ ~draft'[j].new /\ draft'[j].id = FirstRow /\ draft'[j].row = config[FirstRow]
      <4>1. FirstRow \in ConfigIds /\ config[FirstRow] # NoRow
        BY <3>1, FirstRowFound
      <4>2. FirstRow <= lastId /\ config[FirstRow] \in Branding
        BY <4>1 DEF BrandingDrafts, ConfigTyped
      <4> QED BY <2>1, <3>1, <4>1, <4>2
    <3>2. CASE /\ InsertBranding(j) /\ config' = config /\ lastId' = lastId + 1
               /\ draft'[j].new /\ draft'[j].id = lastId + 1 /\ draft'[j].row = BlankBranding
      <4>1. lastId + 1 \in ConfigIds
        BY <3>2, NumberLeft
      <4>2. config[lastId + 1] = NoRow
        BY <1>4, <4>1 DEF BrandingDrafts
      <4> QED BY <1>4, <2>1, <3>2, <4>1, <4>2
    <3> QED BY <1>5, <2>1, <3>1, <3>2, BrandEntered
  <2>2. CASE i # j
    <3>1. step[i] = "brand" /\ draft'[i] = draft[i]
      BY <1>3, <1>5, <2>2
    <3>2. draft[i].id \in ConfigIds /\ draft[i].id <= lastId'
      <4>1. draft[i].id \in ConfigIds /\ draft[i].id <= lastId
        BY <3>1 DEF BrandingDrafts
      <4>2. draft[i].id \in Nat
        BY <4>1, ConfigIdsNatural
      <4> HIDE DEF ConfigIds
      <4> QED BY <1>4, <4>1, <4>2
    <3>3. CASE CommitBranding(j) /\ draft[i].id = draft[j].id
      <4>1. ~draft[i].new
        BY <2>2, <3>1, <3>3, BrandingCommitted DEF BrandingDrafts
      <4> QED BY <3>1, <3>2, <3>3, <4>1, BrandingCommitted DEF BrandingDrafts
    <3>4. CASE config'[draft[i].id] = config[draft[i].id]
      BY <3>1, <3>2, <3>4 DEF BrandingDrafts
    <3> QED BY <1>1, <3>2, <3>3, <3>4, BrandingCommitted DEF Changes
  <2> QED BY <2>1, <2>2
<1>6. ASSUME NEW i \in Jobs, NEW k \in Jobs, step'[i] = "brand", step'[k] = "brand",
             draft'[i].new, draft'[i].id = draft'[k].id
      PROVE  i = k
  <2>1. CASE i # j /\ k # j
    BY <1>3, <1>6, <2>1 DEF BrandingDrafts
  <2>2. ASSUME NEW m \in Jobs \ {j}, step'[m] = "brand", step'[j] = "brand",
               draft'[m].new \/ draft'[j].new, draft'[m].id = draft'[j].id
        PROVE  FALSE
    <3>1. step[m] = "brand" /\ draft'[m] = draft[m]
      BY <1>3, <2>2
    <3>2. /\ draft[m].id \in ConfigIds /\ draft[m].id <= lastId
          /\ draft[m].new => config[draft[m].id] = NoRow
      BY <3>1 DEF BrandingDrafts
    <3>3. CASE ConfigRows # {} /\ ~draft'[j].new /\ draft'[j].id = FirstRow
      BY <2>2, <3>1, <3>2, <3>3, FirstRowFound
    <3>4. CASE draft'[j].id = lastId + 1
      BY <1>4, <2>2, <3>1, <3>2, <3>4, ConfigIdsNatural
    <3> QED BY <2>2, <3>3, <3>4, BrandEntered
  <2> QED BY <1>6, <2>1, <2>2
<1>7. ASSUME NEW i \in ConfigIds, config'[i] # NoRow
      PROVE  i <= lastId'
  <2>1. i \in Nat
    BY ConfigIdsNatural
  <2>2. CASE config[i] # NoRow
    <3>1. i <= lastId
      BY <2>2 DEF BrandingDrafts
    <3> QED BY <1>4, <2>1, <3>1
  <2>3. CASE config[i] = NoRow
    <3>1. CommitBranding(j) /\ i = draft[j].id
      BY <1>1, <1>7, <2>3, BrandingCommitted DEF Changes
    <3>2. i <= lastId
      BY <3>1, BrandingCommitted DEF BrandingDrafts
    <3> QED BY <1>4, <2>1, <3>2
  <2> QED BY <2>2, <2>3
<1> QED BY <1>2, <1>5, <1>6, <1>7 DEF BrandingDrafts

\* Where the value v of field f comes from.
Explained(f, v) ==
    \/ v = NoText
    \/ OpeningBranding # NoRow /\ OpeningBranding[f] = v
    \/ \E t \in audit :
          /\ t[1] = "BRANDING_UPDATED"
          /\ f \in jobs[t[2]].fields /\ jobs[t[2]].value = v
          /\ <<t[3], "ADMIN">> \in tokens

\* An explanation remains one.
LEMMA ExplainedStays ==
    ASSUME NEW j \in Jobs, Kept(j), NEW f, NEW v, Explained(f, v)
    PROVE  Explained(f, v)'
<1>1. jobs' = jobs /\ tokens \subseteq tokens' /\ audit \subseteq audit'
  BY DEF Kept, Growing
<1> QED BY <1>1 DEF Explained

\* Only an audited commit sets a field, only the fields it names, on the token of its actor.
LEMMA RowsExplainedKept ==
    ASSUME JobInv, ConfigTyped, DraftsTyped, BrandingDrafts, RowsExplained, NEW j \in Jobs, Acts(j)
    PROVE  RowsExplained'
<1>1. Kept(j) /\ Changes(j)
  BY ActsKept, ActsChange
<1>2. jobs' = jobs /\ tokens \subseteq tokens' /\ audit \subseteq audit'
  BY <1>1 DEF Kept, Growing
<1>3. ASSUME NEW i \in ConfigIds, NEW f \in BrandingFields, NEW shown, config[i] # NoRow,
             shown = config[i][f]
      PROVE  Explained(f, shown)'
  <2>1. Explained(f, shown)
    BY <1>3 DEF RowsExplained, Explained
  <2> QED BY <1>1, <2>1, ExplainedStays
<1>4. ASSUME NEW i \in ConfigIds, NEW f \in BrandingFields, NEW shown, config'[i] # NoRow,
             shown = config'[i][f]
      PROVE  Explained(f, shown)'
  <2>1. CASE config'[i] = config[i]
    BY <1>3, <1>4, <2>1
  <2>2. CASE CommitBranding(j) /\ i = draft[j].id
    <3>1. PICK row \in Branding :
             /\ row = IF draft[j].new THEN draft[j].row ELSE config[i]
             /\ draft[j].new => row = BlankBranding
             /\ config'[i] = Patched(row, j)
      BY <2>2, BrandingCommitted
    <3>2. jobs[j].kind = "branding" /\ step[j] = "brand"
      BY <2>2, BrandingCommitted
    <3>3. shown = IF f \in jobs[j].fields /\ draft[j].row[f] # jobs[j].value
                  THEN jobs[j].value ELSE row[f]
      BY <1>4, <3>1, <3>2, PatchedBranding
    <3>4. CASE f \in jobs[j].fields /\ shown = jobs[j].value
      <4> DEFINE t == <<"BRANDING_UPDATED", j, Email(j)>>
      <4>1. t \in audit'
        BY <2>2 DEF CommitBranding, Record
      <4>2. Email(j) = jobs[j].actor
        BY <3>2, CallTyped DEF Email, IsStart, JobInv
      <4>3. <<Email(j), "ADMIN">> \in tokens'
        BY <1>2, <3>2, <4>2 DEF JobInv, Authorised
      <4>4. t[1] = "BRANDING_UPDATED" /\ t[2] = j /\ t[3] = Email(j)
        OBVIOUS
      <4> HIDE DEF t
      <4> QED BY <1>2, <3>4, <4>1, <4>3, <4>4 DEF Explained
    <3>5. CASE shown = row[f]
      <4>1. CASE draft[j].new
        BY <3>1, <3>5, <4>1, BlankTyped DEF Explained
      <4>2. CASE ~draft[j].new
        <5>1. row = config[i] /\ row # NoRow
          BY <3>1, <4>2, NoRowAssumption
        <5> QED BY <1>3, <3>5, <5>1
      <4> QED BY <4>1, <4>2
    <3> QED BY <3>3, <3>4, <3>5
  <2> QED BY <1>1, <2>1, <2>2, BrandingCommitted DEF Changes
<1>5. \A i \in ConfigIds, f \in BrandingFields : config'[i] # NoRow => Explained(f, config[i][f])'
  <2> TAKE i \in ConfigIds, f \in BrandingFields
  <2>1. \A shown : config'[i] # NoRow /\ shown = config'[i][f] => Explained(f, shown)'
    BY <1>4
  <2> QED BY <2>1
<1> QED BY <1>5 DEF RowsExplained, Explained

\* The branding before the first job.
LEMMA BrandingInit ==
    CustomerInit => ConfigTyped /\ BrandingDrafts /\ CounterBounded /\ RowsExplained
<1> SUFFICES ASSUME CustomerInit PROVE ConfigTyped /\ BrandingDrafts /\ CounterBounded /\ RowsExplained
  OBVIOUS
<1>1. ConfigTyped
  BY OpeningBrandingAssumption DEF CustomerInit, RecordsInit, ConfigTyped
<1>2. \A i \in ConfigIds : config[i] # NoRow => i = 1 /\ lastId = 1 /\ config[i] = OpeningBranding
  BY DEF CustomerInit, RecordsInit
<1>3. \A i \in ConfigIds : config[i] # NoRow => i <= lastId
  BY <1>2
<1>4. BrandingDrafts
  BY <1>3 DEF CustomerInit, JobsInit, BrandingDrafts
<1>5. CounterBounded
  <2>1. Inserted = {}
    BY DEF CustomerInit, RecordsInit, Inserted
  <2>2. Cardinality(Inserted) = 0
    BY <2>1, FS_EmptySet
  <2>3. lastId \in {0, 1}
    BY DEF CustomerInit, RecordsInit
  <2> QED BY <2>1, <2>2, <2>3 DEF CounterBounded
<1>6. RowsExplained
  BY <1>2 DEF RowsExplained
<1> QED BY <1>1, <1>4, <1>5, <1>6

\* What is shown is a committed row or the defaults.
LEMMA ShownExplained ==
    ASSUME RowsExplained
    PROVE  BrandingExplained
<1> SUFFICES ASSUME NEW f \in BrandingFields
             PROVE  \/ EffectiveConfig[f] = NoText
                    \/ OpeningBranding # NoRow /\ OpeningBranding[f] = EffectiveConfig[f]
                    \/ \E t \in audit :
                          /\ t[1] = "BRANDING_UPDATED"
                          /\ f \in jobs[t[2]].fields /\ jobs[t[2]].value = EffectiveConfig[f]
                          /\ <<t[3], "ADMIN">> \in tokens
  BY DEF BrandingExplained
<1>1. CASE ConfigRows = {}
  BY <1>1, BlankTyped DEF EffectiveConfig
<1>2. CASE ConfigRows # {}
  BY <1>2, FirstRowFound DEF EffectiveConfig, RowsExplained
<1> QED BY <1>1, <1>2

--------------------------------------------------------------------------
(* What was saved. *)

\* A job that saves something becomes a rival of those it overwrites, and stays one.
LEMMA RivalsGrow ==
    ASSUME JobInv, RecordedSoFar, NEW j \in Jobs, Acts(j), NEW k \in Jobs, NEW f,
           Email(k)' = Email(k) \/ jobs[k].kind = "branding"
    PROVE  Rivals(k, f) \subseteq Rivals(k, f)'
<1>1. Kept(j) /\ Entered(j)
  BY ActsKept, ActsEntered
<1> SUFFICES ASSUME NEW i \in Rivals(k, f) PROVE i \in Rivals(k, f)'
  OBVIOUS
<1>2. /\ i \in Jobs \ {k} /\ answer[i] \in {"Saved", "Branded", "Failed"} /\ f \in jobs[i].fields
      /\ jobs[k].kind # "branding" => Email(i) = Email(k)
  BY DEF Rivals
<1>3. i # j
  BY <1>1, <1>2 DEF Entered, RecordedSoFar
<1>4. answer'[i] = answer[i] /\ Email(i)' = Email(i) /\ jobs' = jobs
  BY <1>1, <1>2, <1>3, OthersKeepEmail DEF Kept, OthersWait
<1> QED BY <1>2, <1>4 DEF Rivals

\* A save rewrites the fields it names and leaves the others as they are in the table.
LEMMA ProfileEditsKept ==
    ASSUME JobInv, RecordedSoFar, ProfilesTyped, DraftsTyped, ProfileDrafts, ProfileEdits,
           NEW j \in Jobs, Acts(j)
    PROVE  ProfileEdits'
<1>1. Kept(j) /\ Changes(j) /\ Entered(j) /\ jobs' = jobs
  BY ActsKept, ActsChange, ActsEntered DEF Kept
<1>2. \A i \in Jobs : Email(i) \in Emails
  BY EmailTyped DEF JobInv
<1>3. \A i \in Jobs : jobs[i].kind \in {"profile", "kyc"} => Email(i)' = Email(i)
  BY <1>1 DEF Email, IsStart
\* What a job has saved or loaded of a profile that is there stays or gets a rival.
<1>4. ASSUME NEW k \in Jobs \ {j}, NEW f \in jobs[k].fields, NEW v, jobs[k].kind \in {"profile", "kyc"},
             profiles[Email(k)] # NoRow, profiles[Email(k)][f] = v \/ Rivals(k, f) # {}
      PROVE  /\ profiles'[Email(k)] # NoRow
             /\ profiles'[Email(k)][f] = v \/ Rivals(k, f)' # {}
  <2>1. Rivals(k, f) \subseteq Rivals(k, f)'
    BY <1>3, <1>4, RivalsGrow
  <2>2. CASE profiles'[Email(k)] = profiles[Email(k)]
    BY <1>4, <2>1, <2>2
  <2>3. CASE SaveProfile(j) /\ Email(k) = Email(j)
    <3>1. PICK row \in Profile :
             /\ row = IF draft[j].new THEN draft[j].row ELSE profiles[Email(j)]
             /\ profiles'[Email(j)] = Patched(row, j)
      BY <2>3, ProfileSaved
    <3>2. ~draft[j].new
      BY <1>4, <2>3 DEF SaveProfile, ProfileDrafts
    <3>3. /\ jobs[j].kind \in {"profile", "kyc"} /\ profiles'[Email(j)] # NoRow
          /\ answer'[j] \in {"Saved", "Failed"}
      BY <2>3, ProfileSaved
    <3>4. CASE f \in jobs[j].fields
      <4>1. Email(j)' = Email(k)'
        BY <1>3, <1>4, <2>3, <3>3
      <4>2. j \in Rivals(k, f)'
        BY <1>1, <1>4, <3>3, <3>4, <4>1 DEF Rivals
      <4> QED BY <2>3, <3>3, <4>2
    <3>5. CASE f \notin jobs[j].fields
      <4>1. f \in ProfileFields \cup {"kyc_status"}
        BY <1>4, CallFields
      <4>2. Patched(row, j)[f] = row[f]
        BY <3>3, <3>5, <4>1, PatchedProfile
      <4> QED BY <1>4, <2>1, <2>3, <3>1, <3>2, <3>3, <4>2
    <3> QED BY <3>4, <3>5
  <2> QED BY <1>1, <1>2, <2>2, <2>3, ProfileSaved DEF Changes
<1>5. ASSUME NEW k \in Jobs, NEW f \in jobs[k].fields, step'[k] = "save", ~draft'[k].new
      PROVE  profiles'[Email(k)'][f] = draft'[k].row[f] \/ Rivals(k, f)' # {}
  <2>1. CASE k = j
    BY <1>5, <2>1, SaveEntered
  <2>2. CASE k # j
    <3>1. step[k] = "save" /\ draft'[k] = draft[k] /\ Email(k)' = Email(k)
      BY <1>1, <1>5, <2>2, OthersDraft, OthersKeepEmail DEF Kept, OthersWait
    <3>2. jobs[k].kind \in {"profile", "kyc"} /\ profiles[Email(k)] # NoRow
      BY <1>5, <3>1 DEF JobInv, StepsFit, ProfileDrafts
    <3>3. profiles[Email(k)][f] = draft[k].row[f] \/ Rivals(k, f) # {}
      BY <1>5, <3>1 DEF ProfileEdits
    <3> QED BY <1>4, <2>2, <3>1, <3>2, <3>3
  <2> QED BY <2>1, <2>2
<1>6. ASSUME NEW k \in Jobs, NEW f \in jobs[k].fields, answer'[k] = "Saved"
      PROVE  /\ jobs[k].kind \in {"profile", "kyc"} /\ profiles'[Email(k)'] # NoRow
             /\ profiles'[Email(k)'][f] = jobs[k].value \/ Rivals(k, f)' # {}
  <2>1. CASE k = j
    <3>1. SaveProfile(j)
      BY <1>1, <1>6, <2>1 DEF Entered, RecordedSoFar
    <3>2. PICK row \in Profile :
             /\ row = IF draft[j].new THEN draft[j].row ELSE profiles[Email(j)]
             /\ profiles'[Email(j)] = Patched(row, j)
      BY <3>1, ProfileSaved
    <3>3. /\ jobs[j].kind \in {"profile", "kyc"} /\ profiles'[Email(j)] # NoRow
          /\ Email(j)' = Email(j) /\ step[j] = "save"
      BY <1>3, <3>1, ProfileSaved DEF SaveProfile
    <3>4. f \in ProfileFields \cup {"kyc_status"}
      BY <1>6, <2>1, <3>3, CallFields
    <3>5. Patched(row, j)[f] = IF f \in jobs[j].fields /\ draft[j].row[f] # jobs[j].value
                               THEN jobs[j].value ELSE row[f]
      BY <3>3, <3>4, PatchedProfile
    <3>6. Rivals(j, f) \subseteq Rivals(j, f)'
      BY <3>3, RivalsGrow
    <3>7. row[f] = draft[j].row[f] \/ Rivals(j, f) # {}
      BY <1>6, <2>1, <3>2, <3>3 DEF ProfileEdits
    <3> QED BY <1>6, <2>1, <3>2, <3>3, <3>5, <3>6, <3>7
  <2>2. CASE k # j
    <3>1. answer[k] = "Saved" /\ Email(k)' = Email(k)
      BY <1>1, <1>6, <2>2, OthersKeepEmail DEF Kept, OthersWait
    <3>2. /\ jobs[k].kind \in {"profile", "kyc"} /\ profiles[Email(k)] # NoRow
          /\ profiles[Email(k)][f] = jobs[k].value \/ Rivals(k, f) # {}
      BY <1>6, <3>1 DEF ProfileEdits
    <3> QED BY <1>4, <2>2, <3>1, <3>2
  <2> QED BY <2>1, <2>2
<1> QED BY <1>1, <1>5, <1>6 DEF ProfileEdits

\* The same for each branding row.
LEMMA BrandingEditsKept ==
    ASSUME JobInv, RecordedSoFar, ConfigTyped, DraftsTyped, CounterBounded, BrandingDrafts, BrandingEdits,
           NEW j \in Jobs, Acts(j)
    PROVE  BrandingEdits'
<1>1. Kept(j) /\ Changes(j) /\ Entered(j) /\ jobs' = jobs
  BY ActsKept, ActsChange, ActsEntered DEF Kept
\* What a job has saved or loaded of a row that is there stays or gets a rival.
<1>2. ASSUME NEW k \in Jobs \ {j}, NEW f \in jobs[k].fields, NEW v, NEW i \in ConfigIds,
             jobs[k].kind = "branding", config[i] # NoRow, config[i][f] = v \/ Rivals(k, f) # {}
      PROVE  /\ config'[i] # NoRow
             /\ config'[i][f] = v \/ Rivals(k, f)' # {}
  <2>1. Rivals(k, f) \subseteq Rivals(k, f)'
    BY <1>2, RivalsGrow
  <2>2. CASE config'[i] = config[i]
    BY <1>2, <2>1, <2>2
  <2>3. CASE CommitBranding(j) /\ i = draft[j].id
    <3>1. PICK row \in Branding :
             /\ row = IF draft[j].new THEN draft[j].row ELSE config[i]
             /\ config'[i] = Patched(row, j)
      BY <2>3, BrandingCommitted
    <3>2. ~draft[j].new
      BY <1>2, <2>3, BrandingCommitted DEF BrandingDrafts
    <3>3. jobs[j].kind = "branding" /\ config'[i] # NoRow /\ answer'[j] \in {"Branded", "Failed"}
      BY <2>3, BrandingCommitted
    <3>4. CASE f \in jobs[j].fields
      <4>1. j \in Rivals(k, f)'
        BY <1>1, <1>2, <3>3, <3>4 DEF Rivals
      <4> QED BY <3>3, <4>1
    <3>5. CASE f \notin jobs[j].fields
      <4>1. f \in BrandingFields
        BY <1>2, CallFields
      <4>2. Patched(row, j)[f] = row[f]
        BY <3>3, <3>5, <4>1, PatchedBranding
      <4> QED BY <1>2, <2>1, <3>1, <3>2, <3>3, <4>2
    <3> QED BY <3>4, <3>5
  <2> QED BY <1>1, <2>2, <2>3, BrandingCommitted DEF Changes
<1>3. ASSUME NEW k \in Jobs, NEW f \in jobs[k].fields, step'[k] = "brand", ~draft'[k].new
      PROVE  config'[draft'[k].id][f] = draft'[k].row[f] \/ Rivals(k, f)' # {}
  <2>1. CASE k = j
    BY <1>3, <2>1, BrandEntered
  <2>2. CASE k # j
    <3>1. step[k] = "brand" /\ draft'[k] = draft[k]
      BY <1>1, <1>3, <2>2, OthersDraft DEF Kept, OthersWait
    <3>2. jobs[k].kind = "branding" /\ draft[k].id \in ConfigIds /\ config[draft[k].id] # NoRow
      BY <1>3, <3>1 DEF JobInv, StepsFit, BrandingDrafts
    <3>3. config[draft[k].id][f] = draft[k].row[f] \/ Rivals(k, f) # {}
      BY <1>3, <3>1 DEF BrandingEdits
    <3> QED BY <1>2, <2>2, <3>1, <3>2, <3>3
  <2> QED BY <2>1, <2>2
<1>4. ASSUME NEW k \in Jobs, NEW f \in jobs[k].fields, answer'[k] = "Branded"
      PROVE  /\ jobs[k].kind = "branding"
             /\ draft'[k].id \in ConfigIds /\ config'[draft'[k].id] # NoRow
             /\ config'[draft'[k].id][f] = jobs[k].value \/ Rivals(k, f)' # {}
  <2>1. CASE k = j
    <3>1. CommitBranding(j)
      BY <1>1, <1>4, <2>1 DEF Entered, RecordedSoFar
    <3>2. PICK row \in Branding :
             /\ row = IF draft[j].new THEN draft[j].row ELSE config[draft[j].id]
             /\ config'[draft[j].id] = Patched(row, j)
      BY <3>1, BrandingCommitted
    <3>3. /\ jobs[j].kind = "branding" /\ config'[draft[j].id] # NoRow /\ step[j] = "brand"
          /\ draft[j].id \in ConfigIds /\ draft' = draft
      BY <3>1, BrandingCommitted
    <3>4. f \in BrandingFields
      BY <1>4, <2>1, <3>3, CallFields
    <3>5. Patched(row, j)[f] = IF f \in jobs[j].fields /\ draft[j].row[f] # jobs[j].value
                               THEN jobs[j].value ELSE row[f]
      BY <3>3, <3>4, PatchedBranding
    <3>6. Rivals(j, f) \subseteq Rivals(j, f)'
      BY <3>3, RivalsGrow
    <3>7. row[f] = draft[j].row[f] \/ Rivals(j, f) # {}
      BY <1>4, <2>1, <3>2, <3>3 DEF BrandingEdits
    <3> QED BY <1>4, <2>1, <3>2, <3>3, <3>5, <3>6, <3>7
  <2>2. CASE k # j
    <3>1. answer[k] = "Branded" /\ draft'[k] = draft[k]
      BY <1>1, <1>4, <2>2, OthersDraft DEF Kept, OthersWait
    <3>2. /\ jobs[k].kind = "branding" /\ draft[k].id \in ConfigIds /\ config[draft[k].id] # NoRow
          /\ config[draft[k].id][f] = jobs[k].value \/ Rivals(k, f) # {}
      BY <1>4, <3>1 DEF BrandingEdits
    <3> QED BY <1>2, <2>2, <3>1, <3>2
  <2> QED BY <2>1, <2>2
<1> QED BY <1>1, <1>3, <1>4 DEF BrandingEdits

\* Nothing has been saved before the first job.
LEMMA EditsInit == CustomerInit => ProfileEdits /\ BrandingEdits
BY DEF CustomerInit, JobsInit, ProfileEdits, BrandingEdits

\* Where one branding row is left, it is the one that the job has saved.
LEMMA SavedShown ==
    ASSUME ProfileEdits, BrandingEdits
    PROVE  EditsSurvive
<1> SUFFICES ASSUME NEW j \in Jobs, NEW f \in jobs[j].fields, answer[j] \in {"Saved", "Branded"}
             PROVE  \/ Target(j)[f] = jobs[j].value
                    \/ Rivals(j, f) # {}
                    \/ jobs[j].kind = "branding" /\ Cardinality(ConfigRows) > 1
  BY DEF EditsSurvive
<1>1. CASE answer[j] = "Saved"
  BY <1>1 DEF ProfileEdits, Target
<1>2. CASE answer[j] = "Branded"
  <2>1. /\ jobs[j].kind = "branding" /\ draft[j].id \in ConfigRows
        /\ config[draft[j].id][f] = jobs[j].value \/ Rivals(j, f) # {}
    BY <1>2 DEF BrandingEdits, ConfigRows
  <2>2. IsFiniteSet(ConfigRows) /\ Cardinality(ConfigRows) \in Nat
    <3>1. IsFiniteSet(ConfigIds)
      BY ConfigIdsNatural, FS_Interval DEF ConfigIds
    <3>2. ConfigRows \in SUBSET ConfigIds
      BY DEF ConfigRows
    <3>3. IsFiniteSet(ConfigRows)
      BY <3>1, <3>2, FS_Subset
    <3> QED BY <3>3, FS_CardinalityType
  <2>3. CASE Cardinality(ConfigRows) = 1
    <3>1. PICK i : ConfigRows = {i}
      BY <2>2, <2>3, FS_Singleton
    <3>2. FirstRow = draft[j].id
      BY <2>1, <3>1, FirstRowFound
    <3> QED BY <2>1, <3>2 DEF Target, EffectiveConfig
  <2>4. CASE Cardinality(ConfigRows) = 0
    BY <2>1, <2>2, <2>4, FS_EmptySet
  <2> QED BY <2>1, <2>2, <2>3, <2>4
<1> QED BY <1>1, <1>2

--------------------------------------------------------------------------
(* The whole invariant. *)

AccountsInv == NumberDrawn /\ OneNumberEach /\ RegisteredByOne
AuditInv ==
    RecordedSoFar /\ AllRecorded /\ RecordedOwn /\ OwnersKnown /\ AdminsVouched /\ AuditExplainsRole
RowsInv ==
    /\ ProfilesTyped /\ DraftsTyped /\ ConfigTyped /\ ProfileDrafts /\ BrandingDrafts /\ CounterBounded
    /\ KycVouched /\ RowsExplained /\ ProfileEdits /\ BrandingEdits

CustomerInv == JobInv /\ AccountsInv /\ AuditInv /\ RowsInv

\* The invariant holds before the first job.
LEMMA CustomerInvInit == CustomerInit => CustomerInv
<1>1. CustomerInit => RecordedOwn /\ OwnersKnown
  BY DEF CustomerInit, JobsInit, RecordedOwn, OwnersKnown
<1> QED BY <1>1, JobInvInit, NumbersInit, RegisteredInit, RecordedInit, AdminsVouchedInit,
           RolesExplainedInit, ProfilesInit, BrandingInit, EditsInit
        DEF CustomerInv, AccountsInv, AuditInv, RowsInv

\* Every step of every job keeps it.
LEMMA CustomerInvActs ==
    ASSUME CustomerInv, NEW j \in Jobs, Acts(j)
    PROVE  CustomerInv'
<1>1. JobInv'
  BY ActsKept DEF CustomerInv, Kept
<1>2. AccountsInv'
  BY NumberDrawnKept, OneNumberEachKept, RegisteredByOneKept DEF CustomerInv, AccountsInv
<1>3. AuditInv'
  BY RecordedSoFarKept, RecordedOwnKept, OwnersKnownKept, AdminsVouchedKept, RolesExplainedKept
     DEF CustomerInv, AuditInv
<1>4. RowsInv'
  <2>1. ProfilesTyped' /\ DraftsTyped' /\ ConfigTyped'
    BY ProfileDraftsKept, DraftsTypedKept, BrandingDraftsKept DEF CustomerInv, RowsInv
  <2>2. ProfileDrafts' /\ BrandingDrafts' /\ CounterBounded'
    BY ProfileDraftsKept, BrandingDraftsKept, CounterBoundedKept DEF CustomerInv, RowsInv
  <2>3. KycVouched' /\ RowsExplained'
    BY KycVouchedKept, RowsExplainedKept DEF CustomerInv, RowsInv
  <2>4. ProfileEdits' /\ BrandingEdits'
    BY ProfileEditsKept, BrandingEditsKept DEF CustomerInv, AuditInv, RowsInv
  <2> QED BY <2>1, <2>2, <2>3, <2>4 DEF RowsInv
<1> QED BY <1>1, <1>2, <1>3, <1>4 DEF CustomerInv

\* So does a step in which nothing happens.
LEMMA CustomerInvStutter ==
    ASSUME CustomerInv, UNCHANGED customerVars
    PROVE  CustomerInv'
<1>1. /\ users' = users /\ numbers' = numbers /\ audit' = audit /\ tokens' = tokens
      /\ jobs' = jobs /\ local' = local /\ step' = step /\ at' = at /\ locked' = locked
      /\ answer' = answer /\ profiles' = profiles /\ config' = config /\ lastId' = lastId
      /\ draft' = draft
  BY DEF customerVars, jobVars, tables, recordVars
<1>2. /\ \A j : Email(j)' = Email(j) /\ IsStart(j)' = IsStart(j) /\ Recorded(j)' = Recorded(j)
      /\ \A j, f : Rivals(j, f)' = Rivals(j, f)
      /\ Inserted' = Inserted /\ Promotions' = Promotions
  BY <1>1 DEF Email, IsStart, Recorded, Rivals, Inserted, Promotions
<1>t. \A j : TokenEvent(j)' = TokenEvent(j)
  BY <1>1 DEF TokenEvent
<1>3. JobInv'
  BY <1>1, <1>2 DEF CustomerInv, JobInv, JobsTypeOK, StepsFit, LocksHeld, UsersKnown, Authorised, IsUser
<1>4. AccountsInv'
  BY <1>1, <1>2 DEF CustomerInv, AccountsInv, NumberDrawn, OneNumberEach, RegisteredByOne, Registered,
     IsUser
<1>5. AuditInv'
  <2>1. RecordedSoFar' /\ AllRecorded'
    BY <1>1, <1>2, <1>t DEF CustomerInv, AuditInv, RecordedSoFar, AllRecorded, AnswerRecorded
  <2>2. AdminsVouched' /\ AuditExplainsRole'
    BY <1>1, <1>2 DEF CustomerInv, AuditInv, AdminsVouched, AuditExplainsRole, IsUser
  <2>3. RecordedOwn' /\ OwnersKnown'
    BY <1>1, <1>2 DEF CustomerInv, AuditInv, RecordedOwn, OwnersKnown
  <2> QED BY <2>1, <2>2, <2>3 DEF AuditInv
<1>6. RowsInv'
  <2>1. ProfilesTyped' /\ DraftsTyped' /\ ConfigTyped' /\ CounterBounded'
    BY <1>1, <1>2 DEF CustomerInv, RowsInv, ProfilesTyped, DraftsTyped, ConfigTyped, CounterBounded
  <2>2. ProfileDrafts' /\ BrandingDrafts'
    BY <1>1, <1>2 DEF CustomerInv, RowsInv, ProfileDrafts, BrandingDrafts
  <2>3. KycVouched' /\ RowsExplained'
    BY <1>1, <1>2 DEF CustomerInv, RowsInv, KycVouched, RowsExplained, IsUser
  <2>4. ProfileEdits' /\ BrandingEdits'
    BY <1>1, <1>2 DEF CustomerInv, RowsInv, ProfileEdits, BrandingEdits
  <2> QED BY <2>1, <2>2, <2>3, <2>4 DEF RowsInv
<1> QED BY <1>3, <1>4, <1>5, <1>6 DEF CustomerInv

\* So does every step.
LEMMA CustomerInvNext ==
    ASSUME CustomerInv, [CustomerNext \/ Quiet]_customerVars
    PROVE  CustomerInv'
<1>1. CASE CustomerNext
  <2>1. PICK j \in Jobs : Acts(j)
    BY <1>1 DEF CustomerNext, Acts
  <2> QED BY <2>1, CustomerInvActs
<1>2. CASE UNCHANGED customerVars
  BY <1>2, CustomerInvStutter
<1> QED BY <1>1, <1>2 DEF Quiet

\* The invariant behind all results about customers: where every registration, start,
\* login, role change, PATCH, verdict and change of the branding is, what it holds and
\* what it may rely on, between any two statements of the others.
THEOREM CustomerInvHolds == CustomerSpec => []CustomerInv
<1>1. CustomerInit => CustomerInv
  BY CustomerInvInit
<1>2. CustomerInv /\ [CustomerNext \/ Quiet]_customerVars => CustomerInv'
  BY CustomerInvNext
<1> QED BY <1>1, <1>2, PTL DEF CustomerSpec

\* Every table, every job and every row in flight keeps its type: no PATCH puts a value
\* of one field into another, and no two first changes of the branding can draw more
\* numbers than there are jobs, although update_branding looks before it inserts.
THEOREM CustomerTypes == CustomerSpec => []RecordsTypeOK
<1>1. CustomerInv => RecordsTypeOK
  <2> SUFFICES ASSUME CustomerInv PROVE RecordsTypeOK
    OBVIOUS
  <2>1. Inserted \in SUBSET Jobs
    BY DEF Inserted
  <2>2. IsFiniteSet(Inserted) /\ Cardinality(Inserted) <= Cardinality(Jobs)
    BY <2>1, JobsAssumption, FS_Subset
  <2>3. Cardinality(Inserted) \in Nat
    BY <2>2, FS_CardinalityType
  <2>4. lastId \in Nat /\ lastId <= Cardinality(Inserted) + 1
    BY DEF CustomerInv, RowsInv, CounterBounded
  <2>5. lastId = 0 \/ (lastId >= 1 /\ lastId <= Cardinality(Jobs) + 1)
    BY <2>2, <2>3, <2>4, ConfigIdsNatural
  <2>6. lastId \in ConfigIds \cup {0}
    BY <2>4, <2>5, ConfigIdsNatural
  <2> QED BY <2>6 DEF CustomerInv, JobInv, RowsInv, ProfilesTyped, ConfigTyped, DraftsTyped, RecordsTypeOK
<1> QED BY <1>1, CustomerInvHolds, PTL

\* Every user has exactly one primary account and nobody else has any, although
\* register_user and ensure_demo_accounts draw numbers from stale snapshots, and start and
\* registration compete for one address.
THEOREM CustomersOneAccount == CustomerSpec => []PrimaryAccount
<1>1. CustomerInv => PrimaryAccount
  BY NumbersCount DEF CustomerInv, AccountsInv
<1> QED BY <1>1, CustomerInvHolds, PTL

\* Among all the registrations and starts of one address, one is audited and answered.
THEOREM CustomersRegisteredOnce == CustomerSpec => []RegisteredOnce
<1>1. CustomerInv => RegisteredOnce
  BY RegisteredCount DEF CustomerInv, AccountsInv
<1> QED BY <1>1, CustomerInvHolds, PTL

\* What record_audit_event has written by the time a caller is answered is exactly what
\* the answer calls for.
THEOREM CustomersAnswersAudited == CustomerSpec => []AnswersAudited
<1>1. CustomerInv => AnswersAudited
  BY RecordedAnswers DEF CustomerInv, AuditInv
<1> QED BY <1>1, CustomerInvHolds, PTL

\* No administrator without an unbroken chain of audited promotions from the first ones,
\* although tokens keep the claim of a role that update_user_role has taken away.
THEOREM CustomersAdminsVouched == CustomerSpec => []AdminsVouched
<1>1. CustomerInv => AdminsVouched
  BY DEF CustomerInv, AuditInv
<1> QED BY <1>1, CustomerInvHolds, PTL

\* The role of each user is the first one or one that the audit log knows of.
THEOREM CustomersRolesExplained == CustomerSpec => []AuditExplainsRole
<1>1. CustomerInv => AuditExplainsRole
  BY DEF CustomerInv, AuditInv
<1> QED BY <1>1, CustomerInvHolds, PTL

\* Whatever a profile says of its KYC status, an administrator said it, or nobody yet.
THEOREM CustomersKycVouched == CustomerSpec => []KycVouched
<1>1. CustomerInv => KycVouched
  BY DEF CustomerInv, RowsInv
<1> QED BY <1>1, CustomerInvHolds, PTL

\* Whatever branding effective_config shows, an audited change by an administrator, the
\* first state or the defaults explain it field by field.
THEOREM CustomersBrandingExplained == CustomerSpec => []BrandingExplained
<1>1. CustomerInv => BrandingExplained
  BY ShownExplained DEF CustomerInv, RowsInv
<1> QED BY <1>1, CustomerInvHolds, PTL

\* What a caller was told is saved is overwritten only by somebody else who names the same
\* field; the UPDATE of the changed columns alone is what makes it so.
THEOREM CustomersEditsSurvive == CustomerSpec => []EditsSurvive
<1>1. CustomerInv => EditsSurvive
  BY SavedShown DEF CustomerInv, RowsInv
<1> QED BY <1>1, CustomerInvHolds, PTL

--------------------------------------------------------------------------
(* The refinement: each commit is a step of the registry, everything else is none. *)

\* The registry numbers branding rows alike.
LEMMA SameIds == Registry!ConfigIds = ConfigIds
BY DEF ConfigIds, Registry!ConfigIds, Cardinality, Registry!Cardinality

\* A job works on an address that concerns it.
LEMMA ConcernsEmail ==
    ASSUME JobInv, NEW j \in Jobs
    PROVE  Email(j) \in Registry!Concerns(j) /\ Email(j) \in Emails
<1>1. at[j] \in 1..Len(DemoUsers)
  BY DEF JobInv, JobsTypeOK
<1>2. Email(j) \in Registry!Concerns(j)
  BY <1>1 DEF Email, IsStart, Registry!Concerns
<1> QED BY <1>2, EmailTyped DEF JobInv

\* A job that records an event has recorded nothing, or nothing about this address.
LEMMA RecordedOnce ==
    ASSUME CustomerInv, NEW j \in Jobs, Records(j)
    PROVE  \A t \in audit : t[2] = j => jobs[j].kind = "start" /\ t[3] # Email(j)
<1> SUFFICES ASSUME NEW t \in audit, t[2] = j
             PROVE  jobs[j].kind = "start" /\ t[3] # Email(j)
  OBVIOUS
<1>1. t[1] \in Recorded(j)
  BY DEF Recorded
<1>2. IsStart(j)
  BY <1>1 DEF Records, CustomerInv, AuditInv, RecordedSoFar
<1>3. AuditRegistration(j) /\ step[j] = "audit"
  BY <1>2 DEF Records
<1>4. t[1] = "USER_REGISTERED"
  BY <1>1, <1>2 DEF CustomerInv, AuditInv, RecordedSoFar
<1>5. t = <<t[1], t[2], t[3]>>
  BY AuditTriple DEF CustomerInv
<1>6. Registered(j, t[3])
  BY <1>4, <1>5 DEF Registered
<1>7. ~Registered(j, Email(j))
  BY <1>3 DEF CustomerInv, AccountsInv, RegisteredByOne
<1> QED BY <1>2, <1>6, <1>7 DEF IsStart

\* What is recorded is recorded as the registry does.
LEMMA RecordIsRecords ==
    ASSUME CustomerInv, NEW j \in Jobs, NEW event, Records(j), Record(event, j)
    PROVE  Registry!Records(event, j, Email(j))
BY RecordedOnce DEF Record, Registry!Records

\* The commit of user and account.
LEMMA ProvisionIsRegister ==
    ASSUME CustomerInv, NEW j \in Jobs, ProvisionAccount(j), UNCHANGED recordVars
    PROVE  Registry!Register(j, Email(j)) \/ UNCHANGED Registry!registryVars
<1>1. UNCHANGED <<audit, tokens, jobs, profiles, config>>
  BY DEF ProvisionAccount, recordVars
<1>2. CASE UNCHANGED <<users, numbers>>
  BY <1>1, <1>2 DEF Registry!registryVars
<1>3. CASE /\ local[j].number \cap Taken = {}
           /\ users' = [users EXCEPT ![Email(j)] = "CUSTOMER"]
           /\ numbers' = [numbers EXCEPT ![Email(j)] = @ \cup local[j].number]
  <2>1. step[j] = "provision" /\ Email(j) \in Emails
    BY EmailTyped DEF ProvisionAccount, CustomerInv, JobInv
  <2>2. jobs[j].kind \in {"register", "start"} /\ ~IsUser(Email(j))
    BY <2>1 DEF CustomerInv, JobInv, StepsFit, LocksHeld
  <2>3. PICK n \in Numbers : local[j].number = {n}
    BY <2>1 DEF CustomerInv, AccountsInv, NumberDrawn
  <2>4. numbers[Email(j)] = {} /\ numbers \in [Emails -> SUBSET Numbers]
    BY <2>1, <2>2 DEF CustomerInv, AccountsInv, OneNumberEach, JobInv, JobsTypeOK
  <2>5. numbers' = [numbers EXCEPT ![Email(j)] = {n}]
    BY <1>3, <2>1, <2>3, <2>4
  <2>6. \A f \in Emails : n \notin numbers[f]
    BY <1>3, <2>3 DEF Taken
  <2> QED BY <1>1, <1>3, <2>2, <2>5, <2>6 DEF Registry!Register, Registry!IsUser, IsUser
<1> QED BY <1>2, <1>3 DEF ProvisionAccount

\* The audit row of a registration.
LEMMA AuditIsRecordRegistration ==
    ASSUME CustomerInv, NEW j \in Jobs, AuditRegistration(j), UNCHANGED recordVars
    PROVE  Registry!RecordRegistration(j, Email(j))
<1>1. step[j] = "audit" /\ Email(j) \in Emails /\ Record("USER_REGISTERED", j) /\ Records(j)
  BY EmailTyped DEF AuditRegistration, CustomerInv, JobInv, Records
<1>2. jobs[j].kind \in {"register", "start"} /\ IsUser(Email(j))
  BY <1>1 DEF CustomerInv, JobInv, StepsFit, UsersKnown
<1>3. OpeningRoles[Email(j)] = NoUser /\ \A i \in Jobs : ~Registered(i, Email(j))
  BY <1>1 DEF CustomerInv, AccountsInv, RegisteredByOne
<1>4. \A t \in audit : ~(t[1] = "USER_REGISTERED" /\ t[3] = Email(j))
  <2> SUFFICES ASSUME NEW t \in audit, t[1] = "USER_REGISTERED", t[3] = Email(j)
               PROVE  FALSE
    OBVIOUS
  <2>1. t = <<t[1], t[2], t[3]>> /\ t[2] \in Jobs
    BY AuditTriple DEF CustomerInv
  <2>2. Registered(t[2], Email(j))
    BY <2>1 DEF Registered
  <2> QED BY <1>3, <2>1, <2>2
<1>5. Registry!Records("USER_REGISTERED", j, Email(j))
  BY <1>1, RecordIsRecords
<1>6. UNCHANGED <<users, numbers, tokens, profiles, config, jobs>>
  BY DEF AuditRegistration, recordVars
<1> QED BY <1>2, <1>3, <1>4, <1>5, <1>6 DEF Registry!RecordRegistration, Registry!IsUser, IsUser

\* A login, accepted or refused, is recorded.
LEMMA LoginIsLogin ==
    ASSUME CustomerInv, NEW j \in Jobs, RefuseLogin(j) \/ AcceptLogin(j), UNCHANGED recordVars
    PROVE  Registry!Login(j, Email(j))
<1>1. jobs[j].kind = "login" /\ UNCHANGED <<users, numbers, tokens, profiles, config, jobs>>
  BY DEF RefuseLogin, AcceptLogin, recordVars
<1>2. PICK event \in {"LOGIN_SUCCESS", "LOGIN_FAILED"} :
         Record(event, j) /\ Records(j) /\ (event = "LOGIN_SUCCESS" => IsUser(Email(j)))
  BY DEF RefuseLogin, AcceptLogin, Records, IsStart
<1>3. Registry!Records(event, j, Email(j))
  BY <1>2, RecordIsRecords
<1> QED BY <1>1, <1>2, <1>3 DEF Registry!Login, Registry!IsUser, IsUser

\* The token follows the audit row of the login or the registration.
LEMMA TokenIsIssueToken ==
    ASSUME CustomerInv, NEW j \in Jobs, IssueToken(j), UNCHANGED recordVars
    PROVE  Registry!IssueToken(j, Email(j))
<1>1. step[j] = "token" /\ UNCHANGED <<users, numbers, audit, profiles, config, jobs>>
  BY DEF IssueToken, recordVars
<1>2. jobs[j].kind \in {"login", "register"} /\ Recorded(j) = {TokenEvent(j)}
  BY <1>1 DEF CustomerInv, JobInv, StepsFit, AuditInv, RecordedSoFar
<1>3. PICK t \in audit : t[2] = j /\ t[1] = TokenEvent(j)
  BY <1>2 DEF Recorded
<1>4. t = <<t[1], t[2], t[3]>>
  BY AuditTriple DEF CustomerInv
<1>5. t[3] = Email(j)
  BY <1>2, <1>3 DEF CustomerInv, AuditInv, RecordedOwn, Email, IsStart
<1>6. <<TokenEvent(j), j, Email(j)>> \in audit
  BY <1>3, <1>4, <1>5
<1>7. TokenEvent(j) \in {"LOGIN_SUCCESS", "USER_REGISTERED"}
  BY DEF TokenEvent
<1> QED BY <1>1, <1>2, <1>6, <1>7 DEF Registry!IssueToken, IssueToken

\* The commit of a role with its audit row.
LEMMA RoleIsChangeRole ==
    ASSUME CustomerInv, NEW j \in Jobs, CommitRole(j), UNCHANGED recordVars
    PROVE  Registry!ChangeRole(j, Email(j))
<1>1. step[j] = "grant" /\ UNCHANGED <<numbers, tokens, profiles, config, jobs>>
  BY DEF CommitRole, recordVars
<1>2. jobs[j].kind = "role" /\ IsUser(Email(j)) /\ <<jobs[j].actor, "ADMIN">> \in tokens
  BY <1>1 DEF CustomerInv, JobInv, StepsFit, UsersKnown, Authorised
<1>3. Records(j) /\ Record("ROLE_UPDATED", j)
  BY <1>1, <1>2 DEF CommitRole, Records, IsStart
<1>4. Registry!Records("ROLE_UPDATED", j, Email(j))
  BY <1>3, RecordIsRecords
<1>5. users' \in {users, [users EXCEPT ![Email(j)] = jobs[j].role]}
  BY DEF CommitRole
<1> QED BY <1>1, <1>2, <1>4, <1>5 DEF Registry!ChangeRole, Registry!IsUser, Registry!OnWordOf, IsUser

\* A demo customer is known and has an account, so a start changes nothing of it.
LEMMA SyncIsNothing ==
    ASSUME CustomerInv, NEW j \in Jobs, SyncDemoUser(j)
    PROVE  numbers' = numbers
<1>1. IsUser(Email(j)) /\ Email(j) \in Emails
  BY EmailTyped DEF SyncDemoUser, CustomerInv, JobInv, UsersKnown
<1>2. numbers[Email(j)] # {} /\ numbers \in [Emails -> SUBSET Numbers]
  BY <1>1 DEF CustomerInv, AccountsInv, OneNumberEach, JobInv, JobsTypeOK
<1>3. numbers' = [numbers EXCEPT ![Email(j)] = numbers[Email(j)]]
  BY <1>2 DEF SyncDemoUser
<1> QED BY <1>2, <1>3

\* An UPDATE sets some of the fields it was asked to set.
LEMMA PatchedIsEdited ==
    ASSUME NEW j \in Jobs, NEW row
    PROVE  Patched(row, j) \in Registry!Edited(row, j)
<1> DEFINE F == {f \in jobs[j].fields : draft[j].row[f] # jobs[j].value}
           written(G) == [f \in DOMAIN row |-> IF f \in G THEN jobs[j].value ELSE row[f]]
<1>1. F \in SUBSET jobs[j].fields
  OBVIOUS
<1>2. Patched(row, j) = written(F)
  BY DEF Patched
<1>3. written(F) \in {written(G) : G \in SUBSET jobs[j].fields}
  BY <1>1
<1> QED BY <1>2, <1>3 DEF Registry!Edited

\* The commit of a profile.
LEMMA SaveIsSaveProfile ==
    ASSUME CustomerInv, NEW j \in Jobs, SaveProfile(j)
    PROVE  Registry!SaveProfile(j, Email(j))
<1> DEFINE row == IF draft[j].new THEN draft[j].row ELSE profiles[Email(j)]
           now == IF profiles[Email(j)] = NoRow THEN BlankProfile ELSE profiles[Email(j)]
<1>1. /\ step[j] = "save" /\ UNCHANGED <<users, numbers, tokens, audit, config, jobs>>
      /\ profiles' = [profiles EXCEPT ![Email(j)] = Patched(row, j)]
  BY DEF SaveProfile, tables
<1>2. row = now
  BY <1>1 DEF CustomerInv, RowsInv, ProfileDrafts
<1>3. IsUser(Email(j)) /\ jobs[j].kind \in {"profile", "kyc"}
  BY <1>1 DEF CustomerInv, JobInv, StepsFit, UsersKnown
<1>6. Patched(now, j) \in Registry!Edited(now, j)
  BY PatchedIsEdited
<1>7. \/ jobs[j].kind = "profile" /\ \E t \in tokens : t[1] = Email(j)
      \/ jobs[j].kind = "kyc" /\ Registry!OnWordOf(jobs[j].actor) /\ profiles[Email(j)] # NoRow
  <2>1. jobs[j].kind = "profile" => \E t \in tokens : t[1] = Email(j)
    BY <1>1 DEF CustomerInv, AuditInv, OwnersKnown, Email, IsStart
  <2>2. jobs[j].kind = "kyc" => <<jobs[j].actor, "ADMIN">> \in tokens
    BY <1>1 DEF CustomerInv, JobInv, Authorised
  <2>3. jobs[j].kind = "kyc" => profiles[Email(j)] # NoRow
    BY <1>1 DEF CustomerInv, RowsInv, ProfileDrafts
  <2> QED BY <1>3, <2>1, <2>2, <2>3 DEF Registry!OnWordOf
<1>8. now = IF profiles[Email(j)] = NoRow THEN Registry!BlankProfile ELSE profiles[Email(j)]
  BY DEF BlankProfile, Registry!BlankProfile, ProfileFields, Registry!ProfileFields
<1> HIDE DEF row, now
<1> QED BY <1>1, <1>2, <1>3, <1>6, <1>7, <1>8 DEF Registry!SaveProfile, Registry!IsUser, IsUser

\* The commit of the branding with its audit row.
LEMMA BrandingIsBrand ==
    ASSUME CustomerInv, NEW j \in Jobs, CommitBranding(j)
    PROVE  Registry!Brand(j)
<1> DEFINE row == IF draft[j].new THEN draft[j].row ELSE config[draft[j].id]
           now == IF config[draft[j].id] = NoRow THEN BlankBranding ELSE config[draft[j].id]
<1>1. /\ step[j] = "brand" /\ UNCHANGED <<users, numbers, tokens, profiles, jobs>>
      /\ config' = [config EXCEPT ![draft[j].id] = Patched(row, j)]
      /\ Record("BRANDING_UPDATED", j)
  BY DEF CommitBranding
<1>2. row = now /\ draft[j].id \in ConfigIds
  BY <1>1 DEF CustomerInv, RowsInv, BrandingDrafts
<1>3. jobs[j].kind = "branding" /\ Registry!OnWordOf(jobs[j].actor)
  BY <1>1 DEF CustomerInv, JobInv, StepsFit, Authorised, Registry!OnWordOf
<1>4. Email(j) = jobs[j].actor
  BY <1>3, CallTyped DEF Email, IsStart, CustomerInv, JobInv
<1>5. Records(j)
  BY <1>1, <1>3 DEF Records, IsStart
<1>6. Registry!Records("BRANDING_UPDATED", j, jobs[j].actor)
  BY <1>1, <1>4, <1>5, RecordIsRecords
<1>7. Patched(now, j) \in Registry!Edited(now, j)
  BY PatchedIsEdited
<1>8. now = IF config[draft[j].id] = NoRow THEN Registry!BlankBranding ELSE config[draft[j].id]
  BY DEF BlankBranding, Registry!BlankBranding, BrandingFields, Registry!BrandingFields
<1>9. draft[j].id \in Registry!ConfigIds
  BY <1>2, SameIds
<1> HIDE DEF row, now
<1> QED BY <1>1, <1>2, <1>3, <1>6, <1>7, <1>8, <1>9 DEF Registry!Brand

\* Every step of a job is one of the registry or none.
LEMMA ActsInRegistry ==
    ASSUME CustomerInv, NEW j \in Jobs, Acts(j)
    PROVE  Registry!RegistryNext \/ UNCHANGED Registry!registryVars
<1>1. Email(j) \in Registry!Concerns(j)
  BY ConcernsEmail DEF CustomerInv
<1>2. Changes(j) /\ jobs' = jobs
  BY ActsKept, ActsChange DEF CustomerInv, Kept
<1>3. SaveProfile(j) \/ CommitBranding(j) \/ InsertBranding(j) \/ RecordArrival(j) \/ InsertProfile(j)
      \/ UNCHANGED recordVars
  BY DEF Acts, Arrival, Work, RecordWork
<1>4. CASE SaveProfile(j)
  BY <1>1, <1>4, SaveIsSaveProfile DEF Registry!RegistryNext
<1>5. CASE CommitBranding(j)
  BY <1>5, BrandingIsBrand DEF Registry!RegistryNext
<1>6. CASE RecordArrival(j) \/ InsertProfile(j) \/ InsertBranding(j)
  BY <1>6 DEF RecordArrival, LoadProfile, CheckKyc, CheckBranding, InsertProfile, InsertBranding, tables,
     Registry!registryVars
<1>7. CASE UNCHANGED recordVars
  <2>1. CASE ProvisionAccount(j)
    BY <1>1, <1>7, <2>1, ProvisionIsRegister DEF Registry!RegistryNext
  <2>2. CASE AuditRegistration(j)
    BY <1>1, <1>7, <2>2, AuditIsRecordRegistration DEF Registry!RegistryNext
  <2>3. CASE RefuseLogin(j) \/ AcceptLogin(j)
    BY <1>1, <1>7, <2>3, LoginIsLogin DEF Registry!RegistryNext
  <2>4. CASE IssueToken(j)
    BY <1>1, <1>7, <2>4, TokenIsIssueToken DEF Registry!RegistryNext
  <2>5. CASE CommitRole(j)
    BY <1>1, <1>7, <2>5, RoleIsChangeRole DEF Registry!RegistryNext
  <2>6. CASE SyncDemoUser(j)
    BY <1>7, <2>6, SyncIsNothing DEF SyncDemoUser, recordVars, Registry!registryVars
  <2>7. CASE UNCHANGED <<users, numbers, audit, tokens>>
    BY <1>2, <1>7, <2>7 DEF recordVars, Registry!registryVars
  <2> QED BY <1>2, <1>5, <2>1, <2>2, <2>3, <2>4, <2>5, <2>6, <2>7 DEF Changes
<1> QED BY <1>3, <1>4, <1>5, <1>6, <1>7

\* Registrations, starts, logins, role changes, PATCHes, verdicts and changes of the
\* branding, statement by statement, on stale reads, with failures between any two, do
\* nothing that a registry would not which handles each commit as one step: nobody's
\* account number, role, profile or branding row changes in any other way, by any other
\* word, or without the audit row that goes with it.
THEOREM CustomersRefineRegistry == CustomerSpec => ImplementsCustomerRegistry
<1>1. CustomerInit => Registry!RegistryInit
  BY SameIds DEF CustomerInit, JobsInit, RecordsInit, Registry!RegistryInit
<1>2. CustomerInv /\ [CustomerNext \/ Quiet]_customerVars => [Registry!RegistryNext]_(Registry!registryVars)
  <2> SUFFICES ASSUME CustomerInv, [CustomerNext \/ Quiet]_customerVars
               PROVE  Registry!RegistryNext \/ UNCHANGED Registry!registryVars
    OBVIOUS
  <2>1. CASE CustomerNext
    <3>1. PICK j \in Jobs : Acts(j)
      BY <2>1 DEF CustomerNext, Acts
    <3> QED BY <3>1, ActsInRegistry
  <2>2. CASE UNCHANGED customerVars
    BY <2>2 DEF customerVars, jobVars, tables, recordVars, Registry!registryVars
  <2> QED BY <2>1, <2>2 DEF Quiet
<1> QED BY <1>1, <1>2, CustomerInvHolds, PTL
        DEF CustomerSpec, ImplementsCustomerRegistry, Registry!RegistrySpec
=============================================================================
