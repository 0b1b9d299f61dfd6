--------------------------- MODULE CustomerSystem ---------------------------
(***************************************************************************)
(* Everything that happens to customers: accounts and roles (AuthService)  *)
(* beside profiles, KYC and branding (CustomerRecords), on one database.   *)
(***************************************************************************)
EXTENDS AuthService, CustomerRecords

customerVars == <<jobVars, recordVars>>

CustomerInit == JobsInit /\ RecordsInit

Arrival(j) == (AuthArrival(j) /\ UNCHANGED recordVars) \/ RecordArrival(j)
Work(j) == (AuthWork(j) /\ UNCHANGED recordVars) \/ RecordWork(j)

CustomerNext ==
    \E j \in Jobs : Arrival(j) \/ Work(j) \/ (Abort(j) /\ UNCHANGED recordVars)

\* Every job has ended, but for those whose actor never got the token they need.
Quiet ==
    /\ \A j \in Jobs :
          \/ step[j] = "done"
          \/ /\ jobs[j].kind \notin {"register", "login", "start"}
             /\ \A t \in tokens : t[1] # jobs[j].actor
    /\ UNCHANGED customerVars

CustomerSpec == CustomerInit /\ [][CustomerNext \/ Quiet]_customerVars

\* A worker thread goes on with the job it has begun.
FairCustomerSpec == CustomerSpec /\ \A j \in Jobs : WF_customerVars(Work(j))
-----------------------------------------------------------------------------
\* The audit row of whatever the caller was told: a success or a refused login has its
\* row, a refusal without side effects has none.
AnswersAudited ==
    \A j \in Jobs :
        LET recorded == {t[1] : t \in {u \in audit : u[2] = j}}
        IN  CASE answer[j] = "Registered"   -> recorded = {"USER_REGISTERED"}
              [] answer[j] = "Token"        -> recorded = {"LOGIN_SUCCESS"}
              [] answer[j] = "Unauthorized" -> recorded = {"LOGIN_FAILED"}
              [] answer[j] = "Updated"      -> recorded = {"ROLE_UPDATED"}
              [] answer[j] = "Branded"      -> recorded = {"BRANDING_UPDATED"}
              [] answer[j] \in {"Exists", "Forbidden", "Invalid", "NotFound", "Saved"} -> recorded = {}
              [] OTHER -> Cardinality(recorded) <= 1

\* Statement by statement, with failures anywhere, the operations on customers do what the
\* registry does in one step for each commit.
Registry == INSTANCE CustomerRegistry WITH calls <- jobs
ImplementsCustomerRegistry == Registry!RegistrySpec

\* Every job that has begun ends, although two administrators who change each other's
\* role wait for each other.
EveryJobEnds == \A j \in Jobs : step[j] \notin {"idle", "done"} ~> step[j] \in {"idle", "done"}
=============================================================================
