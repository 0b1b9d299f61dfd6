--------------------------- MODULE TransferService ---------------------------
(***************************************************************************)
(* execute_transfer (app/services/transfer_service.py), run by any number  *)
(* of requests at once, each in a database session of its own.  One action *)
(* per point where the function touches the database: the idempotency      *)
(* lookup, the two SELECT ... FOR UPDATE, the flush of the transactions    *)
(* row, and the commit.  Between those points it only computes.            *)
(***************************************************************************)
EXTENDS Database

VARIABLES
    pc,        \* where each request is in execute_transfer
    session,   \* the session's identity map: the account row each request has loaded
    outcome    \* what the call returned or raised

requestVars == <<pc, session, outcome>>
transferVars == <<dbVars, requestVars>>

Steps == {"idle", "lock1", "lock2", "validate", "commit", "done"}
Refusals == {"InvalidTransfer", "KeyConflict", "AccountNotFound", "AccountInactive",
             "InsufficientBalance"}
Outcomes == {"none", "Executed", "Replayed", "IntegrityError", "Error"} \cup Refusals

NothingLoaded == [a \in AccountIds |-> NoRow]

TransferInit ==
    /\ DatabaseInit
    /\ pc = [r \in Requests |-> "idle"]
    /\ session = [r \in Requests |-> NothingLoaded]
    /\ outcome = [r \in Requests |-> "none"]

Return(r, o) ==
    /\ pc' = [pc EXCEPT ![r] = "done"]
    /\ outcome' = [outcome EXCEPT ![r] = o]

\* Mutant of Rollback: the connection goes back to the pool with its locks.
RollbackKeepsLocks(r) ==
    /\ transactions' = [transactions EXCEPT ![r] = "NONE"]
    /\ UNCHANGED <<accounts, ledger, audit, held, args>>

\* db_session.rollback(): locks and the unflushed or flushed row are gone.
Rollback(r) ==
    /\ held' = [held EXCEPT ![r] = {}]
    /\ transactions' = [transactions EXCEPT ![r] = "NONE"]
    /\ UNCHANGED <<accounts, ledger, audit, args>>

-----------------------------------------------------------------------------
\* Mutant of Existing: the lookup reads uncommitted rows.
ExistingUncommitted(c) == KeyHolders(c.key, "COMPLETED") \cup KeyHolders(c.key, "PENDING")

\* Committed transfers under the key of c; a false key is not looked up.
Existing(c) == IF c.key = EmptyKey THEN {} ELSE KeyHolders(c.key, "COMPLETED")

\* From the call to the first lock, with the rows the session has loaded before.
\* The lookup is one query: another request may still insert the same key later.
Enter(r, loaded) ==
    LET c == args[r]
    IN  /\ pc[r] = "idle"
        /\ session' = [session EXCEPT ![r] = loaded]
        /\ \/ /\ c.amount <= 0
              /\ Return(r, "InvalidTransfer")
           \/ /\ c.amount > 0
              /\ \E q \in Existing(c) :
                    Return(r, IF SameTransfer(args[q], c) THEN "Replayed" ELSE "KeyConflict")
           \/ /\ c.amount > 0
              /\ Existing(c) = {}
              /\ c.sender = c.receiver
              /\ Return(r, "InvalidTransfer")
           \/ /\ c.amount > 0
              /\ Existing(c) = {}
              /\ c.sender # c.receiver
              /\ pc' = [pc EXCEPT ![r] = "lock1"]
              /\ UNCHANGED outcome
        /\ UNCHANGED dbVars

Call(r) == Enter(r, NothingLoaded)

\* Mutant of LockAccount: a plain SELECT.
SelectAccount(r, a, from, to) ==
    /\ pc[r] = from
    /\ pc' = [pc EXCEPT ![r] = to]
    /\ session' = [session EXCEPT ![r][a] = IF @ = NoRow THEN accounts[a] ELSE @]
    /\ UNCHANGED <<dbVars, outcome>>

\* SELECT ... FOR UPDATE of account a.  A missing row locks nothing.  An object the
\* session already holds keeps its loaded attributes: the query does not refresh it.
LockAccount(r, a, from, to) ==
    /\ pc[r] = from
    /\ pc' = [pc EXCEPT ![r] = to]
    /\ \/ /\ Exists(a)
          /\ RowFree(a)
          /\ held' = [held EXCEPT ![r] = @ \cup {a}]
          /\ session' = [session EXCEPT ![r][a] = IF @ = NoRow THEN accounts[a] ELSE @]
       \/ /\ ~Exists(a)
          /\ UNCHANGED <<held, session>>
    /\ UNCHANGED <<accounts, transactions, ledger, audit, args, outcome>>

LockFirst(r) == LockAccount(r, FirstId(args[r]), "lock1", "lock2")
LockSecond(r) == LockAccount(r, SecondId(args[r]), "lock2", "validate")

-----------------------------------------------------------------------------
\* Step 4 reads the loaded objects, not the table.
Found(r) == \A a \in {args[r].sender, args[r].receiver} : session[r][a] # NoRow

\* Mutants of BothActive and Funded: only the sender is checked; any balance will do.
SenderActive(r) == session[r][args[r].sender].status = "ACTIVE"
NotEmpty(r) == session[r][args[r].sender].balance > 0

BothActive(r) == \A a \in {args[r].sender, args[r].receiver} : session[r][a].status = "ACTIVE"
Funded(r) == 10 * session[r][args[r].sender].balance >= Asked(args[r])
Valid(r) == Found(r) /\ BothActive(r) /\ Funded(r)

Refuse(r) ==
    /\ pc[r] = "validate"
    /\ \/ ~Found(r) /\ Return(r, "AccountNotFound")
       \/ Found(r) /\ ~BothActive(r) /\ Return(r, "AccountInactive")
       \/ Found(r) /\ BothActive(r) /\ ~Funded(r) /\ Return(r, "InsufficientBalance")
    /\ Rollback(r)
    /\ UNCHANGED session

\* Mutant of Flush: idempotency_key is not unique in the table.
FlushWithoutUniqueIndex(r) ==
    /\ pc[r] = "validate"
    /\ Valid(r)
    /\ transactions' = [transactions EXCEPT ![r] = "PENDING"]
    /\ pc' = [pc EXCEPT ![r] = "commit"]
    /\ UNCHANGED <<accounts, ledger, audit, held, args, session, outcome>>

\* The flush of the PENDING row waits while another session's uncommitted row has the key.
Flush(r) ==
    /\ pc[r] = "validate"
    /\ Valid(r)
    /\ KeyHolders(args[r].key, "PENDING") = {}
    /\ KeyHolders(args[r].key, "COMPLETED") = {}
    /\ transactions' = [transactions EXCEPT ![r] = "PENDING"]
    /\ pc' = [pc EXCEPT ![r] = "commit"]
    /\ UNCHANGED <<accounts, ledger, audit, held, args, session, outcome>>

\* ... and fails on the unique index when the other session has committed it.
DuplicateKey(r) ==
    /\ pc[r] = "validate"
    /\ Valid(r)
    /\ KeyHolders(args[r].key, "COMPLETED") # {}
    /\ Return(r, "IntegrityError")
    /\ Rollback(r)
    /\ UNCHANGED session

\* Steps 6 to 10 become visible at once.  New balances are absolute values computed
\* from the loaded objects; only the balance column is written.  They are computed with
\* the residue and stored without it, each as if the whole cents had been moved.  The
\* acknowledgement of the commit may be lost, and the call then raises all the same.
Commit(r) ==
    LET c == args[r]
        debited == session[r][c.sender].balance - c.amount
        credited == session[r][c.receiver].balance + c.amount
    IN  /\ pc[r] = "commit"
        /\ accounts' = [accounts EXCEPT ![c.sender].balance = debited,
                                        ![c.receiver].balance = credited]
        /\ ledger' = [ledger EXCEPT
              ![c.sender] = Append(@, NewEntry(r, "DEBIT", c.amount, debited)),
              ![c.receiver] = Append(@, NewEntry(r, "CREDIT", c.amount, credited))]
        /\ transactions' = [transactions EXCEPT ![r] = "COMPLETED"]
        /\ audit' = audit \cup {r}
        /\ held' = [held EXCEPT ![r] = {}]
        /\ \E o \in {"Executed", "Error"} : Return(r, o)
        /\ UNCHANGED <<args, session>>

\* A statement fails (lock wait timeout, deadlock victim, lost connection) or the
\* worker dies: the transaction is rolled back.
Abort(r) ==
    /\ pc[r] \in {"lock1", "lock2", "validate", "commit"}
    /\ Return(r, "Error")
    /\ Rollback(r)
    /\ UNCHANGED session

\* update_account_status, here only as the one UPDATE it commits; AccountRoutes has
\* the whole route.
SetStatus(a, s) ==
    /\ Exists(a)
    /\ RowFree(a)
    /\ accounts' = [accounts EXCEPT ![a].status = s]
    /\ UNCHANGED <<transactions, ledger, audit, held, args, requestVars>>

\* All requests are answered and only the administrator is left.
AllDone ==
    /\ \A r \in Requests : pc[r] = "done"
    /\ UNCHANGED transferVars

Progress(r) ==
    \/ LockFirst(r)
    \/ LockSecond(r)
    \/ Refuse(r)
    \/ Flush(r)
    \/ DuplicateKey(r)
    \/ Commit(r)

TransferNext ==
    \/ \E r \in Requests : Call(r) \/ Progress(r) \/ Abort(r)
    \/ \E change \in StatusChanges : SetStatus(change[1], change[2])
    \/ AllDone

TransferSpec == TransferInit /\ [][TransferNext]_transferVars

\* A worker thread keeps running the call it has started; nothing makes a client call
\* and nothing makes a statement fail.  InnoDB grants a row lock in arrival order, and
\* a request waits for a row at most once per holder, so weak fairness is enough.
TransferFairness == \A r \in Requests : WF_transferVars(Progress(r))
-----------------------------------------------------------------------------
\* Type correctness.
TransferTypeOK ==
    /\ DatabaseTypeOK
    /\ pc \in [Requests -> Steps]
    /\ session \in [Requests -> [AccountIds -> Row]]
    /\ outcome \in [Requests -> Outcomes]

\* What the caller is told is what happened to the money.  Success means a committed
\* transfer under this key, stored with these very parameters when it is a replay, an
\* error class that names a reason means that nothing was committed, and a conflict means
\* that the transfer stored under the key has another sender, receiver or amount than the
\* call: an amount finer than a cent is never the stored one (IdenticalReplayAccepted).
\* Only "Error" leaves the caller in doubt.
OutcomesTruthful ==
    \A r \in Requests :
        LET SameKey(q) == args[r].key # NoKey /\ args[q].key = args[r].key
        IN  /\ outcome[r] = "Executed" => r \in Completed
            /\ outcome[r] = "Replayed" =>
                   \E q \in Completed \ {r} : SameKey(q) /\ SameTransfer(args[q], args[r])
            /\ outcome[r] = "KeyConflict" =>
                   \E q \in Completed \ {r} : SameKey(q) /\ ~SameTransfer(args[q], args[r])
            /\ outcome[r] = "IntegrityError" => \E q \in Completed \ {r} : SameKey(q)
            /\ r \in Completed => outcome[r] \in {"Executed", "Error"}

\* "Identical replay requests return the existing transaction" (README.md, The Transfer
\* Engine): a call that repeats a completed transfer never gets a unique-index error.
ReplayReturnsExisting ==
    \A r \in Requests :
        outcome[r] = "IntegrityError" =>
            ~ \E q \in Completed :
                 args[q].key = args[r].key /\ SameTransfer(args[q], args[r])

\* The same sentence, of the answer to a late replay: a call is not in conflict with
\* itself, that is with a completed call of the very same arguments.
IdenticalReplayAccepted ==
    \A r \in Requests :
        outcome[r] = "KeyConflict" => ~ \E q \in Completed : args[q] = args[r]

\* The requests r waits for: a holder of the row it wants, or the owner of an
\* uncommitted transactions row with its key.
Blockers(r) ==
    {q \in Requests \ {r} :
        \/ pc[r] = "lock1" /\ FirstId(args[r]) \in held[q]
        \/ pc[r] = "lock2" /\ SecondId(args[r]) \in held[q]
        \/ pc[r] = "validate" /\ Valid(r) /\ q \in KeyHolders(args[r].key, "PENDING")}

\* Transfers never deadlock: in every set of requests one waits for none of the others.
\* This is what the sorted lock order of Step 3 is for.
NoWaitCycle ==
    \A S \in (SUBSET Requests) \ {{}} : \E r \in S : Blockers(r) \cap S = {}

\* A transfer takes effect only between two accounts that, in the table at that very
\* moment, exist, are ACTIVE and hold the funds ("complete validation under lock").
CommitsValidated ==
    [][\A r \in Requests :
          transactions[r] # "COMPLETED" /\ transactions'[r] = "COMPLETED" =>
              /\ \A a \in {args[r].sender, args[r].receiver} :
                    Exists(a) /\ accounts[a].status = "ACTIVE"
              /\ 10 * accounts[args[r].sender].balance >= Asked(args[r])]_transferVars

\* Every call that started returns, whatever the others do and whichever of them fail.
EveryCallReturns == \A r \in Requests : pc[r] # "idle" ~> pc[r] = "done"

\* execute_transfer implements the atomic bank.
Bank == INSTANCE AtomicBank WITH calls <- args, done <- Completed
ImplementsAtomicBank == Bank!BankSpec

-----------------------------------------------------------------------------
(* The inductive invariant, in parts. *)

\* A row is locked by one request at a time.
RowsExclusive == \A q, r \in Requests : q # r => held[q] \cap held[r] = {}

\* Which rows a request can hold at each step; only a call worth executing gets there.
LocksInOrder ==
    \A r \in Requests :
        /\ pc[r] \in {"idle", "lock1", "done"} => held[r] = {}
        /\ pc[r] = "lock2" => held[r] \subseteq {FirstId(args[r])}
        /\ pc[r] \in {"validate", "commit"} =>
               held[r] \subseteq {args[r].sender, args[r].receiver}
        /\ pc[r] \in {"lock1", "lock2", "validate", "commit"} =>
               args[r].sender # args[r].receiver /\ args[r].amount > 0

\* While the call runs, its session has loaded exactly the rows it has locked, and
\* what it loaded is still what the table says.
SessionCurrent ==
    \A r \in Requests :
        pc[r] # "done" =>
            \A a \in AccountIds :
                session[r][a] = IF a \in held[r] THEN accounts[a] ELSE NoRow

\* A flushed row belongs to a request about to commit that has passed validation.
FlushedIsValid ==
    \A r \in Requests :
        /\ transactions[r] = "PENDING" <=> pc[r] = "commit"
        /\ transactions[r] = "COMPLETED" => pc[r] = "done"
        /\ pc[r] = "commit" => Valid(r)

\* The unique index: one uncommitted or committed row per key.
KeysUnique ==
    \A q, r \in Requests :
        transactions[q] # "NONE" /\ transactions[r] # "NONE"
        /\ args[q].key = args[r].key => q = r \/ args[r].key = NoKey

\* An outcome is reported exactly when the call returns.
ReportedOnReturn == \A r \in Requests : outcome[r] = "none" <=> pc[r] # "done"

IndInv ==
    /\ TransferTypeOK
    /\ RowsExclusive
    /\ LocksInOrder
    /\ SessionCurrent
    /\ FlushedIsValid
    /\ KeysUnique
=============================================================================
