---------------------------- MODULE AccountRoutes ----------------------------
(***************************************************************************)
(* The routes of app/routes/account_routes.py that write to the accounts   *)
(* table: create_account, deposit_funds and update_account_status.  Each   *)
(* execution (an order) reads what it needs without locking anything, then *)
(* commits what it computed from that, and creation and deposits store     *)
(* their idempotency record in a second transaction.                       *)
(***************************************************************************)
EXTENDS Database

CONSTANTS
    OrderCalls,   \* the calls clients and administrators make
    NoOrder       \* no idempotency record under a key

Kinds == {"create_account", "deposit_funds", "update_account_status"}

\* A creation ignores the account, a status change the amount and the key, the others the status.
OrderCall == [kind : Kinds, account : AccountIds, amount : Int, status : AccountStatus,
              key : Keys \cup {NoKey}]

ASSUME OrderCallsAssumption == OrderCalls \subseteq OrderCall
ASSUME NoOrderAssumption == NoOrder \notin Orders

VARIABLES
    orders,    \* the call of each order, fixed when it arrives
    step,      \* where each order is
    loaded,    \* the account row the order read on arrival
    records,   \* idempotency_records table: the order whose response is stored under a key
    answer,    \* what the caller got
    earlier    \* history: the orders already answered with success when this one arrived

orderVars == <<orders, step, loaded, records, answer, earlier>>
accountVars == <<dbVars, orderVars>>

Answers == {"none", "Done", "Replayed", "Conflict", "Refused", "Error"}

OrdersInit ==
    /\ orders \in [Orders -> OrderCalls]
    /\ step = [d \in Orders |-> "idle"]
    /\ loaded = [d \in Orders |-> NoRow]
    /\ records = [k \in Keys |-> NoOrder]
    /\ answer = [d \in Orders |-> "none"]
    /\ earlier = [d \in Orders |-> {}]

Answer(d, o) ==
    /\ step' = [step EXCEPT ![d] = "done"]
    /\ answer' = [answer EXCEPT ![d] = o]

\* deposit_funds puts the account into the endpoint, create_account has only one.
Endpoint(c) == IF c.kind = "create_account" THEN <<c.kind>> ELSE <<c.kind, c.account>>

\* Keys the routes act on: only for creation and deposits, and only true ones.
UsesKey(c) == c.kind # "update_account_status" /\ c.key \notin {NoKey, EmptyKey}

Recorded(c) == UsesKey(c) /\ records[c.key] # NoOrder

-----------------------------------------------------------------------------
\* The first query of an order fixes the snapshot that all its reads come from.
Arrive(d) ==
    /\ step[d] = "idle"
    /\ earlier' = [earlier EXCEPT ![d] = {e \in Orders : answer[e] = "Done"}]
    /\ UNCHANGED <<dbVars, orders, records>>

\* Mutant of Replay: the endpoint of the record is not compared.
ReplayAnyEndpoint(d) ==
    /\ Arrive(d)
    /\ Recorded(orders[d])
    /\ Answer(d, "Replayed")
    /\ UNCHANGED loaded

\* _check_idempotency finds a record.
Replay(d) ==
    LET c == orders[d]
    IN  /\ Arrive(d)
        /\ Recorded(c)
        /\ Answer(d, IF Endpoint(orders[records[c.key]]) = Endpoint(c)
                     THEN "Replayed" ELSE "Conflict")
        /\ UNCHANGED loaded

Acceptable(c) ==
    \/ c.kind = "create_account" /\ c.amount >= 0
    \/ /\ c.kind = "deposit_funds"
       /\ Exists(c.account) /\ accounts[c.account].status = "ACTIVE"
       /\ c.amount > 0
    \/ c.kind = "update_account_status" /\ Exists(c.account)

\* Refused by a check, or because the caller is neither owner nor administrator.
Reject(d) ==
    /\ Arrive(d)
    /\ ~Recorded(orders[d])
    /\ ~Acceptable(orders[d]) \/ orders[d].kind # "create_account"
    /\ Answer(d, "Refused")
    /\ UNCHANGED loaded

\* What the order read is all it will use, whatever is committed in the meantime.
Load(d) ==
    /\ Arrive(d)
    /\ ~Recorded(orders[d])
    /\ Acceptable(orders[d])
    /\ loaded' = [loaded EXCEPT ![d] = accounts[orders[d].account]]
    /\ step' = [step EXCEPT ![d] = "write"]
    /\ UNCHANGED answer

-----------------------------------------------------------------------------
\* Mutant of Written: record_audit_event is forgotten.
WrittenUnaudited(d) ==
    UNCHANGED <<transactions, audit, held, args, orders, loaded, records, earlier>>

Written(d) ==
    /\ audit' = audit \cup {d}
    /\ UNCHANGED <<transactions, held, args, orders, loaded, records, earlier>>

\* Mutant of DepositFunds: the UPDATE adds to the column, the ledger entry does not know.
DepositIncrement(d) ==
    LET c == orders[d]
    IN  /\ step[d] = "write"
        /\ c.kind = "deposit_funds"
        /\ RowFree(c.account)
        /\ accounts' = [accounts EXCEPT ![c.account].balance = @ + c.amount]
        /\ ledger' = [ledger EXCEPT ![c.account] =
                         Append(@, NewEntry(d, "CREDIT", c.amount, loaded[d].balance + c.amount))]
        /\ step' = [step EXCEPT ![d] = "store"]
        /\ Written(d)
        /\ UNCHANGED answer

\* Mutant of DepositFunds: the UPDATE writes back every column of the row that was read.
DepositWholeRow(d) ==
    LET c == orders[d]
        newBalance == loaded[d].balance + c.amount
    IN  /\ step[d] = "write"
        /\ c.kind = "deposit_funds"
        /\ RowFree(c.account)
        /\ accounts' = [accounts EXCEPT ![c.account] = [loaded[d] EXCEPT !.balance = newBalance]]
        /\ ledger' = [ledger EXCEPT ![c.account] =
                         Append(@, NewEntry(d, "CREDIT", c.amount, newBalance))]
        /\ step' = [step EXCEPT ![d] = "store"]
        /\ Written(d)
        /\ UNCHANGED answer

\* An absolute balance, computed from the row read on arrival.  The UPDATE waits for
\* the row; there is no check that the row is still the one that was read.
DepositFunds(d) ==
    LET c == orders[d]
        newBalance == loaded[d].balance + c.amount
    IN  /\ step[d] = "write"
        /\ c.kind = "deposit_funds"
        /\ RowFree(c.account)
        /\ accounts' = [accounts EXCEPT ![c.account].balance = newBalance]
        /\ ledger' = [ledger EXCEPT ![c.account] =
                         Append(@, NewEntry(d, "CREDIT", c.amount, newBalance))]
        /\ step' = [step EXCEPT ![d] = "store"]
        /\ Written(d)
        /\ UNCHANGED answer

\* AUTO_INCREMENT gives the row an id nobody has; commits need not come in id order.
CreateAccount(d) ==
    LET m == orders[d].amount
    IN  /\ step[d] = "write"
        /\ orders[d].kind = "create_account"
        /\ \E a \in AccountIds :
              /\ ~Exists(a)
              /\ accounts' = [accounts EXCEPT ![a] = [balance |-> m, status |-> "ACTIVE"]]
              /\ ledger' = IF m > 0
                           THEN [ledger EXCEPT ![a] = Append(@, NewEntry(d, "CREDIT", m, m))]
                           ELSE ledger
        /\ step' = [step EXCEPT ![d] = "store"]
        /\ Written(d)
        /\ UNCHANGED answer

\* The session emits no UPDATE when the status it read is already the new one.
UpdateAccountStatus(d) ==
    LET c == orders[d]
    IN  /\ step[d] = "write"
        /\ c.kind = "update_account_status"
        /\ \/ /\ loaded[d].status # c.status
              /\ RowFree(c.account)
              /\ accounts' = [accounts EXCEPT ![c.account].status = c.status]
           \/ /\ loaded[d].status = c.status
              /\ UNCHANGED accounts
        /\ \E o \in {"Done", "Error"} : Answer(d, o)
        /\ Written(d)
        /\ UNCHANGED ledger

\* Mutants of Store: the record is never committed; an IntegrityError is not swallowed.
StoreNothing(d) ==
    /\ step[d] = "store"
    /\ Answer(d, "Done")
    /\ UNCHANGED <<dbVars, orders, loaded, records, earlier>>

StoreRaises(d) ==
    LET c == orders[d]
    IN  /\ step[d] = "store"
        /\ records' = IF UsesKey(c) /\ ~Recorded(c)
                      THEN [records EXCEPT ![c.key] = d] ELSE records
        /\ Answer(d, IF UsesKey(c) /\ Recorded(c) THEN "IntegrityError" ELSE "Done")
        /\ UNCHANGED <<dbVars, orders, loaded, earlier>>

\* _store_idempotency, in a transaction of its own.  A record that another order stored
\* first stays, and the caller is answered all the same.
Store(d) ==
    LET c == orders[d]
    IN  /\ step[d] = "store"
        /\ records' = IF UsesKey(c) /\ ~Recorded(c)
                      THEN [records EXCEPT ![c.key] = d] ELSE records
        /\ Answer(d, "Done")
        /\ UNCHANGED <<dbVars, orders, loaded, earlier>>

\* A statement fails or the worker dies, before either commit.
Crash(d) ==
    /\ step[d] \in {"write", "store"}
    /\ Answer(d, "Error")
    /\ UNCHANGED <<dbVars, orders, loaded, records, earlier>>

Arrival(d) == Replay(d) \/ Reject(d) \/ Load(d)

Write(d) ==
    \/ DepositFunds(d)
    \/ CreateAccount(d)
    \/ UpdateAccountStatus(d)
    \/ Store(d)

OrderNext == \E d \in Orders : Arrival(d) \/ Write(d) \/ Crash(d)

AllAnswered ==
    /\ \A d \in Orders : step[d] = "done"
    /\ UNCHANGED accountVars

AccountInit == DatabaseInit /\ OrdersInit

AccountSpec == AccountInit /\ [][OrderNext \/ AllAnswered]_accountVars
-----------------------------------------------------------------------------
\* Type correctness.
OrdersTypeOK ==
    /\ orders \in [Orders -> OrderCalls]
    /\ step \in [Orders -> {"idle", "write", "store", "done"}]
    /\ loaded \in [Orders -> Row]
    /\ records \in [Keys -> Orders \cup {NoOrder}]
    /\ answer \in [Orders -> Answers]
    /\ earlier \in [Orders -> SUBSET Orders]

SameRequest(c, e) == UsesKey(c) /\ UsesKey(e) /\ c.key = e.key /\ Endpoint(c) = Endpoint(e)

\* The entries an order wrote, each with its account.
CreditsOf(d) == UNION {{<<a, i>> : i \in Positions(d, ledger[a])} : a \in AccountIds}

\* An order left its whole trail or none: with the audit row exactly one CREDIT of its
\* amount (on the account it names, or as the first entry of a new one), none for a
\* status change or an empty opening, and without the audit row nothing at all.  This
\* is what the code writes; that no DEBIT stands against the CREDIT contradicts the
\* docstring of LedgerEntry, see SystemDoubleEntry.
OrderTrailOf(d) ==
    LET c == orders[d]
    IN  IF d \notin audit \/ c.kind = "update_account_status" \/ c.amount = 0
        THEN CreditsOf(d) = {}
        ELSE \E a \in AccountIds : \E i \in Positions(d, ledger[a]) :
                /\ CreditsOf(d) = {<<a, i>>}
                /\ ledger[a][i].type = "CREDIT" /\ ledger[a][i].amount = c.amount
                /\ c.kind = "deposit_funds" => a = c.account
                /\ c.kind = "create_account" =>
                       Opening[a] = NoRow /\ i = 1 /\ ledger[a][i].balanceAfter = c.amount

OrderTrail == \A d \in Orders : OrderTrailOf(d)

\* The answer tells what happened to the money: success was committed, a refusal was
\* not, and a replayed response or a key conflict comes from another order that was.
AnswersTruthful ==
    \A d \in Orders :
        LET others == {e \in audit \cap (Orders \ {d}) : orders[e].key = orders[d].key}
            same(e) == Endpoint(orders[e]) = Endpoint(orders[d])
        IN  /\ answer[d] = "Done" => d \in audit
            /\ answer[d] \in {"Replayed", "Conflict", "Refused"} => d \notin audit
            /\ answer[d] = "Replayed" => \E e \in others : same(e)
            /\ answer[d] = "Conflict" => \E e \in others : ~same(e)

\* A client that repeats a request it got a success for, with the same key, does not
\* have it executed again ("without applying a second credit", deposit_funds).
RepeatNotExecuted ==
    \A d \in Orders : \A e \in earlier[d] : SameRequest(orders[d], orders[e]) => d \notin audit

\* Of the requests with one key that succeed, one is executed and the others replay it,
\* however they overlap ("Exactly ONE credit must land; all responses must be 200",
\* tests/test_idempotency.py).
OneExecutionPerKey ==
    \A d, e \in Orders :
        answer[d] = "Done" /\ answer[e] = "Done" /\ SameRequest(orders[d], orders[e]) => d = e

\* The audited status changes of an account.
ChangesOf(a) ==
    {d \in audit \cap Orders : orders[d].kind = "update_account_status" /\ orders[d].account = a}

OpeningStatus(a) == IF Opening[a] = NoRow THEN "ACTIVE" ELSE Opening[a].status

\* An account has its opening status until the first audited change, and from then on
\* one of those the audited changes gave it: a deposit or transfer that read the row
\* before a change and writes after it never undoes the change, and a change that
\* writes nothing was overtaken by another one or had nothing to change.  Which of
\* overlapping changes wins is left open.
AuditExplainsStatus ==
    \A a \in AccountIds :
        Exists(a) =>
            accounts[a].status \in IF ChangesOf(a) = {} THEN {OpeningStatus(a)}
                                  ELSE {orders[d].status : d \in ChangesOf(a)}
=============================================================================
