------------------------------ MODULE Database ------------------------------
(***************************************************************************)
(* The committed tables and the InnoDB row locks that the services share.  *)
(* A database transaction that has not committed is visible only through   *)
(* what it locks: the account rows in "held" and, for a flushed            *)
(* transactions row, the unique index on idempotency_key ("PENDING").      *)
(***************************************************************************)
EXTENDS BankTables, FiniteSets

VARIABLES
    accounts,      \* accounts table: committed row of every id
    transactions,  \* transactions table: status of each request's row, "NONE" without one
    ledger,        \* ledger_entries table: the entries of each account, by entry_id
    audit,         \* requests and orders whose audit_logs row is committed
    held,          \* account rows each request holds FOR UPDATE
    args           \* the call each request executes, fixed when it arrives

dbVars == <<accounts, transactions, ledger, audit, held, args>>

TransactionStatus == {"NONE", "PENDING", "COMPLETED"}

DatabaseTypeOK ==
    /\ accounts \in [AccountIds -> Row]
    /\ transactions \in [Requests -> TransactionStatus]
    /\ ledger \in [AccountIds -> Seq(LedgerEntry)]
    /\ audit \subseteq Requests \cup Orders
    /\ held \in [Requests -> SUBSET AccountIds]
    /\ args \in [Requests -> Calls]

DatabaseInit ==
    /\ accounts = Opening
    /\ transactions = [r \in Requests |-> "NONE"]
    /\ ledger = [a \in AccountIds |-> << >>]
    /\ audit = {}
    /\ held = [r \in Requests |-> {}]
    /\ args \in [Requests -> Calls]

Exists(a) == accounts[a] # NoRow

\* A row nobody else holds can be locked, or updated by a statement of its own.
RowFree(a) == \A r \in Requests : a \notin held[r]

Completed == {r \in Requests : transactions[r] = "COMPLETED"}

\* The rows a new row of key k collides with in the unique index.
KeyHolders(k, status) ==
    {r \in Requests : k # NoKey /\ transactions[r] = status /\ args[r].key = k}

-----------------------------------------------------------------------------
\* Each account's balance is what its ledger adds up to, entry by entry, from the
\* opening balance: balance_after is never computed from a stale balance
\* (transfer_service.py Steps 6 and 7).
LedgerExplainsBalances ==
    \A a \in AccountIds :
        /\ Chained(a, ledger[a])
        /\ Exists(a) => accounts[a].balance = ClosingBalance(a, ledger[a])

\* The balance of an account is what its latest ledger entry says, also where entries
\* were computed from stale balances: the two are written by the same commit.
LastEntryIsBalance ==
    \A a \in AccountIds :
        Exists(a) => accounts[a].balance = ClosingBalance(a, ledger[a])

\* Positions of the entries of transfer r on account a.
EntriesOf(r, a) == Positions(r, ledger[a])

\* A completed transfer left exactly one DEBIT on its sender, one CREDIT on its
\* receiver, both of its amount, and its audit row; a transfer that did not complete
\* left nothing (docstring guarantees 5 and 6 of execute_transfer).
PaperTrailOf(r) ==
    LET c == args[r]
        Leg(a, type) ==
            \E i \in EntriesOf(r, a) :
                /\ EntriesOf(r, a) = {i}
                /\ ledger[a][i].type = type
                /\ ledger[a][i].amount = c.amount
    IN  /\ r \in audit <=> r \in Completed
        /\ r \in Completed => Leg(c.sender, "DEBIT") /\ Leg(c.receiver, "CREDIT")
        /\ \A a \in AccountIds :
              (r \in Completed => a \notin {c.sender, c.receiver}) => EntriesOf(r, a) = {}

PaperTrail == \A r \in Requests : PaperTrailOf(r)

\* No two completed transfers carry the same idempotency key.
OneTransferPerKey ==
    \A q, r \in Completed : args[q].key = args[r].key => q = r \/ args[r].key = NoKey

\* No account is ever overdrawn.
NoOverdraft == \A a \in AccountIds : Exists(a) => accounts[a].balance >= 0
=============================================================================
