----------------------------- MODULE BankTables -----------------------------
(***************************************************************************)
(* The tables of app/models/domain.py, as far as the flow of money depends *)
(* on them: account rows, transfer calls and ledger entries, with the      *)
(* arithmetic every module of the project shares.  Nothing here has state. *)
(***************************************************************************)
EXTENDS Integers, Sequences

CONSTANTS
    Requests,    \* executions of execute_transfer; a request names its own transactions row
    Orders,      \* executions of the writing routes of account_routes.py
    AccountIds,  \* account ids a client may name, whether a row exists or not
    MaxId,       \* largest value of the account_id column
    Keys,        \* idempotency keys: the non-NULL values of the column
    NoKey,       \* no key sent: NULL in the column
    EmptyKey,    \* the empty string: stored like a key, but false to Python
    NoRow,       \* no such row, or no object loaded for it
    Opening,     \* the accounts table before the first modelled request
    Calls,       \* the arguments clients pass to execute_transfer
    StatusChanges \* the <<account, status>> pairs administrators ask for

AccountStatus == {"ACTIVE", "FROZEN", "CLOSED"}
LedgerEntryType == {"DEBIT", "CREDIT"}

Account == [balance : Int, status : AccountStatus]
Row == Account \cup {NoRow}

\* The schema sets no scale for the amount a client sends: it is amount whole cents, which
\* is what a NUMERIC(12, 2) column keeps of it, and residue tenths of a cent that rounding
\* takes off or fills up.  Half cents are left to CentRounding.
TransferCall == [sender : AccountIds, receiver : AccountIds, amount : Int, residue : -4..4,
                 key : Keys \cup {NoKey}]

\* tx is the transfer or order that wrote the entry (the column is NULL for an order).
LedgerEntry == [tx : Requests \cup Orders, type : LedgerEntryType,
                amount : Int, balanceAfter : Int]

ASSUME IdsAssumption == MaxId \in Nat /\ AccountIds \subseteq 1..MaxId
ASSUME KeysAssumption == NoKey \notin Keys
ASSUME NoRowAssumption == NoRow \notin Account
ASSUME OpeningAssumption ==
    /\ Opening \in [AccountIds -> Row]
    /\ \A a \in AccountIds : Opening[a] # NoRow => Opening[a].balance >= 0
\* An amount that is stored as nothing fails the CHECK constraints: see CentRounding.
ASSUME CallsAssumption ==
    /\ Calls \subseteq TransferCall
    /\ \A c \in Calls : c.amount = 0 => c.residue <= 0
ASSUME StatusChangesAssumption == StatusChanges \subseteq AccountIds \X AccountStatus
ASSUME RequestsAssumption == Requests \cap Orders = {}
-----------------------------------------------------------------------------
\* Mutant of LockIds: the accounts are locked in the order of the arguments.
LockIdsUnsorted(c) == <<c.sender, c.receiver>>

\* The deterministic lock order of execute_transfer: sorted([sender_id, receiver_id]).
LockIds(c) ==
    IF c.sender < c.receiver THEN <<c.sender, c.receiver>> ELSE <<c.receiver, c.sender>>
FirstId(c) == LockIds(c)[1]
SecondId(c) == LockIds(c)[2]

\* The amount as the client sent it, in tenths of a cent.
Asked(c) == 10 * c.amount + c.residue

\* The three parameters that call d must repeat of the row c has stored; the row has the
\* rounded amount, the call still has its own.
SameTransfer(c, d) ==
    /\ c.sender = d.sender
    /\ c.receiver = d.receiver
    /\ 10 * c.amount = Asked(d)

OpeningBalance(a) == IF Opening[a] = NoRow THEN 0 ELSE Opening[a].balance

\* Mutant of NewEntry: both legs are booked as CREDIT.
NewEntryAlwaysCredit(id, type, amount, balanceAfter) ==
    [tx |-> id, type |-> "CREDIT", amount |-> amount, balanceAfter |-> balanceAfter]

NewEntry(id, type, amount, balanceAfter) ==
    [tx |-> id, type |-> type, amount |-> amount, balanceAfter |-> balanceAfter]

\* What an entry adds to the balance of its account.
Effect(e) == IF e.type = "CREDIT" THEN e.amount ELSE -e.amount

\* The positions of the entries that transfer or order id wrote.
Positions(id, entries) == {i \in 1..Len(entries) : entries[i].tx = id}

\* The balance the ledger of account a, given as a sequence, ends on.
ClosingBalance(a, entries) ==
    IF entries = << >> THEN OpeningBalance(a) ELSE entries[Len(entries)].balanceAfter

\* Every entry continues from the balance its predecessor ended on.
Chained(a, entries) ==
    \A i \in 1..Len(entries) :
        entries[i].balanceAfter =
            Effect(entries[i])
            + (IF i = 1 THEN OpeningBalance(a) ELSE entries[i-1].balanceAfter)
=============================================================================
