--------------------------- MODULE Reconciliation ---------------------------
(***************************************************************************)
(* The report of app/services/reconciliation_service.py.  Its queries read *)
(* one snapshot of the committed tables, so the report is a function of    *)
(* the state; all it writes is an audit_logs row that nobody depends on.   *)
(***************************************************************************)
EXTENDS Database, Functions

\* Every ledger entry, as <<account, position>>.
AllEntries == UNION {{a} \X (1..Len(ledger[a])) : a \in AccountIds}

EntryAt(e) == ledger[e[1]][e[2]]

\* What the entries of one type that these transfers and orders wrote add up to.
BookedBy(ids, type) ==
    SumFunction([e \in {x \in AllEntries : EntryAt(x).type = type /\ EntryAt(x).tx \in ids}
                    |-> EntryAt(e).amount])

Total(type) == BookedBy(Requests \cup Orders, type)

TotalBalances(table) ==
    SumFunction([a \in {b \in AccountIds : table[b] # NoRow} |-> table[a].balance])

\* A completed transfer with ledger entries has one of each type, of its amount.
Discrepancies ==
    {r \in Completed :
        LET legs(type) == {e \in AllEntries : EntryAt(e).tx = r /\ EntryAt(e).type = type}
            debits == legs("DEBIT")
            credits == legs("CREDIT")
        IN  /\ debits \cup credits # {}
            /\ \/ Cardinality(debits) # 1
               \/ Cardinality(credits) # 1
               \/ \E e \in debits \cup credits : EntryAt(e).amount # args[r].amount}

\* The verdict of the report.  It says nothing: no state the API can reach has a
\* discrepancy of this kind, whatever has become of the money.
IsHealthy == Discrepancies = {}
-----------------------------------------------------------------------------
\* Transfers neither create nor destroy money.
Conservation == TotalBalances(accounts) = TotalBalances(Opening)

\* Money is conserved: the accounts hold what they held at the start, and what came in
\* from outside, which the ledger has as CREDIT without a DEBIT.
BooksBalance == TotalBalances(accounts) = TotalBalances(Opening) + Total("CREDIT") - Total("DEBIT")

\* "All transfer ledger entries have exact equal sum(Debits) == sum(Credits)", which the
\* report says it asserts and never adds up: it holds whatever the orders do beside.
DoubleEntry == BookedBy(Requests, "DEBIT") = BookedBy(Requests, "CREDIT")

\* "Total Debits == Total Credits across the entire system", where every deposit, too,
\* is said to record balanced lines (LedgerEntry, domain.py).
SystemDoubleEntry == Total("DEBIT") = Total("CREDIT")

\* A bank that the "comprehensive mathematical audit" reports as healthy has all its
\* money ("provable money conservation", README.md).
HealthyBooks == IsHealthy => BooksBalance
=============================================================================
