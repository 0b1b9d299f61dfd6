------------------------------ MODULE History ------------------------------
(***************************************************************************)
(* What account holders read while transfers go on: the pages of           *)
(* get_transaction_history (app/routes/transfer_routes.py) and the         *)
(* statements of app/services/statement_service.py.  The queries of one    *)
(* request read one snapshot, so a request is one step; a client who turns *)
(* pages sees a new snapshot with each of them.                            *)
(***************************************************************************)
EXTENDS TransferRoute

CONSTANTS
    Clients,     \* clients, who turn the pages of a history or download statements
    Queries,     \* the histories they may ask for
    Statements,  \* the statements they may ask for
    NoDate,      \* no from_date or to_date, or one that cannot be parsed
    NoAccount,   \* no account_id
    MaxNow       \* bound on the clock

Times == 0..MaxNow

\* A history request without its page; "own" are the accounts of the user.
Query == [admin : BOOLEAN, own : SUBSET AccountIds, account : AccountIds \cup {NoAccount},
          type : {"ALL", "SENT", "RECEIVED"}, perPage : Nat]

\* The account and the period of a statement; a date is the instant at which it begins.
Download == [account : AccountIds, from : Times \cup {NoDate}, to : Times \cup {NoDate}]

ASSUME QueriesAssumption == Queries \subseteq Query
ASSUME StatementsAssumption == Statements \subseteq Download
ASSUME MaxNowAssumption == MaxNow \in Nat /\ NoDate \notin Times
ASSUME NoAccountAssumption == NoAccount \notin AccountIds

VARIABLES
    now,      \* the clock, in seconds: all that the created_at column keeps
    created,  \* created_at of each request's transactions row, once it is flushed
    query,    \* what each client asks for, fixed when it begins
    view,     \* what each client has been answered so far
    papers    \* the statements downloaded so far, each with the rows it shows

readerVars == <<query, view, papers>>
historyVars == <<transferVars, now, created, readerVars>>

\* page and pages are those of the last answer; "first" is the list the first page was
\* cut from, "shown" the rows on all pages so far.
NothingSeen == [answer |-> "open", page |-> 0, pages |-> 1, first |-> {}, shown |-> {}]

HistoryInit ==
    /\ TransferInit
    /\ now = 0
    /\ created = [r \in Requests |-> 0]
    /\ query \in [Clients -> Queries \cup Statements]
    /\ view = [u \in Clients |-> NothingSeen]
    /\ papers = {}

Tick ==
    /\ now < MaxNow
    /\ now' = now + 1
    /\ UNCHANGED <<transferVars, created, readerVars>>

\* Mutant of Stamp: created_at is taken when the call arrives, before the locks.
StampOnArrival(r) ==
    created' = [created EXCEPT ![r] = IF pc[r] = "idle" THEN now ELSE @]

\* The column default utc_now is evaluated by the flush, under the locks.
Stamp(r) ==
    created' = [created EXCEPT ![r] = IF pc'[r] = "commit" THEN now ELSE @]

TransferStep(r) == RouteStep(r) /\ Stamp(r) /\ UNCHANGED <<now, readerVars>>
-----------------------------------------------------------------------------
\* The filter of the query.  An administrator without account_id sees every transfer;
\* only COMPLETED rows are ever committed, so the status filter selects all or none.
Parties(r, type) ==
    CASE type = "SENT"     -> {args[r].sender}
      [] type = "RECEIVED" -> {args[r].receiver}
      [] type = "ALL"      -> {args[r].sender, args[r].receiver}

Scope(q) ==
    IF q.account # NoAccount THEN {q.account} ELSE IF q.admin THEN AccountIds ELSE q.own

Listed(q) ==
    {r \in Completed : (q.admin \/ q.own # {}) /\ Parties(r, q.type) \cap Scope(q) # {}}

\* Mutant of Listings: ORDER BY has been forgotten.
ListingsUnordered(S) ==
    {s \in [1..Cardinality(S) -> S] : \A r \in S : \E i \in 1..Cardinality(S) : s[i] = r}

\* The orders in which a query may return the rows S: newest first, equal seconds in
\* whatever order the database finds them.
Listings(S) ==
    {s \in [1..Cardinality(S) -> S] :
        /\ \A r \in S : \E i \in 1..Cardinality(S) : s[i] = r
        /\ \A i, j \in 1..Cardinality(S) : i < j => created[s[i]] >= created[s[j]]}

TotalPages(items, perPage) == IF items = 0 THEN 0 ELSE (items + perPage - 1) \div perPage

\* Page p of listing s: OFFSET (p - 1) * n LIMIT n.
RowsOnPage(s, p, n) == {s[i] : i \in {k \in DOMAIN s : (p - 1) * n < k /\ k <= p * n}}

Refuse404(q) == ~q.admin /\ q.own # {} /\ q.account # NoAccount /\ q.account \notin q.own

\* One request for the page after the last one seen.  The pages of an empty page size
\* cannot be counted, and a foreign account is reported as missing.
GetTransactionHistory(u) ==
    LET q == query[u]
        v == view[u]
        rows == Listed(q)
        close(answer) == view' = [view EXCEPT ![u].answer = answer]
    IN  /\ q \in Queries
        /\ v.answer = "open" /\ v.page < v.pages
        /\ \/ Refuse404(q) /\ close("NotFound")
           \/ ~Refuse404(q) /\ q.perPage = 0 /\ rows # {} /\ close("Failed")
           \/ /\ ~Refuse404(q) /\ (q.perPage > 0 \/ rows = {})
              /\ \E s \in Listings(rows) :
                    view' = [view EXCEPT ![u] =
                       [answer |-> "open",
                        page   |-> v.page + 1,
                        pages  |-> TotalPages(Cardinality(rows), q.perPage),
                        first  |-> IF v.page = 0 THEN rows ELSE v.first,
                        shown  |-> v.shown \cup RowsOnPage(s, v.page + 1, q.perPage)]]
        /\ UNCHANGED <<transferVars, now, created, query, papers>>
-----------------------------------------------------------------------------
\* The rows of a statement: both bounds are inclusive, the second one as an instant.
GetTransactions(d) ==
    {r \in Completed :
        /\ d.account \in Parties(r, "ALL")
        /\ d.from # NoDate => created[r] >= d.from
        /\ d.to # NoDate => created[r] <= d.to}

\* Mutant of TxDirection: the counter-party's side of the transfer.
TxDirectionOfCounterParty(r, a) == IF args[r].receiver = a THEN "DEBIT" ELSE "CREDIT"

\* The direction column, and with it the totals of the PDF.
TxDirection(r, a) == IF args[r].sender = a THEN "DEBIT" ELSE "CREDIT"

\* A download of an unknown account, or of one of somebody else, is refused and prints
\* nothing.  Bound: a statement is downloaded once.
DownloadStatement(d) ==
    /\ Exists(d.account)
    /\ \E u \in Clients : query[u] = d
    /\ \A p \in papers : p.download # d
    /\ papers' = papers \cup
          {[download |-> d,
            rows |-> {<<r, TxDirection(r, d.account)>> : r \in GetTransactions(d)}]}
    /\ UNCHANGED <<transferVars, now, created, query, view>>

HistoryNext ==
    \/ \E r \in Requests : TransferStep(r)
    \/ \E u \in Clients : GetTransactionHistory(u)
    \/ \E d \in Statements : DownloadStatement(d)
    \/ Tick
    \/ AllDone /\ UNCHANGED <<now, created, readerVars>>

HistorySpec == HistoryInit /\ [][HistoryNext]_historyVars
-----------------------------------------------------------------------------
\* Type correctness.
HistoryTypeOK ==
    /\ TransferTypeOK
    /\ now \in Times
    /\ created \in [Requests -> Times]
    /\ query \in [Clients -> Queries \cup Statements]
    /\ view \in [Clients -> [answer : {"open", "NotFound", "Failed"}, page : Nat, pages : Nat,
                              first : SUBSET Requests, shown : SUBSET Requests]]
    /\ papers \subseteq [download : Statements, rows : SUBSET (Requests \X LedgerEntryType)]

\* A client who turns the pages to the last one has seen every transfer that was in the
\* list at the first, however many new ones pushed it from page to page meanwhile; only
\* transfers of one and the same second may trade places and be missed.
NothingSkipped ==
    \A u \in Clients :
        view[u].answer = "open" /\ view[u].page > 0 /\ view[u].page >= view[u].pages =>
            \A r \in view[u].first :
                \/ r \in view[u].shown
                \/ \E q \in Listed(query[u]) \ {r} : created[q] = created[r]

RowsOf(p) == {row[1] : row \in p.rows}

\* A statement once downloaded stays true: a later one of the same account and period
\* has all its rows, and whatever else it has comes at the end, no earlier than any of
\* them.  Rows become visible at the commit but carry the time of the flush; that no
\* row slips in between is due to the row lock held from before the one until the other.
PapersStayTrue ==
    \A p \in papers :
        LET rows == GetTransactions(p.download)
        IN  /\ RowsOf(p) \subseteq rows
            /\ \A q \in RowsOf(p), r \in rows \ RowsOf(p) : created[q] <= created[r]

\* Each line of a statement is a leg in the ledger of the account, in the direction and
\* of the amount the statement prints.
PapersMatchLedger ==
    \A p \in papers : \A row \in p.rows :
        LET a == p.download.account
        IN  \E i \in EntriesOf(row[1], a) :
                ledger[a][i].type = row[2] /\ ledger[a][i].amount = args[row[1]].amount

\* Of two transfers that share an account, the one in flight was created last.
CreatedInOrder ==
    /\ \A r \in Requests : created[r] <= now
    /\ \A q, r \in Requests :
          /\ transactions[q] = "COMPLETED" /\ transactions[r] = "PENDING"
          /\ Parties(q, "ALL") \cap Parties(r, "ALL") # {}
          => created[q] <= created[r]

\* The inductive invariant behind PapersStayTrue.
HistoryInv == RouteInv /\ HistoryTypeOK /\ CreatedInOrder /\ PapersStayTrue
=============================================================================
