----------------------------- MODULE BankProofs -----------------------------
(***************************************************************************)
(* Proofs about the whole HTTP API: transfers beside account creation,     *)
(* deposits and status changes that take no lock before they write.  Stale *)
(* deposits lose money (LostUpdate.cfg); what is proved here is what they  *)
(* cannot break.  The steps of a request and the steps of an order have    *)
(* their lemmas in RouteProofs and AccountProofs; here each is shown to    *)
(* leave the other's promises alone.                                       *)
(***************************************************************************)
EXTENDS RouteProofs, AccountProofs, MoneyProofs, BankSystem

\* The inductive invariant of BankSystem: what transfers keep, what orders keep, and what
\* the ledgers and the answers say of both.
BankInv ==
    /\ RouteInv
    /\ OrderInv
    /\ ReplayInv
    /\ PaperTrail
    /\ OutcomesTruthful
    /\ ReportedOnReturn
    /\ OrderTrail
    /\ StatusInv

-----------------------------------------------------------------------------
\* Before any request the invariant holds.
LEMMA BankInit == SystemInit => BankInv
<1> SUFFICES ASSUME SystemInit PROVE BankInv
  OBVIOUS
<1>1. /\ TransferInit /\ OrdersInit /\ AccountInit
      /\ accounts = Opening /\ audit = {} /\ ledger = [a \in AccountIds |-> << >>]
      /\ transactions = [r \in Requests |-> "NONE"]
      /\ pc = [r \in Requests |-> "idle"] /\ outcome = [r \in Requests |-> "none"]
      /\ \A d \in Orders : step[d] = "idle"
  BY DEF SystemInit, TransferInit, DatabaseInit, AccountInit, OrdersInit
<1>2. RouteInv /\ OrderInv /\ ReplayInv /\ OrderTrail /\ StatusInv
  BY <1>1, RouteInit, OrderInit, ReplayInit, TrailInit, StatusInit
<1>3. Completed = {}
  BY <1>1 DEF Completed
<1>4. PaperTrail
  <2>1. \A r \in Requests, a \in AccountIds : EntriesOf(r, a) = {}
    BY <1>1 DEF EntriesOf, Positions
  <2>2. QED
    BY <1>1, <1>3, <2>1 DEF PaperTrail, PaperTrailOf
<1>5. OutcomesTruthful /\ ReportedOnReturn
  BY <1>1, <1>3 DEF OutcomesTruthful, ReportedOnReturn
<1>6. QED
  BY <1>2, <1>4, <1>5 DEF BankInv

(* The steps of a request. *)

\* Only its commit lets a request touch rows or ledgers.
LEMMA RequestTables == ASSUME BankInv, NEW r \in Requests, RouteStep(r) PROVE TablesMove
<1>1. CASE ~Commit(r)
  <2>1. UNCHANGED <<accounts, ledger>>
    BY <1>1 DEF RouteStep, Progress, CreateTransfer, Enter, LockFirst, LockSecond, LockAccount, Refuse,
                DuplicateKey, Abort, Flush, Rollback, Return, dbVars
  <2>2. QED
    BY <2>1 DEF TablesMove
<1>2. CASE Commit(r)
  <2> DEFINE c == args[r]
             debited == session[r][c.sender].balance - c.amount
             credited == session[r][c.receiver].balance + c.amount
             poorer == [accounts[c.sender] EXCEPT !.balance = debited]
             richer == [accounts[c.receiver] EXCEPT !.balance = credited]
             debit == NewEntry(r, "DEBIT", c.amount, debited)
             credit == NewEntry(r, "CREDIT", c.amount, credited)
  <2>1. /\ c.sender \in AccountIds /\ c.receiver \in AccountIds
        /\ c.amount \in Int
        /\ debited \in Int /\ debited >= 0
        /\ credited \in Int /\ credited >= 0
        /\ accounts[c.sender] \in Account /\ accounts[c.receiver] \in Account
        /\ accounts'[c.sender] = poorer /\ accounts'[c.receiver] = richer
        /\ ledger'[c.sender] = Append(ledger[c.sender], debit)
        /\ ledger'[c.receiver] = Append(ledger[c.receiver], credit)
        /\ \A a \in AccountIds \ {c.sender, c.receiver} :
              accounts'[a] = accounts[a] /\ ledger'[a] = ledger[a]
    BY <1>2, RouteCommitLegs DEF BankInv
  <2>2. /\ debit \in LedgerEntry /\ debit.balanceAfter = debited
        /\ credit \in LedgerEntry /\ credit.balanceAfter = credited
    BY <2>1, EntryType DEF LedgerEntryType, NewEntry
  <2>3. /\ poorer \in Account /\ poorer.balance = debited /\ poorer # NoRow
        /\ richer \in Account /\ richer.balance = credited /\ richer # NoRow
    BY <2>1, NewBalance
  <2> HIDE DEF c, debited, credited, poorer, richer, debit, credit
  <2>4. \A a \in AccountIds : ledger[a] \in Seq(LedgerEntry)
    BY DEF BankInv, RouteInv, TransferTypeOK, DatabaseTypeOK
  <2>5. /\ ClosingBalance(c.sender, Append(ledger[c.sender], debit)) = debited
        /\ ClosingBalance(c.receiver, Append(ledger[c.receiver], credit)) = credited
    BY <2>1, <2>2, <2>4, ClosingAfterAppend
  <2>6. QED
    BY <2>1, <2>3, <2>5 DEF TablesMove
<1>3. QED
  BY <1>1, <1>2

\* The entries a request appends are its own.
LEMMA RequestBooks ==
    ASSUME BankInv, NEW r \in Requests, RouteStep(r), NEW a \in AccountIds
    PROVE  \/ ledger'[a] = ledger[a]
           \/ \E e \in LedgerEntry : e.tx = r /\ ledger'[a] = Append(ledger[a], e)
<1>1. CASE ~Commit(r)
  BY <1>1, OnlyRouteCommits DEF BankInv
<1>2. CASE Commit(r)
  <2> DEFINE c == args[r]
             debited == session[r][c.sender].balance - c.amount
             credited == session[r][c.receiver].balance + c.amount
             debit == NewEntry(r, "DEBIT", c.amount, debited)
             credit == NewEntry(r, "CREDIT", c.amount, credited)
  <2>1. /\ c.amount \in Int /\ debited \in Int /\ credited \in Int
        /\ ledger'[c.sender] = Append(ledger[c.sender], debit)
        /\ ledger'[c.receiver] = Append(ledger[c.receiver], credit)
        /\ \A b \in AccountIds \ {c.sender, c.receiver} : ledger'[b] = ledger[b]
    BY <1>2, RouteCommitLegs DEF BankInv
  <2>2. debit \in LedgerEntry /\ debit.tx = r /\ credit \in LedgerEntry /\ credit.tx = r
    BY <2>1, EntryType DEF LedgerEntryType, NewEntry
  <2> HIDE DEF c, debit, credit
  <2>3. QED
    BY <2>1, <2>2
<1>3. QED
  BY <1>1, <1>2

\* A request changes no status and opens no account.
LEMMA RequestStatuses ==
    ASSUME BankInv, NEW r \in Requests, RouteStep(r), NEW a \in AccountIds, Exists(a)'
    PROVE  Exists(a) /\ accounts'[a].status = accounts[a].status
<1>1. CASE ~Commit(r)
  BY <1>1, OnlyRouteCommits DEF BankInv, Exists
<1>2. CASE Commit(r)
  <2> DEFINE c == args[r]
             debited == session[r][c.sender].balance - c.amount
             credited == session[r][c.receiver].balance + c.amount
             poorer == [accounts[c.sender] EXCEPT !.balance = debited]
             richer == [accounts[c.receiver] EXCEPT !.balance = credited]
  <2>1. /\ debited \in Int /\ credited \in Int
        /\ accounts[c.sender] \in Account /\ accounts[c.receiver] \in Account
        /\ accounts'[c.sender] = poorer /\ accounts'[c.receiver] = richer
        /\ \A b \in AccountIds \ {c.sender, c.receiver} : accounts'[b] = accounts[b]
    BY <1>2, RouteCommitLegs DEF BankInv
  <2>2. poorer.status = accounts[c.sender].status /\ richer.status = accounts[c.receiver].status
    BY <2>1, NewBalance
  <2>3. accounts[c.sender] # NoRow /\ accounts[c.receiver] # NoRow
    BY <2>1, NoRowAssumption
  <2> HIDE DEF c, poorer, richer
  <2>4. QED
    BY <2>1, <2>2, <2>3 DEF Exists
<1>3. QED
  BY <1>1, <1>2

\* A step of a request keeps the invariant.
LEMMA BankRequestStep ==
    ASSUME BankInv, NEW r \in Requests, RouteStep(r), UNCHANGED orderVars
    PROVE  BankInv'
<1>1. RouteInv'
  BY RouteStepInv DEF BankInv
<1>2. PaperTrail' /\ OutcomesTruthful' /\ ReportedOnReturn'
  BY RoutePaperTrail, RouteOutcomes DEF BankInv
<1>3. OrderInv'
  <2>1. DatabaseTypeOK'
    BY <1>1 DEF RouteInv, TransferTypeOK
  <2>2. QED
    BY <2>1, RequestTables, OthersKeepInv DEF BankInv
<1>4. /\ orders' = orders
      /\ audit \subseteq audit' /\ audit' \cap Orders = audit \cap Orders
  <2>1. audit' = audit \/ audit' = audit \cup {r}
    BY OnlyRouteCommits DEF BankInv
  <2>2. QED
    BY <2>1, RequestsAssumption DEF orderVars
<1>5. ReplayInv'
  BY <1>4, OthersReplayInv DEF BankInv
<1>6. ASSUME NEW d \in Orders PROVE OrderTrailOf(d)'
  <2>1. OrderTrailOf(d) /\ DatabaseTypeOK /\ (d \in audit' <=> d \in audit)
    BY <1>4 DEF BankInv, OrderTrail, OrderInv
  <2>2. r # d
    BY RequestsAssumption
  <2>3. \A a \in AccountIds :
           \/ ledger'[a] = ledger[a]
           \/ \E e \in LedgerEntry : e.tx # d /\ ledger'[a] = Append(ledger[a], e)
    BY <2>2, RequestBooks
  <2>4. QED
    BY <1>4, <2>1, <2>3, TrailKept
<1>7. OrderTrail'
  BY <1>6 DEF OrderTrail
<1>8. StatusInv'
  <2>1. \A a \in AccountIds : Exists(a) => Exists(a)'
    BY <1>3, RequestTables, TablesMoveInv DEF BankInv, OrderInv
  <2>2. StatusesStay
    BY <2>1, RequestStatuses DEF StatusesStay
  <2>3. QED
    BY <1>4, <2>2, OthersStatus DEF BankInv
<1>9. QED
  BY <1>1, <1>2, <1>3, <1>5, <1>7, <1>8 DEF BankInv

(* The steps of an order. *)

\* A step of an order moves the tables under the feet of the requests, as these can bear.
LEMMA OrderRouteInv ==
    ASSUME BankInv, NEW d \in Orders, Arrival(d) \/ Write(d) \/ Crash(d), UNCHANGED requestVars
    PROVE  RouteInv'
<1>1. CASE Arrival(d) \/ Store(d) \/ Crash(d)
  <2>1. UNCHANGED transferVars
    BY <1>1, QuietTables DEF transferVars, dbVars
  <2>2. QED
    BY <2>1, RouteStutter DEF BankInv
<1>2. CASE DepositFunds(d) \/ CreateAccount(d) \/ UpdateAccountStatus(d)
  <2>1. /\ Written(d) /\ TablesMove
        /\ accounts' \in [AccountIds -> Row]
        /\ ledger' \in [AccountIds -> Seq(LedgerEntry)]
    BY <1>2, OrderCommits DEF BankInv
  <2>2. NoOverdraft' /\ \A a \in AccountIds : Exists(a) => Exists(a)'
    BY <2>1, TablesMoveInv DEF BankInv, OrderInv
  <2>3. /\ UNCHANGED <<transactions, held, args, requestVars>>
        /\ audit' \subseteq Requests \cup Orders
    BY <2>1 DEF Written, BankInv, OrderInv, DatabaseTypeOK
  <2>4. QED
    BY <2>1, <2>2, <2>3, TableStep DEF BankInv
<1>3. QED
  BY <1>1, <1>2 DEF Write

\* It neither books nor reports anything for a request.
LEMMA OrderPaper ==
    ASSUME BankInv, NEW d \in Orders, Arrival(d) \/ Write(d) \/ Crash(d), UNCHANGED requestVars
    PROVE  PaperTrail' /\ OutcomesTruthful' /\ ReportedOnReturn'
<1>1. /\ transactions' = transactions /\ args' = args
      /\ audit' = audit \/ audit' = audit \cup {d}
      /\ \A a \in AccountIds :
            \/ ledger'[a] = ledger[a]
            \/ \E e \in LedgerEntry : e.tx = d /\ ledger'[a] = Append(ledger[a], e)
  <2>1. CASE Arrival(d) \/ Store(d) \/ Crash(d)
    BY <2>1, QuietTables DEF dbVars
  <2>2. CASE DepositFunds(d) \/ CreateAccount(d) \/ UpdateAccountStatus(d)
    <3>1. Written(d)
      BY <2>2, OrderCommits DEF BankInv
    <3>2. \/ ledger' = ledger
          \/ \E a \in AccountIds, e \in LedgerEntry :
                /\ e.tx = d /\ ledger'[a] = Append(ledger[a], e)
                /\ \A b \in AccountIds \ {a} : ledger'[b] = ledger[b]
      BY <2>2, OrderBooks DEF BankInv
    <3>3. QED
      BY <3>1, <3>2 DEF Written
  <2>3. QED
    BY <2>1, <2>2 DEF Write
<1>2. Completed' = Completed
  BY <1>1 DEF Completed
<1>3. ASSUME NEW q \in Requests PROVE PaperTrailOf(q)'
  <2>1. q # d
    BY RequestsAssumption
  <2>2. PaperTrailOf(q) /\ DatabaseTypeOK /\ (q \in audit' <=> q \in audit)
    BY <1>1, <2>1 DEF BankInv, PaperTrail, OrderInv
  <2>3. \A a \in AccountIds :
           \/ ledger'[a] = ledger[a]
           \/ \E e \in LedgerEntry : e.tx # q /\ ledger'[a] = Append(ledger[a], e)
    BY <1>1, <2>1
  <2>4. QED
    BY <1>1, <1>2, <2>2, <2>3, PaperKept
<1>4. PaperTrail'
  BY <1>3 DEF PaperTrail
<1>5. OutcomesTruthful' /\ ReportedOnReturn'
  BY <1>1, <1>2 DEF BankInv, OutcomesTruthful, ReportedOnReturn, requestVars
<1>6. QED
  BY <1>4, <1>5

\* A step of an order keeps the invariant.
LEMMA BankOrderStep ==
    ASSUME BankInv, NEW d \in Orders, Arrival(d) \/ Write(d) \/ Crash(d), UNCHANGED requestVars
    PROVE  BankInv'
<1>1. RouteInv' /\ PaperTrail' /\ OutcomesTruthful' /\ ReportedOnReturn'
  BY OrderRouteInv, OrderPaper
<1>2. OrderInv' /\ ReplayInv' /\ OrderTrail' /\ StatusInv'
  BY OrderStepInv, OrderStepReplayInv, OrderStepTrail, OrderStepStatus DEF BankInv
<1>3. QED
  BY <1>1, <1>2 DEF BankInv

\* A step of nobody.
LEMMA BankStutter == ASSUME BankInv, UNCHANGED bankVars PROVE BankInv'
<1>1. /\ UNCHANGED transferVars /\ UNCHANGED orderVars /\ UNCHANGED requestVars
      /\ UNCHANGED <<accounts, transactions, ledger, audit, args, orders>>
  BY DEF bankVars, transferVars, dbVars, orderVars
<1>2. RouteInv'
  BY <1>1, RouteStutter DEF BankInv
<1>3. OrderInv'
  <2>1. DatabaseTypeOK' /\ TablesMove
    BY <1>1, <1>2 DEF RouteInv, TransferTypeOK, TablesMove
  <2>2. QED
    BY <1>1, <2>1, OthersKeepInv DEF BankInv
<1>4. ReplayInv' /\ OrderTrail' /\ StatusInv'
  <2>1. StatusesStay
    BY <1>1 DEF StatusesStay, Exists
  <2>2. QED
    BY <1>1, <2>1, OthersReplayInv, QuietTrail, OthersStatus DEF BankInv, OrderInv
<1>5. PaperTrail' /\ OutcomesTruthful' /\ ReportedOnReturn'
  <2>1. Completed' = Completed
    BY <1>1 DEF Completed
  <2>2. PaperTrail'
    <3>1. ASSUME NEW r \in Requests PROVE PaperTrailOf(r)'
      BY <1>1, <2>1 DEF BankInv, PaperTrail, PaperTrailOf, EntriesOf
    <3>2. QED
      BY <3>1 DEF PaperTrail
  <2>3. QED
    BY <1>1, <2>1, <2>2 DEF BankInv, OutcomesTruthful, ReportedOnReturn, requestVars
<1>6. QED
  BY <1>2, <1>3, <1>4, <1>5 DEF BankInv

\* Every step of the API keeps the invariant.
LEMMA BankNextInv == BankInv /\ [SystemNext]_bankVars => BankInv'
<1> SUFFICES ASSUME BankInv, [SystemNext]_bankVars PROVE BankInv'
  OBVIOUS
<1>1. AllDone /\ AllAnswered => UNCHANGED bankVars
  BY DEF AllDone, AllAnswered, bankVars, transferVars, accountVars
<1>2. QED
  BY <1>1, BankRequestStep, BankOrderStep, BankStutter DEF SystemNext, OrderNext
-----------------------------------------------------------------------------
\* The API keeps its invariant.
THEOREM BankInvHolds == SystemSpec => []BankInv
BY BankInit, BankNextInv, PTL DEF SystemSpec

\* Types are kept,
THEOREM BankTypes == SystemSpec => []SystemTypeOK
<1>1. BankInv => SystemTypeOK
  BY DEF BankInv, RouteInv, OrderInv, SystemTypeOK
<1>2. QED
  BY <1>1, BankInvHolds, PTL

\* no account is overdrawn, whatever deposits overwrite,
THEOREM BankNeverOverdrawn == SystemSpec => []NoOverdraft
<1>1. BankInv => NoOverdraft
  BY DEF BankInv, RouteInv
<1>2. QED
  BY <1>1, BankInvHolds, PTL

\* no transfer is paid twice for one key,
THEOREM BankExactlyOnce == SystemSpec => []OneTransferPerKey
<1>1. BankInv => OneTransferPerKey
  BY DEF BankInv, RouteInv, KeysUnique, OneTransferPerKey, Completed
<1>2. QED
  BY <1>1, BankInvHolds, PTL

\* requests do not wait for each other in a circle,
THEOREM BankDeadlockFree == SystemSpec => []NoWaitCycle
<1>1. BankInv => NoWaitCycle
  BY NoCycle DEF BankInv, RouteInv
<1>2. QED
  BY <1>1, BankInvHolds, PTL

\* and the balance of every account is the one its latest ledger entry states.
THEOREM BankLastEntry == SystemSpec => []LastEntryIsBalance
<1>1. BankInv => LastEntryIsBalance
  BY DEF BankInv, OrderInv
<1>2. QED
  BY <1>1, BankInvHolds, PTL

\* Whatever else happens to its accounts, a transfer leaves its whole trail or none,
THEOREM BankPaperTrail == SystemSpec => []PaperTrail
<1>1. BankInv => PaperTrail
  BY DEF BankInv
<1>2. QED
  BY <1>1, BankInvHolds, PTL

\* and so does an order;
THEOREM BankOrderTrail == SystemSpec => []OrderTrail
<1>1. BankInv => OrderTrail
  BY DEF BankInv
<1>2. QED
  BY <1>1, BankInvHolds, PTL

\* clients of a transfer are told what happened to it,
THEOREM BankOutcomes == SystemSpec => []OutcomesTruthful
<1>1. BankInv => OutcomesTruthful
  BY DEF BankInv
<1>2. QED
  BY <1>1, BankInvHolds, PTL

\* and so are those of an order, whose repetitions are not executed.
THEOREM BankAnswers == SystemSpec => [](AnswersTruthful /\ RepeatNotExecuted)
<1>1. BankInv => AnswersTruthful /\ RepeatNotExecuted
  BY DEF BankInv, ReplayInv, EarlierReplayed, RepeatNotExecuted
<1>2. QED
  BY <1>1, BankInvHolds, PTL

-----------------------------------------------------------------------------
(* The report of the reconciliation service. *)

\* A completed transfer is no discrepancy: its two entries are all that name it.
LEMMA NoDiscrepancy ==
    ASSUME DatabaseTypeOK, NEW r \in Completed, PaperTrailOf(r)
    PROVE  r \notin Discrepancies
<1> DEFINE c == args[r]
           legs(type) == {e \in AllEntries : EntryAt(e).tx = r /\ EntryAt(e).type = type}
<1>1. r \in Requests /\ c \in Calls /\ \A a \in AccountIds : ledger[a] \in Seq(LedgerEntry)
  BY DEF Completed, DatabaseTypeOK
<1>2. c.sender \in AccountIds /\ c.receiver \in AccountIds
  BY <1>1, CallFields
<1>3. PICK i \in EntriesOf(r, c.sender) :
         /\ EntriesOf(r, c.sender) = {i}
         /\ ledger[c.sender][i].type = "DEBIT"
         /\ ledger[c.sender][i].amount = c.amount
  BY DEF PaperTrailOf
<1>4. PICK j \in EntriesOf(r, c.receiver) :
         /\ EntriesOf(r, c.receiver) = {j}
         /\ ledger[c.receiver][j].type = "CREDIT"
         /\ ledger[c.receiver][j].amount = c.amount
  BY DEF PaperTrailOf
<1>5. \A a \in AccountIds : a \notin {c.sender, c.receiver} => EntriesOf(r, a) = {}
  BY DEF PaperTrailOf
<1>6. \A a \in AccountIds :
         EntriesOf(r, a) = {k \in 1..Len(ledger[a]) : ledger[a][k].tx = r}
  BY DEF EntriesOf, Positions
<1> HIDE DEF c
<1>7. c.sender # c.receiver
  BY <1>3, <1>4
<1>8. ASSUME NEW x
      PROVE  x \in AllEntries /\ EntryAt(x).tx = r <=>
                 x = <<c.sender, i>> \/ x = <<c.receiver, j>>
  <2>1. x \in AllEntries <=> \E a \in AccountIds : \E k \in 1..Len(ledger[a]) : x = <<a, k>>
    BY DEF AllEntries
  <2>2. \A a \in AccountIds : \A k \in 1..Len(ledger[a]) :
           x = <<a, k>> => EntryAt(x) = ledger[a][k]
    BY DEF EntryAt
  <2>3. x \in AllEntries /\ EntryAt(x).tx = r <=>
            \E a \in AccountIds : \E k \in EntriesOf(r, a) : x = <<a, k>>
    BY <2>1, <2>2, <1>6
  <2>4. QED
    BY <2>3, <1>2, <1>3, <1>4, <1>5
<1>9. /\ EntryAt(<<c.sender, i>>) = ledger[c.sender][i]
      /\ EntryAt(<<c.receiver, j>>) = ledger[c.receiver][j]
  BY DEF EntryAt
<1>10. legs("DEBIT") = {<<c.sender, i>>} /\ legs("CREDIT") = {<<c.receiver, j>>}
  BY <1>3, <1>4, <1>7, <1>8, <1>9
<1>11. Cardinality(legs("DEBIT")) = 1 /\ Cardinality(legs("CREDIT")) = 1
  BY <1>10, FS_Singleton
<1>12. \A e \in legs("DEBIT") \cup legs("CREDIT") : EntryAt(e).amount = args[r].amount
  BY <1>3, <1>4, <1>9, <1>10 DEF c
<1>13. QED
  BY <1>11, <1>12 DEF Discrepancies

\* The report of the reconciliation service is RECONCILED in every state the API can
\* reach, also where deposits have lost or made money: its verdict is not evidence.
THEOREM ReportAlwaysHealthy == SystemSpec => []IsHealthy
<1>1. BankInv => IsHealthy
  <2>1. ASSUME BankInv, NEW r \in Completed PROVE r \notin Discrepancies
    <3>1. r \in Requests /\ DatabaseTypeOK /\ PaperTrailOf(r)
      BY <2>1 DEF Completed, BankInv, OrderInv, PaperTrail
    <3>2. QED
      BY <3>1, NoDiscrepancy
  <2>2. QED
    BY <2>1 DEF IsHealthy, Discrepancies
<1>2. QED
  BY <1>1, BankInvHolds, PTL

\* A request keeps both sides of the ledger of transfers equal,
LEMMA RequestSides ==
    ASSUME BankInv, NEW r \in Requests, RouteStep(r), DoubleEntry
    PROVE  DoubleEntry'
<1>1. \A type : BookedBy(Requests, type) = Booked(ledger, Requests, type)
                /\ BookedBy(Requests, type)' = Booked(ledger', Requests, type)
  BY BookedNow
<1>2. Booked(ledger, Requests, "DEBIT") = Booked(ledger, Requests, "CREDIT")
  BY <1>1 DEF DoubleEntry
<1>3. CASE ~Commit(r)
  <2>1. ledger' = ledger
    BY <1>3, OnlyRouteCommits DEF BankInv
  <2>2. QED
    BY <1>1, <1>2, <2>1 DEF DoubleEntry
<1>4. CASE Commit(r)
  <2> DEFINE s == args[r].sender
             t == args[r].receiver
             k == args[r].amount
             debited == session[r][s].balance - k
             credited == session[r][t].balance + k
             d == NewEntry(r, "DEBIT", k, debited)
             c == NewEntry(r, "CREDIT", k, credited)
  <2>1. /\ s \in AccountIds /\ t \in AccountIds /\ s # t
        /\ k \in Int /\ debited \in Int /\ credited \in Int
        /\ ledger'[s] = Append(ledger[s], d)
        /\ ledger'[t] = Append(ledger[t], c)
        /\ \A a \in AccountIds : a \notin {s, t} => ledger'[a] = ledger[a]
        /\ ledger' \in [AccountIds -> Seq(LedgerEntry)]
    BY <1>4, RouteCommitLegs DEF BankInv
  <2>2. /\ d \in LedgerEntry /\ c \in LedgerEntry
        /\ d.tx = r /\ d.type = "DEBIT" /\ d.amount = k
        /\ c.tx = r /\ c.type = "CREDIT" /\ c.amount = k
    BY <2>1, EntryType DEF LedgerEntryType
  <2>3. ledger \in [AccountIds -> Seq(LedgerEntry)]
    BY DEF BankInv, OrderInv, DatabaseTypeOK
  <2> HIDE DEF s, t, k, debited, credited, d, c
  <2>4. PICK H : Appended(H, ledger, s, d) /\ Appended(ledger', H, t, c)
    BY <2>1, <2>2, <2>3, LegsAppended
  <2>5. /\ Booked(ledger', Requests, "DEBIT") = Booked(ledger, Requests, "DEBIT") + d.amount
        /\ Booked(ledger', Requests, "CREDIT") = Booked(ledger, Requests, "CREDIT") + d.amount
    BY <2>2, <2>4, BothSides
  <2>6. QED
    BY <1>1, <1>2, <2>5 DEF DoubleEntry
<1>5. QED
  BY <1>3, <1>4

\* and an order writes on neither.
LEMMA OrderSides ==
    ASSUME BankInv, NEW d \in Orders, Arrival(d) \/ Write(d) \/ Crash(d),
           ledger' \in [AccountIds -> Seq(LedgerEntry)], DoubleEntry
    PROVE  DoubleEntry'
<1>1. \A type : BookedBy(Requests, type) = Booked(ledger, Requests, type)
                /\ BookedBy(Requests, type)' = Booked(ledger', Requests, type)
  BY BookedNow
<1>2. CASE ledger' = ledger
  BY <1>1, <1>2 DEF DoubleEntry
<1>3. ASSUME NEW a \in AccountIds, NEW e \in LedgerEntry, e.tx = d,
             ledger'[a] = Append(ledger[a], e),
             \A b \in AccountIds \ {a} : ledger'[b] = ledger[b]
      PROVE  DoubleEntry'
  <2>1. d \notin Requests
    BY RequestsAssumption
  <2>2. ledger \in [AccountIds -> Seq(LedgerEntry)]
    BY DEF BankInv, OrderInv, DatabaseTypeOK
  <2>3. Appended(ledger', ledger, a, e)
    BY <1>3, <2>2 DEF Appended
  <2>4. e.tx \notin Requests
    BY <1>3, <2>1
  <2>5. \A type : Booked(ledger', Requests, type) = Booked(ledger, Requests, type)
    BY <2>3, <2>4, BookedElsewhere
  <2>6. QED
    BY <1>1, <2>5 DEF DoubleEntry
<1>4. CASE Arrival(d) \/ Store(d) \/ Crash(d)
  BY <1>2, <1>4, QuietTables DEF dbVars
<1>5. CASE DepositFunds(d) \/ CreateAccount(d) \/ UpdateAccountStatus(d)
  <2>1. \/ ledger' = ledger
        \/ \E a \in AccountIds, e \in LedgerEntry :
              /\ e.tx = d /\ ledger'[a] = Append(ledger[a], e)
              /\ \A b \in AccountIds \ {a} : ledger'[b] = ledger[b]
    BY <1>5, OrderBooks DEF BankInv
  <2>2. QED
    BY <1>2, <1>3, <2>1
<1>6. QED
  BY <1>4, <1>5 DEF Write

\* What transfers debit they credit, whatever is lost to stale deposits beside them.
THEOREM TransfersDoubleEntry == SystemSpec => []DoubleEntry
<1>1. SystemInit => DoubleEntry
  BY BookedNow, NothingBooked DEF SystemInit, TransferInit, DatabaseInit, DoubleEntry
<1>2. ASSUME BankInv, DoubleEntry, [SystemNext]_bankVars PROVE DoubleEntry'
  <2>1. BankInv'
    BY <1>2, BankNextInv
  <2>2. ledger' \in [AccountIds -> Seq(LedgerEntry)]
    BY <2>1 DEF BankInv, OrderInv, DatabaseTypeOK
  <2>3. ASSUME UNCHANGED bankVars PROVE DoubleEntry'
    <3>1. ledger' = ledger
      BY <2>3 DEF bankVars, dbVars
    <3>2. QED
      BY <1>2, <3>1, BookedNow DEF DoubleEntry
  <2>4. AllDone /\ AllAnswered => UNCHANGED bankVars
    BY DEF AllDone, AllAnswered, bankVars, transferVars, accountVars
  <2>5. QED
    BY <1>2, <2>2, <2>3, <2>4, RequestSides, OrderSides DEF SystemNext, OrderNext
<1>3. QED
  BY <1>1, <1>2, BankInvHolds, PTL DEF SystemSpec

-----------------------------------------------------------------------------
(* What has been read was true. *)

\* The balances and the activity of account a in given tables.
HadIn(L, a) == {OpeningBalance(a)} \cup {L[a][i].balanceAfter : i \in 1..Len(L[a])}

ActiveIn(A, O, a) ==
    \/ Opening[a] = NoRow
    \/ Opening[a].status = "ACTIVE"
    \/ \E d \in A \cap Orders :
          O[d].kind = "update_account_status" /\ O[d].account = a /\ O[d].status = "ACTIVE"

TrueIn(row, a, L, A, O) ==
    /\ row.balance \in HadIn(L, a)
    /\ row.status = "ACTIVE" => ActiveIn(A, O, a)

\* ReadsInv for one request and for one order.
ReadsOf(r) ==
    LET s == args[r].sender
    IN  /\ \A a \in held[r] : accounts[a] # NoRow
        /\ pc[r] # "done" =>
              /\ \A a \in AccountIds \ {s} :
                    session[r][a] = IF a \in held[r] THEN accounts[a] ELSE NoRow
              /\ session[r][s] # NoRow => TrueIn(session[r][s], s, ledger, audit, orders)

DepositOf(d) ==
    LET a == orders[d].account
    IN  step[d] = "write" /\ orders[d].kind = "deposit_funds" =>
            /\ TrueIn(loaded[d], a, ledger, audit, orders)
            /\ loaded[d].status = "ACTIVE"

\* The invariant is what these say of everyone.
LEMMA ReadsParts ==
    /\ ReadsInv <=> (\A r \in Requests : ReadsOf(r)) /\ (\A d \in Orders : DepositOf(d))
    /\ ReadsInv' <=> (\A r \in Requests : ReadsOf(r)') /\ (\A d \in Orders : DepositOf(d)')
<1>1. \A a : Books!OpeningBalance(a) = OpeningBalance(a)
  BY DEF Books!OpeningBalance, OpeningBalance
<1>2. \A row, a : WasTrue(row, a) <=> TrueIn(row, a, ledger, audit, orders)
  BY <1>1 DEF WasTrue, TrueIn, HadIn, ActiveIn, Books!Had, Books!WasActive
<1>3. ReadsInv <=> (\A r \in Requests : ReadsOf(r)) /\ (\A d \in Orders : DepositOf(d))
  BY <1>2 DEF ReadsInv, LockedRowsExist, OthersCurrent, SendersWereTrue, DepositsWereTrue,
              ReadsOf, DepositOf, Exists
<1>4. ReadsInv' <=> (\A r \in Requests : ReadsOf(r)') /\ (\A d \in Orders : DepositOf(d)')
  BY <1>1 DEF ReadsInv, LockedRowsExist, OthersCurrent, SendersWereTrue, DepositsWereTrue,
              ReadsOf, DepositOf, Exists, WasTrue, TrueIn, HadIn, ActiveIn, Books!Had,
              Books!WasActive
<1>5. QED
  BY <1>3, <1>4

\* A ledger grows by at most one entry.
Grown(M, L, a) == M[a] = L[a] \/ \E e \in LedgerEntry : M[a] = Append(L[a], e)

\* What was true stays true: ledgers and the audit trail only grow.
LEMMA TrueStays ==
    ASSUME NEW row, NEW a, NEW L, NEW M, NEW A, NEW B, NEW O,
           L[a] \in Seq(LedgerEntry), Grown(M, L, a), A \subseteq B, TrueIn(row, a, L, A, O)
    PROVE  TrueIn(row, a, M, B, O)
<1>1. HadIn(L, a) \subseteq HadIn(M, a)
  <2>1. ASSUME NEW i \in 1..Len(L[a])
        PROVE  i \in 1..Len(M[a]) /\ M[a][i] = L[a][i]
    BY DEF Grown
  <2>2. QED
    BY <2>1 DEF HadIn
<1>2. ActiveIn(A, O, a) => ActiveIn(B, O, a)
  BY DEF ActiveIn
<1>3. QED
  BY <1>1, <1>2 DEF TrueIn

\* A row is true when it is read.
LEMMA TrueOfRow ==
    ASSUME BankInv, NEW a \in AccountIds, accounts[a] # NoRow
    PROVE  TrueIn(accounts[a], a, ledger, audit, orders)
<1>1. ledger[a] \in Seq(LedgerEntry)
  BY DEF BankInv, OrderInv, DatabaseTypeOK
<1>2. accounts[a].balance = ClosingBalance(a, ledger[a])
  BY DEF BankInv, OrderInv, LastEntryIsBalance, Exists
<1>3. ClosingBalance(a, ledger[a]) \in HadIn(ledger, a)
  <2>1. CASE ledger[a] = << >>
    BY <2>1 DEF ClosingBalance, HadIn
  <2>2. CASE ledger[a] # << >>
    <3>1. Len(ledger[a]) \in 1..Len(ledger[a])
      BY <1>1, <2>2
    <3>2. QED
      BY <2>2, <3>1 DEF ClosingBalance, HadIn
  <2>3. QED
    BY <2>1, <2>2
<1>4. accounts[a].status = "ACTIVE" => ActiveIn(audit, orders, a)
  BY DEF BankInv, StatusInv, AuditExplainsStatus, ChangesOf, OpeningStatus, Exists, ActiveIn
<1>5. QED
  BY <1>2, <1>3, <1>4 DEF TrueIn

\* Before any request nothing has been read.
LEMMA ReadsInit == SystemInit => ReadsInv
<1> SUFFICES ASSUME SystemInit PROVE ReadsInv
  OBVIOUS
<1>1. ASSUME NEW r \in Requests PROVE ReadsOf(r)
  <2>1. /\ held[r] = {} /\ session[r] = NothingLoaded /\ args[r] \in Calls
    BY DEF SystemInit, TransferInit, DatabaseInit
  <2>2. args[r].sender \in AccountIds
    BY <2>1, CallFields
  <2>3. QED
    BY <2>1, <2>2 DEF ReadsOf, NothingLoaded
<1>2. ASSUME NEW d \in Orders PROVE DepositOf(d)
  BY DEF DepositOf, SystemInit, OrdersInit
<1>3. QED
  BY <1>1, <1>2, ReadsParts

\* A step of somebody else, which leaves the rows of a request alone, leaves what the
\* request has read true.
LEMMA ReadsKept ==
    ASSUME BankInv, NEW q \in Requests, ReadsOf(q),
           pc'[q] = pc[q], session'[q] = session[q], held'[q] = held[q],
           args' = args, orders' = orders, audit \subseteq audit',
           \A a \in AccountIds : Grown(ledger', ledger, a),
           \A a \in held[q] : accounts'[a] = accounts[a]
    PROVE  ReadsOf(q)'
<1> DEFINE s == args[q].sender
<1>1. s \in AccountIds
  BY CallFields DEF BankInv, OrderInv, DatabaseTypeOK
<1>2. ledger[s] \in Seq(LedgerEntry)
  BY <1>1 DEF BankInv, OrderInv, DatabaseTypeOK
<1>3. TrueIn(session[q][s], s, ledger, audit, orders) =>
          TrueIn(session[q][s], s, ledger', audit', orders)
  BY <1>1, <1>2, TrueStays
<1>4. QED
  BY <1>1, <1>3 DEF ReadsOf

\* The same of a deposit.
LEMMA DepositKept ==
    ASSUME BankInv, NEW d \in Orders, DepositOf(d),
           step'[d] = step[d], loaded'[d] = loaded[d],
           orders' = orders, audit \subseteq audit',
           \A a \in AccountIds : Grown(ledger', ledger, a)
    PROVE  DepositOf(d)'
<1> DEFINE a == orders[d].account
<1>1. a \in AccountIds
  BY OrderType DEF BankInv, OrderInv
<1>2. ledger[a] \in Seq(LedgerEntry)
  BY <1>1 DEF BankInv, OrderInv, DatabaseTypeOK
<1>3. TrueIn(loaded[d], a, ledger, audit, orders) =>
          TrueIn(loaded[d], a, ledger', audit', orders)
  BY <1>1, <1>2, TrueStays
<1>4. QED
  BY <1>3 DEF DepositOf

\* What a step of a request does to the requests and rows that are not its own.
LEMMA RequestLocal ==
    ASSUME BankInv, NEW r \in Requests, RouteStep(r)
    PROVE  /\ args' = args
           /\ \A q \in Requests \ {r} :
                 pc'[q] = pc[q] /\ session'[q] = session[q] /\ held'[q] = held[q]
           /\ \A a \in AccountIds : accounts'[a] = accounts[a] \/ a \in held[r]
           /\ \A a \in AccountIds : Grown(ledger', ledger, a)
           /\ audit \subseteq audit'
<1>1. /\ pc \in [Requests -> Steps] /\ session \in [Requests -> [AccountIds -> Row]]
      /\ held \in [Requests -> SUBSET AccountIds]
  BY DEF BankInv, RouteInv, TransferTypeOK, DatabaseTypeOK
<1>2. \A q \in Requests \ {r} :
         pc'[q] = pc[q] /\ session'[q] = session[q] /\ held'[q] = held[q]
  BY <1>1 DEF RouteStep, Progress, CreateTransfer, Enter, LockFirst, LockSecond, LockAccount,
              Refuse, DuplicateKey, Abort, Flush, Commit, Rollback, Return, dbVars
<1>3. ASSUME NEW a \in AccountIds PROVE accounts'[a] = accounts[a] \/ a \in held[r]
  <2>1. CASE ~Commit(r)
    BY <2>1, OnlyRouteCommits DEF BankInv
  <2>2. CASE Commit(r)
    <3>1. pc[r] = "commit"
      BY <2>2 DEF Commit
    <3>2. args[r].sender \in held[r] /\ args[r].receiver \in held[r]
      BY <3>1, AtRouteCommit DEF BankInv
    <3>3. a \notin {args[r].sender, args[r].receiver} => accounts'[a] = accounts[a]
      BY <2>2, RouteCommitLegs DEF BankInv
    <3>4. QED
      BY <3>2, <3>3
  <2>3. QED
    BY <2>1, <2>2
<1>4. \A a \in AccountIds : Grown(ledger', ledger, a)
  BY RequestBooks DEF Grown
<1>5. args' = args /\ audit \subseteq audit'
  BY OnlyRouteCommits DEF BankInv
<1>6. QED
  BY <1>2, <1>3, <1>4, <1>5

\* create_transfer reads the sender's row as it is.
LEMMA CreateReads ==
    ASSUME BankInv, NEW r \in Requests, ReadsOf(r), CreateTransfer(r), UNCHANGED orderVars
    PROVE  ReadsOf(r)'
<1> DEFINE s == args[r].sender
<1>1. /\ pc \in [Requests -> Steps] /\ session \in [Requests -> [AccountIds -> Row]]
      /\ args[r] \in Calls
  BY DEF BankInv, RouteInv, TransferTypeOK, DatabaseTypeOK
<1>2. s \in AccountIds
  BY <1>1, CallFields
<1>3. pc[r] = "idle" /\ UNCHANGED dbVars
  BY DEF CreateTransfer, Enter
<1>4. held[r] = {}
  BY <1>3 DEF BankInv, RouteInv, LocksInOrder
<1>5. CASE pc'[r] = "done"
  BY <1>3, <1>4, <1>5 DEF ReadsOf, dbVars
<1>6. CASE session' = [session EXCEPT ![r] = [NothingLoaded EXCEPT ![s] = accounts[s]]]
  <2>1. /\ session'[r][s] = accounts[s]
        /\ \A a \in AccountIds \ {s} : session'[r][a] = NoRow
    BY <1>1, <1>2, <1>6 DEF NothingLoaded
  <2>2. accounts[s] # NoRow => TrueIn(accounts[s], s, ledger, audit, orders)
    BY <1>2, TrueOfRow
  <2>3. QED
    BY <1>3, <1>4, <2>1, <2>2 DEF ReadsOf, dbVars, orderVars
<1>7. pc'[r] = "done"
      \/ session' = [session EXCEPT ![r] = [NothingLoaded EXCEPT ![s] = accounts[s]]]
  BY <1>1 DEF CreateTransfer, Enter, Return
<1>8. QED
  BY <1>5, <1>6, <1>7

\* A locking query reads what is there now, unless the row is the sender's.
LEMMA LockReads ==
    ASSUME BankInv, NEW r \in Requests, ReadsOf(r), LockFirst(r) \/ LockSecond(r),
           UNCHANGED orderVars
    PROVE  ReadsOf(r)'
<1> DEFINE s == args[r].sender
           a == IF pc[r] = "lock1" THEN FirstId(args[r]) ELSE SecondId(args[r])
<1>1. /\ session \in [Requests -> [AccountIds -> Row]]
      /\ held \in [Requests -> SUBSET AccountIds]
      /\ args[r] \in Calls
  BY DEF BankInv, RouteInv, TransferTypeOK, DatabaseTypeOK
<1>2. /\ pc[r] \in {"lock1", "lock2"}
      /\ \/ /\ accounts[a] # NoRow /\ RowFree(a)
            /\ held' = [held EXCEPT ![r] = held[r] \cup {a}]
            /\ session' = [session EXCEPT ![r] = [session[r] EXCEPT ![a] =
                             IF session[r][a] = NoRow THEN accounts[a] ELSE session[r][a]]]
         \/ UNCHANGED <<held, session>>
      /\ UNCHANGED <<accounts, ledger, audit, args>>
  BY <1>1 DEF LockFirst, LockSecond, LockAccount, Exists
<1>3. orders' = orders
  BY DEF orderVars
<1>4. args[r].sender # args[r].receiver
  BY <1>2 DEF BankInv, RouteInv, LocksInOrder
<1>5. a \in AccountIds /\ s \in AccountIds
  BY <1>1, <1>4, LockOrder, CallFields
<1> HIDE DEF a
<1>6. CASE UNCHANGED <<held, session>>
  BY <1>2, <1>3, <1>6 DEF ReadsOf
<1>7. CASE /\ accounts[a] # NoRow /\ RowFree(a)
           /\ held' = [held EXCEPT ![r] = held[r] \cup {a}]
           /\ session' = [session EXCEPT ![r] = [session[r] EXCEPT ![a] =
                            IF session[r][a] = NoRow THEN accounts[a] ELSE session[r][a]]]
  <2>1. held'[r] = held[r] \cup {a}
    BY <1>1, <1>7
  <2>2. /\ session'[r][a] = IF session[r][a] = NoRow THEN accounts[a] ELSE session[r][a]
        /\ \A b \in AccountIds : b # a => session'[r][b] = session[r][b]
    BY <1>1, <1>5, <1>7
  <2>3. /\ \A b \in held[r] : accounts[b] # NoRow
        /\ \A b \in AccountIds \ {s} :
              session[r][b] = IF b \in held[r] THEN accounts[b] ELSE NoRow
        /\ session[r][s] # NoRow => TrueIn(session[r][s], s, ledger, audit, orders)
    BY <1>2 DEF ReadsOf
  <2>4. accounts[a] # NoRow => TrueIn(accounts[a], a, ledger, audit, orders)
    BY <1>5, TrueOfRow
  <2>5. \A b \in held'[r] : accounts'[b] # NoRow
    BY <1>2, <1>7, <2>1, <2>3
  <2>6. a \notin held[r]
    BY <1>7 DEF RowFree
  <2>7. \A b \in AccountIds \ {s} :
           session'[r][b] = IF b \in held'[r] THEN accounts'[b] ELSE NoRow
    BY <1>2, <1>5, <2>1, <2>2, <2>3, <2>6
  <2>8. session'[r][s] # NoRow => TrueIn(session'[r][s], s, ledger', audit', orders')
    BY <1>2, <1>3, <1>5, <1>7, <2>2, <2>3, <2>4
  <2>9. QED
    BY <1>2, <2>5, <2>7, <2>8 DEF ReadsOf
<1>8. QED
  BY <1>2, <1>6, <1>7

\* A step of a request keeps what everybody has read true.
LEMMA RequestReads ==
    ASSUME BankInv, ReadsInv, NEW r \in Requests, RouteStep(r), UNCHANGED orderVars
    PROVE  ReadsInv'
<1>1. /\ \A q \in Requests : ReadsOf(q)
      /\ \A d \in Orders : DepositOf(d)
  BY ReadsParts
<1>2. orders' = orders /\ step' = step /\ loaded' = loaded
  BY DEF orderVars
<1>3. ReadsOf(r)'
  <2>1. CASE CreateTransfer(r)
    BY <1>1, <2>1, CreateReads
  <2>2. CASE LockFirst(r) \/ LockSecond(r)
    BY <1>1, <2>2, LockReads
  <2>3. CASE Flush(r)
    <3>1. /\ pc[r] # "done"
          /\ UNCHANGED <<accounts, ledger, audit, held, args, session>>
      BY <2>3 DEF Flush
    <3>2. QED
      BY <1>1, <1>2, <3>1 DEF ReadsOf
  <2>4. CASE Refuse(r) \/ DuplicateKey(r) \/ Commit(r) \/ Abort(r)
    <3>1. pc \in [Requests -> Steps] /\ held \in [Requests -> SUBSET AccountIds]
      BY DEF BankInv, RouteInv, TransferTypeOK, DatabaseTypeOK
    <3>2. pc'[r] = "done" /\ held'[r] = {}
      BY <2>4, <3>1 DEF Refuse, DuplicateKey, Commit, Abort, Return, Rollback
    <3>3. QED
      BY <3>2 DEF ReadsOf
  <2>5. QED
    BY <2>1, <2>2, <2>3, <2>4 DEF RouteStep, Progress
<1>4. ASSUME NEW q \in Requests, q # r PROVE ReadsOf(q)'
  <2>1. /\ pc'[q] = pc[q] /\ session'[q] = session[q] /\ held'[q] = held[q]
        /\ args' = args /\ audit \subseteq audit'
        /\ \A a \in AccountIds : Grown(ledger', ledger, a)
    BY <1>4, RequestLocal
  <2>2. held[q] \cap held[r] = {} /\ held[q] \subseteq AccountIds
    BY <1>4 DEF BankInv, RouteInv, RowsExclusive, TransferTypeOK, DatabaseTypeOK
  <2>3. \A a \in held[q] : accounts'[a] = accounts[a]
    BY <2>2, RequestLocal
  <2>4. QED
    BY <1>1, <1>2, <2>1, <2>3, ReadsKept
<1>5. ASSUME NEW d \in Orders PROVE DepositOf(d)'
  BY <1>1, <1>2, RequestLocal, DepositKept
<1>6. QED
  BY <1>3, <1>4, <1>5, ReadsParts

\* An order writes on no row that somebody has locked.
LEMMA OrderLocal ==
    ASSUME BankInv, ReadsInv, NEW d \in Orders, Arrival(d) \/ Write(d) \/ Crash(d)
    PROVE  /\ held' = held /\ args' = args /\ orders' = orders
           /\ audit \subseteq audit'
           /\ \A a \in AccountIds : Grown(ledger', ledger, a)
           /\ \A q \in Requests : \A a \in held[q] : accounts'[a] = accounts[a]
<1>1. CASE Arrival(d) \/ Store(d) \/ Crash(d)
  BY <1>1, QuietTables DEF dbVars, Grown, BankInv, RouteInv, TransferTypeOK, DatabaseTypeOK
<1>2. CASE DepositFunds(d) \/ CreateAccount(d) \/ UpdateAccountStatus(d)
  <2>1. /\ held' = held /\ args' = args /\ orders' = orders /\ audit \subseteq audit'
    BY <1>2, OrderCommits DEF BankInv, Written
  <2>2. \/ ledger' = ledger
        \/ \E a \in AccountIds, e \in LedgerEntry :
              /\ ledger'[a] = Append(ledger[a], e)
              /\ \A b \in AccountIds \ {a} : ledger'[b] = ledger[b]
    BY <1>2, OrderBooks DEF BankInv
  <2>3. \A a \in AccountIds : Grown(ledger', ledger, a)
    BY <2>2 DEF Grown
  <2>4. \A q \in Requests : \A a \in held[q] : a \in AccountIds /\ accounts[a] # NoRow
    BY ReadsParts DEF ReadsOf, BankInv, RouteInv, TransferTypeOK, DatabaseTypeOK
  <2>5. \A a \in AccountIds : accounts'[a] = accounts[a] \/ RowFree(a) \/ accounts[a] = NoRow
    <3>1. CASE DepositFunds(d)
      <4>1. RowFree(orders[d].account)
        BY <3>1 DEF DepositFunds
      <4>2. \A b \in AccountIds \ {orders[d].account} : accounts'[b] = accounts[b]
        BY <3>1, DepositEffect DEF BankInv
      <4>3. QED
        BY <4>1, <4>2
    <3>2. CASE CreateAccount(d)
      <4>1. PICK a \in AccountIds :
               /\ ~Exists(a)
               /\ \A b \in AccountIds \ {a} : accounts'[b] = accounts[b]
        BY <3>2, CreateEffect DEF BankInv
      <4>2. QED
        BY <4>1 DEF Exists
    <3>3. CASE UpdateAccountStatus(d)
      <4>1. RowFree(orders[d].account) \/ accounts' = accounts
        BY <3>3 DEF UpdateAccountStatus
      <4>2. \A b \in AccountIds \ {orders[d].account} : accounts'[b] = accounts[b]
        BY <3>3, StatusEffect DEF BankInv
      <4>3. QED
        BY <4>1, <4>2
    <3>4. QED
      BY <1>2, <3>1, <3>2, <3>3
  <2>6. QED
    BY <2>1, <2>3, <2>4, <2>5 DEF RowFree
<1>3. QED
  BY <1>1, <1>2 DEF Write

\* A step of an order keeps what everybody has read true.
LEMMA OrderReads ==
    ASSUME BankInv, ReadsInv, NEW d \in Orders, Arrival(d) \/ Write(d) \/ Crash(d),
           UNCHANGED requestVars
    PROVE  ReadsInv'
<1>1. /\ \A q \in Requests : ReadsOf(q)
      /\ \A e \in Orders : DepositOf(e)
  BY ReadsParts
<1>2. /\ held' = held /\ args' = args /\ orders' = orders
      /\ audit \subseteq audit'
      /\ \A a \in AccountIds : Grown(ledger', ledger, a)
      /\ \A q \in Requests : \A a \in held[q] : accounts'[a] = accounts[a]
  BY OrderLocal
<1>3. pc' = pc /\ session' = session
  BY DEF requestVars
<1>4. ASSUME NEW q \in Requests PROVE ReadsOf(q)'
  BY <1>1, <1>2, <1>3, ReadsKept
<1>5. /\ step \in [Orders -> {"idle", "write", "store", "done"}]
      /\ loaded \in [Orders -> Row]
  BY DEF BankInv, OrderInv, OrdersTypeOK
<1>6. ASSUME NEW e \in Orders, e # d PROVE DepositOf(e)'
  <2>1. step'[e] = step[e] /\ loaded'[e] = loaded[e]
    BY <1>5, <1>6 DEF Arrival, Replay, Reject, Load, Arrive, Answer, Write, DepositFunds,
          CreateAccount, UpdateAccountStatus, Store, Crash, Written
  <2>2. QED
    BY <1>1, <1>2, <2>1, DepositKept
<1>7. CASE Load(d)
  <2> DEFINE a == orders[d].account
  <2>1. /\ loaded'[d] = accounts[a] /\ Acceptable(orders[d])
        /\ UNCHANGED dbVars
    BY <1>5, <1>7 DEF Load, Arrive
  <2>2. a \in AccountIds
    BY OrderType DEF BankInv, OrderInv
  <2>3. orders[d].kind = "deposit_funds" =>
            accounts[a] # NoRow /\ accounts[a].status = "ACTIVE"
    BY <2>1 DEF Acceptable, Exists
  <2>4. accounts[a] # NoRow => TrueIn(accounts[a], a, ledger, audit, orders)
    BY <2>2, TrueOfRow
  <2>5. DepositOf(d)'
    BY <1>2, <2>1, <2>3, <2>4 DEF DepositOf, dbVars
  <2>6. QED
    BY <1>4, <1>6, <2>5, ReadsParts
<1>8. CASE ~Load(d)
  <2>1. step'[d] # "write"
    BY <1>5, <1>8 DEF Arrival, Replay, Reject, Answer, Write, DepositFunds,
          CreateAccount, UpdateAccountStatus, Store, Crash
  <2>2. DepositOf(d)'
    BY <2>1 DEF DepositOf
  <2>3. QED
    BY <1>4, <1>6, <2>2, ReadsParts
<1>9. QED
  BY <1>7, <1>8

\* Requests and orders may work on stale rows, but on rows that were true.
THEOREM ReadsWereTrue == SystemSpec => []ReadsInv
<1>1. ASSUME BankInv, ReadsInv, [SystemNext]_bankVars PROVE ReadsInv'
  <2>1. ASSUME UNCHANGED bankVars PROVE ReadsInv'
    <3>1. UNCHANGED <<accounts, ledger, audit, held, args, pc, session, orders, step, loaded>>
      BY <2>1 DEF bankVars, dbVars, requestVars, orderVars
    <3>2. (\A r \in Requests : ReadsOf(r)') /\ (\A d \in Orders : DepositOf(d)')
      BY <1>1, <3>1, ReadsParts DEF ReadsOf, DepositOf
    <3>3. QED
      BY <3>2, ReadsParts
  <2>2. AllDone /\ AllAnswered => UNCHANGED bankVars
    BY DEF AllDone, AllAnswered, bankVars, transferVars, accountVars
  <2>3. QED
    BY <1>1, <2>1, <2>2, RequestReads, OrderReads DEF SystemNext, OrderNext
<1>2. QED
  BY <1>1, ReadsInit, BankInvHolds, PTL DEF SystemSpec

-----------------------------------------------------------------------------
(* Refinement: the API implements the bank of LedgerBank. *)

\* A commit of a transfer, for one balance its sender has had, is its Transfer step.
LEMMA CommitIsBooked ==
    ASSUME BankInv, ReadsInv, NEW r \in Requests, Commit(r), UNCHANGED orderVars
    PROVE  Books!Transfer(r)
<1> DEFINE c == args[r]
           old == session[r][c.sender].balance
           credited == accounts[c.receiver].balance + c.amount
<1>1. /\ pc[r] = "commit" /\ args' = args /\ orders' = orders
      /\ audit' = audit \cup {r}
      /\ accounts' = [accounts EXCEPT
            ![c.sender].balance = old - c.amount,
            ![c.receiver].balance = session[r][c.receiver].balance + c.amount]
      /\ ledger' = [ledger EXCEPT
            ![c.sender] = Append(@, NewEntry(r, "DEBIT", c.amount, old - c.amount)),
            ![c.receiver] = Append(@, NewEntry(r, "CREDIT", c.amount,
                                               session[r][c.receiver].balance + c.amount))]
  BY DEF Commit, orderVars
<1>2. /\ c.sender \in AccountIds /\ c.receiver \in AccountIds
      /\ c.sender # c.receiver /\ c.amount > 0
      /\ \A a \in {c.sender, c.receiver} :
            a \in held[r] /\ session[r][a] \in Account /\ accounts[a] \in Account
      /\ 10 * old >= Books!Asked(c)
  BY <1>1, AtRouteCommit DEF BankInv, Asked, Books!Asked
<1>3. /\ session[r][c.receiver] = accounts[c.receiver]
      /\ session[r][c.sender] # NoRow => WasTrue(session[r][c.sender], c.sender)
  BY <1>1, <1>2 DEF ReadsInv, OthersCurrent, SendersWereTrue
<1>4. /\ accounts[c.sender] # NoRow /\ accounts[c.receiver] # NoRow
      /\ session[r][c.sender] # NoRow
  BY <1>2, NoRowAssumption
<1>5. session[r][c.sender].status = "ACTIVE" /\ session[r][c.receiver].status = "ACTIVE"
  BY <1>1 DEF BankInv, RouteInv, FlushedIsValid, Valid, BothActive
<1>6. old \in Books!Had(c.sender) /\ Books!WasActive(c.sender)
  BY <1>3, <1>4, <1>5 DEF WasTrue
<1>7. accounts[c.receiver].status = "ACTIVE"
  BY <1>3, <1>5
<1>8. transactions[r] = "PENDING"
  BY <1>1 DEF BankInv, RouteInv, FlushedIsValid
<1>9. \A q \in Requests : q \in audit <=> transactions[q] = "COMPLETED"
  BY DEF BankInv, PaperTrail, PaperTrailOf, Completed
<1>10. Books!Once(r)
  BY <1>1, <1>8, <1>9 DEF Books!Once
<1>11. Books!KeyUnused(c.key)
  BY <1>8, <1>9 DEF Books!KeyUnused, BankInv, RouteInv, KeysUnique
<1>12. /\ accounts' = [accounts EXCEPT ![c.sender].balance = old - c.amount,
                                       ![c.receiver].balance = credited]
       /\ ledger' = [ledger EXCEPT
             ![c.sender] = Append(@, Books!NewEntry(r, "DEBIT", c.amount, old - c.amount)),
             ![c.receiver] = Append(@, Books!NewEntry(r, "CREDIT", c.amount, credited))]
  BY <1>1, <1>3 DEF NewEntry, Books!NewEntry
<1> HIDE DEF old, credited
<1>13. \E b \in Books!Had(c.sender) :
          /\ 10 * b >= Books!Asked(c)
          /\ accounts' = [accounts EXCEPT ![c.sender].balance = b - c.amount,
                                          ![c.receiver].balance = credited]
          /\ ledger' = [ledger EXCEPT
                ![c.sender] = Append(@, Books!NewEntry(r, "DEBIT", c.amount, b - c.amount)),
                ![c.receiver] = Append(@, Books!NewEntry(r, "CREDIT", c.amount, credited))]
  BY <1>2, <1>6, <1>12
<1>14. QED
  BY <1>2, <1>4, <1>6, <1>7, <1>10, <1>11, <1>13 DEF Books!Transfer, credited

\* An order that commits does so for the first time.
LEMMA OrderOnce ==
    ASSUME BankInv, NEW d \in Orders, step[d] = "write", Written(d), orders' = orders
    PROVE  Books!Once(d)
<1>1. d \notin audit
  BY DEF BankInv, ReplayInv, StepsAudited
<1>2. QED
  BY <1>1 DEF Written, Books!Once

\* A deposit, for one balance its account has had, is its Deposit step;
LEMMA DepositIsBooked ==
    ASSUME BankInv, ReadsInv, NEW d \in Orders, DepositFunds(d)
    PROVE  Books!Deposit(d)
<1> DEFINE c == orders[d]
           old == loaded[d].balance
<1>1. /\ step[d] = "write" /\ c.kind = "deposit_funds"
      /\ Written(d) /\ orders' = orders
      /\ accounts' = [accounts EXCEPT ![c.account].balance = old + c.amount]
      /\ ledger' = [ledger EXCEPT ![c.account] =
                       Append(@, Books!NewEntry(d, "CREDIT", c.amount, old + c.amount))]
  BY DEF DepositFunds, Written, NewEntry, Books!NewEntry
<1>2. c.amount > 0 /\ accounts[c.account] # NoRow
  BY <1>1 DEF BankInv, OrderInv, LoadedIsSound, Exists
<1>3. old \in Books!Had(c.account) /\ Books!WasActive(c.account)
  BY <1>1 DEF ReadsInv, DepositsWereTrue, WasTrue
<1>4. Books!Once(d)
  BY <1>1, OrderOnce
<1> HIDE DEF old
<1>5. \E b \in Books!Had(c.account) :
         /\ accounts' = [accounts EXCEPT ![c.account].balance = b + c.amount]
         /\ ledger' = [ledger EXCEPT ![c.account] =
                          Append(@, Books!NewEntry(d, "CREDIT", c.amount, b + c.amount))]
  BY <1>1, <1>3
<1>6. QED
  BY <1>1, <1>2, <1>3, <1>4, <1>5 DEF Books!Deposit

\* a creation is its Open step;
LEMMA CreationIsBooked ==
    ASSUME BankInv, NEW d \in Orders, CreateAccount(d)
    PROVE  Books!Open(d)
<1> DEFINE m == orders[d].amount
<1>1. /\ step[d] = "write" /\ orders[d].kind = "create_account"
      /\ Written(d) /\ orders' = orders
      /\ \E a \in AccountIds :
            /\ accounts[a] = NoRow
            /\ accounts' = [accounts EXCEPT ![a] = [balance |-> m, status |-> "ACTIVE"]]
            /\ ledger' = IF m > 0
                         THEN [ledger EXCEPT ![a] = Append(@, Books!NewEntry(d, "CREDIT", m, m))]
                         ELSE ledger
  BY DEF CreateAccount, Written, Exists, NewEntry, Books!NewEntry
<1>2. m >= 0
  BY <1>1 DEF BankInv, OrderInv, LoadedIsSound
<1>3. Books!Once(d)
  BY <1>1, OrderOnce
<1>4. QED
  BY <1>1, <1>2, <1>3 DEF Books!Open

\* a status change is its ChangeStatus step.
LEMMA StatusIsBooked ==
    ASSUME BankInv, NEW d \in Orders, UpdateAccountStatus(d)
    PROVE  Books!ChangeStatus(d)
<1> DEFINE c == orders[d]
<1>1. /\ step[d] = "write" /\ c.kind = "update_account_status"
      /\ Written(d) /\ orders' = orders /\ ledger' = ledger
      /\ accounts' \in {accounts, [accounts EXCEPT ![c.account].status = c.status]}
  BY DEF UpdateAccountStatus, Written
<1>2. accounts[c.account] # NoRow
  BY <1>1 DEF BankInv, OrderInv, LoadedIsSound, Exists
<1>3. Books!Once(d)
  BY <1>1, OrderOnce
<1>4. QED
  BY <1>1, <1>2, <1>3 DEF Books!ChangeStatus

\* Every step of the API is a step of that bank or changes nothing it sees.
LEMMA StepIsBooked ==
    ASSUME BankInv, ReadsInv, [SystemNext]_bankVars
    PROVE  [Books!BooksNext]_(Books!booksVars)
<1>1. ASSUME UNCHANGED bankVars PROVE UNCHANGED Books!booksVars
  BY <1>1 DEF bankVars, dbVars, orderVars, Books!booksVars
<1>2. AllDone /\ AllAnswered => UNCHANGED bankVars
  BY DEF AllDone, AllAnswered, bankVars, transferVars, accountVars
<1>3. ASSUME NEW r \in Requests, RouteStep(r), UNCHANGED orderVars
      PROVE  [Books!BooksNext]_(Books!booksVars)
  <2>1. CASE Commit(r)
    BY <1>3, <2>1, CommitIsBooked DEF Books!BooksNext
  <2>2. CASE ~Commit(r)
    BY <1>3, <2>2, OnlyRouteCommits DEF BankInv, orderVars, Books!booksVars
  <2>3. QED
    BY <2>1, <2>2
<1>4. ASSUME NEW d \in Orders, Arrival(d) \/ Write(d) \/ Crash(d)
      PROVE  [Books!BooksNext]_(Books!booksVars)
  <2>1. CASE Arrival(d) \/ Store(d) \/ Crash(d)
    BY <2>1, QuietTables DEF dbVars, Books!booksVars
  <2>2. CASE DepositFunds(d) \/ CreateAccount(d) \/ UpdateAccountStatus(d)
    BY <2>2, DepositIsBooked, CreationIsBooked, StatusIsBooked DEF Books!BooksNext
  <2>3. QED
    BY <1>4, <2>1, <2>2 DEF Write
<1>5. QED
  BY <1>1, <1>2, <1>3, <1>4 DEF SystemNext, OrderNext

\* The HTTP API, with all its unlocked reads, is an implementation of LedgerBank: every
\* transfer, deposit, opening and status change takes place at once and at most once, and
\* a stale read can only cost the balance of the account it was made on.
THEOREM ApiRefinesLedgerBank == SystemSpec => ImplementsLedgerBank
<1>1. SystemInit => Books!BooksInit
  BY DEF SystemInit, TransferInit, DatabaseInit, OrdersInit, Books!BooksInit
<1>2. QED
  BY <1>1, StepIsBooked, BankInvHolds, ReadsWereTrue, PTL
     DEF SystemSpec, ImplementsLedgerBank, Books!BooksSpec
=============================================================================
