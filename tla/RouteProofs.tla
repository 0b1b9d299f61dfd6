----------------------------- MODULE RouteProofs -----------------------------
(***************************************************************************)
(* Proofs about transfers as clients make them, through create_transfer,   *)
(* whose session has read the sender before the lock: what the row locks   *)
(* and the unique index guarantee all the same.                            *)
(***************************************************************************)
EXTENDS TransferProofs, TransferRoute

\* Before any request the invariant holds.
LEMMA RouteInit == TransferInit => RouteInv
<1> SUFFICES ASSUME TransferInit PROVE RouteInv
  OBVIOUS
<1>1. IndInv
  BY InitIndInv
<1>2. LoadedIsLocked
  BY DEF TransferInit, NothingLoaded, LoadedIsLocked
<1>3. NoOverdraft
  BY OpeningAssumption DEF TransferInit, DatabaseInit, NoOverdraft, Exists
<1>4. QED
  BY <1>1, <1>2, <1>3 DEF IndInv, RouteInv

\* Rows of the accounts table may change and be added, but neither vanish nor be
\* overdrawn, while no request makes a step: the invariant holds on.
LEMMA TableStep ==
    ASSUME RouteInv,
           UNCHANGED <<transactions, held, args, requestVars>>,
           accounts' \in [AccountIds -> Row],
           ledger' \in [AccountIds -> Seq(LedgerEntry)],
           audit' \subseteq Requests \cup Orders,
           \A a \in AccountIds : Exists(a) => Exists(a)',
           NoOverdraft'
    PROVE  RouteInv'
<1> USE DEF RouteInv, requestVars
<1>1. TransferTypeOK'
  BY DEF TransferTypeOK, DatabaseTypeOK
<1>2. RowsExclusive' /\ LocksInOrder' /\ KeysUnique'
  BY DEF RowsExclusive, LocksInOrder, KeysUnique
<1>3. LoadedIsLocked'
  BY DEF LoadedIsLocked
<1>4. FlushedIsValid'
  BY DEF FlushedIsValid, Valid, Found, BothActive, Funded
<1>5. QED
  BY <1>1, <1>2, <1>3, <1>4

\* A step of nobody.
LEMMA RouteStutter == ASSUME RouteInv, UNCHANGED transferVars PROVE RouteInv'
BY DEF transferVars, dbVars, requestVars, RouteInv, TransferTypeOK, DatabaseTypeOK, RowsExclusive,
       LocksInOrder, LoadedIsLocked, FlushedIsValid, KeysUnique, Valid, Found, BothActive, Funded,
       NoOverdraft, Exists

\* A status change keeps rows and balances.
LEMMA RouteStatusStep ==
    ASSUME RouteInv, NEW b \in AccountIds, NEW s \in AccountStatus, SetStatus(b, s)
    PROVE  RouteInv'
<1>1. /\ accounts \in [AccountIds -> Row]
      /\ ledger \in [AccountIds -> Seq(LedgerEntry)]
      /\ audit \subseteq Requests \cup Orders
  BY DEF RouteInv, TransferTypeOK, DatabaseTypeOK
<1>2. /\ accounts[b] \in Account
      /\ accounts' = [accounts EXCEPT ![b] = [accounts[b] EXCEPT !.status = s]]
      /\ UNCHANGED <<transactions, ledger, audit, held, args, requestVars>>
  BY <1>1 DEF SetStatus, Exists, Row
<1>3. /\ [accounts[b] EXCEPT !.status = s] \in Account
      /\ [accounts[b] EXCEPT !.status = s].balance = accounts[b].balance
  BY <1>2 DEF Account
<1>4. accounts[b].balance >= 0
  BY <1>2, NoRowAssumption DEF RouteInv, NoOverdraft, Exists
<1>5. accounts' \in [AccountIds -> Row]
  BY <1>1, <1>2, <1>3 DEF Row
<1>6. \A a \in AccountIds : Exists(a) => Exists(a)'
  BY <1>1, <1>2, <1>3, NoRowAssumption DEF Exists
<1>7. NoOverdraft'
  BY <1>1, <1>2, <1>3, <1>4 DEF RouteInv, NoOverdraft, Exists
<1>8. QED
  BY <1>1, <1>2, <1>5, <1>6, <1>7, TableStep
-----------------------------------------------------------------------------
(* Every step of a request keeps the invariant. *)

\* The route loads the sender as it is, or nothing.
LEMMA CreateTransferStep == ASSUME RouteInv, NEW r \in Requests, CreateTransfer(r) PROVE RouteInv'
<1> DEFINE c == args[r]
<1>1. /\ c \in Calls /\ c.sender \in AccountIds
      /\ accounts \in [AccountIds -> Row]
      /\ session \in [Requests -> [AccountIds -> Row]]
      /\ pc \in [Requests -> Steps]
      /\ transactions \in [Requests -> TransactionStatus]
      /\ held \in [Requests -> SUBSET AccountIds]
  BY CallFields DEF RouteInv, TransferTypeOK, DatabaseTypeOK
<1>2. /\ pc[r] = "idle"
      /\ \/ pc' = [pc EXCEPT ![r] = "done"]
         \/ /\ pc' = [pc EXCEPT ![r] = "lock1"]
            /\ c.sender # c.receiver /\ c.amount > 0
      /\ \E o \in Outcomes : outcome' = [outcome EXCEPT ![r] = o]
      /\ \/ UNCHANGED session
         \/ session' = [session EXCEPT
                           ![r] = [NothingLoaded EXCEPT ![c.sender] = accounts[c.sender]]]
      /\ UNCHANGED dbVars
  <2>1. outcome \in [Requests -> Outcomes]
    BY DEF RouteInv, TransferTypeOK
  <2>2. CASE Return(r, "AccountNotFound") /\ pc[r] = "idle" /\ UNCHANGED <<dbVars, session>>
    BY <2>2 DEF Return, Outcomes, Refusals
  <2>3. CASE Enter(r, [NothingLoaded EXCEPT ![c.sender] = accounts[c.sender]])
    <3>1. outcome' = outcome => \E o \in Outcomes : outcome' = [outcome EXCEPT ![r] = o]
      <4>1. outcome[r] \in Outcomes /\ outcome = [outcome EXCEPT ![r] = outcome[r]]
        BY <2>1
      <4>2. QED
        BY <4>1
    <3>2. QED
      BY <2>3, <3>1 DEF Enter, Return, Outcomes, Refusals
  <2>4. QED
    BY <2>2, <2>3 DEF CreateTransfer
<1>3. /\ session' \in [Requests -> [AccountIds -> Row]]
      /\ \A q \in Requests \ {r} : session'[q] = session[q] /\ pc'[q] = pc[q]
      /\ pc'[r] \in {"done", "lock1"}
      /\ \A a \in AccountIds : session'[r][a] # NoRow =>
             session'[r][a] = session[r][a] \/ session'[r][a] = accounts[a]
  <2>1. [NothingLoaded EXCEPT ![c.sender] = accounts[c.sender]] \in [AccountIds -> Row]
    BY <1>1 DEF NothingLoaded, Row
  <2>2. \A a \in AccountIds :
           LET loaded == [NothingLoaded EXCEPT ![c.sender] = accounts[c.sender]]
           IN  loaded[a] # NoRow => loaded[a] = accounts[a]
    BY DEF NothingLoaded
  <2>3. QED
    BY <1>1, <1>2, <2>1, <2>2
<1>4. TransferTypeOK'
  <2>1. pc' \in [Requests -> Steps]
    BY <1>1, <1>2 DEF Steps
  <2>2. outcome' \in [Requests -> Outcomes]
    BY <1>2 DEF RouteInv, TransferTypeOK
  <2>3. QED
    BY <1>2, <1>3, <2>1, <2>2 DEF RouteInv, TransferTypeOK, DatabaseTypeOK, dbVars
<1>5. RowsExclusive' /\ KeysUnique' /\ NoOverdraft'
  BY <1>2 DEF RouteInv, RowsExclusive, KeysUnique, NoOverdraft, Exists, dbVars
<1>6. LocksInOrder'
  BY <1>1, <1>2 DEF RouteInv, LocksInOrder, dbVars
<1>7. LoadedIsLocked'
  <2> SUFFICES ASSUME NEW q \in Requests, NEW a \in AccountIds, session'[q][a] # NoRow
               PROVE  /\ Exists(a)
                      /\ session'[q][a].balance >= 0
                      /\ pc'[q] = "lock2" /\ a = FirstId(args[q]) => a \in held[q]
                      /\ pc'[q] \in {"validate", "commit"} /\ a \in {args[q].sender, args[q].receiver} =>
                             a \in held[q]
    BY <1>2 DEF LoadedIsLocked, Exists, dbVars
  <2>1. CASE q # r
    BY <2>1, <1>3 DEF RouteInv, LoadedIsLocked
  <2>2. CASE q = r
    <3>1. Exists(a) /\ session'[r][a].balance >= 0
      BY <2>2, <1>3 DEF RouteInv, LoadedIsLocked, NoOverdraft, Exists
    <3>2. QED
      BY <2>2, <3>1, <1>3
  <2>3. QED
    BY <2>1, <2>2
<1>8. FlushedIsValid'
  BY <1>1, <1>2, <1>3 DEF RouteInv, FlushedIsValid, Valid, Found, BothActive, Funded, dbVars
<1>9. QED
  BY <1>4, <1>5, <1>6, <1>7, <1>8 DEF RouteInv
\* SELECT ... FOR UPDATE: what was not loaded before is loaded as the table has it.
LEMMA RouteLockStep ==
    ASSUME RouteInv, NEW r \in Requests, LockFirst(r) \/ LockSecond(r)
    PROVE  RouteInv'
<1> DEFINE c == args[r]
           a == IF pc[r] = "lock1" THEN FirstId(c) ELSE SecondId(c)
<1>1. /\ pc[r] \in {"lock1", "lock2"}
      /\ pc' = [pc EXCEPT ![r] = IF pc[r] = "lock1" THEN "lock2" ELSE "validate"]
      /\ \/ /\ Exists(a) /\ RowFree(a)
            /\ held' = [held EXCEPT ![r] = held[r] \cup {a}]
            /\ session' = [session EXCEPT ![r] = [session[r] EXCEPT ![a] =
                             IF session[r][a] = NoRow THEN accounts[a] ELSE session[r][a]]]
         \/ ~Exists(a) /\ UNCHANGED <<held, session>>
      /\ UNCHANGED <<accounts, transactions, ledger, audit, args, outcome>>
  BY DEF LockFirst, LockSecond, LockAccount
<1>2. /\ c \in Calls /\ c.sender # c.receiver
      /\ held \in [Requests -> SUBSET AccountIds]
      /\ session \in [Requests -> [AccountIds -> Row]]
      /\ accounts \in [AccountIds -> Row]
      /\ pc \in [Requests -> Steps]
  BY <1>1 DEF RouteInv, TransferTypeOK, DatabaseTypeOK, LocksInOrder
<1>3. /\ FirstId(c) \in AccountIds /\ SecondId(c) \in AccountIds
      /\ {FirstId(c), SecondId(c)} = {c.sender, c.receiver}
      /\ a \in AccountIds
  BY <1>2, LockOrder
<1>4. /\ session' \in [Requests -> [AccountIds -> Row]]
      /\ held' \in [Requests -> SUBSET AccountIds]
      /\ held'[r] \subseteq held[r] \cup {a} /\ held[r] \subseteq held'[r]
      /\ Exists(a) => a \in held'[r]
      /\ \A q \in Requests \ {r} :
            held'[q] = held[q] /\ session'[q] = session[q] /\ pc'[q] = pc[q]
      /\ \A b \in AccountIds : session'[r][b] # NoRow =>
            \/ session'[r][b] = session[r][b]
            \/ b = a /\ session'[r][b] = accounts[b]
  <2>1. CASE ~Exists(a) /\ UNCHANGED <<held, session>>
    BY <2>1, <1>1, <1>2
  <2> DEFINE row == IF session[r][a] = NoRow THEN accounts[a] ELSE session[r][a]
  <2>2. CASE /\ held' = [held EXCEPT ![r] = held[r] \cup {a}]
             /\ session' = [session EXCEPT ![r] = [session[r] EXCEPT ![a] = row]]
    <3>1. row \in Row /\ session[r] \in [AccountIds -> Row]
      BY <1>2, <1>3
    <3>2. /\ [session[r] EXCEPT ![a] = row] \in [AccountIds -> Row]
          /\ [session[r] EXCEPT ![a] = row][a] = row
          /\ \A b \in AccountIds \ {a} : [session[r] EXCEPT ![a] = row][b] = session[r][b]
      BY <3>1, <1>3
    <3>3. session' \in [Requests -> [AccountIds -> Row]] /\ session'[r] = [session[r] EXCEPT ![a] = row]
      BY <2>2, <1>2, <3>2
    <3>4. held' \in [Requests -> SUBSET AccountIds] /\ held'[r] = held[r] \cup {a}
      BY <2>2, <1>2, <1>3
    <3>5. \A q \in Requests \ {r} :
             held'[q] = held[q] /\ session'[q] = session[q] /\ pc'[q] = pc[q]
      BY <2>2, <1>1, <1>2
    <3>6. row = session[r][a] \/ row = accounts[a]
      OBVIOUS
    <3>7. QED
      BY <3>2, <3>3, <3>4, <3>5, <3>6
  <2>3. QED
    BY <2>1, <2>2, <1>1
<1>5. TransferTypeOK'
  <2>1. pc' \in [Requests -> Steps]
    BY <1>1, <1>2 DEF Steps
  <2>2. QED
    BY <1>1, <1>4, <2>1 DEF RouteInv, TransferTypeOK, DatabaseTypeOK
<1>6. RowsExclusive'
  BY <1>1, <1>2, <1>4 DEF RouteInv, RowsExclusive, RowFree
<1>7. LocksInOrder'
  <2>1. pc[r] = "lock1" => held[r] = {} /\ a = FirstId(c)
    BY DEF RouteInv, LocksInOrder
  <2>2. pc[r] = "lock2" => held[r] \subseteq {FirstId(c)} /\ a = SecondId(c)
    BY DEF RouteInv, LocksInOrder
  <2>3. QED
    BY <1>1, <1>2, <1>3, <1>4, <2>1, <2>2 DEF RouteInv, LocksInOrder
<1>8. LoadedIsLocked'
  <2> SUFFICES ASSUME NEW q \in Requests, NEW b \in AccountIds, session'[q][b] # NoRow
               PROVE  /\ Exists(b)
                      /\ session'[q][b].balance >= 0
                      /\ pc'[q] = "lock2" /\ b = FirstId(args[q]) => b \in held'[q]
                      /\ pc'[q] \in {"validate", "commit"} /\ b \in {args[q].sender, args[q].receiver} =>
                             b \in held'[q]
    BY <1>1 DEF LoadedIsLocked, Exists
  <2>1. CASE q # r
    BY <2>1, <1>4 DEF RouteInv, LoadedIsLocked
  <2>2. CASE q = r
    <3>1. \/ session[r][b] # NoRow /\ session'[r][b] = session[r][b]
          \/ session'[r][b] = accounts[b] /\ Exists(b)
      BY <2>2, <1>4 DEF Exists
    <3>2. Exists(b) /\ session'[r][b].balance >= 0
      BY <3>1 DEF RouteInv, LoadedIsLocked, NoOverdraft
    <3>3. b = a => b \in held'[r]
      BY <3>2, <1>4
    <3>4. pc[r] = "lock2" /\ b = FirstId(c) /\ b # a => b \in held'[r]
      <4>1. pc[r] = "lock2" /\ b # a => session[r][b] # NoRow
        BY <2>2, <1>4
      <4>2. QED
        BY <4>1, <1>4 DEF RouteInv, LoadedIsLocked
    <3>5. \/ pc[r] = "lock1" /\ pc'[r] = "lock2"
          \/ pc[r] = "lock2" /\ pc'[r] = "validate"
      BY <1>1, <1>2
    <3>6. QED
      BY <2>2, <3>2, <3>3, <3>4, <3>5, <1>3
  <2>3. QED
    BY <2>1, <2>2
<1>9. FlushedIsValid'
  BY <1>1, <1>2, <1>4 DEF RouteInv, FlushedIsValid, Valid, Found, BothActive, Funded
<1>10. KeysUnique' /\ NoOverdraft'
  BY <1>1 DEF RouteInv, KeysUnique, NoOverdraft, Exists
<1>11. QED
  BY <1>5, <1>6, <1>7, <1>8, <1>9, <1>10 DEF RouteInv

\* Refusals, a duplicate key and a failed statement let go of everything.
LEMMA RouteRollbackStep ==
    ASSUME RouteInv, NEW r \in Requests, Refuse(r) \/ DuplicateKey(r) \/ Abort(r)
    PROVE  RouteInv'
<1> USE DEF RouteInv
<1>1. /\ pc[r] \in {"lock1", "lock2", "validate", "commit"}
      /\ pc' = [pc EXCEPT ![r] = "done"]
      /\ \E o \in Outcomes : outcome' = [outcome EXCEPT ![r] = o]
      /\ held' = [held EXCEPT ![r] = {}]
      /\ transactions' = [transactions EXCEPT ![r] = "NONE"]
      /\ UNCHANGED <<accounts, ledger, audit, args, session>>
  BY DEF Refuse, DuplicateKey, Abort, Return, Rollback, Outcomes, Refusals
<1>2. TransferTypeOK'
  BY <1>1 DEF TransferTypeOK, DatabaseTypeOK, Steps, TransactionStatus
<1>3. /\ pc \in [Requests -> Steps]
      /\ held \in [Requests -> SUBSET AccountIds]
      /\ transactions \in [Requests -> TransactionStatus]
  BY DEF TransferTypeOK, DatabaseTypeOK
<1>4. RowsExclusive'
  BY <1>1, <1>3 DEF RowsExclusive
<1>5. LocksInOrder'
  BY <1>1, <1>3 DEF LocksInOrder
<1>6. LoadedIsLocked'
  BY <1>1, <1>3 DEF LoadedIsLocked, Exists
<1>7. FlushedIsValid'
  BY <1>1, <1>3 DEF FlushedIsValid, Valid, Found, BothActive, Funded
<1>8. KeysUnique' /\ NoOverdraft'
  BY <1>1, <1>3 DEF KeysUnique, NoOverdraft, Exists
<1>9. QED
  BY <1>2, <1>4, <1>5, <1>6, <1>7, <1>8

\* The flush: the loaded rows are valid and the key is in no other row.
LEMMA RouteFlushStep == ASSUME RouteInv, NEW r \in Requests, Flush(r) PROVE RouteInv'
<1> USE DEF RouteInv, Flush
<1>1. TransferTypeOK'
  BY DEF TransferTypeOK, DatabaseTypeOK, Steps, TransactionStatus
<1>2. /\ pc \in [Requests -> Steps]
      /\ transactions \in [Requests -> TransactionStatus]
  BY DEF TransferTypeOK, DatabaseTypeOK
<1>3. RowsExclusive' /\ NoOverdraft'
  BY DEF RowsExclusive, NoOverdraft, Exists
<1>4. LocksInOrder'
  BY <1>2 DEF LocksInOrder
<1>5. LoadedIsLocked'
  BY <1>2 DEF LoadedIsLocked, Exists
<1>6. FlushedIsValid'
  BY <1>2 DEF FlushedIsValid, Valid, Found, BothActive, Funded
<1>7. KeysUnique'
  BY <1>2 DEF KeysUnique, KeyHolders, TransactionStatus
<1>8. QED
  BY <1>1, <1>3, <1>4, <1>5, <1>6, <1>7

\* What a request about to commit has locked and loaded.
LEMMA AtRouteCommit ==
    ASSUME RouteInv, NEW r \in Requests, pc[r] = "commit"
    PROVE  LET c == args[r]
           IN  /\ c.sender \in AccountIds /\ c.receiver \in AccountIds
               /\ c.sender # c.receiver
               /\ c.amount \in Int /\ c.amount > 0
               /\ \A a \in {c.sender, c.receiver} :
                     /\ a \in held[r]
                     /\ session[r][a] \in Account
                     /\ session[r][a].balance >= 0
                     /\ accounts[a] \in Account
               /\ 10 * session[r][c.sender].balance >= Asked(c)
               /\ session[r][c.sender].balance >= c.amount
<1> DEFINE c == args[r]
<1>1. c \in Calls
  BY DEF RouteInv, TransferTypeOK, DatabaseTypeOK
<1>2. c.sender \in AccountIds /\ c.receiver \in AccountIds /\ c.amount \in Int
  BY <1>1, CallFields
<1>3. c.sender # c.receiver /\ c.amount > 0
  BY DEF RouteInv, LocksInOrder
<1>4. Valid(r)
  BY DEF RouteInv, FlushedIsValid
<1>5. ASSUME NEW a \in {c.sender, c.receiver}
      PROVE  /\ a \in held[r]
             /\ session[r][a] \in Account
             /\ session[r][a].balance >= 0
             /\ accounts[a] \in Account
  <2>1. a \in AccountIds
    BY <1>2
  <2>2. session[r][a] # NoRow
    BY <1>4 DEF Valid, Found
  <2>3. Exists(a) /\ a \in held[r] /\ session[r][a].balance >= 0
    BY <2>1, <2>2 DEF RouteInv, LoadedIsLocked
  <2>4. accounts[a] \in Row /\ session[r][a] \in Row
    BY <2>1 DEF RouteInv, TransferTypeOK, DatabaseTypeOK
  <2>5. QED
    BY <2>2, <2>3, <2>4 DEF Row, Exists
<1>6. 10 * session[r][c.sender].balance >= Asked(c)
  BY <1>4 DEF Valid, Funded
<1>8. session[r][c.sender].balance >= c.amount
  BY <1>1, <1>5, <1>6, AskedCovers DEF Account
<1>7. QED
  BY <1>2, <1>3, <1>5, <1>6, <1>8

\* A commit as seen from each account.  The balances are those the session computed, and
\* never negative, although they need not continue from those in the table.
LEMMA RouteCommitLegs ==
    ASSUME RouteInv, NEW r \in Requests, Commit(r)
    PROVE  LET c == args[r]
               debited == session[r][c.sender].balance - c.amount
               credited == session[r][c.receiver].balance + c.amount
           IN  /\ c.sender \in AccountIds /\ c.receiver \in AccountIds
               /\ c.sender # c.receiver
               /\ c.amount \in Int /\ c.amount > 0
               /\ debited \in Int /\ debited >= 0
               /\ credited \in Int /\ credited >= 0
               /\ accounts[c.sender] \in Account /\ accounts[c.receiver] \in Account
               /\ accounts'[c.sender] = [accounts[c.sender] EXCEPT !.balance = debited]
               /\ accounts'[c.receiver] = [accounts[c.receiver] EXCEPT !.balance = credited]
               /\ ledger'[c.sender] =
                     Append(ledger[c.sender], NewEntry(r, "DEBIT", c.amount, debited))
               /\ ledger'[c.receiver] =
                     Append(ledger[c.receiver], NewEntry(r, "CREDIT", c.amount, credited))
               /\ \A a \in AccountIds \ {c.sender, c.receiver} :
                     accounts'[a] = accounts[a] /\ ledger'[a] = ledger[a]
               /\ accounts' \in [AccountIds -> Row]
               /\ ledger' \in [AccountIds -> Seq(LedgerEntry)]
<1> DEFINE c == args[r]
           debited == session[r][c.sender].balance - c.amount
           credited == session[r][c.receiver].balance + c.amount
           debit == NewEntry(r, "DEBIT", c.amount, debited)
           credit == NewEntry(r, "CREDIT", c.amount, credited)
           poorer == [accounts[c.sender] EXCEPT !.balance = debited]
           richer == [accounts[c.receiver] EXCEPT !.balance = credited]
<1>1. /\ c.sender \in AccountIds /\ c.receiver \in AccountIds
      /\ c.sender # c.receiver
      /\ c.amount \in Int /\ c.amount > 0
      /\ session[r][c.sender] \in Account /\ session[r][c.receiver] \in Account
      /\ session[r][c.receiver].balance >= 0
      /\ accounts[c.sender] \in Account /\ accounts[c.receiver] \in Account
      /\ session[r][c.sender].balance >= c.amount
  BY AtRouteCommit DEF Commit
<1>2. session[r][c.sender].balance \in Int /\ session[r][c.receiver].balance \in Int
  BY <1>1 DEF Account
<1>3. /\ debited \in Int /\ debited >= 0
      /\ credited \in Int /\ credited >= 0
  BY <1>1, <1>2
<1>4. accounts \in [AccountIds -> Row] /\ ledger \in [AccountIds -> Seq(LedgerEntry)]
  BY DEF RouteInv, TransferTypeOK, DatabaseTypeOK
<1>5. /\ accounts' = [accounts EXCEPT ![c.sender].balance = debited, ![c.receiver].balance = credited]
      /\ ledger' = [ledger EXCEPT ![c.sender] = Append(@, debit), ![c.receiver] = Append(@, credit)]
  BY DEF Commit
<1>6. debit \in LedgerEntry /\ credit \in LedgerEntry
  BY <1>1, <1>3, EntryType DEF LedgerEntryType
<1>7. poorer \in Row /\ richer \in Row
  BY <1>1, <1>3, NewBalance DEF Row
<1>8. /\ accounts' = [accounts EXCEPT ![c.sender] = poorer, ![c.receiver] = richer]
      /\ ledger' = [ledger EXCEPT ![c.sender] = Append(ledger[c.sender], debit),
                                  ![c.receiver] = Append(ledger[c.receiver], credit)]
  BY <1>1, <1>4, <1>5
<1>9. /\ Append(ledger[c.sender], debit) \in Seq(LedgerEntry)
      /\ Append(ledger[c.receiver], credit) \in Seq(LedgerEntry)
  BY <1>1, <1>4, <1>6
<1> HIDE DEF debited, credited, debit, credit, poorer, richer
<1>10. /\ accounts'[c.sender] = poorer /\ accounts'[c.receiver] = richer
       /\ accounts' \in [AccountIds -> Row]
       /\ \A a \in AccountIds \ {c.sender, c.receiver} : accounts'[a] = accounts[a]
  BY <1>1, <1>4, <1>7, <1>8
<1>11. /\ ledger'[c.sender] = Append(ledger[c.sender], debit)
       /\ ledger'[c.receiver] = Append(ledger[c.receiver], credit)
       /\ ledger' \in [AccountIds -> Seq(LedgerEntry)]
       /\ \A a \in AccountIds \ {c.sender, c.receiver} : ledger'[a] = ledger[a]
  BY <1>1, <1>4, <1>8, <1>9
<1>12. QED
  BY <1>1, <1>3, <1>10, <1>11 DEF debited, credited, debit, credit, poorer, richer

\* The commit: absolute balances, but of rows that are locked and not negative.
LEMMA RouteCommitStep == ASSUME RouteInv, NEW r \in Requests, Commit(r) PROVE RouteInv'
<1> DEFINE c == args[r]
<1>1. /\ pc[r] = "commit"
      /\ pc' = [pc EXCEPT ![r] = "done"]
      /\ \E o \in Outcomes : outcome' = [outcome EXCEPT ![r] = o]
      /\ held' = [held EXCEPT ![r] = {}]
      /\ transactions' = [transactions EXCEPT ![r] = "COMPLETED"]
      /\ audit' = audit \cup {r}
      /\ UNCHANGED <<args, session>>
  BY DEF Commit, Return, Outcomes
<1>2. /\ pc \in [Requests -> Steps]
      /\ held \in [Requests -> SUBSET AccountIds]
      /\ transactions \in [Requests -> TransactionStatus]
  BY DEF RouteInv, TransferTypeOK, DatabaseTypeOK
<1>3. /\ accounts' \in [AccountIds -> Row]
      /\ ledger' \in [AccountIds -> Seq(LedgerEntry)]
      /\ \A a \in AccountIds \ {c.sender, c.receiver} : accounts'[a] = accounts[a]
  BY RouteCommitLegs
<1>4. ASSUME NEW a \in {c.sender, c.receiver}
      PROVE  /\ accounts'[a] # NoRow
             /\ accounts'[a].balance >= 0
  <2> DEFINE debited == session[r][c.sender].balance - c.amount
             credited == session[r][c.receiver].balance + c.amount
  <2>1. /\ debited \in Int /\ debited >= 0
        /\ credited \in Int /\ credited >= 0
        /\ accounts[c.sender] \in Account /\ accounts[c.receiver] \in Account
        /\ accounts'[c.sender] = [accounts[c.sender] EXCEPT !.balance = debited]
        /\ accounts'[c.receiver] = [accounts[c.receiver] EXCEPT !.balance = credited]
    BY RouteCommitLegs
  <2> HIDE DEF debited, credited, c
  <2>2. CASE a = c.sender
    <3>1. /\ [accounts[c.sender] EXCEPT !.balance = debited] # NoRow
          /\ [accounts[c.sender] EXCEPT !.balance = debited].balance = debited
      BY <2>1, NewBalance
    <3>2. QED
      BY <2>1, <2>2, <3>1
  <2>3. CASE a = c.receiver
    <3>1. /\ [accounts[c.receiver] EXCEPT !.balance = credited] # NoRow
          /\ [accounts[c.receiver] EXCEPT !.balance = credited].balance = credited
      BY <2>1, NewBalance
    <3>2. QED
      BY <2>1, <2>3, <3>1
  <2>4. QED
    BY <2>2, <2>3
<1>5. TransferTypeOK'
  BY <1>1, <1>2, <1>3 DEF RouteInv, TransferTypeOK, DatabaseTypeOK, Steps, TransactionStatus
<1>6. RowsExclusive' /\ LocksInOrder'
  BY <1>1, <1>2 DEF RouteInv, RowsExclusive, LocksInOrder
<1>7. \A a \in AccountIds : Exists(a) => Exists(a)'
  BY <1>3, <1>4 DEF Exists
<1>8. LoadedIsLocked'
  BY <1>1, <1>2, <1>7 DEF RouteInv, LoadedIsLocked
<1>9. NoOverdraft'
  <2> HIDE DEF c
  <2>1. QED
    BY <1>3, <1>4 DEF RouteInv, NoOverdraft, Exists
<1>10. FlushedIsValid'
  BY <1>1, <1>2 DEF RouteInv, FlushedIsValid, Valid, Found, BothActive, Funded
<1>11. KeysUnique'
  BY <1>1, <1>2 DEF RouteInv, KeysUnique, FlushedIsValid
<1>12. QED
  BY <1>5, <1>6, <1>8, <1>9, <1>10, <1>11 DEF RouteInv

\* Every step of one request keeps the invariant.
LEMMA RouteStepInv == ASSUME RouteInv, NEW r \in Requests, RouteStep(r) PROVE RouteInv'
<1>1. \/ CreateTransfer(r)
      \/ LockFirst(r) \/ LockSecond(r)
      \/ Refuse(r) \/ DuplicateKey(r) \/ Abort(r)
      \/ Flush(r)
      \/ Commit(r)
  BY DEF RouteStep, Progress
<1>2. QED
  BY <1>1, CreateTransferStep, RouteLockStep, RouteRollbackStep, RouteFlushStep, RouteCommitStep

\* Every step of the service keeps it.
LEMMA RouteNextInv == RouteInv /\ [RouteNext]_transferVars => RouteInv'
<1> SUFFICES ASSUME RouteInv, [RouteNext]_transferVars PROVE RouteInv'
  OBVIOUS
<1>1. \/ \E r \in Requests : RouteStep(r)
      \/ \E b \in AccountIds, s \in AccountStatus : SetStatus(b, s)
      \/ UNCHANGED transferVars
  BY StatusChangesAssumption DEF RouteNext, AllDone
<1>2. QED
  BY <1>1, RouteStepInv, RouteStatusStep, RouteStutter
-----------------------------------------------------------------------------
(* What a step of one request leaves in the ledgers, and what it reports. *)

\* Which steps complete a transfer, and what the others leave alone.
LEMMA OnlyRouteCommits ==
    ASSUME RouteInv, NEW r \in Requests, RouteStep(r)
    PROVE  /\ args' = args
           /\ Commit(r) => r \notin Completed /\ Completed' = Completed \cup {r}
                           /\ audit' = audit \cup {r}
           /\ ~Commit(r) => Completed' = Completed /\ UNCHANGED <<accounts, ledger, audit>>
<1>1. /\ transactions \in [Requests -> TransactionStatus]
      /\ \A q \in Requests :
            /\ transactions[q] = "PENDING" <=> pc[q] = "commit"
            /\ transactions[q] = "COMPLETED" => pc[q] = "done"
  BY DEF RouteInv, TransferTypeOK, DatabaseTypeOK, FlushedIsValid
<1>2. CASE Commit(r)
  BY <1>1, <1>2 DEF Commit, Completed
<1>3. CASE Refuse(r) \/ DuplicateKey(r) \/ Abort(r)
  <2>1. /\ pc[r] # "done" /\ transactions' = [transactions EXCEPT ![r] = "NONE"]
        /\ UNCHANGED <<ledger, audit, args, accounts>>
        /\ ~Commit(r)
    BY <1>1, <1>3 DEF Refuse, DuplicateKey, Abort, Rollback, Commit
  <2>2. QED
    BY <1>1, <2>1 DEF Completed
<1>4. CASE Flush(r)
  <2>1. /\ pc[r] # "done" /\ transactions' = [transactions EXCEPT ![r] = "PENDING"]
        /\ UNCHANGED <<ledger, audit, args, accounts>>
        /\ ~Commit(r)
    BY <1>4 DEF Flush, Commit
  <2>2. QED
    BY <1>1, <2>1 DEF Completed
<1>5. CASE CreateTransfer(r) \/ LockFirst(r) \/ LockSecond(r)
  <2>1. UNCHANGED <<ledger, audit, args, accounts, transactions>> /\ pc[r] # "commit"
    BY <1>5 DEF CreateTransfer, Enter, dbVars, LockFirst, LockSecond, LockAccount
  <2>2. QED
    BY <2>1 DEF Completed, Commit
<1>6. QED
  BY <1>2, <1>3, <1>4, <1>5 DEF RouteStep, Progress

\* Each transfer has its whole trail or none, although its balances may be stale.
LEMMA RoutePaperTrail ==
    ASSUME RouteInv, PaperTrail, NEW r \in Requests, RouteStep(r) PROVE PaperTrail'
<1>1. CASE ~Commit(r)
  <2>1. ledger' = ledger /\ audit' = audit /\ args' = args /\ Completed' = Completed
    BY <1>1, OnlyRouteCommits
  <2>2. QED
    BY <2>1 DEF PaperTrail, PaperTrailOf, EntriesOf
<1>2. CASE Commit(r)
  <2> DEFINE c == args[r]
             debited == session[r][c.sender].balance - c.amount
             credited == session[r][c.receiver].balance + c.amount
  <2>1. /\ debited \in Int /\ credited \in Int
        /\ c.sender # c.receiver
        /\ ledger'[c.sender] = Append(ledger[c.sender], NewEntry(r, "DEBIT", c.amount, debited))
        /\ ledger'[c.receiver] = Append(ledger[c.receiver], NewEntry(r, "CREDIT", c.amount, credited))
        /\ \A a \in AccountIds \ {c.sender, c.receiver} : ledger'[a] = ledger[a]
    BY <1>2, RouteCommitLegs
  <2> HIDE DEF debited, credited
  <2>2. QED
    BY <1>2, <2>1, LegsArePaper DEF RouteInv
<1>3. QED
  BY <1>1, <1>2

\* What the client is told is what happened, also when the route refuses by itself.
LEMMA RouteOutcomes ==
    ASSUME RouteInv, OutcomesTruthful, ReportedOnReturn, NEW r \in Requests, RouteStep(r)
    PROVE  OutcomesTruthful' /\ ReportedOnReturn'
<1>1. /\ pc \in [Requests -> Steps]
      /\ outcome \in [Requests -> Outcomes]
      /\ transactions \in [Requests -> TransactionStatus]
      /\ \A q \in Requests : transactions[q] = "COMPLETED" => pc[q] = "done"
  BY DEF RouteInv, TransferTypeOK, DatabaseTypeOK, FlushedIsValid
<1>2. args' = args /\ Completed \subseteq Completed'
  BY OnlyRouteCommits
<1>3. pc[r] # "done" => r \notin Completed /\ outcome[r] = "none"
  BY <1>1 DEF Completed, ReportedOnReturn
<1>4. CASE CreateTransfer(r)
  <2>1. /\ pc[r] = "idle" /\ Completed' = Completed
        /\ \/ /\ \E o \in {"InvalidTransfer", "AccountNotFound", "Replayed", "KeyConflict"} :
                    Return(r, o)
           \/ pc' = [pc EXCEPT ![r] = "lock1"] /\ outcome' = outcome
    BY <1>4 DEF CreateTransfer, Enter, Completed, dbVars
  <2>2. outcome'[r] \notin {"Executed", "IntegrityError"}
    BY <1>1, <1>3, <2>1 DEF Return
  <2>3. outcome'[r] = "Replayed" =>
          \E q \in Completed \ {r} : args[r].key # NoKey /\ args[q].key = args[r].key
                                     /\ SameTransfer(args[q], args[r])
    BY <1>1, <1>3, <1>4, <2>1 DEF CreateTransfer, Enter, Return, Existing, KeyHolders, Completed
  <2>4. outcome'[r] = "KeyConflict" =>
          \E q \in Completed \ {r} : args[r].key # NoKey /\ args[q].key = args[r].key
                                     /\ ~SameTransfer(args[q], args[r])
    BY <1>1, <1>3, <1>4, <2>1 DEF CreateTransfer, Enter, Return, Existing, KeyHolders, Completed
  <2>5. ReportedOnReturn'
    BY <1>1, <1>3, <2>1 DEF ReportedOnReturn, Return
  <2>6. OutcomesTruthful'
    <3>1. \A q \in Requests \ {r} : outcome'[q] = outcome[q]
      BY <1>1, <2>1 DEF Return
    <3>2. r \notin Completed'
      BY <1>3, <2>1
    <3>3. QED
      BY <1>2, <2>1, <2>2, <2>3, <2>4, <3>1, <3>2 DEF OutcomesTruthful
  <2>7. QED
    BY <2>5, <2>6
<1>5. CASE LockFirst(r) \/ LockSecond(r) \/ Flush(r)
  <2>1. /\ outcome' = outcome /\ pc[r] # "done"
        /\ \E s \in Steps \ {"done"} : pc' = [pc EXCEPT ![r] = s]
        /\ ~Commit(r)
    BY <1>5 DEF LockFirst, LockSecond, LockAccount, Flush, Steps, Commit
  <2>2. Completed' = Completed
    BY <2>1, OnlyRouteCommits
  <2>3. QED
    BY <1>1, <1>2, <2>1, <2>2 DEF OutcomesTruthful, ReportedOnReturn
<1>6. CASE Refuse(r) \/ Abort(r)
  <2>1. /\ pc[r] # "done" /\ pc' = [pc EXCEPT ![r] = "done"]
        /\ \E o \in (Refusals \ {"KeyConflict"}) \cup {"Error"} :
              outcome' = [outcome EXCEPT ![r] = o]
    BY <1>6 DEF Refuse, Abort, Return, Refusals
  <2>2. Completed' = Completed
    <3>1. transactions' = [transactions EXCEPT ![r] = "NONE"]
      BY <1>6 DEF Refuse, Abort, Rollback
    <3>2. QED
      BY <1>1, <2>1, <3>1 DEF Completed
  <2>3. QED
    BY <1>1, <1>2, <1>3, <2>1, <2>2 DEF OutcomesTruthful, ReportedOnReturn, Refusals
<1>7. CASE DuplicateKey(r)
  <2>1. /\ pc[r] # "done" /\ pc' = [pc EXCEPT ![r] = "done"]
        /\ outcome' = [outcome EXCEPT ![r] = "IntegrityError"]
        /\ \E q \in Completed \ {r} : args[r].key # NoKey /\ args[q].key = args[r].key
    BY <1>3, <1>7 DEF DuplicateKey, Return, Completed, KeyHolders
  <2>2. Completed' = Completed
    <3>1. transactions' = [transactions EXCEPT ![r] = "NONE"]
      BY <1>7 DEF DuplicateKey, Rollback
    <3>2. QED
      BY <1>1, <2>1, <3>1 DEF Completed
  <2>3. QED
    BY <1>1, <1>2, <1>3, <2>1, <2>2 DEF OutcomesTruthful, ReportedOnReturn
<1>8. CASE Commit(r)
  <2>1. /\ pc[r] # "done" /\ pc' = [pc EXCEPT ![r] = "done"]
        /\ \E o \in {"Executed", "Error"} : outcome' = [outcome EXCEPT ![r] = o]
        /\ Completed' = Completed \cup {r}
    BY <1>8, OnlyRouteCommits DEF Commit, Return
  <2>2. QED
    BY <1>1, <1>2, <2>1 DEF OutcomesTruthful, ReportedOnReturn
<1>9. QED
  BY <1>4, <1>5, <1>6, <1>7, <1>8 DEF RouteStep, Progress

-----------------------------------------------------------------------------
\* Transfers over HTTP keep their invariant: locks exclude, keys are unique, nobody is
\* overdrawn, although the sender was read before it was locked.
THEOREM RouteInvHolds == RouteSpec => []RouteInv
BY RouteInit, RouteNextInv, PTL DEF RouteSpec

\* In particular no client overdraws an account,
THEOREM RouteNeverOverdrawn == RouteSpec => []NoOverdraft
BY RouteInvHolds, PTL DEF RouteInv

\* no idempotency key pays twice,
THEOREM RouteExactlyOnce == RouteSpec => []OneTransferPerKey
<1>1. RouteInv => OneTransferPerKey
  BY DEF RouteInv, KeysUnique, OneTransferPerKey, Completed
<1>2. QED
  BY <1>1, RouteInvHolds, PTL

\* and no set of requests waits for itself.
THEOREM RouteDeadlockFree == RouteSpec => []NoWaitCycle
<1>1. RouteInv => NoWaitCycle
  BY NoCycle DEF RouteInv
<1>2. QED
  BY <1>1, RouteInvHolds, PTL
=============================================================================
