--------------------------- MODULE TransferProofs ---------------------------
(***************************************************************************)
(* Proofs about execute_transfer for any number of requests, accounts,     *)
(* keys and amounts.                                                       *)
(***************************************************************************)
EXTENDS TransferService, TLAPS, WellFoundedInduction

-----------------------------------------------------------------------------
(* Facts about the data. *)

\* Account ids can be compared, which the sorting of the lock ids needs.
LEMMA IdsAreIntegers == \A a \in AccountIds : a \in Int
BY IdsAssumption

\* The two ids of a call are its two account ids, in order.
LEMMA LockOrder ==
    ASSUME NEW c \in Calls, c.sender # c.receiver
    PROVE  /\ c \in TransferCall
           /\ FirstId(c) \in AccountIds
           /\ SecondId(c) \in AccountIds
           /\ FirstId(c) < SecondId(c)
           /\ {FirstId(c), SecondId(c)} = {c.sender, c.receiver}
<1>1. c \in TransferCall /\ c.sender \in AccountIds /\ c.receiver \in AccountIds
  BY CallsAssumption DEF TransferCall
<1>2. c.sender \in Int /\ c.receiver \in Int
  BY <1>1, IdsAreIntegers
<1>3. QED
  BY <1>1, <1>2 DEF FirstId, SecondId, LockIds

\* The fields of a call have their types.
LEMMA CallFields ==
    ASSUME NEW c \in Calls
    PROVE  /\ c.sender \in AccountIds
           /\ c.receiver \in AccountIds
           /\ c.amount \in Int
           /\ c.residue \in -4..4
           /\ c.key \in Keys \cup {NoKey}
BY CallsAssumption DEF TransferCall

\* A balance of whole cents that covers the amount asked for covers its whole cents, also
\* when these were rounded up.
LEMMA AskedCovers ==
    ASSUME NEW c \in Calls, NEW b \in Int, 10 * b >= Asked(c)
    PROVE  b >= c.amount
BY CallFields DEF Asked

\* An account row keeps its shape when its balance is replaced.
LEMMA NewBalance ==
    ASSUME NEW row \in Account, NEW b \in Int
    PROVE  /\ [row EXCEPT !.balance = b] \in Account
           /\ [row EXCEPT !.balance = b].balance = b
           /\ [row EXCEPT !.balance = b].status = row.status
           /\ [row EXCEPT !.balance = b] # NoRow
BY NoRowAssumption DEF Account

-----------------------------------------------------------------------------
(* The inductive invariant. *)

\* Before any request the inductive invariant holds.
LEMMA InitIndInv == TransferInit => IndInv
<1> SUFFICES ASSUME TransferInit PROVE IndInv
  OBVIOUS
<1> USE DEF TransferInit, DatabaseInit
<1>1. TransferTypeOK
  BY OpeningAssumption DEF TransferTypeOK, DatabaseTypeOK, Steps, Outcomes, NothingLoaded, Row, TransactionStatus
<1>2. RowsExclusive /\ LocksInOrder
  BY DEF RowsExclusive, LocksInOrder
<1>3. SessionCurrent
  BY DEF SessionCurrent, NothingLoaded
<1>4. FlushedIsValid /\ KeysUnique
  BY DEF FlushedIsValid, KeysUnique
<1>5. QED
  BY <1>1, <1>2, <1>3, <1>4 DEF IndInv

\* What validation under the locks has established when a request commits.
LEMMA AtCommit ==
    ASSUME IndInv, NEW r \in Requests, pc[r] = "commit"
    PROVE  LET c == args[r]
           IN  /\ c.sender \in AccountIds /\ c.receiver \in AccountIds
               /\ c.sender # c.receiver
               /\ c.amount \in Int /\ c.amount > 0
               /\ \A a \in {c.sender, c.receiver} :
                     /\ a \in held[r]
                     /\ session[r][a] = accounts[a]
                     /\ accounts[a] \in Account
                     /\ accounts[a].status = "ACTIVE"
               /\ 10 * accounts[c.sender].balance >= Asked(c)
               /\ accounts[c.sender].balance >= c.amount
<1> DEFINE c == args[r]
<1>1. c \in Calls
  BY DEF IndInv, TransferTypeOK, DatabaseTypeOK
<1>2. c.sender \in AccountIds /\ c.receiver \in AccountIds /\ c.amount \in Int
  BY <1>1, CallFields
<1>3. c.sender # c.receiver /\ c.amount > 0
  BY DEF IndInv, LocksInOrder
<1>4. Valid(r)
  BY DEF IndInv, FlushedIsValid
<1>5. ASSUME NEW a \in {c.sender, c.receiver}
      PROVE  /\ a \in held[r]
             /\ session[r][a] = accounts[a]
             /\ accounts[a] \in Account
             /\ accounts[a].status = "ACTIVE"
  <2>1. a \in AccountIds
    BY <1>2
  <2>2. session[r][a] # NoRow /\ session[r][a].status = "ACTIVE"
    BY <1>4 DEF Valid, Found, BothActive
  <2>3. session[r][a] = IF a \in held[r] THEN accounts[a] ELSE NoRow
    BY <2>1 DEF IndInv, SessionCurrent
  <2>4. accounts[a] \in Row
    BY <2>1 DEF IndInv, TransferTypeOK, DatabaseTypeOK
  <2>5. QED
    BY <2>2, <2>3, <2>4 DEF Row
<1>6. 10 * accounts[c.sender].balance >= Asked(c)
  BY <1>4, <1>5 DEF Valid, Funded
<1>8. accounts[c.sender].balance >= c.amount
  BY <1>1, <1>5, <1>6, AskedCovers DEF Account
<1>7. QED
  BY <1>2, <1>3, <1>5, <1>6, <1>8

\* The entries a commit writes are ledger entries.
LEMMA EntryType ==
    ASSUME NEW r \in Requests, NEW type \in LedgerEntryType, NEW m \in Int, NEW b \in Int
    PROVE  /\ NewEntry(r, type, m, b) \in LedgerEntry
           /\ NewEntry(r, type, m, b).tx = r
           /\ NewEntry(r, type, m, b).type = type
           /\ NewEntry(r, type, m, b).amount = m
           /\ NewEntry(r, type, m, b).balanceAfter = b
BY DEF NewEntry, LedgerEntry

\* What a commit does to the tables, account by account: the absolute values it
\* writes are the current balances plus or minus the amount.
LEMMA CommitEffect ==
    ASSUME IndInv, NEW r \in Requests, Commit(r)
    PROVE  LET c == args[r]
               debited == accounts[c.sender].balance - c.amount
               credited == accounts[c.receiver].balance + c.amount
           IN  /\ debited \in Int /\ credited \in Int
               /\ accounts' = [accounts EXCEPT
                     ![c.sender] = [accounts[c.sender] EXCEPT !.balance = debited],
                     ![c.receiver] = [accounts[c.receiver] EXCEPT !.balance = credited]]
               /\ ledger' = [ledger EXCEPT
                     ![c.sender] = Append(ledger[c.sender],
                                          NewEntry(r, "DEBIT", c.amount, debited)),
                     ![c.receiver] = Append(ledger[c.receiver],
                                            NewEntry(r, "CREDIT", c.amount, credited))]
<1> DEFINE c == args[r]
<1>1. pc[r] = "commit"
  BY DEF Commit
<1>2. /\ c.sender \in AccountIds /\ c.receiver \in AccountIds
      /\ c.sender # c.receiver
      /\ c.amount \in Int
      /\ session[r][c.sender] = accounts[c.sender]
      /\ session[r][c.receiver] = accounts[c.receiver]
      /\ accounts[c.sender] \in Account
      /\ accounts[c.receiver] \in Account
  BY <1>1, AtCommit
<1>3. accounts[c.sender].balance \in Int /\ accounts[c.receiver].balance \in Int
  BY <1>2 DEF Account
<1>4. accounts' = [accounts EXCEPT ![c.sender].balance = accounts[c.sender].balance - c.amount,
                                   ![c.receiver].balance = accounts[c.receiver].balance + c.amount]
  BY <1>2 DEF Commit
<1>5. ledger' = [ledger EXCEPT
          ![c.sender] = Append(@, NewEntry(r, "DEBIT", c.amount,
                                           accounts[c.sender].balance - c.amount)),
          ![c.receiver] = Append(@, NewEntry(r, "CREDIT", c.amount,
                                             accounts[c.receiver].balance + c.amount))]
  BY <1>2 DEF Commit
<1>6. accounts \in [AccountIds -> Row] /\ ledger \in [AccountIds -> Seq(LedgerEntry)]
  BY DEF IndInv, TransferTypeOK, DatabaseTypeOK
<1>7. accounts' = [accounts EXCEPT
          ![c.sender] = [accounts[c.sender] EXCEPT !.balance = accounts[c.sender].balance - c.amount],
          ![c.receiver] = [accounts[c.receiver] EXCEPT
                              !.balance = accounts[c.receiver].balance + c.amount]]
  BY <1>2, <1>4, <1>6
<1>8. ledger' = [ledger EXCEPT
          ![c.sender] = Append(ledger[c.sender],
                               NewEntry(r, "DEBIT", c.amount,
                                        accounts[c.sender].balance - c.amount)),
          ![c.receiver] = Append(ledger[c.receiver],
                                 NewEntry(r, "CREDIT", c.amount,
                                          accounts[c.receiver].balance + c.amount))]
  BY <1>2, <1>5, <1>6
<1>9. QED
  BY <1>2, <1>3, <1>7, <1>8

-----------------------------------------------------------------------------
(* Every step preserves the inductive invariant. *)

\* Entering execute_transfer keeps the invariant: nothing is locked or loaded yet.
LEMMA CallStep == ASSUME IndInv, NEW r \in Requests, Call(r) PROVE IndInv'
<1> USE DEF Call, Enter, Return, dbVars, IndInv
<1>1. TransferTypeOK'
  BY DEF TransferTypeOK, DatabaseTypeOK, Steps, Outcomes, Refusals, NothingLoaded, Row
<1>2. RowsExclusive'
  BY DEF RowsExclusive
<1>3. LocksInOrder'
  BY DEF LocksInOrder, TransferTypeOK, DatabaseTypeOK
<1>4. SessionCurrent'
  BY DEF SessionCurrent, LocksInOrder, NothingLoaded, TransferTypeOK, DatabaseTypeOK
<1>5. FlushedIsValid'
  BY DEF FlushedIsValid, Valid, Found, BothActive, Funded, TransferTypeOK, DatabaseTypeOK
<1>6. KeysUnique'
  BY DEF KeysUnique
<1>7. QED
  BY <1>1, <1>2, <1>3, <1>4, <1>5, <1>6

\* SELECT ... FOR UPDATE keeps it: the row is free, and loaded as the table has it.
LEMMA LockStep ==
    ASSUME IndInv, NEW r \in Requests, LockFirst(r) \/ LockSecond(r)
    PROVE  IndInv'
<1> DEFINE c == args[r]
           a == IF pc[r] = "lock1" THEN FirstId(c) ELSE SecondId(c)
<1> USE DEF IndInv
<1>1. /\ pc[r] \in {"lock1", "lock2"}
      /\ pc' = [pc EXCEPT ![r] = IF pc[r] = "lock1" THEN "lock2" ELSE "validate"]
      /\ \/ /\ Exists(a) /\ RowFree(a)
            /\ held' = [held EXCEPT ![r] = held[r] \cup {a}]
            /\ session' = [session EXCEPT ![r] = [session[r] EXCEPT ![a] =
                             IF session[r][a] = NoRow THEN accounts[a] ELSE session[r][a]]]
         \/ UNCHANGED <<held, session>>
      /\ UNCHANGED <<accounts, transactions, ledger, audit, args, outcome>>
  BY DEF LockFirst, LockSecond, LockAccount
<1>2. /\ c \in Calls /\ c.sender # c.receiver
      /\ held \in [Requests -> SUBSET AccountIds]
      /\ session \in [Requests -> [AccountIds -> Row]]
      /\ accounts \in [AccountIds -> Row]
      /\ pc \in [Requests -> Steps]
  BY <1>1 DEF TransferTypeOK, DatabaseTypeOK, LocksInOrder
<1>3. /\ a \in AccountIds
      /\ {FirstId(c), SecondId(c)} = {c.sender, c.receiver}
      /\ pc[r] = "lock1" => held[r] = {} /\ a = FirstId(c)
      /\ pc[r] = "lock2" => held[r] \subseteq {FirstId(c)} /\ a = SecondId(c)
      /\ a \notin held[r]
  <2>1. /\ FirstId(c) \in AccountIds /\ SecondId(c) \in AccountIds
        /\ FirstId(c) # SecondId(c)
        /\ {FirstId(c), SecondId(c)} = {c.sender, c.receiver}
    <3>1. FirstId(c) \in Int /\ SecondId(c) \in Int
      BY <1>2, LockOrder, IdsAreIntegers
    <3>2. QED
      BY <3>1, <1>2, LockOrder
  <2>2. QED
    BY <1>1, <2>1 DEF LocksInOrder
<1>4. /\ session[r][a] = NoRow
      /\ \/ /\ Exists(a) /\ RowFree(a)
            /\ held' = [held EXCEPT ![r] = held[r] \cup {a}]
            /\ session' = [session EXCEPT ![r] = [session[r] EXCEPT ![a] = accounts[a]]]
         \/ UNCHANGED <<held, session>>
  BY <1>1, <1>3 DEF SessionCurrent
<1>5. TransferTypeOK'
  <2>1. session' \in [Requests -> [AccountIds -> Row]]
    <3>1. accounts[a] \in Row /\ session[r] \in [AccountIds -> Row]
      BY <1>2, <1>3
    <3>2. [session[r] EXCEPT ![a] = accounts[a]] \in [AccountIds -> Row]
      BY <3>1
    <3>3. QED
      BY <1>2, <1>4, <3>2
  <2>2. held' \in [Requests -> SUBSET AccountIds]
    BY <1>2, <1>3, <1>4
  <2>3. pc' \in [Requests -> Steps]
    BY <1>1, <1>2 DEF Steps
  <2>4. QED
    BY <1>1, <2>1, <2>2, <2>3 DEF TransferTypeOK, DatabaseTypeOK
<1>6. RowsExclusive'
  BY <1>2, <1>4 DEF RowsExclusive, RowFree
<1>7. LocksInOrder'
  <2>1. held'[r] \subseteq held[r] \cup {a} /\ \A q \in Requests \ {r} : held'[q] = held[q]
    BY <1>2, <1>4
  <2>2. QED
    BY <1>1, <1>2, <1>3, <2>1 DEF LocksInOrder
<1>8. SessionCurrent'
  BY <1>1, <1>2, <1>3, <1>4 DEF SessionCurrent
<1>9. FlushedIsValid'
  BY <1>1, <1>2, <1>4 DEF FlushedIsValid, Valid, Found, BothActive, Funded
<1>10. KeysUnique'
  BY <1>1 DEF KeysUnique
<1>11. QED
  BY <1>5, <1>6, <1>7, <1>8, <1>9, <1>10

\* Refusals, a duplicate key and a failed statement all end in a rollback.
LEMMA RollbackStep ==
    ASSUME IndInv, NEW r \in Requests, Refuse(r) \/ DuplicateKey(r) \/ Abort(r)
    PROVE  IndInv'
<1> USE DEF IndInv
<1>1. /\ pc[r] \in {"lock1", "lock2", "validate", "commit"}
      /\ pc' = [pc EXCEPT ![r] = "done"]
      /\ \E o \in Outcomes : outcome' = [outcome EXCEPT ![r] = o]
      /\ held' = [held EXCEPT ![r] = {}]
      /\ transactions' = [transactions EXCEPT ![r] = "NONE"]
      /\ UNCHANGED <<accounts, ledger, audit, args, session>>
  BY DEF Refuse, DuplicateKey, Abort, Return, Rollback, Outcomes, Refusals
<1>2. TransferTypeOK'
  BY <1>1 DEF TransferTypeOK, DatabaseTypeOK, Steps, TransactionStatus
<1>3. /\ pc \in [Requests -> Steps]
      /\ held \in [Requests -> SUBSET AccountIds]
      /\ transactions \in [Requests -> TransactionStatus]
  BY DEF TransferTypeOK, DatabaseTypeOK
<1>4. RowsExclusive'
  BY <1>1, <1>3 DEF RowsExclusive
<1>5. LocksInOrder'
  BY <1>1, <1>3 DEF LocksInOrder
<1>6. SessionCurrent'
  BY <1>1, <1>3 DEF SessionCurrent
<1>7. FlushedIsValid'
  BY <1>1, <1>3 DEF FlushedIsValid, Valid, Found, BothActive, Funded
<1>8. KeysUnique'
  BY <1>1, <1>3 DEF KeysUnique
<1>9. QED
  BY <1>2, <1>4, <1>5, <1>6, <1>7, <1>8

\* The flush keeps it: the call is valid and its key in no other row.
LEMMA FlushStep == ASSUME IndInv, NEW r \in Requests, Flush(r) PROVE IndInv'
<1> USE DEF IndInv, Flush
<1>1. TransferTypeOK'
  BY DEF TransferTypeOK, DatabaseTypeOK, Steps, TransactionStatus
<1>2. /\ pc \in [Requests -> Steps]
      /\ transactions \in [Requests -> TransactionStatus]
  BY DEF TransferTypeOK, DatabaseTypeOK
<1>3. RowsExclusive'
  BY DEF RowsExclusive
<1>4. LocksInOrder'
  BY <1>2 DEF LocksInOrder
<1>5. SessionCurrent'
  BY <1>2 DEF SessionCurrent
<1>6. FlushedIsValid'
  BY <1>2 DEF FlushedIsValid, Valid, Found, BothActive, Funded
<1>7. KeysUnique'
  BY <1>2 DEF KeysUnique, KeyHolders, TransactionStatus
<1>8. QED
  BY <1>1, <1>3, <1>4, <1>5, <1>6, <1>7

\* The commit keeps it: the rows it writes are loaded by nobody else.
LEMMA CommitStep == ASSUME IndInv, NEW r \in Requests, Commit(r) PROVE IndInv'
<1> DEFINE c == args[r]
<1> USE DEF IndInv
<1>1. /\ pc[r] = "commit"
      /\ pc' = [pc EXCEPT ![r] = "done"]
      /\ \E o \in Outcomes : outcome' = [outcome EXCEPT ![r] = o]
      /\ held' = [held EXCEPT ![r] = {}]
      /\ transactions' = [transactions EXCEPT ![r] = "COMPLETED"]
      /\ audit' = audit \cup {r}
      /\ UNCHANGED <<args, session>>
  BY DEF Commit, Return, Outcomes
<1>2. /\ pc \in [Requests -> Steps]
      /\ held \in [Requests -> SUBSET AccountIds]
      /\ transactions \in [Requests -> TransactionStatus]
      /\ accounts \in [AccountIds -> Row]
      /\ ledger \in [AccountIds -> Seq(LedgerEntry)]
  BY DEF TransferTypeOK, DatabaseTypeOK
<1>3. /\ c.sender \in AccountIds /\ c.receiver \in AccountIds
      /\ c.amount \in Int
      /\ c.sender \in held[r] /\ c.receiver \in held[r]
      /\ accounts[c.sender] \in Account /\ accounts[c.receiver] \in Account
  BY <1>1, AtCommit
<1>4. /\ accounts' \in [AccountIds -> Row]
      /\ ledger' \in [AccountIds -> Seq(LedgerEntry)]
      /\ \A a \in AccountIds \ {c.sender, c.receiver} : accounts'[a] = accounts[a]
  <2> DEFINE debited == accounts[c.sender].balance - c.amount
             credited == accounts[c.receiver].balance + c.amount
  <2>1. /\ debited \in Int /\ credited \in Int
        /\ accounts' = [accounts EXCEPT
              ![c.sender] = [accounts[c.sender] EXCEPT !.balance = debited],
              ![c.receiver] = [accounts[c.receiver] EXCEPT !.balance = credited]]
        /\ ledger' = [ledger EXCEPT
              ![c.sender] = Append(ledger[c.sender],
                                   NewEntry(r, "DEBIT", c.amount, debited)),
              ![c.receiver] = Append(ledger[c.receiver],
                                     NewEntry(r, "CREDIT", c.amount, credited))]
    BY CommitEffect
  <2>2. /\ [accounts[c.sender] EXCEPT !.balance = debited] \in Row
        /\ [accounts[c.receiver] EXCEPT !.balance = credited] \in Row
    BY <1>3, <2>1, NewBalance DEF Row
  <2>3. /\ NewEntry(r, "DEBIT", c.amount, debited) \in LedgerEntry
        /\ NewEntry(r, "CREDIT", c.amount, credited) \in LedgerEntry
    BY <1>3, <2>1, EntryType DEF LedgerEntryType
  <2>4. accounts' \in [AccountIds -> Row] /\ \A a \in AccountIds \ {c.sender, c.receiver} : accounts'[a] = accounts[a]
    BY <1>2, <2>1, <2>2
  <2>5. ledger' \in [AccountIds -> Seq(LedgerEntry)]
    <3>1. /\ Append(ledger[c.sender], NewEntry(r, "DEBIT", c.amount, debited))
                \in Seq(LedgerEntry)
          /\ Append(ledger[c.receiver], NewEntry(r, "CREDIT", c.amount, credited))
                \in Seq(LedgerEntry)
      BY <1>2, <1>3, <2>3
    <3> HIDE DEF debited, credited
    <3>2. QED
      BY <1>2, <2>1, <3>1
  <2>6. QED
    BY <2>4, <2>5
<1>5. TransferTypeOK'
  BY <1>1, <1>2, <1>4 DEF TransferTypeOK, DatabaseTypeOK, Steps, TransactionStatus
<1>6. RowsExclusive'
  BY <1>1, <1>2 DEF RowsExclusive
<1>7. LocksInOrder'
  BY <1>1, <1>2 DEF LocksInOrder
<1>8. SessionCurrent'
  <2> SUFFICES ASSUME NEW q \in Requests, pc'[q] # "done", NEW a \in AccountIds
               PROVE  session[q][a] = IF a \in held'[q] THEN accounts'[a] ELSE NoRow
    BY <1>1 DEF SessionCurrent
  <2>1. q # r /\ pc[q] # "done" /\ held'[q] = held[q]
    BY <1>1, <1>2
  <2>2. a \in held[q] => a \notin {c.sender, c.receiver}
    BY <1>3, <2>1 DEF RowsExclusive
  <2>3. QED
    BY <1>4, <2>1, <2>2 DEF SessionCurrent
<1>9. FlushedIsValid'
  BY <1>1, <1>2 DEF FlushedIsValid, Valid, Found, BothActive, Funded
<1>10. KeysUnique'
  BY <1>1, <1>2 DEF KeysUnique, FlushedIsValid
<1>11. QED
  BY <1>5, <1>6, <1>7, <1>8, <1>9, <1>10

\* A status change keeps it: a row that a request has loaded is locked.
LEMMA StatusStep ==
    ASSUME IndInv, NEW b \in AccountIds, NEW s \in AccountStatus, SetStatus(b, s)
    PROVE  IndInv'
<1> USE DEF IndInv, SetStatus, requestVars
<1>1. /\ accounts[b] \in Account
      /\ accounts' = [accounts EXCEPT ![b] = [accounts[b] EXCEPT !.status = s]]
      /\ accounts \in [AccountIds -> Row]
  BY DEF TransferTypeOK, DatabaseTypeOK, Exists, Row
<1>2. TransferTypeOK'
  BY <1>1 DEF TransferTypeOK, DatabaseTypeOK, Row, Account
<1>3. RowsExclusive' /\ LocksInOrder' /\ KeysUnique'
  BY DEF RowsExclusive, LocksInOrder, KeysUnique
<1>4. SessionCurrent'
  BY <1>1 DEF SessionCurrent, RowFree
<1>5. FlushedIsValid'
  BY DEF FlushedIsValid, Valid, Found, BothActive, Funded
<1>6. QED
  BY <1>2, <1>3, <1>4, <1>5

\* A step that changes nothing keeps it.
LEMMA StutterStep == ASSUME IndInv, UNCHANGED transferVars PROVE IndInv'
BY DEF transferVars, dbVars, requestVars, IndInv, TransferTypeOK, DatabaseTypeOK, RowsExclusive,
       LocksInOrder, SessionCurrent, FlushedIsValid, KeysUnique, Valid, Found, BothActive, Funded

\* The actions a step can be.
LEMMA StepCases ==
    ASSUME [TransferNext]_transferVars
    PROVE  \/ \E r \in Requests : Call(r)
           \/ \E r \in Requests : LockFirst(r) \/ LockSecond(r)
           \/ \E r \in Requests : Refuse(r) \/ DuplicateKey(r) \/ Abort(r)
           \/ \E r \in Requests : Flush(r)
           \/ \E r \in Requests : Commit(r)
           \/ \E b \in AccountIds, s \in AccountStatus : SetStatus(b, s)
           \/ UNCHANGED transferVars
BY StatusChangesAssumption DEF TransferNext, Progress, AllDone

\* Every step of the service keeps the inductive invariant.
LEMMA NextIndInv == IndInv /\ [TransferNext]_transferVars => IndInv'
BY StepCases, CallStep, LockStep, RollbackStep, FlushStep, CommitStep, StatusStep, StutterStep

\* The inductive invariant holds of every reachable state.
THEOREM IndInvHolds == TransferSpec => []IndInv
<1>1. TransferInit => IndInv
  BY InitIndInv
<1>2. QED
  BY <1>1, NextIndInv, PTL DEF TransferSpec

\* Every reachable state is well typed.
THEOREM TypeCorrect == TransferSpec => []TransferTypeOK
BY IndInvHolds, PTL DEF IndInv

\* An idempotency key pays at most once: no two completed transfers share one.
THEOREM ExactlyOnce == TransferSpec => []OneTransferPerKey
<1>1. IndInv => OneTransferPerKey
  BY DEF IndInv, KeysUnique, OneTransferPerKey, Completed
<1>2. QED
  BY <1>1, IndInvHolds, PTL

-----------------------------------------------------------------------------
(* The ledger. *)

\* Appending an entry that continues from the closing balance keeps a ledger chained.
LEMMA ChainAppend ==
    ASSUME NEW a, NEW entries \in Seq(LedgerEntry), NEW e \in LedgerEntry,
           Chained(a, entries),
           e.balanceAfter = Effect(e) + ClosingBalance(a, entries)
    PROVE  /\ Chained(a, Append(entries, e))
           /\ ClosingBalance(a, Append(entries, e)) = e.balanceAfter
<1> DEFINE n == Len(entries)
           longer == Append(entries, e)
<1>1. /\ n \in Nat /\ Len(longer) = n + 1 /\ longer[n+1] = e
      /\ \A i \in 1..n : longer[i] = entries[i]
      /\ entries = << >> <=> n = 0
      /\ longer # << >>
  OBVIOUS
<1>2. ClosingBalance(a, longer) = e.balanceAfter
  BY <1>1 DEF ClosingBalance
<1>3. ASSUME NEW i \in 1..Len(longer)
      PROVE  longer[i].balanceAfter =
               Effect(longer[i]) + (IF i = 1 THEN OpeningBalance(a) ELSE longer[i-1].balanceAfter)
  <2>1. CASE i \in 1..n
    <3>1. i # 1 => i - 1 \in 1..n
      BY <2>1, <1>1
    <3>2. QED
      BY <2>1, <3>1, <1>1 DEF Chained
  <2>2. CASE i = n + 1
    <3>1. longer[i] = e
      BY <2>2, <1>1
    <3>2. n = 0 => i = 1 /\ ClosingBalance(a, entries) = OpeningBalance(a)
      BY <2>2, <1>1 DEF ClosingBalance
    <3>3. n # 0 => /\ i # 1 /\ i - 1 = n /\ n \in 1..n
                   /\ ClosingBalance(a, entries) = entries[n].balanceAfter
      BY <2>2, <1>1 DEF ClosingBalance
    <3>4. QED
      BY <3>1, <3>2, <3>3, <1>1
  <2>3. QED
    BY <1>1, <1>3, <2>1, <2>2
<1>4. QED
  BY <1>2, <1>3 DEF Chained

\* ... and adds its position to those of its own transfer only.
LEMMA PositionsAppend ==
    ASSUME NEW id, NEW entries \in Seq(LedgerEntry), NEW e \in LedgerEntry
    PROVE  Positions(id, Append(entries, e)) =
             Positions(id, entries) \cup (IF e.tx = id THEN {Len(entries) + 1} ELSE {})
<1>1. /\ Len(entries) \in Nat
      /\ Len(Append(entries, e)) = Len(entries) + 1
      /\ Append(entries, e)[Len(entries) + 1] = e
      /\ \A i \in 1..Len(entries) : Append(entries, e)[i] = entries[i]
  OBVIOUS
<1>2. QED
  BY <1>1 DEF Positions

\* Only a commit touches money, ledger, audit trail or completion; everything else
\* can at most change the status of one account.
LEMMA OnlyCommits ==
    ASSUME IndInv, [TransferNext]_transferVars, \A r \in Requests : ~Commit(r)
    PROVE  /\ UNCHANGED <<ledger, audit, args>>
           /\ Completed' = Completed
           /\ \A a \in AccountIds :
                 /\ Exists(a)' = Exists(a)
                 /\ Exists(a) => accounts'[a].balance = accounts[a].balance
<1>1. /\ transactions \in [Requests -> TransactionStatus]
      /\ accounts \in [AccountIds -> Row]
  BY DEF IndInv, TransferTypeOK, DatabaseTypeOK
<1>2. ASSUME NEW r \in Requests, Refuse(r) \/ DuplicateKey(r) \/ Abort(r)
      PROVE  UNCHANGED <<ledger, audit, args, accounts>> /\ Completed' = Completed
  <2>1. /\ pc[r] # "done" /\ transactions' = [transactions EXCEPT ![r] = "NONE"]
        /\ UNCHANGED <<ledger, audit, args, accounts>>
    BY <1>2 DEF Refuse, DuplicateKey, Abort, Rollback
  <2>2. QED
    BY <1>1, <2>1 DEF IndInv, FlushedIsValid, Completed
<1>3. ASSUME NEW r \in Requests, Flush(r)
      PROVE  UNCHANGED <<ledger, audit, args, accounts>> /\ Completed' = Completed
  <2>1. /\ pc[r] # "done" /\ transactions' = [transactions EXCEPT ![r] = "PENDING"]
        /\ UNCHANGED <<ledger, audit, args, accounts>>
    BY <1>3 DEF Flush
  <2>2. QED
    BY <1>1, <2>1 DEF IndInv, FlushedIsValid, Completed
<1>4. ASSUME NEW r \in Requests, Call(r) \/ LockFirst(r) \/ LockSecond(r)
      PROVE  UNCHANGED <<ledger, audit, args, accounts, transactions>>
  BY <1>4 DEF Call, Enter, dbVars, LockFirst, LockSecond, LockAccount
<1>5. ASSUME NEW b \in AccountIds, NEW s \in AccountStatus, SetStatus(b, s)
      PROVE  /\ UNCHANGED <<ledger, audit, args, transactions>>
             /\ \A a \in AccountIds :
                   /\ accounts'[a] # NoRow <=> accounts[a] # NoRow
                   /\ accounts[a] # NoRow => accounts'[a].balance = accounts[a].balance
  <2>1. /\ accounts[b] \in Account
        /\ accounts' = [accounts EXCEPT ![b] = [accounts[b] EXCEPT !.status = s]]
        /\ UNCHANGED <<ledger, audit, args, transactions>>
    BY <1>1, <1>5 DEF SetStatus, Exists, Row
  <2>2. [accounts[b] EXCEPT !.status = s] \in Account
    BY <2>1 DEF Account
  <2>3. [accounts[b] EXCEPT !.status = s].balance = accounts[b].balance
    BY <2>1 DEF Account
  <2>4. QED
    BY <1>1, <2>1, <2>2, <2>3, NoRowAssumption
<1>6. CASE UNCHANGED transferVars
  BY <1>6 DEF transferVars, dbVars, Completed, Exists
<1>7. QED
  BY <1>2, <1>3, <1>4, <1>5, <1>6, StepCases DEF Completed, Exists

\* A commit as seen from each account: the two legs, and nothing anywhere else.
LEMMA CommitLegs ==
    ASSUME IndInv, NEW r \in Requests, Commit(r)
    PROVE  LET c == args[r]
               debit == NewEntry(r, "DEBIT", c.amount, accounts[c.sender].balance - c.amount)
               credit == NewEntry(r, "CREDIT", c.amount, accounts[c.receiver].balance + c.amount)
           IN  /\ c.sender \in AccountIds /\ c.receiver \in AccountIds
               /\ c.sender # c.receiver
               /\ accounts[c.sender] \in Account /\ accounts[c.receiver] \in Account
               /\ debit \in LedgerEntry /\ credit \in LedgerEntry
               /\ accounts'[c.sender] =
                     [accounts[c.sender] EXCEPT !.balance = accounts[c.sender].balance - c.amount]
               /\ accounts'[c.receiver] =
                     [accounts[c.receiver] EXCEPT !.balance = accounts[c.receiver].balance + c.amount]
               /\ ledger'[c.sender] = Append(ledger[c.sender], debit)
               /\ ledger'[c.receiver] = Append(ledger[c.receiver], credit)
               /\ \A a \in AccountIds \ {c.sender, c.receiver} :
                     accounts'[a] = accounts[a] /\ ledger'[a] = ledger[a]
<1> DEFINE c == args[r]
           debited == accounts[c.sender].balance - c.amount
           credited == accounts[c.receiver].balance + c.amount
<1>1. /\ c.sender \in AccountIds /\ c.receiver \in AccountIds
      /\ c.sender # c.receiver
      /\ c.amount \in Int
      /\ accounts[c.sender] \in Account /\ accounts[c.receiver] \in Account
  BY AtCommit DEF Commit
<1>2. /\ debited \in Int /\ credited \in Int
      /\ accounts' = [accounts EXCEPT
              ![c.sender] = [accounts[c.sender] EXCEPT !.balance = debited],
              ![c.receiver] = [accounts[c.receiver] EXCEPT !.balance = credited]]
      /\ ledger' = [ledger EXCEPT
              ![c.sender] = Append(ledger[c.sender], NewEntry(r, "DEBIT", c.amount, debited)),
              ![c.receiver] = Append(ledger[c.receiver], NewEntry(r, "CREDIT", c.amount, credited))]
  BY CommitEffect
<1>3. accounts \in [AccountIds -> Row] /\ ledger \in [AccountIds -> Seq(LedgerEntry)]
  BY DEF IndInv, TransferTypeOK, DatabaseTypeOK
<1>4. /\ NewEntry(r, "DEBIT", c.amount, debited) \in LedgerEntry
      /\ NewEntry(r, "CREDIT", c.amount, credited) \in LedgerEntry
  BY <1>1, <1>2, EntryType DEF LedgerEntryType
<1>5. /\ accounts'[c.sender] = [accounts[c.sender] EXCEPT !.balance = debited]
      /\ accounts'[c.receiver] = [accounts[c.receiver] EXCEPT !.balance = credited]
      /\ \A a \in AccountIds \ {c.sender, c.receiver} : accounts'[a] = accounts[a]
  BY <1>1, <1>2, <1>3
<1>6. /\ ledger'[c.sender] = Append(ledger[c.sender], NewEntry(r, "DEBIT", c.amount, debited))
      /\ ledger'[c.receiver] = Append(ledger[c.receiver], NewEntry(r, "CREDIT", c.amount, credited))
      /\ \A a \in AccountIds \ {c.sender, c.receiver} : ledger'[a] = ledger[a]
  BY <1>1, <1>2, <1>3
<1>7. QED
  BY <1>1, <1>4, <1>5, <1>6

\* Every step leaves each ledger explaining the balance of its account.
LEMMA LedgerStep ==
    ASSUME IndInv, LedgerExplainsBalances, [TransferNext]_transferVars
    PROVE  LedgerExplainsBalances'
<1>1. CASE \A r \in Requests : ~Commit(r)
  BY <1>1, OnlyCommits DEF LedgerExplainsBalances, Exists
<1>2. ASSUME NEW r \in Requests, Commit(r) PROVE LedgerExplainsBalances'
  <2> DEFINE c == args[r]
             debited == accounts[c.sender].balance - c.amount
             credited == accounts[c.receiver].balance + c.amount
             debit == NewEntry(r, "DEBIT", c.amount, debited)
             credit == NewEntry(r, "CREDIT", c.amount, credited)
  <2>1. /\ c.sender \in AccountIds /\ c.receiver \in AccountIds
        /\ accounts[c.sender] \in Account /\ accounts[c.receiver] \in Account
        /\ debit \in LedgerEntry /\ credit \in LedgerEntry
        /\ accounts'[c.sender] = [accounts[c.sender] EXCEPT !.balance = debited]
        /\ accounts'[c.receiver] = [accounts[c.receiver] EXCEPT !.balance = credited]
        /\ ledger'[c.sender] = Append(ledger[c.sender], debit)
        /\ ledger'[c.receiver] = Append(ledger[c.receiver], credit)
        /\ \A a \in AccountIds \ {c.sender, c.receiver} :
              accounts'[a] = accounts[a] /\ ledger'[a] = ledger[a]
    BY <1>2, CommitLegs
  <2>2. /\ c.amount \in Int
        /\ accounts[c.sender].balance \in Int /\ accounts[c.receiver].balance \in Int
        /\ debited \in Int /\ credited \in Int
    <3>1. args[r] \in Calls
      BY DEF IndInv, TransferTypeOK, DatabaseTypeOK
    <3>2. c.amount \in Int
      BY <3>1, CallFields
    <3>3. accounts[c.sender].balance \in Int /\ accounts[c.receiver].balance \in Int
      <4> HIDE DEF c
      <4> QED
        BY <2>1 DEF Account
    <3>4. QED
      BY <3>2, <3>3
  <2>3. ledger \in [AccountIds -> Seq(LedgerEntry)]
    BY DEF IndInv, TransferTypeOK, DatabaseTypeOK
  <2>4. /\ debit.balanceAfter = debited /\ Effect(debit) = -c.amount
        /\ credit.balanceAfter = credited /\ Effect(credit) = c.amount
    BY DEF NewEntry, Effect
  <2>5. \A a \in {c.sender, c.receiver} : accounts[a] # NoRow
    BY <2>1, NoRowAssumption
  <2>6. /\ Chained(c.sender, ledger[c.sender])
        /\ accounts[c.sender].balance = ClosingBalance(c.sender, ledger[c.sender])
        /\ Chained(c.receiver, ledger[c.receiver])
        /\ accounts[c.receiver].balance = ClosingBalance(c.receiver, ledger[c.receiver])
    BY <2>1, <2>5 DEF LedgerExplainsBalances, Exists
  <2>7. /\ debit.balanceAfter = Effect(debit) + ClosingBalance(c.sender, ledger[c.sender])
        /\ credit.balanceAfter = Effect(credit) + ClosingBalance(c.receiver, ledger[c.receiver])
    <3>1. /\ debited = -c.amount + accounts[c.sender].balance
          /\ credited = c.amount + accounts[c.receiver].balance
      BY <2>2
    <3>2. QED
      BY <3>1, <2>4, <2>6
  <2> HIDE DEF debited, credited, debit, credit
  <2>8. /\ Chained(c.sender, ledger'[c.sender])
        /\ ClosingBalance(c.sender, ledger'[c.sender]) = debited
    BY <2>1, <2>3, <2>4, <2>6, <2>7, ChainAppend
  <2>9. /\ Chained(c.receiver, ledger'[c.receiver])
        /\ ClosingBalance(c.receiver, ledger'[c.receiver]) = credited
    BY <2>1, <2>3, <2>4, <2>6, <2>7, ChainAppend
  <2>10. accounts'[c.sender].balance = debited /\ accounts'[c.receiver].balance = credited
    BY <2>1, <2>2, NewBalance
  <2>11. ASSUME NEW a \in AccountIds
         PROVE  /\ Chained(a, ledger'[a])
                /\ accounts'[a] # NoRow => accounts'[a].balance = ClosingBalance(a, ledger'[a])
    <3>1. CASE a \in {c.sender, c.receiver}
      BY <3>1, <2>8, <2>9, <2>10
    <3>2. CASE a \notin {c.sender, c.receiver}
      BY <3>2, <2>1 DEF LedgerExplainsBalances, Exists
    <3>3. QED
      BY <3>1, <3>2
  <2>12. QED
    BY <2>11 DEF LedgerExplainsBalances, Exists
<1>3. QED
  BY <1>1, <1>2

\* Every balance is, at all times, what the ledger of its account adds up to.
THEOREM LedgerSound == TransferSpec => []LedgerExplainsBalances
<1>1. TransferInit => LedgerExplainsBalances
  BY DEF TransferInit, DatabaseInit, LedgerExplainsBalances, Chained, ClosingBalance,
         OpeningBalance, Exists
<1>2. IndInv /\ LedgerExplainsBalances /\ [TransferNext]_transferVars => LedgerExplainsBalances'
  BY LedgerStep
<1>3. QED
  BY <1>1, <1>2, IndInvHolds, PTL DEF TransferSpec

\* Every step leaves all balances non-negative.
LEMMA OverdraftStep ==
    ASSUME IndInv, NoOverdraft, [TransferNext]_transferVars
    PROVE  NoOverdraft'
<1>1. CASE \A r \in Requests : ~Commit(r)
  BY <1>1, OnlyCommits DEF NoOverdraft, Exists
<1>2. ASSUME NEW r \in Requests, Commit(r) PROVE NoOverdraft'
  <2> DEFINE c == args[r]
  <2>1. /\ c.amount \in Int /\ c.amount > 0
        /\ accounts[c.sender].balance >= c.amount
    BY <1>2, AtCommit DEF Commit
  <2>2. /\ accounts[c.sender] \in Account /\ accounts[c.receiver] \in Account
        /\ accounts'[c.sender] =
              [accounts[c.sender] EXCEPT !.balance = accounts[c.sender].balance - c.amount]
        /\ accounts'[c.receiver] =
              [accounts[c.receiver] EXCEPT !.balance = accounts[c.receiver].balance + c.amount]
        /\ \A a \in AccountIds \ {c.sender, c.receiver} : accounts'[a] = accounts[a]
        /\ c.receiver \in AccountIds
    BY <1>2, CommitLegs
  <2>3. /\ accounts'[c.sender].balance = accounts[c.sender].balance - c.amount
        /\ accounts'[c.receiver].balance = accounts[c.receiver].balance + c.amount
        /\ accounts[c.sender].balance \in Int /\ accounts[c.receiver].balance \in Int
    BY <2>2 DEF Account
  <2>4. accounts[c.receiver].balance >= 0
    BY <2>2, NoRowAssumption DEF NoOverdraft, Exists
  <2>5. accounts'[c.sender].balance >= 0 /\ accounts'[c.receiver].balance >= 0
    BY <2>1, <2>3, <2>4
  <2>6. QED
    BY <2>2, <2>5 DEF NoOverdraft, Exists
<1>3. QED
  BY <1>1, <1>2

\* No interleaving of transfers overdraws an account.
THEOREM NeverOverdrawn == TransferSpec => []NoOverdraft
<1>1. TransferInit => NoOverdraft
  BY OpeningAssumption DEF TransferInit, DatabaseInit, NoOverdraft, Exists
<1>2. QED
  BY <1>1, OverdraftStep, IndInvHolds, PTL DEF TransferSpec

-----------------------------------------------------------------------------
(* The paper trail. *)

\* The first entry of a transfer or order is the only one it has.
LEMMA OwnEntry ==
    ASSUME NEW s \in Seq(LedgerEntry), NEW e \in LedgerEntry, Positions(e.tx, s) = {}
    PROVE  /\ Positions(e.tx, Append(s, e)) = {Len(s) + 1}
           /\ Append(s, e)[Len(s) + 1] = e
<1>1. Positions(e.tx, Append(s, e)) =
        Positions(e.tx, s) \cup (IF e.tx = e.tx THEN {Len(s) + 1} ELSE {})
  BY PositionsAppend
<1>2. QED
  BY <1>1

\* An entry somebody else appends does not count as one of id's, nor move any of them.
LEMMA OthersEntry ==
    ASSUME NEW id, NEW s \in Seq(LedgerEntry), NEW e \in LedgerEntry, e.tx # id
    PROVE  /\ Positions(id, Append(s, e)) = Positions(id, s)
           /\ \A i \in Positions(id, s) : Append(s, e)[i] = s[i]
<1>1. Positions(id, Append(s, e)) = Positions(id, s)
  <2>1. Positions(id, Append(s, e)) =
          Positions(id, s) \cup (IF e.tx = id THEN {Len(s) + 1} ELSE {})
    BY PositionsAppend
  <2>2. QED
    BY <2>1
<1>2. \A i \in 1..Len(s) : Append(s, e)[i] = s[i]
  OBVIOUS
<1>3. QED
  BY <1>1, <1>2 DEF Positions

\* What others append to the ledgers leaves the trail of a transfer as it was.
LEMMA PaperKept ==
    ASSUME DatabaseTypeOK, NEW q \in Requests, PaperTrailOf(q),
           args' = args, q \in audit' <=> q \in audit, q \in Completed' <=> q \in Completed,
           \A a \in AccountIds :
              \/ ledger'[a] = ledger[a]
              \/ \E e \in LedgerEntry : e.tx # q /\ ledger'[a] = Append(ledger[a], e)
    PROVE  PaperTrailOf(q)'
<1>1. ASSUME NEW a \in AccountIds
      PROVE  /\ Positions(q, ledger'[a]) = Positions(q, ledger[a])
             /\ \A i \in Positions(q, ledger[a]) : ledger'[a][i] = ledger[a][i]
  <2>1. ledger[a] \in Seq(LedgerEntry)
    BY DEF DatabaseTypeOK
  <2>2. ASSUME NEW e \in LedgerEntry, e.tx # q, ledger'[a] = Append(ledger[a], e)
        PROVE  /\ Positions(q, ledger'[a]) = Positions(q, ledger[a])
               /\ \A i \in Positions(q, ledger[a]) : ledger'[a][i] = ledger[a][i]
    <3>1. /\ Positions(q, Append(ledger[a], e)) = Positions(q, ledger[a])
          /\ \A i \in Positions(q, ledger[a]) : Append(ledger[a], e)[i] = ledger[a][i]
      BY <2>1, <2>2, OthersEntry
    <3>2. QED
      BY <2>2, <3>1
  <2>3. QED
    BY <2>2
<1>2. args[q].sender \in AccountIds /\ args[q].receiver \in AccountIds
  BY CallFields DEF DatabaseTypeOK
<1>3. QED
  BY <1>1, <1>2 DEF PaperTrailOf, EntriesOf

\* The two legs of a commit, whatever balances they state, are the trail of its transfer.
LEMMA LegsArePaper ==
    ASSUME TransferTypeOK, FlushedIsValid, PaperTrail,
           NEW r \in Requests, Commit(r),
           NEW debited \in Int, NEW credited \in Int,
           args[r].sender # args[r].receiver,
           ledger'[args[r].sender] =
              Append(ledger[args[r].sender], NewEntry(r, "DEBIT", args[r].amount, debited)),
           ledger'[args[r].receiver] =
              Append(ledger[args[r].receiver], NewEntry(r, "CREDIT", args[r].amount, credited)),
           \A a \in AccountIds \ {args[r].sender, args[r].receiver} : ledger'[a] = ledger[a]
    PROVE  PaperTrail'
<1> DEFINE c == args[r]
           debit == NewEntry(r, "DEBIT", c.amount, debited)
           credit == NewEntry(r, "CREDIT", c.amount, credited)
           At(q, a) == Positions(q, ledger[a])
<1>1. c.sender \in AccountIds /\ c.receiver \in AccountIds /\ c.amount \in Int
  BY CallFields DEF TransferTypeOK, DatabaseTypeOK
<1>2. /\ debit \in LedgerEntry /\ debit.tx = r
      /\ debit.type = "DEBIT" /\ debit.amount = c.amount
      /\ credit \in LedgerEntry /\ credit.tx = r
      /\ credit.type = "CREDIT" /\ credit.amount = c.amount
  BY <1>1, EntryType DEF LedgerEntryType
<1>3. /\ transactions \in [Requests -> TransactionStatus]
      /\ ledger \in [AccountIds -> Seq(LedgerEntry)]
      /\ DatabaseTypeOK
  BY DEF TransferTypeOK, DatabaseTypeOK
<1>4. /\ args' = args /\ audit' = audit \cup {r}
      /\ transactions' = [transactions EXCEPT ![r] = "COMPLETED"]
      /\ pc[r] = "commit"
  BY DEF Commit
<1>5. Completed' = Completed \cup {r} /\ r \notin Completed
  BY <1>3, <1>4 DEF Completed, FlushedIsValid
<1> HIDE DEF debit, credit
<1>6. \A a \in AccountIds : At(r, a) = {}
  BY <1>5 DEF PaperTrail, PaperTrailOf, EntriesOf
<1>7. ASSUME NEW a \in AccountIds, NEW e \in LedgerEntry, e.tx = r,
             ledger'[a] = Append(ledger[a], e)
      PROVE  \E i \in Positions(r, ledger'[a]) :
                Positions(r, ledger'[a]) = {i} /\ ledger'[a][i] = e
  <2>1. ledger[a] \in Seq(LedgerEntry) /\ Positions(e.tx, ledger[a]) = {}
    BY <1>3, <1>6, <1>7
  <2>2. /\ Positions(e.tx, Append(ledger[a], e)) = {Len(ledger[a]) + 1}
        /\ Append(ledger[a], e)[Len(ledger[a]) + 1] = e
    BY <2>1, OwnEntry
  <2>3. QED
    BY <1>7, <2>2
<1>8. ASSUME NEW a \in AccountIds \ {c.sender, c.receiver}
      PROVE  Positions(r, ledger'[a]) = {}
  BY <1>6
<1>9. r \in audit' /\ r \in Completed'
  BY <1>4, <1>5
<1>10. \E i \in Positions(r, ledger'[c.sender]) :
          /\ Positions(r, ledger'[c.sender]) = {i}
          /\ ledger'[c.sender][i].type = "DEBIT" /\ ledger'[c.sender][i].amount = c.amount
  <2>1. ledger'[c.sender] = Append(ledger[c.sender], debit)
    BY DEF debit
  <2>2. \E i \in Positions(r, ledger'[c.sender]) :
           Positions(r, ledger'[c.sender]) = {i} /\ ledger'[c.sender][i] = debit
    BY <1>1, <1>2, <1>7, <2>1
  <2>3. QED
    BY <1>2, <2>2
<1>11. \E i \in Positions(r, ledger'[c.receiver]) :
          /\ Positions(r, ledger'[c.receiver]) = {i}
          /\ ledger'[c.receiver][i].type = "CREDIT" /\ ledger'[c.receiver][i].amount = c.amount
  <2>1. ledger'[c.receiver] = Append(ledger[c.receiver], credit)
    BY DEF credit
  <2>2. \E i \in Positions(r, ledger'[c.receiver]) :
           Positions(r, ledger'[c.receiver]) = {i} /\ ledger'[c.receiver][i] = credit
    BY <1>1, <1>2, <1>7, <2>1
  <2>3. QED
    BY <1>2, <2>2
<1>12. args'[r] = c
  BY <1>4
<1>13. ASSUME NEW q \in Requests \ {r} PROVE PaperTrailOf(q)'
  <2>1. /\ PaperTrailOf(q)
        /\ q \in audit' <=> q \in audit
        /\ q \in Completed' <=> q \in Completed
    BY <1>4, <1>5 DEF PaperTrail
  <2>2. \A a \in AccountIds :
           \/ ledger'[a] = ledger[a]
           \/ \E e \in LedgerEntry : e.tx # q /\ ledger'[a] = Append(ledger[a], e)
    BY <1>2 DEF debit, credit
  <2>3. QED
    BY <1>3, <1>4, <2>1, <2>2, PaperKept
<1> HIDE DEF c
<1>14. PaperTrailOf(r)'
  BY <1>8, <1>9, <1>10, <1>11, <1>12 DEF PaperTrailOf, EntriesOf
<1>15. QED
  BY <1>13, <1>14 DEF PaperTrail

\* Every step leaves each transfer with its whole trail or none.
LEMMA PaperTrailStep ==
    ASSUME IndInv, PaperTrail, [TransferNext]_transferVars
    PROVE  PaperTrail'
<1>1. CASE \A r \in Requests : ~Commit(r)
  <2>1. ledger' = ledger /\ audit' = audit /\ args' = args /\ Completed' = Completed
    BY <1>1, OnlyCommits
  <2>2. QED
    BY <2>1 DEF PaperTrail, PaperTrailOf, EntriesOf
<1>2. ASSUME NEW r \in Requests, Commit(r) PROVE PaperTrail'
  <2> DEFINE c == args[r]
             debited == accounts[c.sender].balance - c.amount
             credited == accounts[c.receiver].balance + c.amount
  <2>1. debited \in Int /\ credited \in Int
    BY <1>2, CommitEffect
  <2>2. /\ c.sender # c.receiver
        /\ ledger'[c.sender] = Append(ledger[c.sender], NewEntry(r, "DEBIT", c.amount, debited))
        /\ ledger'[c.receiver] = Append(ledger[c.receiver], NewEntry(r, "CREDIT", c.amount, credited))
        /\ \A a \in AccountIds \ {c.sender, c.receiver} : ledger'[a] = ledger[a]
    BY <1>2, CommitLegs
  <2> HIDE DEF debited, credited
  <2>3. QED
    BY <1>2, <2>1, <2>2, LegsArePaper DEF IndInv
<1>3. QED
  BY <1>1, <1>2

\* A transfer leaves its two legs and its audit row, or nothing at all.
THEOREM PaperTrailKept == TransferSpec => []PaperTrail
<1>1. TransferInit => PaperTrail
  <2> SUFFICES ASSUME TransferInit, NEW r \in Requests PROVE PaperTrailOf(r)
    BY DEF PaperTrail
  <2>1. r \notin audit /\ r \notin Completed
    BY DEF TransferInit, DatabaseInit, Completed
  <2>2. \A a \in AccountIds : EntriesOf(r, a) = {}
    BY DEF TransferInit, DatabaseInit, EntriesOf, Positions
  <2>3. QED
    BY <2>1, <2>2 DEF PaperTrailOf
<1>2. QED
  BY <1>1, PaperTrailStep, IndInvHolds, PTL DEF TransferSpec

-----------------------------------------------------------------------------
(* What callers of execute_transfer may rely on: validation holds at the   *)
(* moment money moves, the outcome reported is the truth, transfers do not *)
(* deadlock, and every step is a step of the atomic bank.                  *)

\* Money moves only between existing ACTIVE accounts with sufficient funds.
THEOREM MovesAreValidated == TransferSpec => CommitsValidated
<1> DEFINE Validated ==
      \A r \in Requests :
          transactions[r] # "COMPLETED" /\ transactions'[r] = "COMPLETED" =>
              /\ \A a \in {args[r].sender, args[r].receiver} :
                    Exists(a) /\ accounts[a].status = "ACTIVE"
              /\ 10 * accounts[args[r].sender].balance >= Asked(args[r])
<1>1. ASSUME IndInv, [TransferNext]_transferVars PROVE Validated
  <2> SUFFICES ASSUME NEW r \in Requests,
                      transactions[r] # "COMPLETED", transactions'[r] = "COMPLETED"
               PROVE  /\ \A a \in {args[r].sender, args[r].receiver} :
                            Exists(a) /\ accounts[a].status = "ACTIVE"
                      /\ 10 * accounts[args[r].sender].balance >= Asked(args[r])
    OBVIOUS
  <2>1. r \in Completed' /\ r \notin Completed
    BY DEF Completed
  <2>2. PICK q \in Requests : Commit(q)
    BY <1>1, <2>1, OnlyCommits
  <2>3. pc[q] = "commit" /\ transactions' = [transactions EXCEPT ![q] = "COMPLETED"]
    BY <2>2 DEF Commit
  <2>4. q = r
    BY <1>1, <2>3 DEF IndInv, TransferTypeOK, DatabaseTypeOK
  <2>5. QED
    BY <1>1, <2>3, <2>4, AtCommit, NoRowAssumption DEF Exists
<1>2. IndInv /\ [TransferNext]_transferVars => [Validated]_transferVars
  BY <1>1
<1>3. QED
  BY <1>2, IndInvHolds, PTL DEF TransferSpec, CommitsValidated

-----------------------------------------------------------------------------
(* Outcomes. *)

\* The two replay outcomes and their reasons, as they stand once reported.
LEMMA OutcomesStep ==
    ASSUME IndInv, OutcomesTruthful, ReportedOnReturn, [TransferNext]_transferVars
    PROVE  OutcomesTruthful' /\ ReportedOnReturn'
<1> USE DEF IndInv
<1>1. /\ pc \in [Requests -> Steps]
      /\ outcome \in [Requests -> Outcomes]
      /\ transactions \in [Requests -> TransactionStatus]
  BY DEF TransferTypeOK, DatabaseTypeOK
<1>2. args' = args /\ Completed \subseteq Completed'
  <2>1. CASE \A r \in Requests : ~Commit(r)
    BY <2>1, OnlyCommits
  <2>2. ASSUME NEW r \in Requests, Commit(r) PROVE args' = args /\ Completed \subseteq Completed'
    BY <1>1, <2>2 DEF Commit, Completed
  <2>3. QED
    BY <2>1, <2>2
<1>3. ASSUME NEW r \in Requests, Call(r) PROVE OutcomesTruthful' /\ ReportedOnReturn'
  <2>1. /\ pc[r] = "idle" /\ outcome[r] = "none"
        /\ Completed' = Completed /\ r \notin Completed
        /\ \/ \E o \in {"InvalidTransfer", "Replayed", "KeyConflict"} : Return(r, o)
           \/ pc' = [pc EXCEPT ![r] = "lock1"] /\ outcome' = outcome
    BY <1>3 DEF Call, Enter, Completed, FlushedIsValid, dbVars, ReportedOnReturn
  <2>2. outcome'[r] # "Executed" /\ outcome'[r] # "IntegrityError"
    BY <1>1, <2>1 DEF Return
  <2>3. outcome'[r] = "Replayed" =>
          \E q \in Completed \ {r} : args[r].key # NoKey /\ args[q].key = args[r].key
                                     /\ SameTransfer(args[q], args[r])
    BY <1>1, <1>3, <2>1 DEF Call, Enter, Return, Existing, KeyHolders, Completed, ReportedOnReturn
  <2>4. outcome'[r] = "KeyConflict" =>
          \E q \in Completed \ {r} : args[r].key # NoKey /\ args[q].key = args[r].key
                                     /\ ~SameTransfer(args[q], args[r])
    BY <1>1, <1>3, <2>1 DEF Call, Enter, Return, Existing, KeyHolders, Completed, ReportedOnReturn
  <2>5. ReportedOnReturn'
    BY <1>1, <2>1 DEF ReportedOnReturn, Return
  <2>6. OutcomesTruthful'
    <3>1. \A q \in Requests \ {r} : outcome'[q] = outcome[q]
      BY <1>1, <2>1 DEF Return
    <3>2. QED
      BY <1>2, <2>1, <2>2, <2>3, <2>4, <3>1 DEF OutcomesTruthful
  <2>7. QED
    BY <2>5, <2>6
<1>4. ASSUME NEW r \in Requests, LockFirst(r) \/ LockSecond(r) \/ Flush(r)
      PROVE  OutcomesTruthful' /\ ReportedOnReturn'
  <2>1. /\ outcome' = outcome /\ pc[r] # "done" /\ Completed' = Completed
        /\ \E s \in Steps \ {"done"} : pc' = [pc EXCEPT ![r] = s]
    BY <1>1, <1>4 DEF LockFirst, LockSecond, LockAccount, Flush, Completed, Steps, FlushedIsValid
  <2>2. QED
    BY <1>1, <1>2, <2>1 DEF OutcomesTruthful, ReportedOnReturn
<1>5. ASSUME NEW r \in Requests, Refuse(r) \/ Abort(r)
      PROVE  OutcomesTruthful' /\ ReportedOnReturn'
  <2>1. /\ pc[r] # "done" /\ pc' = [pc EXCEPT ![r] = "done"]
        /\ \E o \in (Refusals \ {"KeyConflict"}) \cup {"Error"} :
              outcome' = [outcome EXCEPT ![r] = o]
        /\ r \notin Completed /\ Completed' = Completed
    BY <1>1, <1>5 DEF Refuse, Abort, Return, Rollback, Refusals, FlushedIsValid, Completed
  <2>2. QED
    BY <1>1, <1>2, <2>1 DEF OutcomesTruthful, ReportedOnReturn, Refusals
<1>9. ASSUME NEW r \in Requests, DuplicateKey(r) PROVE OutcomesTruthful' /\ ReportedOnReturn'
  <2>1. /\ pc[r] # "done" /\ pc' = [pc EXCEPT ![r] = "done"]
        /\ outcome' = [outcome EXCEPT ![r] = "IntegrityError"]
        /\ r \notin Completed /\ Completed' = Completed
        /\ \E q \in Completed \ {r} : args[r].key # NoKey /\ args[q].key = args[r].key
    BY <1>1, <1>9 DEF DuplicateKey, Return, Rollback, FlushedIsValid, Completed, KeyHolders
  <2>2. QED
    BY <1>1, <1>2, <2>1 DEF OutcomesTruthful, ReportedOnReturn
<1>6. ASSUME NEW r \in Requests, Commit(r) PROVE OutcomesTruthful' /\ ReportedOnReturn'
  <2>1. /\ pc[r] # "done" /\ pc' = [pc EXCEPT ![r] = "done"]
        /\ \E o \in {"Executed", "Error"} : outcome' = [outcome EXCEPT ![r] = o]
        /\ Completed' = Completed \cup {r}
    BY <1>1, <1>6 DEF Commit, Return, Completed
  <2>2. QED
    BY <1>1, <1>2, <2>1 DEF OutcomesTruthful, ReportedOnReturn
<1>7. ASSUME NEW b \in AccountIds, NEW s \in AccountStatus, SetStatus(b, s)
      PROVE  OutcomesTruthful' /\ ReportedOnReturn'
  BY <1>7 DEF SetStatus, requestVars, OutcomesTruthful, ReportedOnReturn, Completed
<1>8. CASE UNCHANGED transferVars
  BY <1>8 DEF transferVars, requestVars, dbVars, OutcomesTruthful, ReportedOnReturn, Completed
<1>10. QED
  BY <1>3, <1>4, <1>5, <1>6, <1>7, <1>8, <1>9, StepCases

\* Callers are told the truth about their transfer.
THEOREM CallersToldTruth == TransferSpec => []OutcomesTruthful
<1>1. TransferInit => OutcomesTruthful /\ ReportedOnReturn
  BY DEF TransferInit, DatabaseInit, OutcomesTruthful, ReportedOnReturn, Completed
<1>2. IndInv /\ (OutcomesTruthful /\ ReportedOnReturn) /\ [TransferNext]_transferVars
        => (OutcomesTruthful /\ ReportedOnReturn)'
  BY OutcomesStep
<1>3. QED
  BY <1>1, <1>2, IndInvHolds, PTL DEF TransferSpec

-----------------------------------------------------------------------------
(* Deadlock: the argument that the sorted lock order of execute_transfer is written for. *)

Below == OpToRel(<, Nat)

\* A non-empty set of naturals has a least element.
LEMMA LeastNatural ==
    ASSUME NEW T \in SUBSET Nat, T # {}
    PROVE  \E x \in T : \A y \in T : x <= y
<1>1. IsWellFoundedOn(Below, Nat)
  BY NatLessThanWellFounded DEF Below
<1>2. \E x \in T : \A y \in T : <<y, x>> \notin Below
  BY <1>1, WFMin
<1>3. \A x, y \in Nat : <<y, x>> \in Below <=> y < x
  BY DEF Below, OpToRel
<1>4. PICK x \in T : \A y \in T : <<y, x>> \notin Below
  BY <1>2
<1>5. ASSUME NEW y \in T PROVE x <= y
  <2>1. x \in Nat /\ y \in Nat
    OBVIOUS
  <2>2. ~(y < x)
    BY <1>3, <1>4, <2>1
  <2>3. QED
    BY <2>1, <2>2
<1>6. QED
  BY <1>5

\* In a set of requests that all wait for one another, every one waits for a row, and
\* its holder waits for a row of larger id.
LEMMA NoCycle == TransferTypeOK /\ LocksInOrder /\ FlushedIsValid => NoWaitCycle
<1> SUFFICES ASSUME TransferTypeOK, LocksInOrder, FlushedIsValid, NEW S \in (SUBSET Requests) \ {{}},
                    \A r \in S : Blockers(r) \cap S # {}
             PROVE  FALSE
  BY DEF NoWaitCycle
<1> DEFINE second(r) == SecondId(args[r])
<1>1. \A r \in S : pc[r] \in {"lock1", "lock2", "validate"}
  BY DEF Blockers
<1>2. \A r \in S : pc[r] # "validate"
  <2> SUFFICES ASSUME NEW r \in S, pc[r] = "validate" PROVE FALSE
    OBVIOUS
  <2>1. PICK q \in S : q \in KeyHolders(args[r].key, "PENDING")
    BY DEF Blockers
  <2>2. pc[q] = "commit"
    BY <2>1 DEF KeyHolders, FlushedIsValid
  <2>3. QED
    BY <1>1, <2>2
<1>3. \A r \in S : \E q \in S :
         /\ pc[q] = "lock2"
         /\ pc[r] = "lock2" => second(r) = FirstId(args[q])
  <2> SUFFICES ASSUME NEW r \in S
               PROVE  \E q \in S :
                         /\ pc[q] = "lock2"
                         /\ pc[r] = "lock2" => second(r) = FirstId(args[q])
    OBVIOUS
  <2>1. PICK q \in S : q \in Blockers(r)
    OBVIOUS
  <2>2. /\ held[q] # {}
        /\ pc[r] = "lock2" => second(r) \in held[q]
    BY <1>1, <1>2, <2>1 DEF Blockers
  <2>3. pc[q] = "lock2" /\ held[q] \subseteq {FirstId(args[q])}
    BY <1>1, <1>2, <2>2 DEF LocksInOrder
  <2>4. QED
    BY <2>2, <2>3
<1>4. ASSUME NEW r \in S
      PROVE  /\ FirstId(args[r]) \in Nat /\ second(r) \in Nat
             /\ FirstId(args[r]) < second(r)
             /\ MaxId - second(r) \in Nat
  <2>1. args[r] \in Calls /\ args[r].sender # args[r].receiver
    BY <1>1 DEF LocksInOrder, TransferTypeOK, DatabaseTypeOK
  <2>2. FirstId(args[r]) \in AccountIds /\ second(r) \in AccountIds
        /\ FirstId(args[r]) < second(r)
    BY <2>1, LockOrder
  <2>3. \A a \in AccountIds : a \in Nat /\ MaxId - a \in Nat
    BY IdsAssumption
  <2>4. QED
    BY <2>2, <2>3
<1> HIDE DEF second
<1> DEFINE waiting == {q \in S : pc[q] = "lock2"}
           T == {MaxId - second(r) : r \in waiting}
<1>5. T \in SUBSET Nat /\ T # {}
  <2>1. \A r \in waiting : MaxId - second(r) \in Nat
    BY <1>4
  <2>2. waiting # {}
    <3>1. PICK r : r \in S
      OBVIOUS
    <3>2. QED
      BY <3>1, <1>3
  <2>3. QED
    BY <2>1, <2>2
<1>6. PICK x \in T : \A y \in T : x <= y
  BY <1>5, LeastNatural
<1>7. PICK r \in S : pc[r] = "lock2" /\ x = MaxId - second(r)
  BY <1>6
<1>8. PICK q \in S : pc[q] = "lock2" /\ second(r) = FirstId(args[q])
  <2>1. r \in S /\ pc[r] = "lock2"
    BY <1>7
  <2>2. \E q \in S : pc[q] = "lock2" /\ (pc[r] = "lock2" => second(r) = FirstId(args[q]))
    BY <2>1, <1>3
  <2>3. QED
    BY <2>1, <2>2
<1>9. x <= MaxId - second(q)
  BY <1>6, <1>8
<1>10. QED
  <2>1. second(r) \in Nat /\ second(q) \in Nat /\ second(r) < second(q) /\ MaxId \in Nat
    BY <1>4, <1>8, IdsAssumption
  <2>2. QED
    BY <1>7, <1>9, <2>1

\* Any number of concurrent transfers, over any accounts and keys, never deadlock.
THEOREM DeadlockFree == TransferSpec => []NoWaitCycle
BY NoCycle, IndInvHolds, PTL DEF IndInv

-----------------------------------------------------------------------------
(* Refinement. *)

\* The commit of execute_transfer is the Transfer step of the atomic bank.
LEMMA CommitIsTransfer ==
    ASSUME IndInv, NEW r \in Requests, Commit(r)
    PROVE  Bank!Transfer(r)
<1> DEFINE c == args[r]
<1>1. pc[r] = "commit" /\ UNCHANGED args
      /\ transactions' = [transactions EXCEPT ![r] = "COMPLETED"]
  BY DEF Commit
<1>2. /\ transactions \in [Requests -> TransactionStatus]
      /\ accounts \in [AccountIds -> Row]
  BY DEF IndInv, TransferTypeOK, DatabaseTypeOK
<1>3. transactions[r] = "PENDING"
  BY <1>1 DEF IndInv, FlushedIsValid
<1>4. r \notin Completed /\ Completed' = Completed \cup {r}
  BY <1>1, <1>2, <1>3 DEF Completed
<1>5. Bank!Allowed(c)
  BY <1>1, AtCommit, NoRowAssumption DEF Bank!Allowed, Bank!Asked, Asked
<1>6. Bank!KeyUnused(c.key)
  BY <1>3, <1>4 DEF Bank!KeyUnused, IndInv, KeysUnique, Completed
<1>7. /\ c.sender \in AccountIds /\ c.receiver \in AccountIds /\ c.sender # c.receiver
      /\ session[r][c.sender] = accounts[c.sender]
      /\ session[r][c.receiver] = accounts[c.receiver]
  BY <1>1, AtCommit
<1>8. accounts' = [accounts EXCEPT ![c.sender].balance = @ - c.amount,
                                   ![c.receiver].balance = @ + c.amount]
  BY <1>2, <1>7 DEF Commit
<1>9. QED
  BY <1>1, <1>4, <1>5, <1>6, <1>8 DEF Bank!Transfer

\* Every step of the service is a step of the atomic bank or changes nothing it sees.
LEMMA StepIsBankStep ==
    ASSUME IndInv, [TransferNext]_transferVars
    PROVE  [Bank!BankNext]_(Bank!bankVars)
<1>1. ASSUME NEW r \in Requests, Commit(r) PROVE [Bank!BankNext]_(Bank!bankVars)
  BY <1>1, CommitIsTransfer DEF Bank!BankNext
<1>2. ASSUME NEW b \in AccountIds, NEW s \in AccountStatus, SetStatus(b, s)
      PROVE  [Bank!BankNext]_(Bank!bankVars)
  <2>1. Bank!ChangeStatus(b, s)
    BY <1>2 DEF SetStatus, Exists, Completed, Bank!ChangeStatus
  <2>2. Bank!BankNext
    BY <2>1 DEF Bank!BankNext, AccountStatus, Bank!AccountStatus
  <2>3. QED
    BY <2>2
<1>3. CASE (\A r \in Requests : ~Commit(r))
           /\ \A b \in AccountIds, s \in AccountStatus : ~SetStatus(b, s)
  <2>1. accounts' = accounts
    BY <1>3, StepCases DEF Call, Enter, LockFirst, LockSecond, LockAccount, Refuse, DuplicateKey,
          Abort, Rollback, Flush, dbVars, transferVars
  <2>2. args' = args /\ Completed' = Completed
    BY <1>3, OnlyCommits
  <2>3. QED
    BY <2>1, <2>2 DEF Bank!bankVars
<1>4. QED
  BY <1>1, <1>2, <1>3

\* execute_transfer, with all its steps, is an implementation of the atomic bank.
THEOREM Refinement == TransferSpec => ImplementsAtomicBank
<1>1. TransferInit => Bank!BankInit
  BY DEF TransferInit, DatabaseInit, Bank!BankInit, Completed
<1>2. QED
  BY <1>1, StepIsBankStep, IndInvHolds, PTL
     DEF TransferSpec, ImplementsAtomicBank, Bank!BankSpec
=============================================================================
