---------------------------- MODULE AccountProofs ----------------------------
(***************************************************************************)
(* Proofs about the routes of AccountRoutes: what creations, deposits and  *)
(* status changes guarantee although they lock nothing before they write.  *)
(* The lemmas are about single steps of one order, so that they serve      *)
(* AccountSpec and the whole API alike.  Facts about ledger entries come   *)
(* from TransferProofs.                                                    *)
(***************************************************************************)
EXTENDS TransferProofs, AccountRoutes

(* The inductive invariant, first part: the tables, and what an order relies on between *)
(* its reads and its commit.                                                            *)

\* An order that is about to write passed its checks on what it loaded, and the row it
\* names is still there.
LoadedIsSound ==
    \A d \in Orders :
        LET c == orders[d]
        IN  step[d] = "write" =>
            /\ c.kind = "create_account" => c.amount >= 0
            /\ c.kind # "create_account" => Exists(c.account)
            /\ c.kind = "deposit_funds" =>
                   loaded[d] \in Account /\ loaded[d].balance >= 0 /\ c.amount > 0

\* An id without a row has no history.
UnusedIsBlank == \A a \in AccountIds : ~Exists(a) => Opening[a] = NoRow /\ ledger[a] = << >>

OrderInv ==
    /\ DatabaseTypeOK
    /\ OrdersTypeOK
    /\ LoadedIsSound
    /\ UnusedIsBlank
    /\ NoOverdraft
    /\ LastEntryIsBalance

(* The inductive invariant, second part: what the answers and idempotency records say of *)
(* what was committed.                                                                   *)

\* How far an order has come tells whether its commit was made and its caller answered.
StepsAudited ==
    \A d \in Orders :
        /\ step[d] \in {"idle", "write"} => d \notin audit
        /\ step[d] = "store" => d \in audit
        /\ answer[d] = "none" <=> step[d] # "done"

\* A record under a key is that of an order that succeeded with this key, and every
\* such order finds or leaves one.
RecordsSound ==
    /\ \A k \in Keys :
          records[k] # NoOrder =>
              /\ answer[records[k]] = "Done"
              /\ UsesKey(orders[records[k]]) /\ orders[records[k]].key = k
    /\ \A e \in Orders :
          answer[e] = "Done" /\ UsesKey(orders[e]) => records[orders[e].key] # NoOrder

\* An order that repeats an earlier success is answered on arrival.
EarlierReplayed ==
    \A d \in Orders : \A e \in earlier[d] :
        /\ answer[e] = "Done"
        /\ SameRequest(orders[d], orders[e]) => step[d] = "done" /\ d \notin audit

ReplayInv ==
    /\ StepsAudited
    /\ RecordsSound
    /\ EarlierReplayed
    /\ AnswersTruthful

-----------------------------------------------------------------------------
\* What every order's call looks like.
LEMMA OrderType ==
    ASSUME OrderInv, NEW d \in Orders
    PROVE  /\ orders[d].kind \in Kinds
           /\ orders[d].account \in AccountIds
           /\ orders[d].amount \in Int
           /\ orders[d].status \in AccountStatus
           /\ orders[d].key \in Keys \cup {NoKey}
BY OrderCallsAssumption DEF OrderInv, OrdersTypeOK, OrderCall

\* An entry an order writes.
LEMMA OrderEntry ==
    ASSUME NEW d \in Orders, NEW m \in Int, NEW b \in Int
    PROVE  /\ NewEntry(d, "CREDIT", m, b) \in LedgerEntry
           /\ NewEntry(d, "CREDIT", m, b).tx = d
           /\ NewEntry(d, "CREDIT", m, b).type = "CREDIT"
           /\ NewEntry(d, "CREDIT", m, b).amount = m
           /\ NewEntry(d, "CREDIT", m, b).balanceAfter = b
BY DEF NewEntry, LedgerEntry, LedgerEntryType

\* What is appended last is where the account ends.
LEMMA ClosingAfterAppend ==
    ASSUME NEW a \in AccountIds, NEW s \in Seq(LedgerEntry), NEW e \in LedgerEntry
    PROVE  ClosingBalance(a, Append(s, e)) = e.balanceAfter
<1>1. Len(Append(s, e)) = Len(s) + 1 /\ Append(s, e)[Len(s) + 1] = e /\ Append(s, e) # << >>
  OBVIOUS
<1>2. QED
  BY <1>1 DEF ClosingBalance

\* A deposit as seen from each account: a balance that may be stale, and an entry that
\* says the same.
LEMMA DepositEffect ==
    ASSUME OrderInv, NEW d \in Orders, DepositFunds(d)
    PROVE  LET c == orders[d]
               new == loaded[d].balance + c.amount
               entry == NewEntry(d, "CREDIT", c.amount, new)
           IN  /\ c.account \in AccountIds /\ c.amount \in Int /\ c.amount > 0
               /\ new \in Int /\ new >= 0
               /\ accounts[c.account] \in Account
               /\ accounts' \in [AccountIds -> Row]
               /\ accounts'[c.account] = [accounts[c.account] EXCEPT !.balance = new]
               /\ ledger' \in [AccountIds -> Seq(LedgerEntry)]
               /\ ledger'[c.account] = Append(ledger[c.account], entry)
               /\ \A b \in AccountIds \ {c.account} :
                     accounts'[b] = accounts[b] /\ ledger'[b] = ledger[b]
<1> DEFINE c == orders[d]
           new == loaded[d].balance + c.amount
           entry == NewEntry(d, "CREDIT", c.amount, new)
           richer == [accounts[c.account] EXCEPT !.balance = new]
<1>1. /\ step[d] = "write" /\ c.kind = "deposit_funds"
      /\ accounts' = [accounts EXCEPT ![c.account].balance = new]
      /\ ledger' = [ledger EXCEPT ![c.account] = Append(@, entry)]
  BY DEF DepositFunds
<1>2. c.account \in AccountIds /\ c.amount \in Int
  BY OrderType
<1>3. /\ accounts \in [AccountIds -> Row]
      /\ ledger \in [AccountIds -> Seq(LedgerEntry)]
  BY DEF OrderInv, DatabaseTypeOK
<1>4. /\ accounts[c.account] \in Account
      /\ loaded[d] \in Account /\ loaded[d].balance >= 0 /\ c.amount > 0
  BY <1>1, <1>2, <1>3 DEF OrderInv, LoadedIsSound, Exists, Row
<1>5. new \in Int /\ new >= 0
  BY <1>2, <1>4 DEF Account
<1>6. entry \in LedgerEntry
  BY <1>2, <1>5, OrderEntry
<1>7. richer \in Account
  BY <1>4, <1>5, NewBalance
<1>8. /\ accounts' = [accounts EXCEPT ![c.account] = richer]
      /\ ledger' = [ledger EXCEPT ![c.account] = Append(ledger[c.account], entry)]
  BY <1>1, <1>2, <1>3
<1> HIDE DEF c, new, entry, richer
<1>9. /\ accounts' \in [AccountIds -> Row] /\ accounts'[c.account] = richer
      /\ \A b \in AccountIds \ {c.account} : accounts'[b] = accounts[b]
  BY <1>2, <1>3, <1>7, <1>8 DEF Row
<1>10. /\ ledger' \in [AccountIds -> Seq(LedgerEntry)]
       /\ ledger'[c.account] = Append(ledger[c.account], entry)
       /\ \A b \in AccountIds \ {c.account} : ledger'[b] = ledger[b]
  BY <1>2, <1>3, <1>6, <1>8
<1>11. QED
  BY <1>2, <1>4, <1>5, <1>9, <1>10 DEF c, new, entry, richer

\* A creation as seen from each account: it fills an id that had neither row nor ledger.
LEMMA CreateEffect ==
    ASSUME OrderInv, NEW d \in Orders, CreateAccount(d)
    PROVE  LET m == orders[d].amount
               row == [balance |-> m, status |-> "ACTIVE"]
               entry == NewEntry(d, "CREDIT", m, m)
           IN  /\ m \in Int /\ m >= 0
               /\ row \in Account /\ row # NoRow
               /\ accounts' \in [AccountIds -> Row]
               /\ ledger' \in [AccountIds -> Seq(LedgerEntry)]
               /\ \E a \in AccountIds :
                     /\ ~Exists(a) /\ Opening[a] = NoRow /\ ledger[a] = << >>
                     /\ accounts'[a] = row
                     /\ ledger'[a] = IF m > 0 THEN Append(ledger[a], entry) ELSE ledger[a]
                     /\ \A b \in AccountIds \ {a} :
                           accounts'[b] = accounts[b] /\ ledger'[b] = ledger[b]
<1> DEFINE m == orders[d].amount
           row == [balance |-> m, status |-> "ACTIVE"]
           entry == NewEntry(d, "CREDIT", m, m)
<1>1. PICK a \in AccountIds :
          /\ ~Exists(a)
          /\ accounts' = [accounts EXCEPT ![a] = row]
          /\ ledger' = IF m > 0 THEN [ledger EXCEPT ![a] = Append(@, entry)] ELSE ledger
  BY DEF CreateAccount
<1>2. step[d] = "write" /\ orders[d].kind = "create_account"
  BY DEF CreateAccount
<1>3. /\ accounts \in [AccountIds -> Row]
      /\ ledger \in [AccountIds -> Seq(LedgerEntry)]
  BY DEF OrderInv, DatabaseTypeOK
<1>4. m \in Int /\ m >= 0
  BY <1>2, OrderType DEF OrderInv, LoadedIsSound
<1>5. row \in Account /\ row # NoRow
  BY <1>4, NoRowAssumption DEF Account, AccountStatus
<1>6. entry \in LedgerEntry
  BY <1>4, OrderEntry
<1>7. Opening[a] = NoRow /\ ledger[a] = << >>
  BY <1>1 DEF OrderInv, UnusedIsBlank
<1> HIDE DEF m, row, entry
<1>8. /\ accounts' \in [AccountIds -> Row] /\ accounts'[a] = row
      /\ \A b \in AccountIds \ {a} : accounts'[b] = accounts[b]
  BY <1>1, <1>3, <1>5 DEF Row
<1>9. /\ ledger' \in [AccountIds -> Seq(LedgerEntry)]
      /\ ledger'[a] = IF m > 0 THEN Append(ledger[a], entry) ELSE ledger[a]
      /\ \A b \in AccountIds \ {a} : ledger'[b] = ledger[b]
  BY <1>1, <1>3, <1>6
<1>10. \E b \in AccountIds :
          /\ ~Exists(b) /\ Opening[b] = NoRow /\ ledger[b] = << >>
          /\ accounts'[b] = row
          /\ ledger'[b] = IF m > 0 THEN Append(ledger[b], entry) ELSE ledger[b]
          /\ \A e \in AccountIds \ {b} : accounts'[e] = accounts[e] /\ ledger'[e] = ledger[e]
  BY <1>1, <1>7, <1>8, <1>9
<1>11. QED
  BY <1>4, <1>5, <1>8, <1>9, <1>10 DEF m, row, entry

\* A status change as seen from each account: balances and ledgers are kept.
LEMMA StatusEffect ==
    ASSUME OrderInv, NEW d \in Orders, UpdateAccountStatus(d)
    PROVE  LET c == orders[d]
           IN  /\ c.account \in AccountIds /\ Exists(c.account)
               /\ accounts' \in [AccountIds -> Row] /\ ledger' = ledger
               /\ accounts'[c.account] # NoRow
               /\ accounts'[c.account].balance = accounts[c.account].balance
               /\ \/ accounts'[c.account].status = c.status
                  \/ loaded[d].status = c.status /\ accounts'[c.account] = accounts[c.account]
               /\ \A b \in AccountIds \ {c.account} : accounts'[b] = accounts[b]
<1> DEFINE c == orders[d]
           relabelled == [accounts[c.account] EXCEPT !.status = c.status]
<1>1. /\ step[d] = "write" /\ c.kind = "update_account_status"
      /\ \/ accounts' = [accounts EXCEPT ![c.account].status = c.status]
         \/ loaded[d].status = c.status /\ accounts' = accounts
      /\ ledger' = ledger
  BY DEF UpdateAccountStatus
<1>2. c.account \in AccountIds /\ c.status \in AccountStatus
  BY OrderType
<1>3. accounts \in [AccountIds -> Row]
  BY DEF OrderInv, DatabaseTypeOK
<1>4. Exists(c.account)
  BY <1>1 DEF OrderInv, LoadedIsSound
<1>5. accounts[c.account] \in Account /\ accounts[c.account] # NoRow
  BY <1>2, <1>3, <1>4 DEF Exists, Row
<1>6. /\ relabelled \in Account /\ relabelled # NoRow
      /\ relabelled.balance = accounts[c.account].balance
      /\ relabelled.status = c.status
  BY <1>2, <1>5, NoRowAssumption DEF Account
<1>7. \/ accounts' = [accounts EXCEPT ![c.account] = relabelled]
      \/ loaded[d].status = c.status /\ accounts' = accounts
  BY <1>1, <1>2, <1>3
<1> HIDE DEF c, relabelled
<1>8. /\ accounts' \in [AccountIds -> Row]
      /\ \/ accounts'[c.account] = relabelled
         \/ loaded[d].status = c.status /\ accounts'[c.account] = accounts[c.account]
      /\ \A b \in AccountIds \ {c.account} : accounts'[b] = accounts[b]
  BY <1>2, <1>3, <1>6, <1>7 DEF Row
<1>9. QED
  BY <1>1, <1>2, <1>4, <1>5, <1>6, <1>8 DEF c

-----------------------------------------------------------------------------
(* The first part is kept. *)

\* What every step of the bank asks of the tables: rows do not vanish, and each account
\* either keeps row and ledger or ends on the balance, not negative, of its row.
TablesMove ==
    \A a \in AccountIds :
        \/ accounts'[a] = accounts[a] /\ ledger'[a] = ledger[a]
        \/ /\ accounts'[a] # NoRow /\ accounts'[a].balance >= 0
           /\ accounts'[a].balance = ClosingBalance(a, ledger'[a])

\* Such a step keeps the balances in order.
LEMMA TablesMoveInv ==
    ASSUME UnusedIsBlank, NoOverdraft, LastEntryIsBalance, TablesMove
    PROVE  /\ \A a \in AccountIds : Exists(a) => Exists(a)'
           /\ UnusedIsBlank'
           /\ NoOverdraft'
           /\ LastEntryIsBalance'
BY DEF TablesMove, Exists, UnusedIsBlank, NoOverdraft, LastEntryIsBalance

\* A deposit is such a step: the new entry closes on the new balance.
LEMMA DepositMoves ==
    ASSUME OrderInv, NEW d \in Orders, DepositFunds(d) PROVE TablesMove
<1> DEFINE c == orders[d]
           new == loaded[d].balance + c.amount
           entry == NewEntry(d, "CREDIT", c.amount, new)
           richer == [accounts[c.account] EXCEPT !.balance = new]
<1>1. /\ c.account \in AccountIds /\ c.amount \in Int
      /\ new \in Int /\ new >= 0
      /\ accounts[c.account] \in Account
      /\ accounts'[c.account] = richer
      /\ ledger'[c.account] = Append(ledger[c.account], entry)
      /\ \A b \in AccountIds \ {c.account} : accounts'[b] = accounts[b] /\ ledger'[b] = ledger[b]
  BY DepositEffect
<1>2. entry \in LedgerEntry /\ entry.balanceAfter = new
  BY <1>1, OrderEntry
<1>3. richer # NoRow /\ richer.balance = new
  BY <1>1, NewBalance
<1>4. ledger[c.account] \in Seq(LedgerEntry)
  BY <1>1 DEF OrderInv, DatabaseTypeOK
<1> HIDE DEF c, new, entry, richer
<1>5. ClosingBalance(c.account, Append(ledger[c.account], entry)) = new
  BY <1>1, <1>2, <1>4, ClosingAfterAppend
<1>6. QED
  BY <1>1, <1>3, <1>5 DEF TablesMove

\* So is the opening of an account, whose first entry is the initial balance.
LEMMA CreateMoves ==
    ASSUME OrderInv, NEW d \in Orders, CreateAccount(d) PROVE TablesMove
<1> DEFINE m == orders[d].amount
           row == [balance |-> m, status |-> "ACTIVE"]
           entry == NewEntry(d, "CREDIT", m, m)
<1>1. m \in Int /\ m >= 0 /\ row # NoRow
  BY CreateEffect
<1>2. PICK a \in AccountIds :
          /\ Opening[a] = NoRow /\ ledger[a] = << >>
          /\ accounts'[a] = row
          /\ ledger'[a] = IF m > 0 THEN Append(ledger[a], entry) ELSE ledger[a]
          /\ \A b \in AccountIds \ {a} : accounts'[b] = accounts[b] /\ ledger'[b] = ledger[b]
  BY CreateEffect
<1>3. entry \in LedgerEntry /\ entry.balanceAfter = m /\ row.balance = m
  BY <1>1, OrderEntry
<1>4. << >> \in Seq(LedgerEntry)
  OBVIOUS
<1> HIDE DEF m, row, entry
<1>5. ClosingBalance(a, Append(<< >>, entry)) = m
  BY <1>3, <1>4, ClosingAfterAppend
<1>6. m > 0 \/ m = 0
  BY <1>1
<1>7. ClosingBalance(a, << >>) = 0
  BY <1>2 DEF ClosingBalance, OpeningBalance
<1>8. QED
  BY <1>1, <1>2, <1>3, <1>5, <1>6, <1>7 DEF TablesMove

\* So is a change of status, which keeps balance and ledger.
LEMMA StatusMoves ==
    ASSUME OrderInv, NEW d \in Orders, UpdateAccountStatus(d) PROVE TablesMove
<1> DEFINE a == orders[d].account
<1>1. /\ a \in AccountIds /\ Exists(a) /\ ledger' = ledger
      /\ accounts'[a] # NoRow /\ accounts'[a].balance = accounts[a].balance
      /\ \A b \in AccountIds \ {a} : accounts'[b] = accounts[b]
  BY StatusEffect
<1>2. accounts[a].balance >= 0 /\ accounts[a].balance = ClosingBalance(a, ledger[a])
  BY <1>1 DEF OrderInv, NoOverdraft, LastEntryIsBalance
<1>3. QED
  BY <1>1, <1>2 DEF TablesMove

\* The three commits of orders in one statement.
LEMMA OrderCommits ==
    ASSUME OrderInv, NEW d \in Orders,
           DepositFunds(d) \/ CreateAccount(d) \/ UpdateAccountStatus(d)
    PROVE  /\ step[d] = "write"
           /\ Written(d)
           /\ TablesMove
           /\ accounts' \in [AccountIds -> Row]
           /\ ledger' \in [AccountIds -> Seq(LedgerEntry)]
           /\ \/ /\ orders[d].kind # "update_account_status"
                 /\ step' = [step EXCEPT ![d] = "store"]
                 /\ answer' = answer
              \/ /\ orders[d].kind = "update_account_status"
                 /\ step' = [step EXCEPT ![d] = "done"]
                 /\ \E o \in {"Done", "Error"} : answer' = [answer EXCEPT ![d] = o]
<1>1. CASE DepositFunds(d)
  <2>1. /\ step[d] = "write" /\ orders[d].kind = "deposit_funds" /\ Written(d)
        /\ step' = [step EXCEPT ![d] = "store"] /\ answer' = answer
    BY <1>1 DEF DepositFunds
  <2>2. accounts' \in [AccountIds -> Row] /\ ledger' \in [AccountIds -> Seq(LedgerEntry)]
    BY <1>1, DepositEffect
  <2>3. QED
    BY <1>1, <2>1, <2>2, DepositMoves
<1>2. CASE CreateAccount(d)
  <2>1. /\ step[d] = "write" /\ orders[d].kind = "create_account" /\ Written(d)
        /\ step' = [step EXCEPT ![d] = "store"] /\ answer' = answer
    BY <1>2 DEF CreateAccount
  <2>2. accounts' \in [AccountIds -> Row] /\ ledger' \in [AccountIds -> Seq(LedgerEntry)]
    BY <1>2, CreateEffect
  <2>3. QED
    BY <1>2, <2>1, <2>2, CreateMoves
<1>3. CASE UpdateAccountStatus(d)
  <2>1. /\ step[d] = "write" /\ orders[d].kind = "update_account_status" /\ Written(d)
        /\ step' = [step EXCEPT ![d] = "done"]
        /\ \E o \in {"Done", "Error"} : answer' = [answer EXCEPT ![d] = o]
    BY <1>3 DEF UpdateAccountStatus, Answer
  <2>2. accounts' \in [AccountIds -> Row] /\ ledger' = ledger
    BY <1>3, StatusEffect
  <2>3. ledger' \in [AccountIds -> Seq(LedgerEntry)]
    BY <2>2 DEF OrderInv, DatabaseTypeOK
  <2>4. QED
    BY <1>3, <2>1, <2>2, <2>3, StatusMoves
<1>4. QED
  BY <1>1, <1>2, <1>3

\* A commit keeps the first part.
LEMMA CommitKeepsInv ==
    ASSUME OrderInv, NEW d \in Orders,
           DepositFunds(d) \/ CreateAccount(d) \/ UpdateAccountStatus(d)
    PROVE  OrderInv'
<1>1. /\ Written(d)
      /\ TablesMove
      /\ accounts' \in [AccountIds -> Row]
      /\ ledger' \in [AccountIds -> Seq(LedgerEntry)]
      /\ step' = [step EXCEPT ![d] = "store"] \/ step' = [step EXCEPT ![d] = "done"]
      /\ answer' = answer \/ \E o \in {"Done", "Error"} : answer' = [answer EXCEPT ![d] = o]
  BY OrderCommits
<1>2. /\ \A a \in AccountIds : Exists(a) => Exists(a)'
      /\ UnusedIsBlank' /\ NoOverdraft' /\ LastEntryIsBalance'
  BY <1>1, TablesMoveInv DEF OrderInv
<1>3. DatabaseTypeOK'
  BY <1>1 DEF OrderInv, DatabaseTypeOK, Written
<1>4. OrdersTypeOK'
  BY <1>1 DEF OrderInv, OrdersTypeOK, Written, Answers
<1>5. LoadedIsSound'
  <2>1. \A e \in Orders : step'[e] = "write" => step[e] = "write"
    BY <1>1 DEF OrderInv, OrdersTypeOK
  <2>2. \A e \in Orders : orders[e].account \in AccountIds
    BY OrderType
  <2>3. QED
    BY <1>1, <1>2, <2>1, <2>2 DEF OrderInv, LoadedIsSound, Written
<1>6. QED
  BY <1>2, <1>3, <1>4, <1>5 DEF OrderInv

\* The other steps of an order leave the tables of the bank alone.
LEMMA QuietTables ==
    ASSUME NEW d \in Orders, Arrival(d) \/ Store(d) \/ Crash(d)
    PROVE  UNCHANGED dbVars /\ orders' = orders
BY DEF Arrival, Replay, Reject, Load, Arrive, Store, Crash

\* They keep the first part: an order that loads a row has checked it.
LEMMA QuietKeepsInv ==
    ASSUME OrderInv, NEW d \in Orders, Arrival(d) \/ Store(d) \/ Crash(d)
    PROVE  OrderInv'
<1>1. UNCHANGED dbVars /\ orders' = orders
  BY QuietTables
<1>2. DatabaseTypeOK' /\ UnusedIsBlank' /\ NoOverdraft' /\ LastEntryIsBalance'
  BY <1>1 DEF dbVars, OrderInv, DatabaseTypeOK, UnusedIsBlank, NoOverdraft, LastEntryIsBalance, Exists
<1>3. OrdersTypeOK'
  <2> USE DEF OrderInv, OrdersTypeOK, Answers
  <2>1. CASE Replay(d)
    BY <1>1, <2>1 DEF Replay, Arrive, Answer
  <2>2. CASE Reject(d)
    BY <1>1, <2>2 DEF Reject, Arrive, Answer
  <2>3. CASE Load(d)
    <3>1. accounts[orders[d].account] \in Row
      BY OrderType DEF DatabaseTypeOK
    <3>2. QED
      BY <1>1, <2>3, <3>1 DEF Load, Arrive
  <2>4. CASE Store(d)
    <3>1. UsesKey(orders[d]) => orders[d].key \in Keys
      BY OrderType DEF UsesKey
    <3>2. records' \in [Keys -> Orders \cup {NoOrder}]
      BY <2>4, <3>1 DEF Store
    <3>3. QED
      BY <1>1, <2>4, <3>2 DEF Store, Answer
  <2>5. CASE Crash(d)
    BY <1>1, <2>5 DEF Crash, Answer
  <2>6. QED
    BY <2>1, <2>2, <2>3, <2>4, <2>5 DEF Arrival
<1>4. LoadedIsSound'
  <2>1. CASE Load(d)
    <3>1. /\ Acceptable(orders[d])
          /\ loaded' = [loaded EXCEPT ![d] = accounts[orders[d].account]]
          /\ step' = [step EXCEPT ![d] = "write"]
      BY <2>1 DEF Load
    <3>2. loaded \in [Orders -> Row] /\ step \in [Orders -> {"idle", "write", "store", "done"}]
      BY DEF OrderInv, OrdersTypeOK
    <3>3. Exists(orders[d].account) =>
              /\ accounts[orders[d].account] \in Account
              /\ accounts[orders[d].account].balance >= 0
      BY OrderType DEF OrderInv, DatabaseTypeOK, NoOverdraft, Exists, Row
    <3>4. \A e \in Orders \ {d} : step'[e] = step[e] /\ loaded'[e] = loaded[e]
      BY <3>1, <3>2
    <3>5. step'[d] = "write" /\ loaded'[d] = accounts[orders[d].account]
      BY <3>1, <3>2
    <3>6. accounts' = accounts
      BY <1>1 DEF dbVars
    <3>7. QED
      BY <1>1, <3>1, <3>3, <3>4, <3>5, <3>6, OrderType
      DEF OrderInv, LoadedIsSound, Acceptable, Exists, Kinds
  <2>2. CASE ~Load(d)
    <3>1. /\ step' = [step EXCEPT ![d] = "done"]
          /\ UNCHANGED loaded
      BY <2>2 DEF Arrival, Replay, Reject, Store, Crash, Answer
    <3>2. QED
      BY <1>1, <3>1 DEF dbVars, OrderInv, LoadedIsSound, OrdersTypeOK, Exists
  <2>3. QED
    BY <2>1, <2>2
<1>5. QED
  BY <1>2, <1>3, <1>4 DEF OrderInv

\* A step of somebody else keeps it, if that step moves the tables as the bank allows.
LEMMA OthersKeepInv ==
    ASSUME OrderInv, UNCHANGED orderVars, DatabaseTypeOK', TablesMove
    PROVE  OrderInv'
<1>1. /\ \A a \in AccountIds : Exists(a) => Exists(a)'
      /\ UnusedIsBlank' /\ NoOverdraft' /\ LastEntryIsBalance'
  BY TablesMoveInv DEF OrderInv
<1>2. OrdersTypeOK'
  BY DEF OrderInv, orderVars, OrdersTypeOK
<1>3. \A d \in Orders : orders[d].account \in AccountIds
  BY OrderType
<1>4. LoadedIsSound'
  BY <1>1, <1>3 DEF OrderInv, orderVars, LoadedIsSound
<1>5. QED
  BY <1>1, <1>2, <1>4 DEF OrderInv

\* Every step of an order keeps the first part.
LEMMA OrderStepInv ==
    ASSUME OrderInv, NEW d \in Orders, Arrival(d) \/ Write(d) \/ Crash(d)
    PROVE  OrderInv'
BY CommitKeepsInv, QuietKeepsInv DEF Write

\* Before any request it holds.
LEMMA OrderInit == AccountInit => OrderInv
<1> SUFFICES ASSUME AccountInit PROVE OrderInv
  OBVIOUS
<1> USE DEF AccountInit, DatabaseInit, OrdersInit
<1>1. DatabaseTypeOK
  BY OpeningAssumption DEF DatabaseTypeOK, TransactionStatus
<1>2. OrdersTypeOK
  BY DEF OrdersTypeOK, Row, Answers
<1>3. LoadedIsSound
  BY DEF LoadedIsSound
<1>4. UnusedIsBlank /\ NoOverdraft /\ LastEntryIsBalance
  BY OpeningAssumption
  DEF UnusedIsBlank, NoOverdraft, LastEntryIsBalance, Exists, ClosingBalance, OpeningBalance
<1>5. QED
  BY <1>1, <1>2, <1>3, <1>4 DEF OrderInv

-----------------------------------------------------------------------------
(* The second part is kept. *)

\* On arrival an order notes who has succeeded so far; if it repeats one of them, it finds
\* the record that one left.
LEMMA ArrivalReplayInv ==
    ASSUME OrderInv, ReplayInv, NEW d \in Orders, Arrival(d)
    PROVE  ReplayInv'
<1> DEFINE c == orders[d]
<1>1. /\ audit' = audit /\ orders' = orders /\ records' = records
      /\ step[d] = "idle" /\ d \notin audit /\ answer[d] = "none"
      /\ earlier' = [earlier EXCEPT ![d] = {e \in Orders : answer[e] = "Done"}]
  BY DEF Arrival, Replay, Reject, Load, Arrive, dbVars, ReplayInv, StepsAudited
<1>2. /\ step \in [Orders -> {"idle", "write", "store", "done"}]
      /\ answer \in [Orders -> Answers]
      /\ earlier \in [Orders -> SUBSET Orders]
      /\ records \in [Keys -> Orders \cup {NoOrder}]
  BY DEF OrderInv, OrdersTypeOK
<1>3. \/ /\ Replay(d) /\ Recorded(c)
         /\ step' = [step EXCEPT ![d] = "done"]
         /\ answer' = [answer EXCEPT ![d] =
                          IF Endpoint(orders[records[c.key]]) = Endpoint(c)
                          THEN "Replayed" ELSE "Conflict"]
      \/ /\ ~Recorded(c)
         /\ step' = [step EXCEPT ![d] = "done"] /\ answer' = [answer EXCEPT ![d] = "Refused"]
      \/ /\ ~Recorded(c)
         /\ step' = [step EXCEPT ![d] = "write"] /\ answer' = answer
  BY DEF Arrival, Replay, Reject, Load, Answer
<1>4. /\ \A e \in Orders \ {d} : step'[e] = step[e] /\ answer'[e] = answer[e] /\ earlier'[e] = earlier[e]
      /\ earlier'[d] = {e \in Orders : answer[e] = "Done"}
      /\ answer'[d] # "Done"
      /\ \/ step'[d] = "done" /\ answer'[d] # "none"
         \/ step'[d] = "write" /\ answer'[d] = "none"
  BY <1>1, <1>2, <1>3
<1>5. StepsAudited'
  BY <1>1, <1>4 DEF ReplayInv, StepsAudited
<1>6. \A e \in Orders : answer[e] = "Done" <=> answer'[e] = "Done"
  BY <1>1, <1>4
<1>7. RecordsSound'
  <2>1. \A k \in Keys : records[k] # NoOrder => records[k] \in Orders
    BY <1>2
  <2>2. QED
    BY <1>1, <1>6, <2>1 DEF ReplayInv, RecordsSound, UsesKey
<1>8. EarlierReplayed'
  <2>1. ASSUME NEW e \in Orders, answer[e] = "Done", SameRequest(c, orders[e])
        PROVE  step'[d] = "done"
    <3>1. UsesKey(c) /\ UsesKey(orders[e]) /\ c.key = orders[e].key
      BY <2>1 DEF SameRequest
    <3>2. Recorded(c)
      BY <2>1, <3>1 DEF ReplayInv, RecordsSound, Recorded
    <3>3. QED
      BY <1>2, <1>3, <3>2
  <2>2. \A e \in earlier'[d] :
           answer'[e] = "Done" /\ (SameRequest(c, orders[e]) => step'[d] = "done")
    BY <1>4, <1>6, <2>1
  <2>3. \A b \in Orders \ {d} : \A e \in earlier'[b] :
           /\ answer'[e] = "Done"
           /\ SameRequest(orders[b], orders[e]) => step'[b] = "done" /\ b \notin audit
    BY <1>2, <1>4, <1>6 DEF ReplayInv, EarlierReplayed
  <2>4. QED
    BY <1>1, <2>2, <2>3 DEF EarlierReplayed, SameRequest, UsesKey, Endpoint
<1>9. AnswersTruthful'
  <2> DEFINE others(b) == {e \in audit \cap (Orders \ {b}) : orders[e].key = orders[b].key}
             same(b, e) == Endpoint(orders[e]) = Endpoint(orders[b])
             Truthful(b) == /\ answer'[b] = "Done" => b \in audit
                            /\ answer'[b] \in {"Replayed", "Conflict", "Refused"} => b \notin audit
                            /\ answer'[b] = "Replayed" => \E e \in others(b) : same(b, e)
                            /\ answer'[b] = "Conflict" => \E e \in others(b) : ~same(b, e)
  <2>1. \A b \in Orders \ {d} : Truthful(b)
    BY <1>4 DEF ReplayInv, AnswersTruthful
  <2>2. Truthful(d)
    <3>1. CASE Recorded(c)
      <4> DEFINE e == records[c.key]
      <4>1. UsesKey(c) /\ e # NoOrder
        BY <3>1 DEF Recorded
      <4>2. c.key \in Keys
        BY <4>1, OrderType DEF UsesKey
      <4>3. e \in Orders /\ answer[e] = "Done" /\ orders[e].key = c.key
        BY <1>2, <4>1, <4>2 DEF ReplayInv, RecordsSound
      <4>4. e \in audit /\ e # d
        BY <1>1, <4>3 DEF ReplayInv, AnswersTruthful
      <4>5. e \in others(d)
        BY <4>3, <4>4
      <4>6. answer'[d] = IF same(d, e) THEN "Replayed" ELSE "Conflict"
        BY <1>2, <1>3, <3>1
      <4> HIDE DEF e, others, same
      <4>7. QED
        BY <1>1, <4>5, <4>6
    <3>2. CASE ~Recorded(c)
      BY <1>1, <1>2, <1>3, <3>2
    <3>3. QED
      BY <3>1, <3>2
  <2> HIDE DEF Truthful
  <2>3. \A b \in Orders : Truthful(b)
    BY <2>1, <2>2
  <2>4. QED
    BY <1>1, <2>3 DEF AnswersTruthful, Truthful, Endpoint
<1>10. QED
  BY <1>5, <1>7, <1>8, <1>9 DEF ReplayInv

\* A commit adds its audit row and answers at most its own caller.
LEMMA CommitReplayInv ==
    ASSUME OrderInv, ReplayInv, NEW d \in Orders,
           DepositFunds(d) \/ CreateAccount(d) \/ UpdateAccountStatus(d)
    PROVE  ReplayInv'
<1>1. /\ audit' = audit \cup {d} /\ orders' = orders /\ records' = records /\ earlier' = earlier
      /\ step[d] = "write" /\ d \notin audit /\ answer[d] = "none"
      /\ \/ /\ step' = [step EXCEPT ![d] = "store"]
            /\ answer' = answer
         \/ /\ orders[d].kind = "update_account_status"
            /\ step' = [step EXCEPT ![d] = "done"]
            /\ \E o \in {"Done", "Error"} : answer' = [answer EXCEPT ![d] = o]
  BY OrderCommits DEF Written, ReplayInv, StepsAudited
<1>2. /\ step \in [Orders -> {"idle", "write", "store", "done"}]
      /\ answer \in [Orders -> Answers]
      /\ earlier \in [Orders -> SUBSET Orders]
      /\ records \in [Keys -> Orders \cup {NoOrder}]
  BY DEF OrderInv, OrdersTypeOK
<1>3. /\ \A e \in Orders \ {d} : step'[e] = step[e] /\ answer'[e] = answer[e]
      /\ \/ step'[d] = "store" /\ answer'[d] = "none"
         \/ step'[d] = "done" /\ answer'[d] \in {"Done", "Error"} /\ ~UsesKey(orders[d])
  BY <1>1, <1>2 DEF UsesKey
<1>4. StepsAudited'
  BY <1>1, <1>3 DEF ReplayInv, StepsAudited
<1>5. \A e \in Orders : answer[e] = "Done" => answer'[e] = "Done"
  BY <1>1, <1>3
<1>6. RecordsSound'
  <2>1. \A k \in Keys : records[k] # NoOrder => records[k] \in Orders
    BY <1>2
  <2>2. \A e \in Orders : answer'[e] = "Done" /\ UsesKey(orders[e]) => answer[e] = "Done"
    BY <1>3
  <2>3. QED
    BY <1>1, <1>5, <2>1, <2>2 DEF ReplayInv, RecordsSound, UsesKey
<1>7. EarlierReplayed'
  <2>1. ASSUME NEW b \in Orders, NEW e \in earlier[b]
        PROVE  /\ answer'[e] = "Done"
               /\ SameRequest(orders[b], orders[e]) => step'[b] = "done" /\ b \notin audit'
    <3>1. /\ e \in Orders /\ answer[e] = "Done"
          /\ SameRequest(orders[b], orders[e]) => step[b] = "done" /\ b \notin audit
      BY <1>2 DEF ReplayInv, EarlierReplayed
    <3>2. step[b] = "done" => b # d
      BY <1>1
    <3>3. QED
      BY <1>1, <1>3, <1>5, <3>1, <3>2
  <2>2. QED
    BY <1>1, <2>1 DEF EarlierReplayed, SameRequest, UsesKey, Endpoint
<1>8. AnswersTruthful'
  <2> DEFINE others(b) == {e \in audit \cap (Orders \ {b}) : orders[e].key = orders[b].key}
             othersNow(b) == {e \in audit' \cap (Orders \ {b}) : orders[e].key = orders[b].key}
             same(b, e) == Endpoint(orders[e]) = Endpoint(orders[b])
             Truthful(b) == /\ answer'[b] = "Done" => b \in audit'
                            /\ answer'[b] \in {"Replayed", "Conflict", "Refused"} => b \notin audit'
                            /\ answer'[b] = "Replayed" => \E e \in othersNow(b) : same(b, e)
                            /\ answer'[b] = "Conflict" => \E e \in othersNow(b) : ~same(b, e)
  <2>1. ASSUME NEW b \in Orders
        PROVE  /\ answer'[b] = "Done" => b \in audit'
               /\ answer'[b] \in {"Replayed", "Conflict", "Refused"} =>
                     b \notin audit' /\ answer[b] = answer'[b]
    BY <1>1, <1>3 DEF ReplayInv, AnswersTruthful
  <2>2. ASSUME NEW b \in Orders
        PROVE  /\ answer[b] = "Replayed" => \E e \in others(b) : same(b, e)
               /\ answer[b] = "Conflict" => \E e \in others(b) : ~same(b, e)
    BY DEF ReplayInv, AnswersTruthful
  <2>3. \A b \in Orders : others(b) \subseteq othersNow(b)
    BY <1>1
  <2> HIDE DEF others
  <2>4. ASSUME NEW b \in Orders
        PROVE  /\ answer'[b] = "Replayed" => \E e \in othersNow(b) : same(b, e)
               /\ answer'[b] = "Conflict" => \E e \in othersNow(b) : ~same(b, e)
    BY <2>1, <2>2, <2>3
  <2>5. \A b \in Orders : Truthful(b)
    BY <2>1, <2>4
  <2>6. orders' = orders
    BY <1>1
  <2> HIDE DEF Truthful
  <2>7. QED
    BY <2>5, <2>6 DEF AnswersTruthful, Truthful, Endpoint
<1>9. QED
  BY <1>4, <1>6, <1>7, <1>8 DEF ReplayInv


\* The last step of an order, with or without success: nothing of the bank changes any
\* more, and a success with a key leaves a record or finds one.
LEMMA EndReplayInv ==
    ASSUME OrderInv, ReplayInv, NEW d \in Orders, Store(d) \/ Crash(d)
    PROVE  ReplayInv'
<1> DEFINE c == orders[d]
<1>1. /\ audit' = audit /\ orders' = orders /\ earlier' = earlier
      /\ step[d] \in {"write", "store"} /\ answer[d] = "none"
      /\ step' = [step EXCEPT ![d] = "done"]
      /\ \/ /\ answer' = [answer EXCEPT ![d] = "Done"] /\ d \in audit
            /\ records' = IF UsesKey(c) /\ ~Recorded(c)
                          THEN [records EXCEPT ![c.key] = d] ELSE records
         \/ /\ answer' = [answer EXCEPT ![d] = "Error"]
            /\ records' = records
  BY DEF Store, Crash, Answer, dbVars, ReplayInv, StepsAudited
<1>2. /\ step \in [Orders -> {"idle", "write", "store", "done"}]
      /\ answer \in [Orders -> Answers]
      /\ earlier \in [Orders -> SUBSET Orders]
      /\ records \in [Keys -> Orders \cup {NoOrder}]
  BY DEF OrderInv, OrdersTypeOK
<1>3. /\ \A e \in Orders \ {d} : step'[e] = step[e] /\ answer'[e] = answer[e]
      /\ step'[d] = "done" /\ answer'[d] \in {"Done", "Error"}
      /\ answer'[d] = "Done" => d \in audit
  BY <1>1, <1>2
<1>4. StepsAudited'
  BY <1>1, <1>3 DEF ReplayInv, StepsAudited
<1>5. \A e \in Orders : answer[e] = "Done" => answer'[e] = "Done"
  BY <1>1, <1>3
<1>6. RecordsSound'
  <2>1. UsesKey(c) => c.key \in Keys
    BY OrderType DEF UsesKey
  <2>2. ASSUME NEW k \in Keys, records'[k] # NoOrder
        PROVE  /\ answer'[records'[k]] = "Done"
               /\ UsesKey(orders[records'[k]]) /\ orders[records'[k]].key = k
    <3>1. CASE records'[k] = records[k]
      <4>1. records[k] \in Orders
        BY <1>2, <2>2, <3>1
      <4>2. QED
        BY <1>5, <2>2, <3>1, <4>1 DEF ReplayInv, RecordsSound
    <3>2. CASE records'[k] # records[k]
      <4>1. /\ answer' = [answer EXCEPT ![d] = "Done"]
            /\ UsesKey(c) /\ records' = [records EXCEPT ![c.key] = d]
        BY <1>1, <3>2
      <4>2. records'[k] = d /\ k = c.key
        BY <1>2, <2>1, <3>2, <4>1
      <4>3. QED
        BY <1>2, <4>1, <4>2
    <3>3. QED
      BY <3>1, <3>2
  <2>3. \A k \in Keys : records[k] # NoOrder => records'[k] # NoOrder
    <3>1. d # NoOrder
      BY NoOrderAssumption
    <3>2. QED
      BY <1>1, <1>2, <3>1
  <2>4. ASSUME NEW e \in Orders, answer'[e] = "Done", UsesKey(orders[e])
        PROVE  records'[orders[e].key] # NoOrder
    <3>1. orders[e].key \in Keys
      BY <2>4, OrderType DEF UsesKey
    <3>2. CASE answer[e] = "Done"
      BY <2>3, <2>4, <3>1, <3>2 DEF ReplayInv, RecordsSound
    <3>3. CASE answer[e] # "Done"
      <4>1. e = d
        BY <1>3, <2>4, <3>3
      <4>2. /\ answer' = [answer EXCEPT ![d] = "Done"]
            /\ records' = IF ~Recorded(c) THEN [records EXCEPT ![c.key] = d] ELSE records
        BY <1>1, <1>2, <2>4, <4>1
      <4>3. d # NoOrder
        BY NoOrderAssumption
      <4>4. CASE Recorded(c)
        BY <2>4, <4>1, <4>2, <4>4 DEF Recorded
      <4>5. CASE ~Recorded(c)
        BY <1>2, <3>1, <4>1, <4>2, <4>3, <4>5
      <4>6. QED
        BY <4>4, <4>5
    <3>4. QED
      BY <3>2, <3>3
  <2>5. QED
    BY <1>1, <2>2, <2>4 DEF RecordsSound, UsesKey
<1>7. EarlierReplayed'
  <2>1. ASSUME NEW b \in Orders, NEW e \in earlier[b]
        PROVE  /\ answer'[e] = "Done"
               /\ SameRequest(orders[b], orders[e]) => step'[b] = "done" /\ b \notin audit'
    <3>1. /\ e \in Orders /\ answer[e] = "Done"
          /\ SameRequest(orders[b], orders[e]) => step[b] = "done" /\ b \notin audit
      BY <1>2 DEF ReplayInv, EarlierReplayed
    <3>2. QED
      BY <1>1, <1>3, <1>5, <3>1
  <2>2. QED
    BY <1>1, <2>1 DEF EarlierReplayed, SameRequest, UsesKey, Endpoint
<1>8. AnswersTruthful'
  <2> DEFINE others(b) == {e \in audit \cap (Orders \ {b}) : orders[e].key = orders[b].key}
             same(b, e) == Endpoint(orders[e]) = Endpoint(orders[b])
             Truthful(b) == /\ answer'[b] = "Done" => b \in audit
                            /\ answer'[b] \in {"Replayed", "Conflict", "Refused"} => b \notin audit
                            /\ answer'[b] = "Replayed" => \E e \in others(b) : same(b, e)
                            /\ answer'[b] = "Conflict" => \E e \in others(b) : ~same(b, e)
  <2>1. \A b \in Orders \ {d} : Truthful(b)
    BY <1>3 DEF ReplayInv, AnswersTruthful
  <2>2. Truthful(d)
    BY <1>3
  <2> HIDE DEF Truthful
  <2>3. \A b \in Orders : Truthful(b)
    BY <2>1, <2>2
  <2>4. QED
    BY <1>1, <2>3 DEF AnswersTruthful, Truthful, Endpoint
<1>9. QED
  BY <1>4, <1>6, <1>7, <1>8 DEF ReplayInv

\* Every step of an order keeps the second part.
LEMMA OrderStepReplayInv ==
    ASSUME OrderInv, ReplayInv, NEW d \in Orders, Arrival(d) \/ Write(d) \/ Crash(d)
    PROVE  ReplayInv'
BY ArrivalReplayInv, CommitReplayInv, EndReplayInv DEF Write

\* A step of somebody else, who audits no order, keeps it.
LEMMA OthersReplayInv ==
    ASSUME ReplayInv, UNCHANGED orderVars, audit' \cap Orders = audit \cap Orders
    PROVE  ReplayInv'
<1>1. \A d \in Orders : d \in audit' <=> d \in audit
  OBVIOUS
<1>2. StepsAudited'
  BY <1>1 DEF ReplayInv, StepsAudited, orderVars
<1>3. RecordsSound'
  BY DEF ReplayInv, RecordsSound, orderVars, UsesKey
<1>4. EarlierReplayed'
  BY <1>1 DEF ReplayInv, EarlierReplayed, orderVars, SameRequest, UsesKey, Endpoint
<1>5. AnswersTruthful'
  <2>1. \A d \in Orders : audit' \cap (Orders \ {d}) = audit \cap (Orders \ {d})
    OBVIOUS
  <2>2. QED
    BY <1>1, <2>1 DEF ReplayInv, AnswersTruthful, orderVars, Endpoint
<1>6. QED
  BY <1>2, <1>3, <1>4, <1>5 DEF ReplayInv

\* Before any request it holds.
LEMMA ReplayInit == audit = {} /\ OrdersInit => ReplayInv
BY OrderCallsAssumption
DEF OrdersInit, ReplayInv, StepsAudited, RecordsSound, EarlierReplayed, AnswersTruthful

-----------------------------------------------------------------------------
(* The trail of an order. *)

\* What others append leaves the trail of an order as it was.
LEMMA TrailKept ==
    ASSUME DatabaseTypeOK, NEW d \in Orders, OrderTrailOf(d),
           orders' = orders, d \in audit' <=> d \in audit,
           \A a \in AccountIds :
              \/ ledger'[a] = ledger[a]
              \/ \E e \in LedgerEntry : e.tx # d /\ ledger'[a] = Append(ledger[a], e)
    PROVE  OrderTrailOf(d)'
<1>1. ASSUME NEW a \in AccountIds
      PROVE  /\ Positions(d, ledger'[a]) = Positions(d, ledger[a])
             /\ \A i \in Positions(d, ledger[a]) : ledger'[a][i] = ledger[a][i]
  <2>1. ledger[a] \in Seq(LedgerEntry)
    BY DEF DatabaseTypeOK
  <2>2. ASSUME NEW e \in LedgerEntry, e.tx # d, ledger'[a] = Append(ledger[a], e)
        PROVE  /\ Positions(d, ledger'[a]) = Positions(d, ledger[a])
               /\ \A i \in Positions(d, ledger[a]) : ledger'[a][i] = ledger[a][i]
    <3>1. /\ Positions(d, Append(ledger[a], e)) = Positions(d, ledger[a])
          /\ \A i \in Positions(d, ledger[a]) : Append(ledger[a], e)[i] = ledger[a][i]
      BY <2>1, <2>2, OthersEntry
    <3>2. QED
      BY <2>2, <3>1
  <2>3. QED
    BY <2>2
<1>2. CreditsOf(d)' = CreditsOf(d)
  BY <1>1 DEF CreditsOf
<1> HIDE DEF CreditsOf, Positions
<1>3. CASE d \notin audit \/ orders[d].kind = "update_account_status" \/ orders[d].amount = 0
  BY <1>2, <1>3 DEF OrderTrailOf
<1>4. CASE ~(d \notin audit \/ orders[d].kind = "update_account_status" \/ orders[d].amount = 0)
  <2>1. PICK a \in AccountIds : \E i \in Positions(d, ledger[a]) :
           /\ CreditsOf(d) = {<<a, i>>}
           /\ ledger[a][i].type = "CREDIT" /\ ledger[a][i].amount = orders[d].amount
           /\ orders[d].kind = "deposit_funds" => a = orders[d].account
           /\ orders[d].kind = "create_account" =>
                 Opening[a] = NoRow /\ i = 1 /\ ledger[a][i].balanceAfter = orders[d].amount
    BY <1>4 DEF OrderTrailOf
  <2>2. \A i \in Positions(d, ledger[a]) :
           i \in Positions(d, ledger'[a]) /\ ledger'[a][i] = ledger[a][i]
    BY <1>1
  <2>3. QED
    BY <1>2, <1>4, <2>1, <2>2 DEF OrderTrailOf
<1>5. QED
  BY <1>3, <1>4

\* An order without entries has none on any account, and the other way round.
LEMMA NoCredits ==
    ASSUME NEW d
    PROVE  CreditsOf(d) = {} <=> \A a \in AccountIds : Positions(d, ledger[a]) = {}
<1>1. \A a \in AccountIds : \A i \in Positions(d, ledger[a]) : <<a, i>> \in CreditsOf(d)
  BY DEF CreditsOf
<1>2. \A x \in CreditsOf(d) : \E a \in AccountIds : \E i \in Positions(d, ledger[a]) : TRUE
  BY DEF CreditsOf
<1>3. QED
  BY <1>1, <1>2

\* The first entry of an order, in the ledger of account a, is all of its trail.
LEMMA FirstEntry ==
    ASSUME DatabaseTypeOK, NEW d \in Orders, CreditsOf(d) = {},
           NEW a \in AccountIds, NEW e \in LedgerEntry, e.tx = d,
           ledger'[a] = Append(ledger[a], e),
           \A b \in AccountIds \ {a} : ledger'[b] = ledger[b]
    PROVE  LET i == Len(ledger[a]) + 1
           IN  /\ i \in Positions(d, ledger'[a])
               /\ ledger'[a][i] = e
               /\ CreditsOf(d)' = {<<a, i>>}
<1> DEFINE i == Len(ledger[a]) + 1
<1>1. \A b \in AccountIds : Positions(d, ledger[b]) = {}
  BY NoCredits
<1>2. ledger[a] \in Seq(LedgerEntry)
  BY DEF DatabaseTypeOK
<1>3. Positions(e.tx, Append(ledger[a], e)) = {i} /\ Append(ledger[a], e)[i] = e
  BY <1>1, <1>2, OwnEntry
<1>4. Positions(d, ledger'[a]) = {i} /\ ledger'[a][i] = e
  BY <1>3
<1> HIDE DEF i
<1>5. \A b \in AccountIds \ {a} : Positions(d, ledger'[b]) = {}
  BY <1>1
<1>6. CreditsOf(d)' = {<<a, i>>}
  <2> DEFINE own(b) == {<<b, j>> : j \in Positions(d, ledger'[b])}
  <2>1. own(a) = {<<a, i>>} /\ \A b \in AccountIds \ {a} : own(b) = {}
    BY <1>4, <1>5
  <2>2. CreditsOf(d)' = UNION {own(b) : b \in AccountIds}
    BY DEF CreditsOf
  <2> HIDE DEF own
  <2>3. QED
    BY <2>1, <2>2
<1>7. QED
  BY <1>4, <1>6 DEF i

\* A step that appends nothing and audits no order keeps all trails.
LEMMA QuietTrail ==
    ASSUME DatabaseTypeOK, OrderTrail, orders' = orders, ledger' = ledger,
           audit' \cap Orders = audit \cap Orders
    PROVE  OrderTrail'
<1>1. ASSUME NEW d \in Orders PROVE OrderTrailOf(d)'
  <2>1. OrderTrailOf(d) /\ (d \in audit' <=> d \in audit)
    BY DEF OrderTrail
  <2>2. QED
    BY <2>1, TrailKept
<1>2. QED
  BY <1>1 DEF OrderTrail

\* What the commit of an order appends: nothing, or one entry of its own, on the account
\* it names or, first of all, on a new one.
LEMMA OrderBooks ==
    ASSUME OrderInv, NEW d \in Orders,
           DepositFunds(d) \/ CreateAccount(d) \/ UpdateAccountStatus(d)
    PROVE  LET c == orders[d]
           IN  \/ c.kind = "update_account_status" /\ ledger' = ledger
               \/ c.kind # "update_account_status" /\ c.amount = 0 /\ ledger' = ledger
               \/ \E a \in AccountIds, e \in LedgerEntry :
                     /\ e.tx = d /\ e.type = "CREDIT" /\ e.amount = c.amount
                     /\ c.kind # "update_account_status" /\ c.amount > 0
                     /\ ledger'[a] = Append(ledger[a], e)
                     /\ \A b \in AccountIds \ {a} : ledger'[b] = ledger[b]
                     /\ c.kind = "deposit_funds" => a = c.account
                     /\ c.kind = "create_account" =>
                           Opening[a] = NoRow /\ ledger[a] = << >> /\ e.balanceAfter = c.amount
<1> DEFINE c == orders[d]
<1>1. CASE DepositFunds(d)
  <2> DEFINE new == loaded[d].balance + c.amount
             entry == NewEntry(d, "CREDIT", c.amount, new)
  <2>1. /\ c.account \in AccountIds /\ c.amount \in Int /\ c.amount > 0 /\ new \in Int
        /\ ledger'[c.account] = Append(ledger[c.account], entry)
        /\ \A b \in AccountIds \ {c.account} : ledger'[b] = ledger[b]
    BY <1>1, DepositEffect
  <2>2. /\ entry \in LedgerEntry
        /\ entry.tx = d /\ entry.type = "CREDIT" /\ entry.amount = c.amount
    BY <2>1, OrderEntry
  <2>3. c.kind = "deposit_funds"
    BY <1>1 DEF DepositFunds
  <2> HIDE DEF entry
  <2>4. QED
    BY <2>1, <2>2, <2>3
<1>2. CASE CreateAccount(d)
  <2> DEFINE entry == NewEntry(d, "CREDIT", c.amount, c.amount)
  <2>1. c.amount \in Int /\ c.amount >= 0 /\ ledger' \in [AccountIds -> Seq(LedgerEntry)]
    BY <1>2, CreateEffect
  <2>2. PICK a \in AccountIds :
           /\ Opening[a] = NoRow /\ ledger[a] = << >>
           /\ ledger'[a] = IF c.amount > 0 THEN Append(ledger[a], entry) ELSE ledger[a]
           /\ \A b \in AccountIds \ {a} : ledger'[b] = ledger[b]
    BY <1>2, CreateEffect
  <2>3. c.kind = "create_account"
    BY <1>2 DEF CreateAccount
  <2>4. /\ entry \in LedgerEntry /\ entry.balanceAfter = c.amount
        /\ entry.tx = d /\ entry.type = "CREDIT" /\ entry.amount = c.amount
    BY <2>1, OrderEntry
  <2> HIDE DEF entry
  <2>5. CASE c.amount > 0
    BY <2>2, <2>3, <2>4, <2>5
  <2>6. CASE c.amount = 0
    <3>1. ledger \in [AccountIds -> Seq(LedgerEntry)]
      BY DEF OrderInv, DatabaseTypeOK
    <3>2. \A b \in AccountIds : ledger'[b] = ledger[b]
      BY <2>2, <2>6
    <3>3. ledger' = ledger
      BY <2>1, <3>1, <3>2
    <3>4. QED
      BY <2>3, <2>6, <3>3
  <2>7. QED
    BY <2>1, <2>5, <2>6
<1>3. CASE UpdateAccountStatus(d)
  BY <1>3 DEF UpdateAccountStatus
<1>4. QED
  BY <1>1, <1>2, <1>3

\* A commit writes the whole trail of its order at once.
LEMMA CommitTrail ==
    ASSUME OrderInv, ReplayInv, OrderTrail, NEW d \in Orders,
           DepositFunds(d) \/ CreateAccount(d) \/ UpdateAccountStatus(d)
    PROVE  OrderTrail'
<1> DEFINE c == orders[d]
<1>1. /\ step[d] = "write" /\ audit' = audit \cup {d} /\ orders' = orders
      /\ d \notin audit
  BY OrderCommits DEF Written, ReplayInv, StepsAudited
<1>2. CreditsOf(d) = {}
  BY <1>1 DEF OrderTrail, OrderTrailOf
<1>3. DatabaseTypeOK
  BY DEF OrderInv
\* ... what it appended, if anything, is its own.
<1>4. \/ c.kind = "update_account_status" /\ ledger' = ledger
      \/ c.kind # "update_account_status" /\ c.amount = 0 /\ ledger' = ledger
      \/ \E a \in AccountIds, e \in LedgerEntry :
            /\ e.tx = d /\ e.type = "CREDIT" /\ e.amount = c.amount
            /\ c.kind # "update_account_status" /\ c.amount > 0
            /\ ledger'[a] = Append(ledger[a], e)
            /\ \A b \in AccountIds \ {a} : ledger'[b] = ledger[b]
            /\ c.kind = "deposit_funds" => a = c.account
            /\ c.kind = "create_account" =>
                  Opening[a] = NoRow /\ ledger[a] = << >> /\ e.balanceAfter = c.amount
  BY OrderBooks
\* ... so the other orders keep their trails,
<1>5. ASSUME NEW b \in Orders \ {d} PROVE OrderTrailOf(b)'
  <2>1. OrderTrailOf(b) /\ (b \in audit' <=> b \in audit)
    BY <1>1 DEF OrderTrail
  <2>2. \A a \in AccountIds :
           \/ ledger'[a] = ledger[a]
           \/ \E e \in LedgerEntry : e.tx # b /\ ledger'[a] = Append(ledger[a], e)
    BY <1>4
  <2>3. QED
    BY <1>1, <1>3, <2>1, <2>2, TrailKept
\* ... and its own is complete.
<1>6. OrderTrailOf(d)'
  <2>1. CASE ledger' = ledger /\ (c.kind = "update_account_status" \/ c.amount = 0)
    <3>1. CreditsOf(d)' = {}
      BY <1>2, <2>1 DEF CreditsOf
    <3>2. QED
      BY <1>1, <2>1, <3>1 DEF OrderTrailOf
  <2>2. ASSUME NEW a \in AccountIds, NEW e \in LedgerEntry,
               e.tx = d, e.type = "CREDIT", e.amount = c.amount,
               c.kind # "update_account_status", c.amount > 0,
               ledger'[a] = Append(ledger[a], e),
               \A b \in AccountIds \ {a} : ledger'[b] = ledger[b],
               c.kind = "deposit_funds" => a = c.account,
               c.kind = "create_account" =>
                  Opening[a] = NoRow /\ ledger[a] = << >> /\ e.balanceAfter = c.amount
        PROVE  OrderTrailOf(d)'
    <3> DEFINE i == Len(ledger[a]) + 1
    <3>1. /\ i \in Positions(d, ledger'[a])
          /\ ledger'[a][i] = e
          /\ CreditsOf(d)' = {<<a, i>>}
      BY <1>2, <1>3, <2>2, FirstEntry
    <3>2. c.kind = "create_account" => i = 1
      BY <2>2
    <3>3. c.amount # 0 /\ d \in audit'
      BY <1>1, <2>2
    <3> HIDE DEF i
    <3>4. QED
      BY <1>1, <2>2, <3>1, <3>2, <3>3 DEF OrderTrailOf
  <2>3. QED
    BY <1>4, <2>1, <2>2
<1>7. QED
  BY <1>5, <1>6 DEF OrderTrail

\* Every step of an order keeps all trails.
LEMMA OrderStepTrail ==
    ASSUME OrderInv, ReplayInv, OrderTrail, NEW d \in Orders,
           Arrival(d) \/ Write(d) \/ Crash(d)
    PROVE  OrderTrail'
<1>1. ASSUME Arrival(d) \/ Store(d) \/ Crash(d) PROVE OrderTrail'
  <2>1. orders' = orders /\ ledger' = ledger /\ audit' = audit /\ DatabaseTypeOK
    BY <1>1, QuietTables DEF dbVars, OrderInv
  <2>2. QED
    BY <2>1, QuietTrail
<1>2. QED
  BY <1>1, CommitTrail DEF Write

\* Before any request nobody has a trail.
LEMMA TrailInit ==
    ASSUME audit = {}, ledger = [a \in AccountIds |-> << >>]
    PROVE  OrderTrail
BY DEF OrderTrail, OrderTrailOf, CreditsOf, Positions

-----------------------------------------------------------------------------
(* The status of accounts. *)

\* The third part of the invariant.  A status change that is about to write loaded the
\* status its account still has, or an audited change has given the account another.
StatusInv ==
    /\ AuditExplainsStatus
    /\ \A d \in audit \cap Orders :
          orders[d].kind = "update_account_status" => Exists(orders[d].account)
    /\ \A d \in Orders :
          LET a == orders[d].account
          IN  step[d] = "write" /\ orders[d].kind = "update_account_status" =>
                  \/ loaded[d].status = accounts[a].status
                  \/ \E e \in ChangesOf(a) : orders[e].status = accounts[a].status

\* Nobody's status is changed: accounts keep theirs or are opened ACTIVE.
StatusesStay ==
    \A a \in AccountIds :
        /\ Exists(a) => Exists(a)'
        /\ Exists(a)' =>
              \/ Exists(a) /\ accounts'[a].status = accounts[a].status
              \/ ~Exists(a) /\ Opening[a] = NoRow /\ accounts'[a].status = "ACTIVE"

\* No status change is audited.
ChangesStay ==
    \A d \in Orders :
        orders[d].kind = "update_account_status" => (d \in audit' <=> d \in audit)

\* An order that is about to write was so before, or it loads its row in this step.
LoadsAreFresh ==
    \A d \in Orders :
        step'[d] = "write" =>
            \/ step[d] = "write" /\ loaded'[d] = loaded[d]
            \/ Exists(orders[d].account)' /\ loaded'[d] = accounts'[orders[d].account]
            \/ orders[d].kind # "update_account_status"

\* A step without a status change keeps the statuses explained.
LEMMA StatusesKept ==
    ASSUME OrderInv, StatusInv, orders' = orders, StatusesStay, ChangesStay, LoadsAreFresh
    PROVE  StatusInv'
<1>1. \A a \in AccountIds : ChangesOf(a)' = ChangesOf(a)
  BY DEF ChangesStay, ChangesOf
<1>2. AuditExplainsStatus'
  <2> SUFFICES ASSUME NEW a \in AccountIds, Exists(a)'
               PROVE  accounts'[a].status \in IF ChangesOf(a) = {} THEN {OpeningStatus(a)}
                                              ELSE {orders[d].status : d \in ChangesOf(a)}
    BY <1>1 DEF AuditExplainsStatus, OpeningStatus
  <2>1. CASE Exists(a)
    BY <2>1 DEF StatusesStay, StatusInv, AuditExplainsStatus
  <2>2. CASE ~Exists(a)
    <3>1. ChangesOf(a) = {}
      BY <2>2 DEF ChangesOf, StatusInv
    <3>2. QED
      BY <2>2, <3>1 DEF StatusesStay, OpeningStatus
  <2>3. QED
    BY <2>1, <2>2
<1>3. ASSUME NEW d \in audit' \cap Orders, orders[d].kind = "update_account_status"
      PROVE  Exists(orders[d].account)'
  <2>1. d \in audit /\ orders[d].account \in AccountIds
    BY <1>3, OrderType DEF ChangesStay
  <2>2. QED
    BY <1>3, <2>1 DEF StatusInv, StatusesStay
<1>4. ASSUME NEW d \in Orders, step'[d] = "write", orders[d].kind = "update_account_status"
      PROVE  \/ loaded'[d].status = accounts'[orders[d].account].status
             \/ \E e \in ChangesOf(orders[d].account) :
                   orders[e].status = accounts'[orders[d].account].status
  <2>1. CASE step[d] = "write" /\ loaded'[d] = loaded[d]
    <3>1. Exists(orders[d].account) /\ orders[d].account \in AccountIds
      BY <1>4, <2>1, OrderType DEF OrderInv, LoadedIsSound
    <3>2. accounts'[orders[d].account].status = accounts[orders[d].account].status
      BY <3>1 DEF StatusesStay
    <3>3. QED
      BY <1>4, <2>1, <3>2 DEF StatusInv
  <2>2. QED
    BY <1>4, <2>1 DEF LoadsAreFresh
<1>5. \A d \in Orders : orders[d].account \in AccountIds
  BY OrderType
<1>6. QED
  BY <1>1, <1>2, <1>3, <1>4, <1>5 DEF StatusInv

\* A status change explains the status it leaves, by itself or by the change that
\* overtook it.
LEMMA ChangeExplained ==
    ASSUME OrderInv, StatusInv, NEW d \in Orders, UpdateAccountStatus(d)
    PROVE  StatusInv'
<1>0. PICK a \in AccountIds : a = orders[d].account
  BY OrderType
<1>1. /\ step[d] = "write" /\ orders[d].kind = "update_account_status"
      /\ audit' = audit \cup {d} /\ orders' = orders /\ loaded' = loaded
      /\ step' = [step EXCEPT ![d] = "done"]
  BY DEF UpdateAccountStatus, Written, Answer
<1>2. /\ Exists(a) /\ Exists(a)'
      /\ \/ accounts'[a].status = orders[d].status
         \/ loaded[d].status = orders[d].status /\ accounts'[a] = accounts[a]
      /\ \A b \in AccountIds \ {a} : accounts'[b] = accounts[b]
  BY <1>0, StatusEffect DEF Exists
<1>3. ChangesOf(a)' = ChangesOf(a) \cup {d}
  BY <1>0, <1>1 DEF ChangesOf
<1>4. \A b \in AccountIds \ {a} : ChangesOf(b)' = ChangesOf(b)
  BY <1>0, <1>1 DEF ChangesOf
<1>5. \E e \in ChangesOf(a)' : orders[e].status = accounts'[a].status
  <2>1. CASE accounts'[a].status = orders[d].status
    BY <1>3, <2>1
  <2>2. CASE loaded[d].status = orders[d].status /\ accounts'[a] = accounts[a]
    BY <1>0, <1>1, <1>3, <2>2 DEF StatusInv
  <2>3. QED
    BY <1>2, <2>1, <2>2
<1>6. \A e \in Orders : orders[e].account \in AccountIds
  BY OrderType
<1>7. AuditExplainsStatus'
  <2> SUFFICES ASSUME NEW b \in AccountIds, Exists(b)'
               PROVE  accounts'[b].status \in IF ChangesOf(b)' = {} THEN {OpeningStatus(b)}
                                              ELSE {orders[e].status : e \in ChangesOf(b)'}
    BY <1>1 DEF AuditExplainsStatus, OpeningStatus
  <2>1. CASE b = a
    BY <1>5, <2>1
  <2>2. CASE b # a
    BY <1>2, <1>4, <2>2 DEF StatusInv, AuditExplainsStatus, Exists
  <2>3. QED
    BY <2>1, <2>2
<1>8. ASSUME NEW e \in audit' \cap Orders, orders[e].kind = "update_account_status"
      PROVE  Exists(orders[e].account)'
  <2>1. CASE orders[e].account = a
    BY <1>1, <1>2, <2>1 DEF Exists
  <2>2. CASE orders[e].account # a
    <3>1. e \in audit
      BY <1>0, <1>1, <2>2
    <3>2. Exists(orders[e].account)
      BY <1>8, <3>1 DEF StatusInv
    <3>3. QED
      BY <1>1, <1>2, <1>6, <2>2, <3>2 DEF Exists
  <2>3. QED
    BY <2>1, <2>2
<1>9. ASSUME NEW e \in Orders, NEW b \in AccountIds, b = orders[e].account,
             step'[e] = "write", orders[e].kind = "update_account_status"
      PROVE  \/ loaded'[e].status = accounts'[b].status
             \/ \E f \in ChangesOf(b)' : orders[f].status = accounts'[b].status
  <2>1. CASE b = a
    BY <1>5, <2>1
  <2>2. CASE b # a
    <3>1. step[e] = "write"
      BY <1>1, <1>9 DEF OrderInv, OrdersTypeOK
    <3>2. \/ loaded[e].status = accounts[b].status
          \/ \E f \in ChangesOf(b) : orders[f].status = accounts[b].status
      BY <1>9, <3>1 DEF StatusInv
    <3>3. QED
      BY <1>1, <1>2, <1>4, <2>2, <3>2
  <2>3. QED
    BY <2>1, <2>2
<1>10. \A e \in Orders :
          step'[e] = "write" /\ orders'[e].kind = "update_account_status" =>
              \/ loaded'[e].status = accounts'[orders'[e].account].status
              \/ \E f \in ChangesOf(orders[e].account)' :
                    orders'[f].status = accounts'[orders'[e].account].status
  BY <1>1, <1>6, <1>9
<1>11. QED
  BY <1>1, <1>7, <1>8, <1>10 DEF StatusInv

\* A commit loads nothing.
LEMMA CommitLoadsNothing ==
    ASSUME OrderInv, NEW d \in Orders, DepositFunds(d) \/ CreateAccount(d)
    PROVE  /\ ChangesStay /\ LoadsAreFresh /\ orders' = orders
<1>1. /\ orders[d].kind # "update_account_status"
      /\ audit' = audit \cup {d} /\ orders' = orders /\ loaded' = loaded
      /\ step' = [step EXCEPT ![d] = "store"]
  BY DEF DepositFunds, CreateAccount, Written
<1>2. \A e \in Orders : step'[e] = "write" => step[e] = "write"
  BY <1>1 DEF OrderInv, OrdersTypeOK
<1>3. QED
  BY <1>1, <1>2 DEF ChangesStay, LoadsAreFresh

\* Every step of an order keeps the statuses explained.
LEMMA OrderStepStatus ==
    ASSUME OrderInv, StatusInv, NEW d \in Orders,
           Arrival(d) \/ Write(d) \/ Crash(d)
    PROVE  StatusInv'
<1>1. CASE Arrival(d) \/ Store(d) \/ Crash(d)
  <2>1. UNCHANGED dbVars /\ orders' = orders
    BY <1>1, QuietTables
  <2>2. LoadsAreFresh
    <3>1. CASE Load(d)
      <4>1. /\ Acceptable(orders[d])
            /\ loaded' = [loaded EXCEPT ![d] = accounts[orders[d].account]]
            /\ step' = [step EXCEPT ![d] = "write"]
        BY <3>1 DEF Load
      <4>2. /\ \A e \in Orders \ {d} : step'[e] = step[e] /\ loaded'[e] = loaded[e]
            /\ loaded'[d] = accounts[orders[d].account]
        BY <4>1 DEF OrderInv, OrdersTypeOK
      <4>3. orders[d].kind = "update_account_status" => Exists(orders[d].account)
        BY <4>1 DEF Acceptable
      <4>4. QED
        BY <2>1, <4>2, <4>3 DEF LoadsAreFresh, dbVars, Exists
    <3>2. CASE ~Load(d)
      <4>1. step' = [step EXCEPT ![d] = "done"] /\ UNCHANGED loaded
        BY <1>1, <3>2 DEF Arrival, Replay, Reject, Store, Crash, Answer
      <4>2. \A e \in Orders : step'[e] = "write" => step[e] = "write"
        BY <4>1 DEF OrderInv, OrdersTypeOK
      <4>3. QED
        BY <4>1, <4>2 DEF LoadsAreFresh
    <3>3. QED
      BY <3>1, <3>2
  <2>3. StatusesStay /\ ChangesStay
    BY <2>1 DEF dbVars, StatusesStay, ChangesStay, Exists
  <2>4. QED
    BY <2>1, <2>2, <2>3, StatusesKept
<1>2. CASE DepositFunds(d)
  <2> DEFINE a == orders[d].account
             new == loaded[d].balance + orders[d].amount
             richer == [accounts[a] EXCEPT !.balance = new]
  <2>1. /\ a \in AccountIds /\ accounts[a] \in Account /\ new \in Int
        /\ accounts'[a] = richer
        /\ \A b \in AccountIds \ {a} : accounts'[b] = accounts[b]
    BY <1>2, DepositEffect
  <2>2. /\ richer.status = accounts[a].status /\ accounts[a] # NoRow
        /\ richer \in Account /\ richer # NoRow
    BY <2>1, NewBalance, NoRowAssumption
  <2> HIDE DEF a, richer
  <2>3. StatusesStay
    BY <2>1, <2>2 DEF StatusesStay, Exists
  <2>4. QED
    BY <1>2, <2>3, CommitLoadsNothing, StatusesKept
<1>3. CASE CreateAccount(d)
  <2> DEFINE row == [balance |-> orders[d].amount, status |-> "ACTIVE"]
  <2>1. row # NoRow
    BY <1>3, CreateEffect
  <2>2. PICK a \in AccountIds :
           /\ ~Exists(a) /\ Opening[a] = NoRow /\ accounts'[a] = row
           /\ \A b \in AccountIds \ {a} : accounts'[b] = accounts[b]
    BY <1>3, CreateEffect
  <2>3. StatusesStay
    BY <2>1, <2>2 DEF StatusesStay, Exists
  <2>4. QED
    BY <1>3, <2>3, CommitLoadsNothing, StatusesKept
<1>4. CASE UpdateAccountStatus(d)
  BY <1>4, ChangeExplained
<1>5. QED
  BY <1>1, <1>2, <1>3, <1>4 DEF Write

\* A step that leaves all orders where they are and changes no status keeps it too.
LEMMA OthersStatus ==
    ASSUME OrderInv, StatusInv, UNCHANGED orderVars,
           audit' \cap Orders = audit \cap Orders, StatusesStay
    PROVE  StatusInv'
<1>1. ChangesStay /\ LoadsAreFresh /\ orders' = orders
  BY DEF orderVars, ChangesStay, LoadsAreFresh
<1>2. QED
  BY <1>1, StatusesKept

\* Before any request every account has its opening status.
LEMMA StatusInit ==
    ASSUME accounts = Opening, audit = {}, \A d \in Orders : step[d] = "idle"
    PROVE  StatusInv
<1>1. \A a \in AccountIds : ChangesOf(a) = {}
  BY DEF ChangesOf
<1>2. QED
  BY <1>1 DEF StatusInv, AuditExplainsStatus, OpeningStatus, Exists
-----------------------------------------------------------------------------
(* The routes by themselves. *)

\* Everything the routes keep.
AccountInv ==
    /\ OrderInv
    /\ ReplayInv
    /\ OrderTrail
    /\ StatusInv

\* Every step keeps the whole invariant.
LEMMA AccountNextInv == AccountInv /\ [OrderNext \/ AllAnswered]_accountVars => AccountInv'
<1> SUFFICES ASSUME AccountInv, [OrderNext \/ AllAnswered]_accountVars PROVE AccountInv'
  OBVIOUS
<1>1. ASSUME NEW d \in Orders, Arrival(d) \/ Write(d) \/ Crash(d) PROVE AccountInv'
  BY <1>1, OrderStepInv, OrderStepReplayInv, OrderStepTrail, OrderStepStatus DEF AccountInv
<1>2. CASE UNCHANGED accountVars
  <2>1. UNCHANGED dbVars /\ UNCHANGED orderVars
    BY <1>2 DEF accountVars
  <2>2. OrderInv'
    <3>1. DatabaseTypeOK' /\ TablesMove
      BY <2>1 DEF dbVars, AccountInv, OrderInv, DatabaseTypeOK, TablesMove
    <3>2. QED
      BY <2>1, <3>1, OthersKeepInv DEF AccountInv
  <2>3. /\ orders' = orders /\ ledger' = ledger /\ audit' = audit /\ accounts' = accounts
        /\ DatabaseTypeOK
    BY <2>1 DEF dbVars, orderVars, AccountInv, OrderInv
  <2>4. ReplayInv' /\ OrderTrail'
    BY <2>1, <2>3, OthersReplayInv, QuietTrail DEF AccountInv
  <2>5. StatusInv'
    <3>1. StatusesStay
      BY <2>3 DEF StatusesStay, Exists
    <3>2. QED
      BY <2>1, <2>3, <3>1, OthersStatus DEF AccountInv
  <2>6. QED
    BY <2>2, <2>4, <2>5 DEF AccountInv
<1>3. QED
  BY <1>1, <1>2 DEF OrderNext, AllAnswered

\* The routes keep their invariant.
THEOREM AccountInvHolds == AccountSpec => []AccountInv
<1>1. AccountInit => AccountInv
  <2> SUFFICES ASSUME AccountInit PROVE AccountInv
    OBVIOUS
  <2>1. /\ accounts = Opening /\ audit = {} /\ ledger = [a \in AccountIds |-> << >>]
        /\ OrdersInit /\ \A d \in Orders : step[d] = "idle"
    BY DEF AccountInit, DatabaseInit, OrdersInit
  <2>2. QED
    BY <2>1, OrderInit, ReplayInit, TrailInit, StatusInit DEF AccountInv
<1>2. QED
  BY <1>1, AccountNextInv, PTL DEF AccountSpec

\* Types are kept;
THEOREM OrdersTyped == AccountSpec => []OrdersTypeOK
<1>1. AccountInv => OrdersTypeOK
  BY DEF AccountInv, OrderInv
<1>2. QED
  BY <1>1, AccountInvHolds, PTL

\* money is booked with its whole trail or not at all;
THEOREM OrdersLeaveTrail == AccountSpec => []OrderTrail
BY AccountInvHolds, PTL DEF AccountInv

\* callers are told what happened to the money;
THEOREM OrdersAnsweredTruthfully == AccountSpec => []AnswersTruthful
<1>1. AccountInv => AnswersTruthful
  BY DEF AccountInv, ReplayInv
<1>2. QED
  BY <1>1, AccountInvHolds, PTL

\* an order that repeats one the client knows to have succeeded is not executed, by the
\* record that one left before it answered;
THEOREM RepeatsNotExecuted == AccountSpec => []RepeatNotExecuted
<1>1. AccountInv => RepeatNotExecuted
  BY DEF AccountInv, ReplayInv, EarlierReplayed, RepeatNotExecuted
<1>2. QED
  BY <1>1, AccountInvHolds, PTL

\* once its status was changed an account has a status an audited change gave it;
THEOREM StatusesAudited == AccountSpec => []AuditExplainsStatus
<1>1. AccountInv => AuditExplainsStatus
  BY DEF AccountInv, StatusInv
<1>2. QED
  BY <1>1, AccountInvHolds, PTL

\* and the balance of an account is the one its latest ledger entry states.
THEOREM OrdersLastEntry == AccountSpec => []LastEntryIsBalance
<1>1. AccountInv => LastEntryIsBalance
  BY DEF AccountInv, OrderInv
<1>2. QED
  BY <1>1, AccountInvHolds, PTL
=============================================================================
