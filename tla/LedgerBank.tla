----------------------------- MODULE LedgerBank -----------------------------
(***************************************************************************)
(* What the clients of the HTTP API can rely on although the routes read   *)
(* rows before they lock or write them: every transfer, deposit, opening   *)
(* and status change that takes place does so in one step, with its ledger *)
(* entries and its audit row, and what it may get wrong is bounded.  It    *)
(* may compute the balance of the account that the caller named as sender, *)
(* or of the one a deposit goes to, from any balance the account ever had; *)
(* the receiver of a transfer is credited on the balance it really has.    *)
(***************************************************************************)
EXTENDS BankTables

CONSTANT OrderCalls

VARIABLES
    accounts,  \* the accounts table
    ledger,    \* the entries of each account
    audit,     \* the transfers and orders that took place
    calls,     \* what each transfer asks for
    orders     \* what each order asks for

booksVars == <<accounts, ledger, audit, calls, orders>>

BooksInit ==
    /\ accounts = Opening
    /\ ledger = [a \in AccountIds |-> << >>]
    /\ audit = {}
    /\ calls \in [Requests -> Calls]
    /\ orders \in [Orders -> OrderCalls]

\* The balances account a has had, and whether it has ever been ACTIVE.
Had(a) == {OpeningBalance(a)} \cup {ledger[a][i].balanceAfter : i \in 1..Len(ledger[a])}

WasActive(a) ==
    \/ Opening[a] = NoRow
    \/ Opening[a].status = "ACTIVE"
    \/ \E d \in audit \cap Orders :
          /\ orders[d].kind = "update_account_status"
          /\ orders[d].account = a
          /\ orders[d].status = "ACTIVE"

KeyUnused(k) == k = NoKey \/ \A q \in audit \cap Requests : calls[q].key # k

\* Whatever takes place does so once.
Once(id) ==
    /\ id \notin audit
    /\ audit' = audit \cup {id}
    /\ UNCHANGED <<calls, orders>>

Transfer(r) ==
    LET c == calls[r]
        credited == accounts[c.receiver].balance + c.amount
    IN  /\ Once(r)
        /\ KeyUnused(c.key)
        /\ c.sender # c.receiver /\ c.amount > 0
        /\ accounts[c.sender] # NoRow /\ accounts[c.receiver] # NoRow
        /\ WasActive(c.sender) /\ accounts[c.receiver].status = "ACTIVE"
        /\ \E old \in Had(c.sender) :
              /\ 10 * old >= Asked(c)
              /\ accounts' = [accounts EXCEPT ![c.sender].balance = old - c.amount,
                                              ![c.receiver].balance = credited]
              /\ ledger' = [ledger EXCEPT
                    ![c.sender] = Append(@, NewEntry(r, "DEBIT", c.amount, old - c.amount)),
                    ![c.receiver] = Append(@, NewEntry(r, "CREDIT", c.amount, credited))]

Deposit(d) ==
    LET c == orders[d]
    IN  /\ Once(d)
        /\ c.kind = "deposit_funds" /\ c.amount > 0
        /\ accounts[c.account] # NoRow /\ WasActive(c.account)
        /\ \E old \in Had(c.account) :
              /\ accounts' = [accounts EXCEPT ![c.account].balance = old + c.amount]
              /\ ledger' = [ledger EXCEPT ![c.account] =
                               Append(@, NewEntry(d, "CREDIT", c.amount, old + c.amount))]

Open(d) ==
    LET m == orders[d].amount
    IN  /\ Once(d)
        /\ orders[d].kind = "create_account" /\ m >= 0
        /\ \E a \in AccountIds :
              /\ accounts[a] = NoRow
              /\ accounts' = [accounts EXCEPT ![a] = [balance |-> m, status |-> "ACTIVE"]]
              /\ ledger' = IF m > 0
                           THEN [ledger EXCEPT ![a] = Append(@, NewEntry(d, "CREDIT", m, m))]
                           ELSE ledger

\* The status may be left as it is: it was the new one when the order looked.
ChangeStatus(d) ==
    LET c == orders[d]
    IN  /\ Once(d)
        /\ c.kind = "update_account_status"
        /\ accounts[c.account] # NoRow
        /\ accounts' \in {accounts, [accounts EXCEPT ![c.account].status = c.status]}
        /\ UNCHANGED ledger

BooksNext ==
    \/ \E r \in Requests : Transfer(r)
    \/ \E d \in Orders : Deposit(d) \/ Open(d) \/ ChangeStatus(d)

BooksSpec == BooksInit /\ [][BooksNext]_booksVars
=============================================================================
