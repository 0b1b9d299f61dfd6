----------------------------- MODULE AtomicBank -----------------------------
(***************************************************************************)
(* What execute_transfer promises in its docstring, with every transfer in *)
(* one step: money moves between two existing ACTIVE accounts, only when   *)
(* the sender has it, at most once per idempotency key, and nothing but a  *)
(* transfer changes a balance.  An administrator may change a status.      *)
(***************************************************************************)
EXTENDS BankTables

VARIABLES
    accounts,   \* the accounts table
    calls,      \* what each request asks for
    done        \* the requests whose transfer took place

bankVars == <<accounts, calls, done>>

BankInit ==
    /\ accounts = Opening
    /\ calls \in [Requests -> Calls]
    /\ done = {}

KeyUnused(k) == k = NoKey \/ \A q \in done : calls[q].key # k

Allowed(c) ==
    /\ c.sender # c.receiver
    /\ c.amount > 0
    /\ \A a \in {c.sender, c.receiver} :
          accounts[a] # NoRow /\ accounts[a].status = "ACTIVE"
    /\ 10 * accounts[c.sender].balance >= Asked(c)

Transfer(r) ==
    LET c == calls[r]
    IN  /\ r \notin done
        /\ Allowed(c)
        /\ KeyUnused(c.key)
        /\ accounts' = [accounts EXCEPT ![c.sender].balance = @ - c.amount,
                                        ![c.receiver].balance = @ + c.amount]
        /\ done' = done \cup {r}
        /\ UNCHANGED calls

ChangeStatus(a, s) ==
    /\ accounts[a] # NoRow
    /\ accounts' = [accounts EXCEPT ![a].status = s]
    /\ UNCHANGED <<calls, done>>

BankNext ==
    \/ \E r \in Requests : Transfer(r)
    \/ \E a \in AccountIds, s \in AccountStatus : ChangeStatus(a, s)

BankSpec == BankInit /\ [][BankNext]_bankVars
=============================================================================
