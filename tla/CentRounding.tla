---------------------------- MODULE CentRounding ----------------------------
(***************************************************************************)
(* The arithmetic of execute_transfer (app/services/transfer_service.py)   *)
(* on amounts finer than a cent.  The schema accepts any positive decimal, *)
(* the function computes with it exactly, and the columns of               *)
(* app/models/domain.py are NUMERIC(12, 2): every value is rounded on its  *)
(* own when it is stored.  Columns count cents here, arguments mills, of   *)
(* which a cent has ten.  Transfers take one step, as in AtomicBank.       *)
(***************************************************************************)
EXTENDS Integers

CONSTANTS
    AccountIds,   \* ids of ACTIVE accounts
    Opening,      \* their balances, in cents
    Amounts,      \* the amounts clients send, in mills
    MaxTransfers  \* bound on the number of transfers

VARIABLES
    balance,    \* the balance column, in cents
    transfers   \* how many transfers there have been

centVars == <<balance, transfers>>

\* What MySQL stores in a NUMERIC(12, 2) column: halves are rounded up.
Stored(mills) == (mills + 5) \div 10

CentInit == balance = Opening /\ transfers = 0

\* Steps 4 and 6: the funds are compared, and the new balances computed, in mills.  The
\* CHECK constraints are about stored values: an amount that rounds to nothing fails.
Execute(s, r, mills) ==
    /\ transfers < MaxTransfers
    /\ s # r
    /\ Stored(mills) > 0
    /\ 10 * balance[s] >= mills
    /\ balance' = [balance EXCEPT ![s] = Stored(10 * @ - mills), ![r] = Stored(10 * @ + mills)]
    /\ transfers' = transfers + 1

CentNext == \E s, r \in AccountIds, mills \in Amounts : Execute(s, r, mills)

CentSpec == CentInit /\ [][CentNext]_centVars
-----------------------------------------------------------------------------
\* One step moves money between two accounts, and adds a cent to the bank exactly when
\* the amount ends in half a cent; it never takes one away.
OnlyHalfCentsCreateMoney ==
    [][\E s, r \in AccountIds, mills \in Amounts :
          /\ s # r
          /\ balance'[s] + balance'[r] =
                 balance[s] + balance[r] + (IF mills % 10 = 5 THEN 1 ELSE 0)
          /\ \A a \in AccountIds \ {s, r} : balance'[a] = balance[a]]_centVars
=============================================================================
