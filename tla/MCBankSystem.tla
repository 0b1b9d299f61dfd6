---------------------------- MODULE MCBankSystem ----------------------------
(* Constants of the BankSystem runs. *)
EXTENDS BankSystem, TLC

CONSTANTS r1, r2, d1, d2, k1, empty

Finer(s, t, m, tenths, k) ==
    [sender |-> s, receiver |-> t, amount |-> m, residue |-> tenths, key |-> k]
Transfer(s, t, m, k) == Finer(s, t, m, 0, k)
Order(kind, a, m, s, k) ==
    [kind |-> kind, account |-> a, amount |-> m, status |-> s, key |-> k]
Deposit(a, m, k) == Order("deposit_funds", a, m, "ACTIVE", k)

\* Two ACTIVE accounts; the other ids are free for new ones.
MCOpening ==
    [a \in AccountIds |->
        IF a > 2 THEN NoRow ELSE [balance |-> 2, status |-> "ACTIVE"]]

\* Opposite directions over the same rows, a repeated key, the new account as receiver.
CallList ==
    << Transfer(1, 2, 2, k1),
       Finer(2, 1, 1, 4, k1),
       Transfer(2, 3, 2, NoKey) >>

MCCalls == {CallList[i] : i \in DOMAIN CallList}

\* A deposit on a contended row, the freezing of the other, an account opened meanwhile.
OrderList ==
    << Deposit(1, 1, k1),
       Order("update_account_status", 2, 0, "FROZEN", NoKey),
       Order("create_account", 1, 1, "ACTIVE", k1) >>

MCOrderCalls == {OrderList[i] : i \in DOMAIN OrderList}

\* Requests and orders differ in their calls only, so these are handed out in one order.
\* Two orders of one kind are two deposits; the other pairs are left to AccountRoutes.
Place(c) == CHOOSE i \in DOMAIN CallList : CallList[i] = c
OrderPlace(c) == CHOOSE i \in DOMAIN OrderList : OrderList[i] = c
CallsInOrder ==
    /\ Place(args[r1]) <= Place(args[r2])
    /\ \/ OrderPlace(orders[d1]) < OrderPlace(orders[d2])
       \/ orders[d1].kind = "deposit_funds" /\ orders[d1] = orders[d2]

MCInit == SystemInit /\ CallsInOrder
MCSpec == MCInit /\ [][SystemNext]_bankVars /\ SystemFairness

\* For the runs without liveness.
Symmetry == Permutations(Requests) \cup Permutations(Orders)
=============================================================================
