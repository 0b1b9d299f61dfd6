-------------------------- MODULE MCAccountRoutes --------------------------
(* Constants of the AccountRoutes run. *)
EXTENDS AccountRoutes, TLC

CONSTANTS d1, d2, d3, k1, empty

Order(kind, a, m, s, k) ==
    [kind |-> kind, account |-> a, amount |-> m, status |-> s, key |-> k]
Deposit(a, m, k) == Order("deposit_funds", a, m, "ACTIVE", k)
Creation(m, k) == Order("create_account", 1, m, "ACTIVE", k)
Status(a, s) == Order("update_account_status", a, 0, s, NoKey)

\* An ACTIVE account, a FROZEN one and two free ids.
MCOpening ==
    [a \in AccountIds |->
        CASE a = 1 -> [balance |-> 1, status |-> "ACTIVE"]
          [] a = 2 -> [balance |-> 0, status |-> "FROZEN"]
          [] OTHER -> NoRow]

\* One key for three requests on two endpoints, the empty key, and no key; deposits
\* into an ACTIVE, a FROZEN and a free id; a status change and its reversal.
MCOrderCalls ==
    { Deposit(1, 1, k1), Deposit(1, 2, k1), Deposit(1, 1, empty), Deposit(1, 0, NoKey),
      Deposit(2, 1, k1), Deposit(3, 1, NoKey),
      Creation(1, k1), Creation(0, empty), Creation(-1, NoKey),
      Status(1, "FROZEN"), Status(1, "ACTIVE"), Status(2, "ACTIVE"), Status(4, "CLOSED") }

\* The shared key of the concurrent deposits of tests/test_idempotency.py.
SharedKeyDeposits == { Deposit(1, 1, k1), Deposit(1, 2, k1) }

Symmetry == Permutations(Orders)
=============================================================================
