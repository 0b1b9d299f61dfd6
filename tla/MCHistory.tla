----------------------------- MODULE MCHistory -----------------------------
(* Constants of the History run. *)
EXTENDS History, TLC

CONSTANTS r1, r2, r3, u1

Transfer(s, t, m) ==
    [sender |-> s, receiver |-> t, amount |-> m, residue |-> 0, key |-> NoKey]

MCOpening == [a \in AccountIds |-> [balance |-> 2, status |-> "ACTIVE"]]

\* Transfers that wait for one another, and transfers that overlap freely, so that one
\* may be created first and committed last.
MCCalls == { Transfer(1, 2, 1), Transfer(3, 4, 1) }

Ask(admin, own, account, type, perPage) ==
    [admin |-> admin, own |-> own, account |-> account, type |-> type, perPage |-> perPage]

\* Pages of one and two rows over all transfers, over those of one account, an
\* account of somebody else, a user without accounts, and an empty page size.
MCQueries ==
    { Ask(TRUE, {}, NoAccount, "SENT", 1),
      Ask(FALSE, {1, 2, 4}, NoAccount, "RECEIVED", 2),
      Ask(FALSE, {1, 3}, 1, "ALL", 1),
      Ask(FALSE, {1, 3}, 2, "ALL", 1),
      Ask(FALSE, {}, NoAccount, "ALL", 1),
      Ask(TRUE, {}, 1, "ALL", 0) }

\* A period that ends before the clock does, and all of it.
MCStatements ==
    { [account |-> 1, from |-> 0, to |-> 1],
      [account |-> 2, from |-> NoDate, to |-> NoDate] }

Symmetry == Permutations(Requests)
=============================================================================
