------------------------- MODULE MCTransferService -------------------------
(* Constants of the TransferService runs. *)
EXTENDS TransferService, Reconciliation, TLC

CONSTANTS r1, r2, r3, k1, empty

\* Amounts of whole cents, and of some tenths of a cent more or less.
Finer(s, t, m, tenths, k) ==
    [sender |-> s, receiver |-> t, amount |-> m, residue |-> tenths, key |-> k]
Transfer(s, t, m, k) == Finer(s, t, m, 0, k)

\* Three ACTIVE accounts, and id 4 without a row.
MCOpening ==
    [a \in AccountIds |->
        IF a = 4 THEN NoRow
        ELSE [balance |-> IF a = 1 THEN 2 ELSE 1, status |-> "ACTIVE"]]

\* One key for overlapping calls, with equal and other parameters and amounts; the same
\* rows from both ends; the key that is false to Python; a receiver without a row.
CallList ==
    << Transfer(1, 2, 2, k1),
       Finer(1, 2, 1, 4, k1),
       Finer(2, 1, 2, -4, NoKey),
       Transfer(2, 3, 1, k1),
       Transfer(3, 1, 1, empty),
       Transfer(1, 4, 1, empty) >>

MCCalls == {CallList[i] : i \in DOMAIN CallList}

\* Account 1 is frozen and unfrozen; account 2 may be closed.
MCStatusChanges == {<<1, "FROZEN">>, <<1, "ACTIVE">>, <<2, "CLOSED">>}

\* Requests differ in their calls only, so the calls are handed out in one order.
Place(c) == CHOOSE i \in DOMAIN CallList : CallList[i] = c
CallsInOrder == Place(args[r1]) <= Place(args[r2]) /\ Place(args[r2]) <= Place(args[r3])

MCInit == TransferInit /\ CallsInOrder
MCSpec == MCInit /\ [][TransferNext]_transferVars /\ TransferFairness

\* For the runs without liveness.
Symmetry == Permutations(Requests)
=============================================================================
