--------------------------- MODULE MCCentRounding ---------------------------
(* Constants of the CentRounding run. *)
EXTENDS CentRounding, FiniteSetsExt

\* Two accounts with a dollar and with half a dollar.
MCOpening == [a \in AccountIds |-> IF a = 1 THEN 100 ELSE 50]

Total(table) == MapThenSumSet(LAMBDA a : table[a], AccountIds)

\* "The sum of balances before equals the sum of balances after" (README.md, Concurrency
\* Test Suite): no transfer creates or destroys money.
MoneyConserved == Total(balance) = Total(Opening)
=============================================================================
