------------------------- MODULE CentRoundingProofs -------------------------
(* How rounding to cents changes the money in the bank, for all balances and amounts. *)
EXTENDS CentRounding, TLAPS

\* Rounding the two new balances apart adds a cent when, and only when, both are halves.
LEMMA RoundingOfTransfer ==
    ASSUME NEW x \in Int, NEW y \in Int, NEW mills \in Int
    PROVE  Stored(10 * x - mills) + Stored(10 * y + mills) =
               x + y + (IF mills % 10 = 5 THEN 1 ELSE 0)
BY DEF Stored

\* For any accounts, balances and whole numbers of mills, a transfer leaves the money of
\* the bank alone or adds one cent.
THEOREM HalfCents ==
    ASSUME Opening \in [AccountIds -> Nat], Amounts \subseteq Nat
    PROVE  CentSpec => OnlyHalfCentsCreateMoney
<1> DEFINE Typed == balance \in [AccountIds -> Int]
           Moves == \E s, r \in AccountIds, mills \in Amounts :
                        /\ s # r
                        /\ balance'[s] + balance'[r] =
                               balance[s] + balance[r] + (IF mills % 10 = 5 THEN 1 ELSE 0)
                        /\ \A a \in AccountIds \ {s, r} : balance'[a] = balance[a]
<1>1. CentInit => Typed
  BY DEF CentInit
<1>2. Typed /\ [CentNext]_centVars => Typed' /\ [Moves]_centVars
  <2> SUFFICES ASSUME Typed, [CentNext]_centVars PROVE Typed' /\ [Moves]_centVars
    OBVIOUS
  <2>1. CASE UNCHANGED centVars
    BY <2>1 DEF centVars
  <2>2. CASE CentNext
    <3>1. PICK s \in AccountIds, r \in AccountIds, mills \in Amounts : Execute(s, r, mills)
      BY <2>2 DEF CentNext
    <3>2. mills \in Int /\ balance[s] \in Int /\ balance[r] \in Int
      OBVIOUS
    <3> DEFINE left == Stored(10 * balance[s] - mills)
               right == Stored(10 * balance[r] + mills)
    <3>3. left \in Int /\ right \in Int
      BY <3>2 DEF Stored
    <3>4. s # r /\ balance' = [balance EXCEPT ![s] = left, ![r] = right]
      BY <3>1 DEF Execute
    <3>5. left + right = balance[s] + balance[r] + (IF mills % 10 = 5 THEN 1 ELSE 0)
      BY <3>2, RoundingOfTransfer
    <3> HIDE DEF left, right
    <3>6. Typed'
      BY <3>3, <3>4
    <3>7. balance'[s] = left /\ balance'[r] = right
          /\ \A a \in AccountIds \ {s, r} : balance'[a] = balance[a]
      BY <3>4
    <3>8. Moves
      BY <3>4, <3>5, <3>7
    <3>9. QED
      BY <3>6, <3>8
  <2>3. QED
    BY <2>1, <2>2
<1>3. QED
  BY <1>1, <1>2, PTL DEF CentSpec, OnlyHalfCentsCreateMoney
=============================================================================
