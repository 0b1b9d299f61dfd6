----------------------------- MODULE MoneyProofs -----------------------------
(***************************************************************************)
(* Proofs about the money of the whole bank: transfers neither create nor  *)
(* destroy any, and the two sides of the ledger always agree.              *)
(*                                                                         *)
(* A sum over a finite set is a fold of the community modules; what it     *)
(* computes is shown without induction, on the smallest set for which it   *)
(* would be wrong.                                                         *)
(***************************************************************************)
EXTENDS TransferProofs, Reconciliation, FiniteSetTheorems

-----------------------------------------------------------------------------
(* Sums over finite sets. *)

\* The element that a fold over S takes first.
First(S) == CHOOSE x \in S : TRUE

\* g sums the values of f over every subset of S.
IsFold(g, f, S) ==
    g = [s \in SUBSET S |-> IF s = {} THEN 0 ELSE f[First(s)] + g[s \ {First(s)}]]

\* The sum of the community modules is the last value of such a function.
LEMMA SumIsFold ==
    ASSUME NEW f, NEW S
    PROVE  SumFunctionOnSet(f, S) = (CHOOSE g : IsFold(g, f, S))[S]
BY DEF SumFunctionOnSet, FoldFunctionOnSet, MapThenFoldSet, IsFold, First

\* Among subsets of a finite set there is a smallest one.
LEMMA MinimalSubset ==
    ASSUME NEW S, IsFiniteSet(S), NEW T \in SUBSET SUBSET S, T # {}
    PROVE  \E m \in T : \A t \in T : t \subseteq m => t = m
<1>1. IsWellFoundedOn(StrictSubsetOrdering(S), SUBSET S)
  BY FS_StrictSubsetOrderingWellFounded, FS_FiniteSubsetsOfFinite
<1>2. PICK m \in T : \A t \in T : ~(<<t, m>> \in StrictSubsetOrdering(S))
  BY <1>1, WFMin
<1>3. \A t \in T : t \subseteq m => t = m
  BY <1>2 DEF StrictSubsetOrdering
<1>4. QED
  BY <1>3

\* One step of a fold.
LEMMA FoldStep ==
    ASSUME NEW f, NEW S, NEW g, IsFold(g, f, S)
    PROVE  \A s \in SUBSET S : g[s] = IF s = {} THEN 0 ELSE f[First(s)] + g[s \ {First(s)}]
BY DEF IsFold

\* Two folds agree wherever both are defined.
LEMMA FoldsAgree ==
    ASSUME NEW f, NEW S, IsFiniteSet(S), NEW U, U \subseteq S, NEW g, NEW h,
           IsFold(g, f, S), IsFold(h, f, U)
    PROVE  \A s \in SUBSET U : g[s] = h[s]
<1> DEFINE Bad == {s \in SUBSET U : g[s] # h[s]}
<1> SUFFICES ASSUME Bad # {} PROVE FALSE
  OBVIOUS
<1>1. IsFiniteSet(U)
  BY FS_Subset
<1>0. Bad \in SUBSET SUBSET U
  OBVIOUS
<1>2. PICK m \in Bad : \A t \in Bad : t \subseteq m => t = m
  <2> HIDE DEF Bad
  <2> QED BY <1>0, <1>1, MinimalSubset
<1>8. /\ \A s \in SUBSET S : g[s] = IF s = {} THEN 0 ELSE f[First(s)] + g[s \ {First(s)}]
      /\ \A s \in SUBSET U : h[s] = IF s = {} THEN 0 ELSE f[First(s)] + h[s \ {First(s)}]
  <2> HIDE DEF Bad
  <2>1. \A s \in SUBSET S : g[s] = IF s = {} THEN 0 ELSE f[First(s)] + g[s \ {First(s)}]
    BY FoldStep
  <2>2. \A s \in SUBSET U : h[s] = IF s = {} THEN 0 ELSE f[First(s)] + h[s \ {First(s)}]
    BY FoldStep
  <2> QED BY <2>1, <2>2
<1>9. m \in SUBSET U /\ m \in SUBSET S /\ g[m] # h[m]
  BY <1>2
<1>3. m # {}
  BY <1>8, <1>9
<1>4. First(m) \in m
  BY <1>3 DEF First
<1>5. g[m \ {First(m)}] = h[m \ {First(m)}]
  BY <1>2, <1>4
<1>6. g[m] = f[First(m)] + g[m \ {First(m)}] /\ h[m] = f[First(m)] + h[m \ {First(m)}]
  BY <1>8, <1>9, <1>3
<1>7. QED
  BY <1>2, <1>5, <1>6

\* Over a finite set there is a fold.
LEMMA FoldExists == ASSUME NEW f, NEW S, IsFiniteSet(S) PROVE \E g : IsFold(g, f, S)
<1> DEFINE Bad == {s \in SUBSET S : ~ \E g : IsFold(g, f, s)}
<1> SUFFICES ASSUME Bad # {} PROVE FALSE
  OBVIOUS
<1>0. Bad \in SUBSET SUBSET S
  OBVIOUS
<1>1. PICK m \in Bad : \A t \in Bad : t \subseteq m => t = m
  <2> HIDE DEF Bad
  <2> QED BY <1>0, MinimalSubset
<1> DEFINE G(t) == CHOOSE g : IsFold(g, f, t)
           x == First(m)
           h == [t \in SUBSET m |->
                    IF t = {} THEN 0
                    ELSE f[First(t)] + G(t \ {First(t)})[t \ {First(t)}]]
<1>2. \A t \in SUBSET m : t # {} => First(t) \in t
  BY DEF First
<1>3. \A t \in SUBSET m : t # m => IsFold(G(t), f, t)
  <2> SUFFICES ASSUME NEW t \in SUBSET m, t # m PROVE IsFold(G(t), f, t)
    OBVIOUS
  <2>1. t \notin Bad
    BY <1>1
  <2>2. \E g : IsFold(g, f, t)
    BY <2>1, <1>1
  <2> QED BY <2>2
<1>4. ASSUME NEW t \in SUBSET m, t # {}
      PROVE  h[t \ {First(t)}] = G(t \ {First(t)})[t \ {First(t)}]
  <2> DEFINE u == t \ {First(t)}
  <2>1. u \in SUBSET m /\ u # m
    BY <1>2, <1>4
  <2>2. IsFold(G(u), f, u)
    BY <1>3, <2>1
  <2>3. CASE u = {}
    <3>1. h[u] = 0
      BY <2>1, <2>3
    <3>2. G(u)[u] = 0
      BY <2>2, <2>3, FoldStep
    <3> QED BY <3>1, <3>2
  <2>4. CASE u # {}
    <3> DEFINE v == u \ {First(u)}
    <3>1. First(u) \in u
      BY <1>2, <2>1, <2>4
    <3>2. v \in SUBSET u /\ v # m /\ v \in SUBSET m
      BY <2>1, <3>1
    <3>3. IsFold(G(v), f, v)
      BY <1>3, <3>2
    <3>4. IsFiniteSet(u)
      BY <2>1, <1>1, FS_Subset
    <3>5. G(u)[v] = G(v)[v]
      BY <2>2, <3>2, <3>3, <3>4, FoldsAgree
    <3>6. G(u)[u] = f[First(u)] + G(u)[v]
      <4> HIDE DEF G, h, Bad, u
      <4>1. \A s \in SUBSET u :
               G(u)[s] = IF s = {} THEN 0 ELSE f[First(s)] + G(u)[s \ {First(s)}]
        BY <2>2, FoldStep
      <4> QED BY <4>1, <2>4
    <3>7. h[u] = f[First(u)] + G(v)[v]
      BY <2>1, <2>4
    <3> QED BY <3>5, <3>6, <3>7
  <2> QED BY <2>3, <2>4
<1>5. \A t \in SUBSET m : h[t] = IF t = {} THEN 0 ELSE f[First(t)] + h[t \ {First(t)}]
  <2> SUFFICES ASSUME NEW t \in SUBSET m
               PROVE  h[t] = IF t = {} THEN 0 ELSE f[First(t)] + h[t \ {First(t)}]
    OBVIOUS
  <2>1. CASE t = {}
    BY <2>1
  <2>2. CASE t # {}
    <3>1. h[t] = f[First(t)] + G(t \ {First(t)})[t \ {First(t)}]
      BY <2>2
    <3>2. h[t \ {First(t)}] = G(t \ {First(t)})[t \ {First(t)}]
      BY <1>4, <2>2
    <3> HIDE DEF h, G, Bad
    <3> QED BY <3>1, <3>2, <2>2
  <2> QED BY <2>1, <2>2
<1>6. IsFold(h, f, m)
  <2>1. h = [t \in SUBSET m |-> h[t]]
    OBVIOUS
  <2> HIDE DEF h
  <2>2. h = [t \in SUBSET m |-> IF t = {} THEN 0 ELSE f[First(t)] + h[t \ {First(t)}]]
    BY <2>1, <1>5
  <2> QED BY <2>2 DEF IsFold
<1>7. QED
  BY <1>1, <1>6

\* Nothing sums to zero.
LEMMA SumEmpty == ASSUME NEW f PROVE SumFunctionOnSet(f, {}) = 0
<1> DEFINE g == CHOOSE k : IsFold(k, f, {})
<1>1. IsFold(g, f, {})
  BY FoldExists, FS_EmptySet
<1>2. g[{}] = 0
  <2> HIDE DEF g
  <2>1. \A s \in SUBSET {} : g[s] = IF s = {} THEN 0 ELSE f[First(s)] + g[s \ {First(s)}]
    BY <1>1, FoldStep
  <2> QED BY <2>1
<1>3. QED
  BY <1>2, SumIsFold

\* A sum is its first summand and the sum of the rest.
LEMMA SumFirst ==
    ASSUME NEW f, NEW S, IsFiniteSet(S), S # {}
    PROVE  /\ First(S) \in S
           /\ SumFunctionOnSet(f, S) = f[First(S)] + SumFunctionOnSet(f, S \ {First(S)})
<1> DEFINE U == S \ {First(S)}
           g == CHOOSE k : IsFold(k, f, S)
           h == CHOOSE k : IsFold(k, f, U)
<1>1. First(S) \in S
  BY DEF First
<1>2. U \subseteq S /\ IsFiniteSet(U)
  BY FS_Subset
<1>3. IsFold(g, f, S)
  BY FoldExists
<1>4. IsFold(h, f, U)
  BY <1>2, FoldExists
<1>5. SumFunctionOnSet(f, S) = g[S] /\ SumFunctionOnSet(f, U) = h[U]
  BY SumIsFold
<1> HIDE DEF g, h
<1>6. g[S] = f[First(S)] + g[U]
  <2>1. \A s \in SUBSET S : g[s] = IF s = {} THEN 0 ELSE f[First(s)] + g[s \ {First(s)}]
    BY <1>3, FoldStep
  <2> QED BY <2>1
<1>7. g[U] = h[U]
  <2> HIDE DEF U
  <2> QED BY <1>2, <1>3, <1>4, FoldsAgree
<1>8. QED
  BY <1>1, <1>5, <1>6, <1>7

\* A sum of integers is one.
LEMMA SumInt ==
    ASSUME NEW f, NEW S, IsFiniteSet(S), \A x \in S : f[x] \in Int
    PROVE  SumFunctionOnSet(f, S) \in Int
<1> DEFINE Bad == {s \in SUBSET S : SumFunctionOnSet(f, s) \notin Int}
<1> SUFFICES ASSUME Bad # {} PROVE FALSE
  OBVIOUS
<1>1. Bad \in SUBSET SUBSET S
  OBVIOUS
<1>2. PICK m \in Bad : \A t \in Bad : t \subseteq m => t = m
  <2> HIDE DEF Bad
  <2> QED BY <1>1, MinimalSubset
<1>3. m \in SUBSET S /\ IsFiniteSet(m) /\ SumFunctionOnSet(f, m) \notin Int
  BY <1>2, FS_Subset
<1>4. m # {}
  BY <1>3, SumEmpty
<1> DEFINE x == First(m)
           u == m \ {x}
<1>5. x \in m /\ SumFunctionOnSet(f, m) = f[x] + SumFunctionOnSet(f, u)
  BY <1>3, <1>4, SumFirst
<1>6. SumFunctionOnSet(f, u) \in Int
  BY <1>2, <1>3, <1>5
<1>7. f[x] \in Int
  BY <1>3, <1>5
<1>8. QED
  BY <1>3, <1>5, <1>6, <1>7

\* The value of a sum depends only on the summands.
LEMMA SumSame ==
    ASSUME NEW f, NEW g, NEW S, IsFiniteSet(S), \A x \in S : f[x] = g[x]
    PROVE  SumFunctionOnSet(f, S) = SumFunctionOnSet(g, S)
<1> DEFINE Bad == {s \in SUBSET S : SumFunctionOnSet(f, s) # SumFunctionOnSet(g, s)}
<1> SUFFICES ASSUME Bad # {} PROVE FALSE
  OBVIOUS
<1>1. Bad \in SUBSET SUBSET S
  OBVIOUS
<1>2. PICK m \in Bad : \A t \in Bad : t \subseteq m => t = m
  <2> HIDE DEF Bad
  <2> QED BY <1>1, MinimalSubset
<1>3. m \in SUBSET S /\ IsFiniteSet(m) /\ SumFunctionOnSet(f, m) # SumFunctionOnSet(g, m)
  BY <1>2, FS_Subset
<1>4. m # {}
  BY <1>3, SumEmpty
<1> DEFINE x == First(m)
           u == m \ {x}
<1>5. /\ x \in m
      /\ SumFunctionOnSet(f, m) = f[x] + SumFunctionOnSet(f, u)
      /\ SumFunctionOnSet(g, m) = g[x] + SumFunctionOnSet(g, u)
  BY <1>3, <1>4, SumFirst
<1>6. SumFunctionOnSet(f, u) = SumFunctionOnSet(g, u)
  BY <1>2, <1>3, <1>5
<1>7. f[x] = g[x]
  BY <1>3, <1>5
<1>8. QED
  BY <1>3, <1>5, <1>6, <1>7

\* The order does not matter: any element can be summed last.
LEMMA SumRemove ==
    ASSUME NEW f, NEW S, IsFiniteSet(S), \A x \in S : f[x] \in Int, NEW y \in S
    PROVE  SumFunctionOnSet(f, S) = f[y] + SumFunctionOnSet(f, S \ {y})
<1> DEFINE Out(s, z) == SumFunctionOnSet(f, s) = f[z] + SumFunctionOnSet(f, s \ {z})
           Bad == {s \in SUBSET S : \E z \in s : ~Out(s, z)}
<1> SUFFICES ASSUME Bad # {} PROVE FALSE
  OBVIOUS
<1>1. Bad \in SUBSET SUBSET S
  OBVIOUS
<1>2. PICK m \in Bad : \A t \in Bad : t \subseteq m => t = m
  <2> HIDE DEF Bad
  <2> QED BY <1>1, MinimalSubset
<1>3. PICK z \in m : ~Out(m, z)
  BY <1>2
<1>4. m \in SUBSET S /\ IsFiniteSet(m) /\ m # {}
  BY <1>2, <1>3, FS_Subset
<1> DEFINE x == First(m)
<1>5. x \in m /\ Out(m, x)
  BY <1>4, SumFirst
<1>6. x # z
  BY <1>3, <1>5
<1>7. Out(m \ {x}, z) /\ Out(m \ {z}, x)
  <2>1. m \ {x} \notin Bad /\ m \ {z} \notin Bad
    <3> HIDE DEF Bad
    <3> QED BY <1>2, <1>3, <1>5
  <2>2. m \ {x} \in SUBSET S /\ m \ {z} \in SUBSET S /\ z \in m \ {x} /\ x \in m \ {z}
    BY <1>3, <1>4, <1>5, <1>6
  <2> HIDE DEF Out, x
  <2> QED BY <2>1, <2>2
<1>8. (m \ {x}) \ {z} = (m \ {z}) \ {x}
  OBVIOUS
<1> DEFINE rest == SumFunctionOnSet(f, (m \ {x}) \ {z})
<1>9. f[x] \in Int /\ f[z] \in Int /\ rest \in Int
  <2>1. (m \ {x}) \ {z} \in SUBSET S /\ IsFiniteSet((m \ {x}) \ {z})
    BY <1>4, FS_Subset
  <2>2. \A w \in (m \ {x}) \ {z} : f[w] \in Int
    BY <2>1
  <2>3. rest \in Int
    BY <2>1, <2>2, SumInt
  <2> QED BY <1>3, <1>4, <1>5, <2>3
<1>10. SumFunctionOnSet(f, m) = f[x] + (f[z] + rest)
  BY <1>5, <1>7
<1>11. SumFunctionOnSet(f, m \ {z}) = f[x] + rest
  BY <1>7, <1>8
<1>12. Out(m, z)
  <2> HIDE DEF rest
  <2> QED BY <1>9, <1>10, <1>11
<1>13. QED
  BY <1>3, <1>12

\* An element that joins a sum adds its value.
LEMMA SumAdd ==
    ASSUME NEW f, NEW g, NEW S, IsFiniteSet(S), NEW y, y \notin S,
           \A x \in S : f[x] \in Int /\ g[x] = f[x], g[y] \in Int
    PROVE  SumFunctionOnSet(g, S \cup {y}) = SumFunctionOnSet(f, S) + g[y]
<1> DEFINE T == S \cup {y}
<1>1. IsFiniteSet(T)
  BY FS_AddElement
<1>2. \A x \in T : g[x] \in Int
  OBVIOUS
<1>3. T \ {y} = S /\ y \in T
  OBVIOUS
<1>4. SumFunctionOnSet(g, T) = g[y] + SumFunctionOnSet(g, T \ {y})
  <2> HIDE DEF T
  <2> QED BY <1>1, <1>2, <1>3, SumRemove
<1>5. SumFunctionOnSet(g, S) = SumFunctionOnSet(f, S)
  BY SumSame
<1>6. SumFunctionOnSet(f, S) \in Int
  BY SumInt
<1>7. SumFunctionOnSet(g, T) = g[y] + SumFunctionOnSet(f, S)
  <2> HIDE DEF T
  <2> QED BY <1>3, <1>4, <1>5
<1>8. QED
  BY <1>6, <1>7

\* What leaves one element for another leaves the sum as it was.
LEMMA SumMove ==
    ASSUME NEW f, NEW g, NEW S, IsFiniteSet(S), \A z \in S : f[z] \in Int,
           NEW x \in S, NEW y \in S, x # y, NEW k \in Int,
           g[x] = f[x] - k, g[y] = f[y] + k, \A z \in S \ {x, y} : g[z] = f[z]
    PROVE  SumFunctionOnSet(g, S) = SumFunctionOnSet(f, S)
<1> DEFINE T == S \ {x}
           U == T \ {y}
<1>1. IsFiniteSet(T) /\ IsFiniteSet(U) /\ y \in T
  BY FS_Subset
<1>2. \A z \in S : g[z] \in Int
  OBVIOUS
<1>3. /\ \A z \in T : f[z] \in Int /\ g[z] \in Int
      /\ \A z \in U : f[z] \in Int /\ g[z] = f[z]
  BY <1>2
<1>4. /\ SumFunctionOnSet(f, S) = f[x] + SumFunctionOnSet(f, T)
      /\ SumFunctionOnSet(g, S) = g[x] + SumFunctionOnSet(g, T)
  BY <1>2, SumRemove
<1>5. /\ SumFunctionOnSet(f, T) = f[y] + SumFunctionOnSet(f, U)
      /\ SumFunctionOnSet(g, T) = g[y] + SumFunctionOnSet(g, U)
  <2> HIDE DEF T
  <2> QED BY <1>1, <1>3, SumRemove
<1>6. SumFunctionOnSet(g, U) = SumFunctionOnSet(f, U) /\ SumFunctionOnSet(f, U) \in Int
  <2> HIDE DEF U
  <2> QED BY <1>1, <1>3, SumSame, SumInt
<1>7. QED
  BY <1>4, <1>5, <1>6

-----------------------------------------------------------------------------
(* The money in the accounts. *)

\* Only finitely many ids fit into the account_id column.
LEMMA FiniteIds == IsFiniteSet(AccountIds)
<1>1. IsFiniteSet(1..MaxId)
  BY IdsAssumption, FS_Interval
<1>2. QED
  BY <1>1, IdsAssumption, FS_Subset

\* The balances of the rows of a table add up to an integer.
LEMMA MoneyIsInt ==
    ASSUME NEW table \in [AccountIds -> Row]
    PROVE  TotalBalances(table) \in Int
<1> DEFINE D == {b \in AccountIds : table[b] # NoRow}
           f == [a \in D |-> table[a].balance]
<1>1. IsFiniteSet(D)
  BY FiniteIds, FS_Subset
<1>2. \A a \in D : f[a] \in Int
  BY DEF Row, Account
<1>3. TotalBalances(table) = SumFunctionOnSet(f, D)
  BY DEF TotalBalances, SumFunction
<1>4. QED
  <2> HIDE DEF D, f
  <2> QED BY <1>1, <1>2, <1>3, SumInt

\* Two tables with the same rows, whose balances differ by an amount that moved from
\* one row to another, or not at all, hold the same money.
LEMMA MoneyMoves ==
    ASSUME NEW old \in [AccountIds -> Row], NEW new \in [AccountIds -> Row],
           NEW s \in AccountIds, NEW t \in AccountIds, s # t, NEW k \in Int,
           old[s] # NoRow, old[t] # NoRow,
           \A a \in AccountIds : old[a] # NoRow <=> new[a] # NoRow,
           new[s].balance = old[s].balance - k, new[t].balance = old[t].balance + k,
           \A a \in AccountIds \ {s, t} : old[a] # NoRow => new[a].balance = old[a].balance
    PROVE  TotalBalances(new) = TotalBalances(old)
<1> DEFINE D == {b \in AccountIds : old[b] # NoRow}
           f == [a \in D |-> old[a].balance]
           g == [a \in D |-> new[a].balance]
<1>1. IsFiniteSet(D)
  BY FiniteIds, FS_Subset
<1>2. \A a \in D : f[a] \in Int
  BY DEF Row, Account
<1>3. D = {b \in AccountIds : new[b] # NoRow}
  OBVIOUS
<1>4. /\ TotalBalances(old) = SumFunctionOnSet(f, D)
      /\ TotalBalances(new) = SumFunctionOnSet(g, D)
  BY <1>3 DEF TotalBalances, SumFunction
<1>5. /\ s \in D /\ t \in D
      /\ g[s] = f[s] - k /\ g[t] = f[t] + k
      /\ \A a \in D \ {s, t} : g[a] = f[a]
  OBVIOUS
<1>6. QED
  <2> HIDE DEF D, f, g
  <2> QED BY <1>1, <1>2, <1>4, <1>5, SumMove

\* Two tables with the same rows and the same balances hold the same money.
LEMMA MoneyStays ==
    ASSUME NEW old \in [AccountIds -> Row], NEW new \in [AccountIds -> Row],
           \A a \in AccountIds : old[a] # NoRow <=> new[a] # NoRow,
           \A a \in AccountIds : old[a] # NoRow => new[a].balance = old[a].balance
    PROVE  TotalBalances(new) = TotalBalances(old)
<1> DEFINE D == {b \in AccountIds : old[b] # NoRow}
           f == [a \in D |-> old[a].balance]
           g == [a \in D |-> new[a].balance]
<1>1. D = {b \in AccountIds : new[b] # NoRow} /\ f = g
  OBVIOUS
<1>2. TotalBalances(old) = SumFunction(f) /\ TotalBalances(new) = SumFunction(g)
  BY <1>1 DEF TotalBalances
<1>3. QED
  BY <1>1, <1>2

\* No step of the transfers changes what the accounts hold together.
LEMMA MoneyStep ==
    ASSUME IndInv, [TransferNext]_transferVars
    PROVE  TotalBalances(accounts') = TotalBalances(accounts)
<1>1. IndInv'
  BY NextIndInv
<1>2. accounts \in [AccountIds -> Row] /\ accounts' \in [AccountIds -> Row]
  BY <1>1 DEF IndInv, TransferTypeOK, DatabaseTypeOK
<1>3. CASE \A r \in Requests : ~Commit(r)
  <2>1. \A a \in AccountIds :
           /\ accounts[a] # NoRow <=> accounts'[a] # NoRow
           /\ accounts[a] # NoRow => accounts'[a].balance = accounts[a].balance
    BY <1>3, OnlyCommits DEF Exists
  <2>2. QED
    BY <1>2, <2>1, MoneyStays
<1>4. ASSUME NEW r \in Requests, Commit(r)
      PROVE  TotalBalances(accounts') = TotalBalances(accounts)
  <2> DEFINE s == args[r].sender
             t == args[r].receiver
             k == args[r].amount
  <2>1. k \in Int
    BY <1>4, AtCommit DEF Commit
  <2>2. /\ s \in AccountIds /\ t \in AccountIds /\ s # t
        /\ accounts[s] \in Account /\ accounts[t] \in Account
        /\ accounts'[s] = [accounts[s] EXCEPT !.balance = accounts[s].balance - k]
        /\ accounts'[t] = [accounts[t] EXCEPT !.balance = accounts[t].balance + k]
        /\ \A a \in AccountIds \ {s, t} : accounts'[a] = accounts[a]
    BY <1>4, CommitLegs
  <2> HIDE DEF s, t, k
  <2>3. /\ accounts'[s] \in Account /\ accounts'[t] \in Account
        /\ accounts'[s].balance = accounts[s].balance - k
        /\ accounts'[t].balance = accounts[t].balance + k
    BY <2>1, <2>2 DEF Account
  <2>4. \A a \in AccountIds : accounts[a] # NoRow <=> accounts'[a] # NoRow
    BY <2>2, <2>3, NoRowAssumption
  <2>5. accounts[s] # NoRow /\ accounts[t] # NoRow
    BY <2>2, NoRowAssumption
  <2>6. \A a \in AccountIds \ {s, t} :
           accounts[a] # NoRow => accounts'[a].balance = accounts[a].balance
    BY <2>2
  <2>7. s \in AccountIds /\ t \in AccountIds /\ s # t
    BY <2>2
  <2>8. QED
    BY <1>2, <2>1, <2>3, <2>4, <2>5, <2>6, <2>7, MoneyMoves
<1>5. QED
  BY <1>3, <1>4

\* Transfers through execute_transfer, however they interleave and fail, leave in the
\* accounts together exactly what was there at the start.
THEOREM TransfersConserveMoney == TransferSpec => []Conservation
<1>1. TransferInit => Conservation
  BY DEF TransferInit, DatabaseInit, Conservation
<1>2. ASSUME IndInv, Conservation, [TransferNext]_transferVars PROVE Conservation'
  BY <1>2, MoneyStep DEF Conservation
<1>3. QED
  BY <1>1, <1>2, IndInvHolds, PTL DEF TransferSpec

-----------------------------------------------------------------------------
(* The money in the ledger. *)

\* AllEntries and BookedBy of a ledger that need not be the current one.
EntriesIn(L) == UNION {{a} \X (1..Len(L[a])) : a \in AccountIds}
Chosen(L, ids, type) ==
    {x \in EntriesIn(L) : L[x[1]][x[2]].type = type /\ L[x[1]][x[2]].tx \in ids}
Amounts(L, ids, type) == [e \in Chosen(L, ids, type) |-> L[e[1]][e[2]].amount]
Booked(L, ids, type) == SumFunctionOnSet(Amounts(L, ids, type), Chosen(L, ids, type))

\* An entry is the position of a row of an account's ledger.
LEMMA EntryPositions ==
    ASSUME NEW L, NEW x
    PROVE  x \in EntriesIn(L) <=>
               \E a \in AccountIds : \E i \in 1..Len(L[a]) : x = <<a, i>>
BY DEF EntriesIn

\* A ledger has finitely many entries.
LEMMA FiniteEntries ==
    ASSUME NEW L \in [AccountIds -> Seq(LedgerEntry)]
    PROVE  IsFiniteSet(EntriesIn(L))
<1> DEFINE Rows(a) == {a} \X (1..Len(L[a]))
           T == {Rows(a) : a \in AccountIds}
           f == [a \in AccountIds |-> Rows(a)]
<1>1. f \in Surjection(AccountIds, T)
  BY DEF Surjection
<1>2. IsFiniteSet(T)
  <2> HIDE DEF T, f
  <2> QED BY <1>1, FiniteIds, FS_Surjection
<1>3. ASSUME NEW a \in AccountIds PROVE IsFiniteSet(Rows(a))
  <2>1. Len(L[a]) \in Nat
    OBVIOUS
  <2>2. IsFiniteSet({a})
    BY FS_Singleton
  <2>3. IsFiniteSet(1..Len(L[a]))
    BY <2>1, FS_Interval
  <2>4. QED
    BY <2>2, <2>3, FS_Product
<1>4. \A R \in T : IsFiniteSet(R)
  BY <1>3
<1>5. EntriesIn(L) = UNION T
  BY DEF EntriesIn
<1>6. QED
  <2> HIDE DEF T
  <2> QED BY <1>2, <1>4, <1>5, FS_UNION

\* The amounts of finitely many entries are integers, and so is their sum.
LEMMA BookedType ==
    ASSUME NEW L \in [AccountIds -> Seq(LedgerEntry)], NEW ids, NEW type
    PROVE  /\ IsFiniteSet(Chosen(L, ids, type))
           /\ \A x \in Chosen(L, ids, type) : Amounts(L, ids, type)[x] \in Int
           /\ Booked(L, ids, type) \in Int
<1>1. IsFiniteSet(Chosen(L, ids, type))
  BY FiniteEntries, FS_Subset DEF Chosen
<1>2. ASSUME NEW x \in Chosen(L, ids, type) PROVE Amounts(L, ids, type)[x] \in Int
  <2>1. PICK a \in AccountIds : \E i \in 1..Len(L[a]) : x = <<a, i>>
    BY EntryPositions DEF Chosen
  <2>2. PICK i \in 1..Len(L[a]) : x = <<a, i>>
    BY <2>1
  <2>3. L[a][i] \in LedgerEntry
    OBVIOUS
  <2>4. Amounts(L, ids, type)[x] = L[a][i].amount
    BY <2>2 DEF Amounts
  <2>5. QED
    BY <2>3, <2>4 DEF LedgerEntry
<1>3. QED
  BY <1>1, <1>2, SumInt DEF Booked

\* M is the ledger L with entry e appended on account a.
Appended(M, L, a, e) ==
    /\ L \in [AccountIds -> Seq(LedgerEntry)]
    /\ M \in [AccountIds -> Seq(LedgerEntry)]
    /\ a \in AccountIds
    /\ e \in LedgerEntry
    /\ M[a] = Append(L[a], e)
    /\ \A b \in AccountIds : b # a => M[b] = L[b]

\* An entry at the end of one account's ledger adds its amount where it counts.
LEMMA BookedAppend ==
    ASSUME NEW L, NEW M, NEW a, NEW e, NEW ids, NEW type, Appended(M, L, a, e)
    PROVE  Booked(M, ids, type) =
               Booked(L, ids, type) + (IF e.type = type /\ e.tx \in ids THEN e.amount ELSE 0)
<1> DEFINE n == Len(L[a]) + 1
           y == <<a, n>>
           S == Chosen(L, ids, type)
           f == Amounts(L, ids, type)
           g == Amounts(M, ids, type)
<1>1. /\ L \in [AccountIds -> Seq(LedgerEntry)]
      /\ M \in [AccountIds -> Seq(LedgerEntry)]
      /\ a \in AccountIds
      /\ e \in LedgerEntry
      /\ M[a] = Append(L[a], e)
      /\ \A b \in AccountIds : b # a => M[b] = L[b]
  BY DEF Appended
<1>2. /\ Len(L[a]) \in Nat /\ n \in Nat
      /\ Len(M[a]) = n
      /\ M[a][n] = e
      /\ \A i \in 1..Len(L[a]) : M[a][i] = L[a][i]
  BY <1>1
<1>3. y \notin EntriesIn(L)
  BY <1>2, EntryPositions
<1> HIDE DEF n
<1>4. ASSUME NEW b \in AccountIds
      PROVE  1..Len(M[b]) = 1..Len(L[b]) \cup (IF b = a THEN {n} ELSE {})
  <2>1. CASE b # a
    BY <2>1, <1>1
  <2>2. CASE b = a
    BY <2>2, <1>2 DEF n
  <2>3. QED
    BY <2>1, <2>2
<1>5. EntriesIn(M) = EntriesIn(L) \cup {y}
  <2>1. ASSUME NEW x PROVE x \in EntriesIn(M) <=> x \in EntriesIn(L) \/ x = y
    <3>1. x \in EntriesIn(M) <=> \E b \in AccountIds : \E i \in 1..Len(M[b]) : x = <<b, i>>
      BY EntryPositions
    <3>2. x \in EntriesIn(L) <=> \E b \in AccountIds : \E i \in 1..Len(L[b]) : x = <<b, i>>
      BY EntryPositions
    <3>3. QED
      BY <1>1, <3>1, <3>2, <1>4
  <2>2. QED
    BY <2>1
<1>6. ASSUME NEW x \in EntriesIn(L) PROVE M[x[1]][x[2]] = L[x[1]][x[2]]
  <2>1. PICK b \in AccountIds : \E i \in 1..Len(L[b]) : x = <<b, i>>
    BY EntryPositions
  <2>2. PICK i \in 1..Len(L[b]) : x = <<b, i>>
    BY <2>1
  <2>3. M[b][i] = L[b][i]
    BY <1>1, <1>2
  <2>4. QED
    BY <2>2, <2>3
<1>7. M[y[1]][y[2]] = e
  BY <1>2
<1>8. y \notin S
  BY <1>3 DEF Chosen
<1>9. e.amount \in Int
  BY <1>1 DEF LedgerEntry
<1>10. IsFiniteSet(S) /\ (\A x \in S : f[x] \in Int) /\ Booked(L, ids, type) \in Int
  BY <1>1, BookedType
<1>11. CASE e.type = type /\ e.tx \in ids
  <2>1. Chosen(M, ids, type) = S \cup {y}
    BY <1>5, <1>6, <1>7, <1>11 DEF Chosen
  <2>2. \A x \in S : g[x] = f[x]
    BY <1>6, <2>1 DEF Amounts, Chosen
  <2>3. g[y] = e.amount
    BY <1>7, <2>1 DEF Amounts
  <2>4. SumFunctionOnSet(g, S \cup {y}) = SumFunctionOnSet(f, S) + g[y]
    <3>1. (\A x \in S : f[x] \in Int /\ g[x] = f[x]) /\ g[y] \in Int
      BY <1>9, <1>10, <2>2, <2>3
    <3> HIDE DEF S, f, g, y
    <3>2. QED
      BY <1>8, <1>10, <3>1, SumAdd
  <2>5. Booked(M, ids, type) = Booked(L, ids, type) + e.amount
    BY <2>1, <2>3, <2>4 DEF Booked
  <2>6. QED
    BY <1>11, <2>5
<1>12. CASE ~(e.type = type /\ e.tx \in ids)
  <2>1. Chosen(M, ids, type) = S
    BY <1>5, <1>6, <1>7, <1>12 DEF Chosen
  <2>2. \A x \in S : g[x] = f[x]
    BY <1>6, <2>1 DEF Amounts, Chosen
  <2>3. SumFunctionOnSet(g, S) = SumFunctionOnSet(f, S)
    <3> HIDE DEF S, f, g, y
    <3> QED BY <1>10, <2>2, SumSame
  <2>4. Booked(M, ids, type) = Booked(L, ids, type)
    BY <2>1, <2>3 DEF Booked
  <2>5. QED
    BY <1>10, <1>12, <2>4
<1>13. QED
  BY <1>11, <1>12

\* An entry of somebody who is not counted changes nothing.
LEMMA BookedElsewhere ==
    ASSUME NEW L, NEW M, NEW a, NEW e, NEW ids, NEW type, Appended(M, L, a, e), e.tx \notin ids
    PROVE  Booked(M, ids, type) = Booked(L, ids, type)
<1>1. L \in [AccountIds -> Seq(LedgerEntry)]
  BY DEF Appended
<1>2. Booked(L, ids, type) \in Int
  BY <1>1, BookedType
<1>3. Booked(M, ids, type) =
          Booked(L, ids, type) + (IF e.type = type /\ e.tx \in ids THEN e.amount ELSE 0)
  BY BookedAppend
<1>4. QED
  BY <1>2, <1>3

\* A commit appends two entries, one after the other.
LEMMA LegsAppended ==
    ASSUME NEW L \in [AccountIds -> Seq(LedgerEntry)],
           NEW M \in [AccountIds -> Seq(LedgerEntry)],
           NEW s \in AccountIds, NEW t \in AccountIds, s # t,
           NEW d \in LedgerEntry, NEW c \in LedgerEntry,
           M[s] = Append(L[s], d), M[t] = Append(L[t], c),
           \A a \in AccountIds : a \notin {s, t} => M[a] = L[a]
    PROVE  \E H : Appended(H, L, s, d) /\ Appended(M, H, t, c)
<1> DEFINE H == [L EXCEPT ![s] = Append(L[s], d)]
<1>1. /\ H \in [AccountIds -> Seq(LedgerEntry)]
      /\ H[s] = Append(L[s], d)
      /\ \A a \in AccountIds : a # s => H[a] = L[a]
  OBVIOUS
<1> HIDE DEF H
<1>2. Appended(H, L, s, d)
  BY <1>1 DEF Appended
<1>3. M[t] = Append(H[t], c) /\ \A a \in AccountIds : a # t => M[a] = H[a]
  BY <1>1
<1>4. Appended(M, H, t, c)
  BY <1>1, <1>3 DEF Appended
<1>5. QED
  BY <1>2, <1>4

\* A DEBIT and a CREDIT of one amount add it to both sides of the ledger, whichever
\* transfers are counted, if theirs is among them.
LEMMA BothSides ==
    ASSUME NEW L, NEW H, NEW M, NEW s, NEW t, NEW d, NEW c, NEW ids,
           Appended(H, L, s, d), Appended(M, H, t, c),
           d.type = "DEBIT", c.type = "CREDIT", d.amount = c.amount,
           d.tx \in ids, c.tx \in ids
    PROVE  /\ Booked(M, ids, "DEBIT") = Booked(L, ids, "DEBIT") + d.amount
           /\ Booked(M, ids, "CREDIT") = Booked(L, ids, "CREDIT") + d.amount
<1>1. /\ L \in [AccountIds -> Seq(LedgerEntry)] /\ H \in [AccountIds -> Seq(LedgerEntry)]
      /\ d.amount \in Int
  BY DEF Appended, LedgerEntry
<1>2. ASSUME NEW type
      PROVE  /\ Booked(L, ids, type) \in Int
             /\ Booked(H, ids, type) =
                   Booked(L, ids, type) + (IF d.type = type /\ d.tx \in ids THEN d.amount ELSE 0)
             /\ Booked(M, ids, type) =
                   Booked(H, ids, type) + (IF c.type = type /\ c.tx \in ids THEN c.amount ELSE 0)
  <2>1. Booked(L, ids, type) \in Int
    BY <1>1, BookedType
  <2>2. Booked(H, ids, type) =
            Booked(L, ids, type) + (IF d.type = type /\ d.tx \in ids THEN d.amount ELSE 0)
    BY BookedAppend
  <2>3. Booked(M, ids, type) =
            Booked(H, ids, type) + (IF c.type = type /\ c.tx \in ids THEN c.amount ELSE 0)
    BY BookedAppend
  <2>4. QED
    BY <2>1, <2>2, <2>3
<1>3. QED
  BY <1>1, <1>2

\* What the report sums is what is booked in the current ledger.
LEMMA BookedNow ==
    ASSUME NEW ids, NEW type
    PROVE  /\ BookedBy(ids, type) = Booked(ledger, ids, type)
           /\ BookedBy(ids, type)' = Booked(ledger', ids, type)
<1>1. BookedBy(ids, type) = Booked(ledger, ids, type)
  BY DEF BookedBy, Booked, Amounts, Chosen, AllEntries, EntriesIn, EntryAt, SumFunction
<1>2. BookedBy(ids, type)' = Booked(ledger', ids, type)
  BY DEF BookedBy, Booked, Amounts, Chosen, AllEntries, EntriesIn, EntryAt, SumFunction
<1>3. QED
  BY <1>1, <1>2

\* An empty ledger has nothing booked.
LEMMA NothingBooked ==
    ASSUME NEW L, \A a \in AccountIds : L[a] = << >>, NEW ids, NEW type
    PROVE  Booked(L, ids, type) = 0
<1>1. Chosen(L, ids, type) = {}
  BY EntryPositions DEF Chosen
<1>2. QED
  BY <1>1, SumEmpty DEF Booked

\* A step of the transfers keeps both sides of the ledger equal.
LEMMA BooksStep ==
    ASSUME IndInv, [TransferNext]_transferVars,
           NEW ids, Requests \subseteq ids, BookedBy(ids, "DEBIT") = BookedBy(ids, "CREDIT")
    PROVE  BookedBy(ids, "DEBIT")' = BookedBy(ids, "CREDIT")'
<1>1. /\ BookedBy(ids, "DEBIT")' = Booked(ledger', ids, "DEBIT")
      /\ BookedBy(ids, "CREDIT")' = Booked(ledger', ids, "CREDIT")
  BY BookedNow
<1>2. Booked(ledger, ids, "DEBIT") = Booked(ledger, ids, "CREDIT")
  BY BookedNow
<1>3. CASE \A r \in Requests : ~Commit(r)
  <2>1. ledger' = ledger
    BY <1>3, OnlyCommits
  <2>2. QED
    BY <1>1, <1>2, <2>1
<1>4. ASSUME NEW r \in Requests, Commit(r)
      PROVE  Booked(ledger', ids, "DEBIT") = Booked(ledger', ids, "CREDIT")
  <2> DEFINE s == args[r].sender
             t == args[r].receiver
             k == args[r].amount
             d == NewEntry(r, "DEBIT", k, accounts[s].balance - k)
             c == NewEntry(r, "CREDIT", k, accounts[t].balance + k)
  <2>1. /\ s \in AccountIds /\ t \in AccountIds /\ s # t
        /\ d \in LedgerEntry /\ c \in LedgerEntry
        /\ ledger'[s] = Append(ledger[s], d)
        /\ ledger'[t] = Append(ledger[t], c)
        /\ \A a \in AccountIds : a \notin {s, t} => ledger'[a] = ledger[a]
    BY <1>4, CommitLegs
  <2>2. /\ d.tx \in ids /\ d.type = "DEBIT" /\ d.amount = k
        /\ c.tx \in ids /\ c.type = "CREDIT" /\ c.amount = k
    BY DEF NewEntry
  <2>3. /\ ledger \in [AccountIds -> Seq(LedgerEntry)]
        /\ ledger' \in [AccountIds -> Seq(LedgerEntry)]
    BY NextIndInv DEF IndInv, TransferTypeOK, DatabaseTypeOK
  <2> HIDE DEF s, t, k, d, c
  <2>4. PICK H : Appended(H, ledger, s, d) /\ Appended(ledger', H, t, c)
    BY <2>1, <2>3, LegsAppended
  <2>5. /\ Booked(ledger', ids, "DEBIT") = Booked(ledger, ids, "DEBIT") + d.amount
        /\ Booked(ledger', ids, "CREDIT") = Booked(ledger, ids, "CREDIT") + d.amount
    BY <2>2, <2>4, BothSides
  <2>6. QED
    BY <1>2, <2>5
<1>5. QED
  BY <1>1, <1>3, <1>4

\* Both sides of the ledger of the transfers are equal.
THEOREM SidesEqual == TransferSpec => [](Total("DEBIT") = Total("CREDIT"))
<1> DEFINE Equal == Total("DEBIT") = Total("CREDIT")
<1>1. TransferInit => Equal
  BY BookedNow, NothingBooked DEF TransferInit, DatabaseInit, Total
<1>2. ASSUME IndInv, Equal, [TransferNext]_transferVars PROVE Equal'
  BY <1>2, BooksStep DEF Total
<1> HIDE DEF Equal
<1>3. TransferSpec => []Equal
  BY <1>1, <1>2, IndInvHolds, PTL DEF TransferSpec
<1>4. QED
  BY <1>3 DEF Equal

\* As long as nothing but transfers writes to the accounts, balances and ledger agree
\* over the whole bank.
THEOREM BooksOfTransfers == TransferSpec => []BooksBalance
<1>1. ASSUME Conservation, Total("DEBIT") = Total("CREDIT"), IndInv PROVE BooksBalance
  <2>1. TotalBalances(Opening) \in Int
    BY MoneyIsInt, OpeningAssumption
  <2>2. ledger \in [AccountIds -> Seq(LedgerEntry)]
    BY <1>1 DEF IndInv, TransferTypeOK, DatabaseTypeOK
  <2>3. Total("DEBIT") \in Int /\ Total("CREDIT") \in Int
    BY <2>2, BookedNow, BookedType DEF Total
  <2>4. QED
    BY <1>1, <2>1, <2>3 DEF Conservation, BooksBalance
<1>2. QED
  BY <1>1, TransfersConserveMoney, SidesEqual, IndInvHolds, PTL
==============================================================================
