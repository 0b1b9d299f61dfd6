--------------------------- MODULE HistoryProofs ---------------------------
(***************************************************************************)
(* Why a statement stays true: rows become visible at the commit but carry *)
(* the time of the flush, and no later statement of the same account and   *)
(* period has a row in between, because the row locks are held from the    *)
(* one until the other.  Why it agrees with the ledger.  And why whoever   *)
(* turns the pages of a history misses nothing, although new transfers     *)
(* push the old ones from page to page.                                    *)
(***************************************************************************)
EXTENDS RouteProofs, History, FiniteSetTheorems

\* The part of HistoryInv that PapersStayTrue rests on.
PaperInv ==
    /\ RouteInv
    /\ now \in Nat
    /\ created \in [Requests -> Nat]
    /\ papers \subseteq [download : Statements, rows : SUBSET (Requests \X LedgerEntryType)]
    /\ CreatedInOrder
    /\ PapersStayTrue

\* Before any request the invariant holds.
LEMMA PaperInit == HistoryInit => PaperInv
<1> SUFFICES ASSUME HistoryInit PROVE PaperInv
  OBVIOUS
<1>1. RouteInv
  BY RouteInit DEF HistoryInit
<1>2. CreatedInOrder
  BY DEF HistoryInit, CreatedInOrder, TransferInit, DatabaseInit
<1>3. PapersStayTrue
  BY DEF HistoryInit, PapersStayTrue
<1>4. QED
  BY <1>1, <1>2, <1>3 DEF HistoryInit, PaperInv

\* Two requests that have both flushed their rows have no account in common.
LEMMA PendingAreApart ==
    ASSUME RouteInv, NEW q \in Requests, NEW r \in Requests, q # r,
           pc[q] = "commit", pc[r] = "commit"
    PROVE  Parties(q, "ALL") \cap Parties(r, "ALL") = {}
<1>1. {args[q].sender, args[q].receiver} \subseteq held[q]
  BY AtRouteCommit
<1>2. {args[r].sender, args[r].receiver} \subseteq held[r]
  BY AtRouteCommit
<1>3. held[q] \cap held[r] = {}
  BY DEF RouteInv, RowsExclusive
<1>4. QED
  BY <1>1, <1>2, <1>3 DEF Parties

\* A step of a request is a flush, a commit, or neither and then leaves the flushed and
\* committed rows of the others alone.
LEMMA WhatStepsDo ==
    ASSUME RouteInv, NEW r \in Requests, RouteStep(r)
    PROVE  /\ args' = args
           /\ \A q \in Requests \ {r} : transactions'[q] = transactions[q] /\ pc'[q] = pc[q]
           /\ \/ /\ pc'[r] = "commit"
                 /\ transactions[r] # "COMPLETED" /\ transactions'[r] = "PENDING"
              \/ /\ pc'[r] # "commit" /\ pc[r] = "commit"
                 /\ transactions[r] = "PENDING" /\ transactions'[r] = "COMPLETED"
              \/ /\ pc'[r] # "commit"
                 /\ transactions[r] # "COMPLETED" /\ transactions'[r] = "NONE"
<1>1. /\ pc \in [Requests -> Steps]
      /\ transactions \in [Requests -> TransactionStatus]
  BY DEF RouteInv, TransferTypeOK, DatabaseTypeOK
<1>2. /\ transactions[r] = "PENDING" <=> pc[r] = "commit"
      /\ transactions[r] = "COMPLETED" => pc[r] = "done"
  BY DEF RouteInv, FlushedIsValid
<1>3. CASE Flush(r)
  BY <1>1, <1>2, <1>3 DEF Flush
<1>4. CASE Commit(r)
  BY <1>1, <1>2, <1>4 DEF Commit, Return
<1>5. CASE Refuse(r) \/ DuplicateKey(r) \/ Abort(r)
  BY <1>1, <1>2, <1>5 DEF Refuse, DuplicateKey, Abort, Return, Rollback
<1>6. CASE LockFirst(r) \/ LockSecond(r)
  <2>1. /\ pc[r] \in {"lock1", "lock2"} /\ UNCHANGED <<transactions, args>>
        /\ \E s \in {"lock2", "validate"} : pc' = [pc EXCEPT ![r] = s]
    BY <1>6 DEF LockFirst, LockSecond, LockAccount
  <2>2. QED
    BY <1>1, <1>2, <2>1 DEF TransactionStatus
<1>7. CASE CreateTransfer(r)
  <2>1. /\ pc[r] = "idle" /\ UNCHANGED <<transactions, args>>
        /\ \E s \in {"lock1", "done"} : pc' = [pc EXCEPT ![r] = s]
    BY <1>7 DEF CreateTransfer, Enter, Return, dbVars
  <2>2. QED
    BY <1>1, <1>2, <2>1 DEF TransactionStatus
<1>8. QED
  BY <1>3, <1>4, <1>5, <1>6, <1>7 DEF RouteStep, Progress

\* The stamp of a committed row is final.
LEMMA StampOfCommitted ==
    ASSUME PaperInv, NEW r \in Requests, TransferStep(r)
    PROVE  /\ created' \in [Requests -> Nat]
           /\ created'[r] = IF pc'[r] = "commit" THEN now ELSE created[r]
           /\ \A q \in Requests \ {r} : created'[q] = created[q]
           /\ \A q \in Completed : created'[q] = created[q] /\ q \in Completed'
<1>1. created' = [created EXCEPT ![r] = IF pc'[r] = "commit" THEN now ELSE @]
  BY DEF TransferStep, Stamp
<1>2. /\ created \in [Requests -> Nat] /\ now \in Nat
  BY DEF PaperInv
<1>3. r \notin Completed
  BY WhatStepsDo DEF PaperInv, TransferStep, Completed
<1>4. \A q \in Requests \ {r} : transactions'[q] = transactions[q]
  BY WhatStepsDo DEF PaperInv, TransferStep
<1>5. \A q \in Completed : q \in Completed'
  BY <1>3, <1>4 DEF Completed
<1>6. QED
  BY <1>1, <1>2, <1>3, <1>5 DEF Completed

\* Of transfers that share an account the one in flight stays the latest.
LEMMA CreatedInOrderStep ==
    ASSUME PaperInv, NEW x \in Requests, TransferStep(x) PROVE CreatedInOrder'
<1>1. /\ now' = now /\ now \in Nat /\ created \in [Requests -> Nat]
      /\ RouteInv /\ RouteStep(x) /\ CreatedInOrder
  BY DEF TransferStep, PaperInv
<1>2. \A r \in Requests : created'[r] <= now'
  BY <1>1, StampOfCommitted DEF CreatedInOrder
<1>3. ASSUME NEW q \in Requests, NEW r \in Requests,
             transactions'[q] = "COMPLETED", transactions'[r] = "PENDING",
             Parties(q, "ALL")' \cap Parties(r, "ALL")' # {}
      PROVE  created'[q] <= created'[r]
  <2>1. Parties(q, "ALL") \cap Parties(r, "ALL") # {} /\ q # r
    BY <1>1, <1>3, WhatStepsDo DEF Parties
  <2>2. CASE r = x
    <3>1. created'[r] = now /\ created'[q] = created[q]
      BY <1>1, <1>3, <2>1, <2>2, WhatStepsDo, StampOfCommitted
    <3>2. QED
      BY <1>1, <3>1 DEF CreatedInOrder
  <2>3. CASE r # x /\ q = x
    <3>1. pc[x] = "commit" /\ transactions[r] = "PENDING"
      BY <1>1, <1>3, <2>3, WhatStepsDo DEF RouteInv, FlushedIsValid
    <3>2. pc[r] = "commit"
      BY <1>1, <3>1 DEF RouteInv, FlushedIsValid
    <3>3. QED
      BY <1>1, <2>1, <2>3, <3>1, <3>2, PendingAreApart
  <2>4. CASE r # x /\ q # x
    <3>1. transactions[q] = "COMPLETED" /\ transactions[r] = "PENDING"
      BY <1>1, <1>3, <2>4, WhatStepsDo
    <3>2. created'[q] = created[q] /\ created'[r] = created[r]
      BY <2>4, StampOfCommitted
    <3>3. QED
      BY <1>1, <2>1, <3>1, <3>2 DEF CreatedInOrder
  <2>5. QED
    BY <2>2, <2>3, <2>4
<1>4. QED
  BY <1>2, <1>3 DEF CreatedInOrder

\* A statement that is true stays true when a transfer makes a step.
LEMMA PapersStep ==
    ASSUME PaperInv, NEW x \in Requests, TransferStep(x) PROVE PapersStayTrue'
<1>1. /\ RouteInv /\ RouteStep(x) /\ CreatedInOrder /\ PapersStayTrue
      /\ papers' = papers /\ args' = args
  BY WhatStepsDo DEF TransferStep, PaperInv, readerVars
<1> SUFFICES ASSUME NEW p \in papers
             PROVE  LET rows == GetTransactions(p.download)'
                    IN  /\ RowsOf(p) \subseteq rows
                        /\ \A q \in RowsOf(p), r \in rows \ RowsOf(p) : created'[q] <= created'[r]
  BY <1>1 DEF PapersStayTrue, RowsOf
<1> DEFINE d == p.download
<1>2. /\ RowsOf(p) \subseteq GetTransactions(d)
      /\ \A q \in RowsOf(p), r \in GetTransactions(d) \ RowsOf(p) : created[q] <= created[r]
  BY <1>1 DEF PapersStayTrue
<1>3. \A q \in GetTransactions(d) : q \in GetTransactions(d)' /\ created'[q] = created[q]
  BY <1>1, StampOfCommitted DEF GetTransactions, Parties
<1>4. \A r \in GetTransactions(d)' :
          \/ r \in GetTransactions(d) /\ created'[r] = created[r]
          \/ /\ r = x /\ transactions[x] = "PENDING" /\ created'[x] = created[x]
             /\ d.account \in Parties(x, "ALL")
  <2> SUFFICES ASSUME NEW r \in GetTransactions(d)'
               PROVE  \/ r \in GetTransactions(d) /\ created'[r] = created[r]
                      \/ /\ r = x /\ transactions[x] = "PENDING" /\ created'[x] = created[x]
                         /\ d.account \in Parties(x, "ALL")
    OBVIOUS
  <2>1. /\ r \in Requests /\ transactions'[r] = "COMPLETED"
        /\ d.account \in Parties(r, "ALL")
        /\ d.from # NoDate => created'[r] >= d.from
        /\ d.to # NoDate => created'[r] <= d.to
    BY <1>1 DEF GetTransactions, Completed, Parties
  <2>2. CASE r = x
    BY <1>1, <2>1, <2>2, WhatStepsDo, StampOfCommitted
  <2>3. CASE r # x
    BY <1>1, <2>1, <2>3, WhatStepsDo, StampOfCommitted DEF GetTransactions, Completed
  <2>4. QED
    BY <2>2, <2>3
<1>5. \A q \in GetTransactions(d) :
          q \in Requests /\ transactions[q] = "COMPLETED" /\ d.account \in Parties(q, "ALL")
  BY DEF GetTransactions, Completed
<1>6. ASSUME NEW q \in RowsOf(p), NEW r \in GetTransactions(d)' \ RowsOf(p)
      PROVE  created'[q] <= created'[r]
  <2>1. q \in GetTransactions(d) /\ created'[q] = created[q]
    BY <1>2, <1>3
  <2>2. CASE r \in GetTransactions(d)
    BY <1>2, <1>3, <1>6, <2>1, <2>2
  <2>3. CASE r \notin GetTransactions(d)
    <3>1. /\ r = x /\ transactions[x] = "PENDING" /\ created'[x] = created[x]
          /\ d.account \in Parties(x, "ALL")
      BY <1>4, <2>3
    <3>2. created[q] <= created[x]
      BY <1>1, <1>5, <2>1, <3>1 DEF CreatedInOrder
    <3>3. QED
      BY <2>1, <3>1, <3>2
  <2>4. QED
    BY <2>2, <2>3
<1>7. QED
  BY <1>2, <1>3, <1>6

\* A step of a transfer keeps the invariant.
LEMMA PaperTransferStep ==
    ASSUME PaperInv, NEW x \in Requests, TransferStep(x) PROVE PaperInv'
<1>1. RouteInv'
  BY RouteStepInv DEF PaperInv, TransferStep
<1>2. now' = now /\ papers' = papers
  BY DEF TransferStep, readerVars
<1>3. created' \in [Requests -> Nat]
  BY StampOfCommitted
<1>4. QED
  BY <1>1, <1>2, <1>3, CreatedInOrderStep, PapersStep DEF PaperInv

\* Readers, the clock and steps of nobody change no transfer.  A new statement has all
\* rows of its moment.
LEMMA PaperReaderStep ==
    ASSUME PaperInv, UNCHANGED <<transferVars, created>>, now' \in Nat, now' >= now,
           \/ papers' = papers
           \/ \E d \in Statements : papers' = papers \cup
                 {[download |-> d,
                   rows |-> {<<r, TxDirection(r, d.account)>> : r \in GetTransactions(d)}]}
    PROVE  PaperInv'
<1>1. RouteInv'
  BY RouteStutter DEF PaperInv
<1>2. UNCHANGED <<transactions, args, created>>
  BY DEF transferVars, dbVars
<1>3. CreatedInOrder'
  <2>1. /\ now \in Nat /\ created \in [Requests -> Nat] /\ CreatedInOrder
    BY DEF PaperInv
  <2>2. QED
    BY <1>2, <2>1 DEF CreatedInOrder, Parties
<1>4. \A d : GetTransactions(d)' = GetTransactions(d)
  BY <1>2 DEF GetTransactions, Completed, Parties
<1>5. CASE papers' = papers
  <2>1. PapersStayTrue'
    BY <1>2, <1>4, <1>5 DEF PaperInv, PapersStayTrue, RowsOf
  <2>2. QED
    BY <1>1, <1>2, <1>3, <1>5, <2>1 DEF PaperInv
<1>6. ASSUME NEW d \in Statements,
             papers' = papers \cup
                 {[download |-> d,
                   rows |-> {<<r, TxDirection(r, d.account)>> : r \in GetTransactions(d)}]}
      PROVE  PaperInv'
  <2> DEFINE lines == {<<r, TxDirection(r, d.account)>> : r \in GetTransactions(d)}
             paper == [download |-> d, rows |-> lines]
  <2>1. RowsOf(paper) = GetTransactions(d)
    <3>1. \A r \in GetTransactions(d) : <<r, TxDirection(r, d.account)>>[1] = r
      OBVIOUS
    <3>2. RowsOf(paper) = {line[1] : line \in lines}
      BY DEF RowsOf
    <3>3. QED
      BY <3>1, <3>2
  <2>2. paper \in [download : Statements, rows : SUBSET (Requests \X LedgerEntryType)]
    BY DEF GetTransactions, Completed, TxDirection, LedgerEntryType
  <2>3. paper.download = d
    OBVIOUS
  <2>4. papers' = papers \cup {paper}
    BY <1>6
  <2> HIDE DEF paper
  <2>5. PapersStayTrue'
    <3>1. \A p \in papers' :
              /\ RowsOf(p) \subseteq GetTransactions(p.download)
              /\ \A q \in RowsOf(p), r \in GetTransactions(p.download) \ RowsOf(p) :
                     created[q] <= created[r]
      BY <2>1, <2>3, <2>4 DEF PaperInv, PapersStayTrue
    <3>2. QED
      BY <1>2, <1>4, <3>1 DEF PapersStayTrue, RowsOf
  <2>6. QED
    BY <1>1, <1>2, <1>3, <2>2, <2>4, <2>5 DEF PaperInv
<1>7. QED
  BY <1>5, <1>6

\* Every step keeps the invariant.
LEMMA PaperNextInv == PaperInv /\ [HistoryNext]_historyVars => PaperInv'
<1> SUFFICES ASSUME PaperInv, [HistoryNext]_historyVars PROVE PaperInv'
  OBVIOUS
<1>1. now \in Nat
  BY DEF PaperInv
<1>2. CASE \E r \in Requests : TransferStep(r)
  BY <1>2, PaperTransferStep
<1>3. CASE \E u \in Clients : GetTransactionHistory(u)
  <2>1. UNCHANGED <<transferVars, now, created, papers>>
    BY <1>3 DEF GetTransactionHistory
  <2>2. QED
    BY <1>1, <2>1, PaperReaderStep
<1>4. CASE \E d \in Statements : DownloadStatement(d)
  BY <1>1, <1>4, PaperReaderStep DEF DownloadStatement
<1>5. CASE Tick
  BY <1>1, <1>5, PaperReaderStep DEF Tick, readerVars
<1>6. CASE AllDone /\ UNCHANGED <<now, created, readerVars>>
  BY <1>1, <1>6, PaperReaderStep DEF AllDone, readerVars
<1>7. CASE UNCHANGED historyVars
  BY <1>1, <1>7, PaperReaderStep DEF historyVars, readerVars
<1>8. QED
  BY <1>2, <1>3, <1>4, <1>5, <1>6, <1>7 DEF HistoryNext
-----------------------------------------------------------------------------
(* Statements and the ledger, pages and the list they are cut from. *)

\* Each line of a statement names a completed transfer of the account and its direction.
LinesAreTrue ==
    \A p \in papers : \A row \in p.rows :
        /\ row[1] \in Completed
        /\ p.download.account \in Parties(row[1], "ALL")
        /\ row[2] = TxDirection(row[1], p.download.account)

\* The rows that query q lists before r, and r.
NotOlder(q, r) == {x \in Listed(q) : created[x] >= created[r]}

\* A row of the same second may take the place of r.
Tied(q, r) == \E x \in Listed(q) \ {r} : created[x] = created[r]

\* A row of the list that the first page was cut from has been shown, has a rival, or is
\* still to come: there are more pages, and at least as many rows before it as were on
\* the pages so far.
Accounted(u, r) ==
    LET v == view[u]
        q == query[u]
    IN  /\ r \in Listed(q)
        /\ \/ r \in v.shown
           \/ Tied(q, r)
           \/ v.page < v.pages /\ Cardinality(NotOlder(q, r)) > v.page * q.perPage

PagesInv ==
    \A u \in Clients :
        /\ view[u].page > 0 => query[u] \in Queries
        /\ view[u].answer = "open" /\ view[u].page > 0 =>
               \A r \in view[u].first : Accounted(u, r)

ReaderInv ==
    /\ PaperInv
    /\ HistoryTypeOK
    /\ PaperTrail
    /\ LinesAreTrue
    /\ IsFiniteSet(Completed)
    /\ PagesInv
-----------------------------------------------------------------------------
(* Counting pages and positions. *)

\* What does not fit on p pages of n needs more than p pages.
LEMMA CeilingCovers ==
    ASSUME NEW m \in Nat, NEW n \in Nat, NEW p \in Nat, n > 0
    PROVE  /\ TotalPages(m, n) \in Nat
           /\ m > p * n => TotalPages(m, n) > p
<1> DEFINE k == (m + n - 1) \div n
<1>1. /\ m + n - 1 \in Nat
      /\ (m + n - 1) % n \in 0..(n - 1)
  OBVIOUS
<1>2. k \in Nat /\ m + n - 1 = (n * k) + ((m + n - 1) % n)
  BY <1>1
<1>3. n * k >= m
  BY <1>1, <1>2
<1>4. m > p * n => k > p
  <2> SUFFICES ASSUME m > p * n, k <= p PROVE FALSE
    BY <1>2
  <2>1. k * n <= p * n
    BY <1>2
  <2>2. n * k = k * n
    BY <1>2
  <2>3. QED
    BY <1>2, <1>3, <2>1, <2>2
<1>5. p * n \in Nat /\ (m = 0 => ~(m > p * n))
  OBVIOUS
<1>6. QED
  BY <1>2, <1>4, <1>5 DEF TotalPages

\* A row without a rival is listed at the same position whenever the database is asked:
\* behind those created later.
LEMMA PositionInListing ==
    ASSUME NEW S, IsFiniteSet(S), created \in [Requests -> Nat], S \subseteq Requests,
           NEW s \in Listings(S), NEW r \in S,
           ~ \E x \in S \ {r} : created[x] = created[r]
    PROVE  \E i \in 1..Cardinality(S) :
              s[i] = r /\ Cardinality({x \in S : created[x] >= created[r]}) = i
<1> DEFINE N == Cardinality(S)
           T == {x \in S : created[x] >= created[r]}
<1>1. /\ s \in [1..N -> S]
      /\ \A x \in S : \E i \in 1..N : s[i] = x
      /\ \A i, j \in 1..N : i < j => created[s[i]] >= created[s[j]]
  BY DEF Listings
<1>2. N \in Nat /\ IsFiniteSet(1..N) /\ Cardinality(1..N) = N
  <2>1. N \in Nat
    BY FS_CardinalityType
  <2>2. 1 \in Int /\ N \in Int
    BY <2>1
  <2>3. IsFiniteSet(1..N) /\ Cardinality(1..N) = IF 1 > N THEN 0 ELSE N - 1 + 1
    BY <2>2, FS_Interval
  <2>4. QED
    BY <2>1, <2>3
<1>3. \A i, j \in 1..N : s[i] = s[j] => i = j
  <2>1. s \in Surjection(1..N, S)
    BY <1>1 DEF Surjection
  <2>2. s \in Injection(1..N, S)
    BY <1>2, <2>1, FS_SurjSameCardinalityImpliesInj
  <2>3. QED
    BY <1>1, <2>2 DEF Injection, IsInjective
<1>4. PICK i \in 1..N : s[i] = r
  BY <1>1
<1>5. T = {s[j] : j \in 1..i}
  <2>1. \A j \in 1..i : s[j] \in T
    <3> SUFFICES ASSUME NEW j \in 1..i PROVE s[j] \in T
      OBVIOUS
    <3>1. j \in 1..N /\ i \in 1..N /\ (j < i \/ j = i)
      BY <1>2, <1>4
    <3>2. s[j] \in S /\ created[s[j]] \in Nat /\ created[r] \in Nat
      BY <1>1, <3>1
    <3>3. created[s[j]] >= created[r]
      BY <1>1, <1>4, <3>1, <3>2
    <3>4. QED
      BY <3>2, <3>3
  <2>2. \A x \in T : \E j \in 1..i : x = s[j]
    <3> SUFFICES ASSUME NEW x \in T PROVE \E j \in 1..i : x = s[j]
      OBVIOUS
    <3>1. PICK j \in 1..N : s[j] = x
      BY <1>1
    <3>2. created[x] \in Nat /\ created[r] \in Nat /\ created[x] >= created[r]
      OBVIOUS
    <3>3. ~(i < j)
      <4> SUFFICES ASSUME i < j PROVE FALSE
        OBVIOUS
      <4>1. created[r] >= created[x]
        BY <1>1, <1>4, <3>1
      <4>2. x # r
        BY <1>2, <1>3, <1>4, <3>1
      <4>3. QED
        BY <3>2, <4>1, <4>2
    <3>4. QED
      BY <1>2, <1>4, <3>1, <3>3
  <2>3. QED
    BY <2>1, <2>2
<1>6. Cardinality(T) = i
  <2> DEFINE g == [j \in 1..i |-> s[j]]
  <2>1. \A j \in 1..i : j \in 1..N
    BY <1>2, <1>4
  <2>2. g \in Bijection(1..i, T)
    BY <1>3, <1>5, <2>1 DEF Bijection, Injection, IsInjective, Surjection
  <2>3. IsFiniteSet(1..i) /\ Cardinality(1..i) = i
    <3>1. 1 \in Int /\ i \in Int
      BY <1>2, <1>4
    <3>2. IsFiniteSet(1..i) /\ Cardinality(1..i) = IF 1 > i THEN 0 ELSE i - 1 + 1
      BY <3>1, FS_Interval
    <3>3. QED
      BY <1>2, <1>4, <3>2
  <2>4. ExistsBijection(1..i, T)
    BY <2>2 DEF ExistsBijection
  <2>5. QED
    BY <2>3, <2>4, FS_Bijection
<1>7. QED
  BY <1>4, <1>6
-----------------------------------------------------------------------------
(* The lists that pages are cut from only grow. *)

\* What every step of the system does to the rows a reader may see: committed ones stay,
\* with the time they carry.
RowsGrow ==
    /\ args' = args /\ IsFiniteSet(Completed')
    /\ \A x \in Completed : x \in Completed' /\ created'[x] = created[x]

\* Then the transactions that a query lists grow as well.
LEMMA ListedGrows ==
    ASSUME RowsGrow, NEW q
    PROVE  \A x \in Listed(q) : x \in Listed(q)' /\ created'[x] = created[x]
BY DEF RowsGrow, Listed, Parties, Scope

\* What a client's query and answers look like.
LEMMA ViewType ==
    ASSUME ReaderInv, NEW u \in Clients
    PROVE  /\ view[u] \in [answer : {"open", "NotFound", "Failed"}, page : Nat, pages : Nat,
                           first : SUBSET Requests, shown : SUBSET Requests]
           /\ query[u] \in Queries => query[u].perPage \in Nat
BY QueriesAssumption DEF ReaderInv, HistoryTypeOK, Query

\* Lists are finite.
LEMMA ListedFinite ==
    ASSUME ReaderInv, NEW q, NEW r
    PROVE  /\ Listed(q) \subseteq Requests /\ IsFiniteSet(Listed(q))
           /\ IsFiniteSet(NotOlder(q, r))
           /\ Cardinality(NotOlder(q, r)) \in Nat
           /\ Cardinality(NotOlder(q, r)) <= Cardinality(Listed(q))
           /\ Cardinality(Listed(q)) \in Nat
<1>1. Listed(q) \in SUBSET Completed /\ Completed \subseteq Requests
  BY DEF Listed, Completed
<1>2. IsFiniteSet(Listed(q))
  BY <1>1, FS_Subset DEF ReaderInv
<1>3. NotOlder(q, r) \in SUBSET Listed(q)
  BY DEF NotOlder
<1>4. IsFiniteSet(NotOlder(q, r)) /\ Cardinality(NotOlder(q, r)) <= Cardinality(Listed(q))
  BY <1>2, <1>3, FS_Subset
<1>5. QED
  BY <1>1, <1>2, <1>4, FS_CardinalityType

\* A row that is accounted for stays so while the client waits.
LEMMA AccountedKept ==
    ASSUME ReaderInv, RowsGrow, query' = query,
           NEW u \in Clients, view[u].page > 0, view'[u] = view[u],
           NEW r \in Requests, Accounted(u, r)
    PROVE  Accounted(u, r)'
<1> DEFINE q == query[u]
           v == view[u]
<1>1. v.page \in Nat /\ q.perPage \in Nat /\ v.page * q.perPage \in Nat
  <2>1. v.page \in Nat /\ q.perPage \in Nat
    BY ViewType DEF ReaderInv, PagesInv
  <2>2. QED
    BY <2>1
<1>2. \A x \in Listed(q) : x \in Listed(q)' /\ created'[x] = created[x]
  BY ListedGrows
<1>3. r \in Listed(q)
  BY DEF Accounted
<1>4. CASE r \in v.shown
  BY <1>2, <1>3, <1>4 DEF Accounted
<1>5. CASE Tied(q, r)
  <2>1. Tied(q, r)'
    BY <1>2, <1>3, <1>5 DEF Tied
  <2>2. QED
    BY <1>2, <1>3, <2>1 DEF Accounted
<1>6. CASE v.page < v.pages /\ Cardinality(NotOlder(q, r)) > v.page * q.perPage
  <2> DEFINE old == NotOlder(q, r)
             new == NotOlder(q, r)'
  <2>1. old \in SUBSET new
    BY <1>2, <1>3 DEF NotOlder
  <2>2. IsFiniteSet(new)
    <3>1. new \in SUBSET Completed'
      BY DEF NotOlder, Listed
    <3>2. QED
      BY <3>1, FS_Subset DEF RowsGrow
  <2>3. /\ Cardinality(old) <= Cardinality(new)
        /\ Cardinality(old) \in Nat /\ Cardinality(new) \in Nat
    <3> HIDE DEF old, new
    <3>1. IsFiniteSet(old)
      BY <2>1, <2>2, FS_Subset
    <3>2. QED
      BY <2>1, <2>2, <3>1, FS_Subset, FS_CardinalityType
  <2>4. Cardinality(new) > v.page * q.perPage
    BY <1>1, <1>6, <2>3
  <2>5. QED
    BY <1>2, <1>3, <1>6, <2>4 DEF Accounted
<1>7. QED
  BY <1>4, <1>5, <1>6 DEF Accounted

\* So pages stay as they are while the client waits.
LEMMA PagesKept ==
    ASSUME ReaderInv, RowsGrow, query' = query, view' = view
    PROVE  PagesInv'
<1>1. \A u \in Clients : view[u].first \subseteq Requests
  BY ViewType
<1>2. ASSUME NEW u \in Clients, view[u].answer = "open", view[u].page > 0,
             NEW r \in view[u].first
      PROVE  Accounted(u, r)'
  <2>1. Accounted(u, r)
    BY <1>2 DEF ReaderInv, PagesInv
  <2>2. QED
    BY <1>1, <1>2, <2>1, AccountedKept
<1>3. QED
  BY <1>2 DEF ReaderInv, PagesInv

\* The rows of one more page: each row of the first list that was not behind the pages so
\* far is on this one, or it is behind this one too and there is a next page.
LEMMA NextPageAccounts ==
    ASSUME ReaderInv, NEW u \in Clients, query[u] \in Queries,
           NEW s \in Listings(Listed(query[u])), NEW r \in Listed(query[u]),
           query[u].perPage > 0, ~Tied(query[u], r),
           Cardinality(NotOlder(query[u], r)) > view[u].page * query[u].perPage
    PROVE  LET n == query[u].perPage
               p == view[u].page + 1
           IN  \/ r \in RowsOnPage(s, p, n)
               \/ /\ p < TotalPages(Cardinality(Listed(query[u])), n)
                  /\ Cardinality(NotOlder(query[u], r)) > p * n
<1> DEFINE q == query[u]
           n == q.perPage
           k == view[u].page
           N == Cardinality(Listed(q))
<1>1. n \in Nat /\ k \in Nat /\ k + 1 \in Nat /\ (k + 1) * n \in Nat /\ (k + 1) - 1 = k
  <2>1. n \in Nat /\ k \in Nat
    BY ViewType
  <2>2. QED
    BY <2>1
<1>2. PICK i \in 1..N : s[i] = r /\ Cardinality(NotOlder(q, r)) = i
  <2>1. ~ \E x \in Listed(q) \ {r} : created[x] = created[r]
    BY DEF Tied
  <2>2. \E i \in 1..N : s[i] = r /\ Cardinality({x \in Listed(q) : created[x] >= created[r]}) = i
    BY <2>1, ListedFinite, PositionInListing DEF ReaderInv, PaperInv
  <2>3. QED
    BY <2>2 DEF NotOlder
<1>3. N \in Nat /\ i \in Nat /\ i <= N
  BY <1>2, ListedFinite
<1>4. DOMAIN s = 1..N
  BY DEF Listings
<1>5. CASE i <= (k + 1) * n
  <2>1. k * n < i
    BY <1>2
  <2>2. i \in {j \in DOMAIN s : ((k + 1) - 1) * n < j /\ j <= (k + 1) * n}
    BY <1>1, <1>2, <1>4, <1>5, <2>1
  <2>3. r \in RowsOnPage(s, k + 1, n)
    BY <1>2, <2>2 DEF RowsOnPage
  <2>4. QED
    BY <2>3
<1>6. CASE ~(i <= (k + 1) * n)
  <2>1. i > (k + 1) * n /\ N > (k + 1) * n
    BY <1>1, <1>3, <1>6
  <2>2. TotalPages(N, n) \in Nat /\ TotalPages(N, n) > k + 1
    BY <1>1, <1>3, <2>1, CeilingCovers
  <2>3. k + 1 < TotalPages(N, n)
    BY <1>1, <2>2
  <2>4. QED
    BY <1>2, <2>1, <2>3
<1>7. QED
  BY <1>5, <1>6
\* One request for a page, as it changes the answers of its client.
LEMMA FetchEffect ==
    ASSUME ReaderInv, NEW u \in Clients, GetTransactionHistory(u)
    PROVE  /\ query[u] \in Queries
           /\ UNCHANGED <<transferVars, now, created, query, papers>>
           /\ \A w \in Clients \ {u} : view'[w] = view[w]
           /\ \/ /\ view'[u].answer \in {"NotFound", "Failed"}
                 /\ \E a \in {"NotFound", "Failed"} : view'[u] = [view[u] EXCEPT !.answer = a]
              \/ \E s \in Listings(Listed(query[u])) :
                    LET q == query[u]
                        rows == Listed(q)
                    IN  /\ q.perPage > 0 \/ rows = {}
                        /\ view'[u] = [answer |-> "open",
                                       page   |-> view[u].page + 1,
                                       pages  |-> TotalPages(Cardinality(rows), q.perPage),
                                       first  |-> IF view[u].page = 0 THEN rows ELSE view[u].first,
                                       shown  |-> view[u].shown \cup
                                                  RowsOnPage(s, view[u].page + 1, q.perPage)]
           /\ view' = [view EXCEPT ![u] = view'[u]]
<1> DEFINE q == query[u]
           closed(a) == [view[u] EXCEPT !.answer = a]
           turned(s) == [answer |-> "open",
                         page   |-> view[u].page + 1,
                         pages  |-> TotalPages(Cardinality(Listed(q)), q.perPage),
                         first  |-> IF view[u].page = 0 THEN Listed(q) ELSE view[u].first,
                         shown  |-> view[u].shown \cup RowsOnPage(s, view[u].page + 1, q.perPage)]
<1>1. DOMAIN view = Clients
  BY DEF ReaderInv, HistoryTypeOK
<1>2. /\ q \in Queries
      /\ \/ \E a \in {"NotFound", "Failed"} : view' = [view EXCEPT ![u].answer = a]
         \/ /\ q.perPage > 0 \/ Listed(q) = {}
            /\ \E s \in Listings(Listed(q)) : view' = [view EXCEPT ![u] = turned(s)]
      /\ UNCHANGED <<transferVars, now, created, query, papers>>
  BY DEF GetTransactionHistory
<1>3. \A a : [view EXCEPT ![u].answer = a] = [view EXCEPT ![u] = closed(a)]
  BY <1>1
<1>4. \A a : closed(a).answer = a
  BY ViewType
<1> HIDE DEF q, closed, turned
<1>5. /\ \A w \in Clients \ {u} : view'[w] = view[w]
      /\ \/ \E a \in {"NotFound", "Failed"} : view'[u] = closed(a)
         \/ /\ q.perPage > 0 \/ Listed(q) = {}
            /\ \E s \in Listings(Listed(q)) : view'[u] = turned(s)
      /\ view' = [view EXCEPT ![u] = view'[u]]
  BY <1>1, <1>2, <1>3
<1>6. QED
  BY <1>2, <1>4, <1>5 DEF q, closed, turned

\* It leaves answers as they should look,
LEMMA FetchType ==
    ASSUME ReaderInv, NEW u \in Clients, GetTransactionHistory(u)
    PROVE  view' \in [Clients -> [answer : {"open", "NotFound", "Failed"}, page : Nat, pages : Nat,
                                  first : SUBSET Requests, shown : SUBSET Requests]]
<1> DEFINE View == [answer : {"open", "NotFound", "Failed"}, page : Nat, pages : Nat,
                    first : SUBSET Requests, shown : SUBSET Requests]
<1>1. view \in [Clients -> View] /\ view[u] \in View
  BY ViewType DEF ReaderInv, HistoryTypeOK
<1>2. view'[u] \in View
  <2>1. CASE \E a \in {"NotFound", "Failed"} : view'[u] = [view[u] EXCEPT !.answer = a]
    BY <1>1, <2>1
  <2>2. ASSUME NEW s \in Listings(Listed(query[u])),
               query[u].perPage > 0 \/ Listed(query[u]) = {},
               view'[u] = [answer |-> "open",
                           page   |-> view[u].page + 1,
                           pages  |-> TotalPages(Cardinality(Listed(query[u])), query[u].perPage),
                           first  |-> IF view[u].page = 0 THEN Listed(query[u]) ELSE view[u].first,
                           shown  |-> view[u].shown \cup
                                      RowsOnPage(s, view[u].page + 1, query[u].perPage)]
        PROVE  view'[u] \in View
    <3> DEFINE q == query[u]
               N == Cardinality(Listed(q))
    <3>1. q.perPage \in Nat /\ N \in Nat /\ Listed(q) \subseteq Requests
      BY FetchEffect, ViewType, ListedFinite
    <3>2. TotalPages(N, q.perPage) \in Nat
      <4>1. CASE q.perPage > 0
        BY <3>1, <4>1, CeilingCovers
      <4>2. CASE Listed(q) = {}
        BY <4>2, FS_EmptySet DEF TotalPages
      <4>3. QED
        BY <2>2, <4>1, <4>2
    <3>3. RowsOnPage(s, view[u].page + 1, q.perPage) \subseteq Requests
      <4>1. \A i \in DOMAIN s : s[i] \in Listed(q)
        BY DEF Listings
      <4>2. QED
        BY <3>1, <4>1 DEF RowsOnPage
    <3>4. QED
      BY <1>1, <2>2, <3>1, <3>2, <3>3
  <2>3. QED
    BY <2>1, <2>2, FetchEffect
<1>3. view' = [view EXCEPT ![u] = view'[u]]
  BY FetchEffect
<1> HIDE DEF View
<1>4. view' \in [Clients -> View]
  BY <1>1, <1>2, <1>3
<1>5. QED
  BY <1>4 DEF View

\* and accounts for every row of the first list.
LEMMA FetchPages ==
    ASSUME ReaderInv, NEW u \in Clients, GetTransactionHistory(u)
    PROVE  PagesInv'
<1> DEFINE q == query[u]
           n == q.perPage
           v == view[u]
<1>1. /\ q \in Queries
      /\ UNCHANGED <<transferVars, now, created, query, papers>>
      /\ \A w \in Clients \ {u} : view'[w] = view[w]
      /\ UNCHANGED <<transactions, args>>
  BY FetchEffect DEF transferVars, dbVars
<1>2. RowsGrow
  BY <1>1 DEF RowsGrow, Completed, ReaderInv
<1>3. \A r : /\ Listed(q)' = Listed(q) /\ NotOlder(q, r)' = NotOlder(q, r)
             /\ Tied(q, r)' = Tied(q, r)
  BY <1>1 DEF Listed, Parties, Scope, Completed, NotOlder, Tied
<1>4. /\ v.page \in Nat /\ n \in Nat /\ v.first \subseteq Requests
  BY <1>1, ViewType
<1>5. ASSUME NEW w \in Clients \ {u}, view[w].answer = "open", view[w].page > 0,
             NEW r \in view[w].first
      PROVE  Accounted(w, r)'
  <2>1. Accounted(w, r) /\ r \in Requests
    BY <1>5, ViewType DEF ReaderInv, PagesInv
  <2>2. QED
    BY <1>1, <1>2, <1>5, <2>1, AccountedKept
<1>6. ASSUME NEW s \in Listings(Listed(q)), n > 0 \/ Listed(q) = {},
             view'[u] = [answer |-> "open",
                         page   |-> v.page + 1,
                         pages  |-> TotalPages(Cardinality(Listed(q)), n),
                         first  |-> IF v.page = 0 THEN Listed(q) ELSE v.first,
                         shown  |-> v.shown \cup RowsOnPage(s, v.page + 1, n)],
             NEW r \in view'[u].first
      PROVE  Accounted(u, r)'
  <2>1. /\ view'[u].page = v.page + 1
        /\ view'[u].pages = TotalPages(Cardinality(Listed(q)), n)
        /\ view'[u].first = IF v.page = 0 THEN Listed(q) ELSE v.first
        /\ view'[u].shown = v.shown \cup RowsOnPage(s, v.page + 1, n)
    BY <1>6
  <2>2. /\ r \in Listed(q)
        /\ r \in v.shown \/ Tied(q, r) \/ Cardinality(NotOlder(q, r)) > v.page * n
    <3>1. CASE v.page = 0
      <4>1. r \in Listed(q) /\ r \in NotOlder(q, r)
        <5>1. r \in Listed(q)
          BY <1>6, <2>1, <3>1
        <5>2. created[r] \in Nat
          BY <5>1, ListedFinite DEF ReaderInv, PaperInv
        <5>3. QED
          BY <5>1, <5>2 DEF NotOlder
      <4>2. Cardinality(NotOlder(q, r)) \in Nat /\ Cardinality(NotOlder(q, r)) # 0
        BY <4>1, ListedFinite, FS_EmptySet
      <4>3. v.page * n = 0
        BY <1>4, <3>1
      <4>4. QED
        BY <4>1, <4>2, <4>3
    <3>2. CASE v.page # 0
      <4>1. v.page > 0 /\ r \in v.first
        BY <1>4, <1>6, <2>1, <3>2
      <4>2. v.answer = "open"
        BY DEF GetTransactionHistory
      <4>3. Accounted(u, r)
        BY <4>1, <4>2 DEF ReaderInv, PagesInv
      <4>4. QED
        BY <4>3 DEF Accounted
    <3>3. QED
      BY <3>1, <3>2
  <2>3. n > 0
    BY <1>6, <2>2
  <2>4. \/ r \in view'[u].shown
        \/ Tied(q, r)
        \/ /\ view'[u].page < view'[u].pages
           /\ Cardinality(NotOlder(q, r)) > view'[u].page * n
    <3>1. ASSUME ~Tied(q, r), Cardinality(NotOlder(q, r)) > v.page * n
          PROVE  \/ r \in RowsOnPage(s, v.page + 1, n)
                 \/ /\ v.page + 1 < TotalPages(Cardinality(Listed(q)), n)
                    /\ Cardinality(NotOlder(q, r)) > (v.page + 1) * n
      BY <1>1, <2>2, <2>3, <3>1, NextPageAccounts
    <3>2. QED
      BY <2>1, <2>2, <3>1
  <2>5. query'[u] = q
    BY <1>1
  <2>6. QED
    BY <1>3, <2>2, <2>4, <2>5 DEF Accounted
<1>7. ASSUME view'[u].answer = "open", NEW r \in view'[u].first PROVE Accounted(u, r)'
  <2>1. \E s \in Listings(Listed(q)) :
           /\ n > 0 \/ Listed(q) = {}
           /\ view'[u] = [answer |-> "open",
                          page   |-> v.page + 1,
                          pages  |-> TotalPages(Cardinality(Listed(q)), n),
                          first  |-> IF v.page = 0 THEN Listed(q) ELSE v.first,
                          shown  |-> v.shown \cup RowsOnPage(s, v.page + 1, n)]
    BY <1>7, FetchEffect
  <2>2. QED
    BY <1>6, <1>7, <2>1
<1>8. \A w \in Clients : view'[w].page > 0 => query'[w] \in Queries
  BY <1>1 DEF ReaderInv, PagesInv
<1>9. QED
  BY <1>1, <1>5, <1>7, <1>8 DEF PagesInv
-----------------------------------------------------------------------------
(* The whole invariant. *)

\* Lines of statements stay true, as committed transfers do.
LEMMA LinesKept ==
    ASSUME LinesAreTrue, RowsGrow, papers' = papers
    PROVE  LinesAreTrue'
BY DEF LinesAreTrue, RowsGrow, Parties, TxDirection

\* A line of a new statement says what the ledger says.
LEMMA LinesOfNewPaper ==
    ASSUME LinesAreTrue, NEW d \in Statements, DownloadStatement(d)
    PROVE  LinesAreTrue'
<1> DEFINE lines == {<<r, TxDirection(r, d.account)>> : r \in GetTransactions(d)}
           paper == [download |-> d, rows |-> lines]
<1>1. papers' = papers \cup {paper} /\ UNCHANGED <<transactions, args>>
  BY DEF DownloadStatement, transferVars, dbVars
<1>2. paper.download = d /\ paper.rows = lines
  OBVIOUS
<1>3. \A row \in lines :
         /\ row[1] \in Completed
         /\ d.account \in Parties(row[1], "ALL")
         /\ row[2] = TxDirection(row[1], d.account)
  BY DEF GetTransactions
<1> HIDE DEF paper, lines
<1>4. \A p \in papers' : \A row \in p.rows :
         /\ row[1] \in Completed
         /\ p.download.account \in Parties(row[1], "ALL")
         /\ row[2] = TxDirection(row[1], p.download.account)
  BY <1>1, <1>2, <1>3 DEF LinesAreTrue
<1>5. QED
  BY <1>1, <1>4 DEF LinesAreTrue, Completed, Parties, TxDirection

\* A statement whose lines are true finds each of them in the ledger.
LEMMA LinesMatchLedger == PaperTrail /\ LinesAreTrue => PapersMatchLedger
<1> SUFFICES ASSUME PaperTrail, LinesAreTrue, NEW p \in papers, NEW row \in p.rows
             PROVE  \E i \in EntriesOf(row[1], p.download.account) :
                       /\ ledger[p.download.account][i].type = row[2]
                       /\ ledger[p.download.account][i].amount = args[row[1]].amount
  BY DEF PapersMatchLedger
<1> DEFINE r == row[1]
           a == p.download.account
<1>1. /\ r \in Completed /\ r \in Requests
      /\ a = args[r].sender \/ a = args[r].receiver
      /\ row[2] = IF args[r].sender = a THEN "DEBIT" ELSE "CREDIT"
  BY DEF LinesAreTrue, Parties, TxDirection, Completed
<1>2. /\ \E i \in EntriesOf(r, args[r].sender) :
            /\ ledger[args[r].sender][i].type = "DEBIT"
            /\ ledger[args[r].sender][i].amount = args[r].amount
      /\ \E i \in EntriesOf(r, args[r].receiver) :
            /\ ledger[args[r].receiver][i].type = "CREDIT"
            /\ ledger[args[r].receiver][i].amount = args[r].amount
  BY <1>1 DEF PaperTrail, PaperTrailOf
<1> HIDE DEF r, a
<1>3. \E i \in EntriesOf(r, a) : ledger[a][i].type = row[2] /\ ledger[a][i].amount = args[r].amount
  BY <1>1, <1>2
<1>4. QED
  BY <1>3 DEF r, a

\* Before any request the invariant holds.
LEMMA ReaderInit == HistoryInit => ReaderInv
<1> SUFFICES ASSUME HistoryInit PROVE ReaderInv
  OBVIOUS
<1>1. /\ TransferInit /\ transactions = [r \in Requests |-> "NONE"]
      /\ audit = {} /\ ledger = [a \in AccountIds |-> << >>]
  BY DEF HistoryInit, TransferInit, DatabaseInit
<1>2. PaperInv
  BY PaperInit
<1>3. HistoryTypeOK
  BY <1>2, MaxNowAssumption
  DEF HistoryInit, NothingSeen, Times, HistoryTypeOK, PaperInv, RouteInv
<1>4. Completed = {}
  BY <1>1 DEF Completed
<1>5. PaperTrail
  <2>1. \A r \in Requests, a \in AccountIds : EntriesOf(r, a) = {}
    BY <1>1 DEF EntriesOf, Positions
  <2>2. QED
    BY <1>1, <1>4, <2>1 DEF PaperTrail, PaperTrailOf
<1>6. LinesAreTrue
  BY DEF HistoryInit, LinesAreTrue
<1>7. PagesInv
  <2>1. \A u \in Clients : view[u].page = 0
    BY DEF HistoryInit, NothingSeen
  <2>2. QED
    BY <2>1 DEF PagesInv
<1>8. IsFiniteSet(Completed)
  BY <1>4, FS_EmptySet
<1>9. QED
  BY <1>2, <1>3, <1>5, <1>6, <1>7, <1>8 DEF ReaderInv

\* A step of a transfer keeps it.
LEMMA ReaderTransferStep ==
    ASSUME ReaderInv, NEW r \in Requests, TransferStep(r)
    PROVE  ReaderInv'
<1>1. /\ RouteInv /\ PaperTrail /\ PaperInv /\ RouteStep(r)
      /\ UNCHANGED <<now, query, view, papers>>
  BY DEF ReaderInv, PaperInv, TransferStep, readerVars
<1>2. PaperInv' /\ PaperTrail'
  BY <1>1, PaperTransferStep, RoutePaperTrail
<1>3. HistoryTypeOK'
  <2>1. TransferTypeOK'
    BY <1>2 DEF PaperInv, RouteInv
  <2>2. created' \in [Requests -> Times]
    BY DEF TransferStep, Stamp, ReaderInv, HistoryTypeOK
  <2>3. QED
    BY <1>1, <2>1, <2>2 DEF ReaderInv, HistoryTypeOK
<1>4. IsFiniteSet(Completed')
  <2>1. Completed' = Completed \/ Completed' = Completed \cup {r}
    BY <1>1, OnlyRouteCommits
  <2>2. QED
    BY <2>1, FS_AddElement DEF ReaderInv
<1>5. RowsGrow
  BY <1>1, <1>4, OnlyRouteCommits, StampOfCommitted DEF RowsGrow
<1>6. LinesAreTrue' /\ PagesInv'
  BY <1>1, <1>5, LinesKept, PagesKept DEF ReaderInv
<1>7. QED
  BY <1>2, <1>3, <1>4, <1>6 DEF ReaderInv

\* So do readers, the clock and steps of nobody, who change no transfer.
LEMMA ReaderReadStep ==
    ASSUME ReaderInv, UNCHANGED <<transferVars, created, query>>, now' \in Times, now' >= now,
           \/ view' = view /\ papers' = papers
           \/ papers' = papers /\ \E u \in Clients : GetTransactionHistory(u)
           \/ view' = view /\ \E d \in Statements : DownloadStatement(d)
    PROVE  ReaderInv'
<1>1. UNCHANGED <<transactions, args, ledger, audit>> /\ Completed' = Completed
  BY DEF transferVars, dbVars, Completed
<1>2. RowsGrow
  BY <1>1 DEF RowsGrow, ReaderInv
<1>3. PaperInv'
  <2>1. now' \in Nat
    BY DEF Times
  <2>2. \/ papers' = papers
        \/ \E d \in Statements : papers' = papers \cup
              {[download |-> d,
                rows |-> {<<r, TxDirection(r, d.account)>> : r \in GetTransactions(d)}]}
    BY DEF DownloadStatement
  <2>3. QED
    BY <2>1, <2>2, PaperReaderStep DEF ReaderInv
<1>4. PaperTrail'
  <2>1. ASSUME NEW r \in Requests PROVE PaperTrailOf(r)'
    BY <1>1 DEF ReaderInv, PaperTrail, PaperTrailOf, EntriesOf
  <2>2. QED
    BY <2>1 DEF PaperTrail
<1>5. LinesAreTrue'
  BY <1>2, LinesKept, LinesOfNewPaper DEF ReaderInv
<1>6. PagesInv'
  BY <1>2, PagesKept, FetchPages
<1>7. HistoryTypeOK'
  <2>1. view' \in [Clients -> [answer : {"open", "NotFound", "Failed"}, page : Nat, pages : Nat,
                               first : SUBSET Requests, shown : SUBSET Requests]]
    <3>1. CASE view' = view
      BY <3>1 DEF ReaderInv, HistoryTypeOK
    <3>2. QED
      BY <3>1, FetchType
  <2>2. TransferTypeOK'
    BY <1>3 DEF PaperInv, RouteInv
  <2>3. papers' \subseteq [download : Statements, rows : SUBSET (Requests \X LedgerEntryType)]
    BY <1>3 DEF PaperInv
  <2>4. QED
    BY <2>1, <2>2, <2>3 DEF ReaderInv, HistoryTypeOK
<1>8. QED
  BY <1>1, <1>3, <1>4, <1>5, <1>6, <1>7 DEF ReaderInv

\* Every step keeps the whole invariant.
LEMMA ReaderNextInv == ReaderInv /\ [HistoryNext]_historyVars => ReaderInv'
<1> SUFFICES ASSUME ReaderInv, [HistoryNext]_historyVars PROVE ReaderInv'
  OBVIOUS
<1>1. now \in Times /\ now >= now
  BY DEF ReaderInv, HistoryTypeOK, Times
<1>2. CASE \E r \in Requests : TransferStep(r)
  BY <1>2, ReaderTransferStep
<1>3. CASE \E u \in Clients : GetTransactionHistory(u)
  <2>1. UNCHANGED <<transferVars, now, created, query, papers>>
    BY <1>3 DEF GetTransactionHistory
  <2>2. QED
    BY <1>1, <1>3, <2>1, ReaderReadStep
<1>4. CASE \E d \in Statements : DownloadStatement(d)
  <2>1. UNCHANGED <<transferVars, now, created, query, view>>
    BY <1>4 DEF DownloadStatement
  <2>2. QED
    BY <1>1, <1>4, <2>1, ReaderReadStep
<1>5. CASE Tick
  <2>1. now' \in Times /\ now' >= now
    BY <1>1, <1>5, MaxNowAssumption DEF Tick, Times
  <2>2. QED
    BY <1>5, <2>1, ReaderReadStep DEF Tick, readerVars
<1>6. CASE (AllDone /\ UNCHANGED <<now, created, readerVars>>) \/ UNCHANGED historyVars
  <2>1. UNCHANGED <<transferVars, now, created, query, view, papers>>
    BY <1>6 DEF AllDone, historyVars, readerVars
  <2>2. QED
    BY <1>1, <2>1, ReaderReadStep
<1>7. QED
  BY <1>2, <1>3, <1>4, <1>5, <1>6 DEF HistoryNext
-----------------------------------------------------------------------------
\* For any number of transfers, clients and statements the invariant of the readers holds,
THEOREM ReaderInvHolds == HistorySpec => []ReaderInv
BY ReaderInit, ReaderNextInv, PTL DEF HistorySpec

\* and with it the one TLC checks: types, creation in the order of the locks, statements
\* that stay true.
THEOREM HistoryInvHolds == HistorySpec => []HistoryInv
<1>1. ReaderInv => HistoryInv
  BY DEF ReaderInv, PaperInv, HistoryInv
<1>2. QED
  BY <1>1, ReaderInvHolds, PTL

\* A later statement of the same account and period begins with the rows of the earlier one.
THEOREM StatementsStayTrue == HistorySpec => []PapersStayTrue
<1>1. ReaderInv => PapersStayTrue
  BY DEF ReaderInv, PaperInv
<1>2. QED
  BY <1>1, ReaderInvHolds, PTL

\* Every line of a statement is a leg in the ledger of its account, on the side printed.
THEOREM StatementsMatchLedger == HistorySpec => []PapersMatchLedger
<1>1. ReaderInv => PapersMatchLedger
  BY LinesMatchLedger DEF ReaderInv
<1>2. QED
  BY <1>1, ReaderInvHolds, PTL

\* Whoever turns the pages to the last one has seen every row of the list he began with,
\* whatever the page size and however many transfers pushed the rows on meanwhile, unless
\* another row of the same second took its place.
THEOREM PagesSkipNothing == HistorySpec => []NothingSkipped
<1>1. ReaderInv => NothingSkipped
  <2> SUFFICES ASSUME ReaderInv, NEW u \in Clients,
                      view[u].answer = "open", view[u].page > 0, view[u].page >= view[u].pages,
                      NEW r \in view[u].first
               PROVE  r \in view[u].shown
                      \/ \E q \in Listed(query[u]) \ {r} : created[q] = created[r]
    BY DEF NothingSkipped
  <2>1. Accounted(u, r)
    BY DEF ReaderInv, PagesInv
  <2>2. ~(view[u].page < view[u].pages)
    BY ViewType
  <2>3. QED
    BY <2>1, <2>2 DEF Accounted, Tied
<1>2. QED
  BY <1>1, ReaderInvHolds, PTL
=============================================================================
